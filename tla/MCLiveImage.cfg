CONSTANTS
    ByteBase = 4
    GroupBits = 2
    LengthSpan = 2
    MinMatch = 3
    ChainLimit = 2
    HashSlots = 4
    Sectors = 3
    SectorSize = 2
    ZeroGap = 1
    Capacity = 2
    Images <- MCImages
    Payloads <- MCPayloads
    Streams <- MCStreams
    StreamSize = 4
    Written <- MCWritten
    Garbage <- MCGarbage
    NoRequest = NoRequest
    Failed = Failed
    Pending = Pending
    Done = Done
SPECIFICATION Spec
INVARIANTS
    BuiltPacksLoad
    DamageContained
PROPERTIES
    ImplementsStore
