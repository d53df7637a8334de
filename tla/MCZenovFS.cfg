CONSTANTS
    EntryCount = 3
    SlotSectors = 2
    Paths <- MCPaths
    Sectors = {x}
    Garbage = Garbage
    NoPath = NoPath
    MaxGeneration = 1
    Absent = Absent
    Directory = Directory
    Corrupt = Corrupt
    NoGoal = NoGoal
SPECIFICATION Spec
INVARIANTS
    MirrorExact
    OldIndexIsPredecessor
PROPERTIES
    AtomicUpdates
