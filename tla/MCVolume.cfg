SPECIFICATION Spec
CONSTANTS
    Capacity = 2
    MaxSequence = 4
    TableSize = 41
    EntriesPerSector = 2
    SlotBytes = 4
    ObjectBytes = 2
    MaxGeneration = 7
    CacheDirectoryIndex = 34
    CacheZpDirectoryIndex = 35
    PartialIndex = 36
    JournalIndex = 38
    Volumes = {"a"}
    Programs <- MCPrograms
    SeedLists <- MCSeedLists
    Packages <- MCPackages
    TornAt <- MCTornAt
    AuditEvents <- MCAuditEvents
    MaxRuns = 2
    MaxBoots = 2
    CutAfter = {1, 2, 3, 10, 15}
    MaxPowerCuts = 1
    MaxAppends = 2
INVARIANTS
    WholeVerifies
    BootsAlike
    CorruptionStops
    AuditIsLog
PROPERTY
    SeedKeepsVolume
CHECK_DEADLOCK FALSE
