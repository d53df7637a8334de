CONSTANTS
    EntryCount = 2
    SlotSectors = 1
    Paths <- MCPaths
    Sectors = {x}
    Garbage = Garbage
    NoPath = NoPath
    MaxGeneration = 1
    Absent = Absent
    Directory = Directory
    Corrupt = Corrupt
    NoGoal = NoGoal
SPECIFICATION Spec
INVARIANTS
    StoredPathsValid
