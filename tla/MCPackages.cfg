SPECIFICATION Spec
INVARIANTS
    ObjectsAreCopies
    StartsAgain
PROPERTIES
    ProgressKept
    FetchCompletes
CONSTANTS
    Targets <- MCTargets
    Name <- MCName
    Version <- MCVersion
    Length <- MCLength
    Releases <- MCReleases
    Depends <- MCDepends
    Conflicts <- MCConflicts
    MaxPackages = 2
    NoObject = NoObject
    NoJournal = NoJournal
    BadJournal = BadJournal
    NoRecord = NoRecord
    NoDatabase = NoDatabase
    BadDatabase = BadDatabase
    MaxGeneration = 5
    RetryLimit = 3
    Entries = 9
    Fragile = {"a2"}
    FaultAt = {1, 2, 3, 5, 7, 9}
    Misreads = {{2}, {2, 3}, {1, 3, 5}}
    MaxFaults = 1
    MaxDamage = 1
    MaxSeeds = 1
    MaxChores = 4
CHECK_DEADLOCK FALSE
