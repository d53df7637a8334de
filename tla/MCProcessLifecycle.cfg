CONSTANTS
    TaskCount = 3
    ObjectCount = 4
    HandleCount = 1
    MaxGeneration = 1
SPECIFICATION Spec
INVARIANTS
    RefsExact
    NoLostWakeup
    SlotsLinked
    Reclaimed
    ScrubSafe
CHECK_DEADLOCK FALSE
