CONSTANTS
    TaskCount = 3
    ObjectCount = 4
    HandleCount = 1
    MaxGeneration = 2
SPECIFICATION Spec
PROPERTIES FaultIsolated
CHECK_DEADLOCK FALSE
