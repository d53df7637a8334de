CONSTANTS
    TaskCount = 3
    MaximumPriority = 2
    DefaultPriority = 1
    AgingTicks = 4
    MinimumQuantum = 1
    TickModulus = 4
    Durations = {1, 2}
SPECIFICATION Spec
INVARIANTS
    BoundedBypass
PROPERTIES
    NotEarly
    NoStarvation
