CONSTANTS
    Lbas = {0, 1}
    Values = {a, b}
    Capacities = {0, 1, 2}
    MaxAttempts = 2
    CommandTicks = 1
    ResetTicks = 2
    TickModulus = 5
    Contexts = {TRUE}
    NoRequest = NoRequest
    NoValue = NoValue
    Failed = Failed
    Pending = Pending
    Done = Done
SPECIFICATION FairSpec
INVARIANTS
    CommandsInRange
PROPERTIES
    ImplementsStore
    TimeoutExact
    RequestEnds
