CONSTANTS
    Lbas = {0}
    Values = {a, b}
    Capacities = {0, 1}
    MaxAttempts = 2
    CommandTicks = 1
    ResetTicks = 2
    TickModulus = 5
    Contexts = {FALSE}
    NoRequest = NoRequest
    NoValue = NoValue
    Failed = Failed
    Pending = Pending
    Done = Done
SPECIFICATION FairSpec
PROPERTIES
    RequestEnds
