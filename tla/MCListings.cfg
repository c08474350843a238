SPECIFICATION ListingsSpec
CONSTANTS
    Workers = {w1, w2}
    Items = {1, 2, 3}
    WorkerName <- MCWorkerName
    Reference <- MCReference
    OnceItems = {1, 2}
    PoisonItems = {1}
    MaxRetries = 1
    LeaseTimeout = 1
    TicksPerSecond = 1
    RetryWait <- MCNoWait
    AddDelays = {0}
    MaxClock = 1
    RenewUntil = 0
    MaxOverrides <- MCOverrides
    Filters <- MCFilters
    Limits = {1}
    Ids = {1, 2, 3}
    Age <- MCAge
    Window = {1}
    PageSize = 2
    ListLimits = {1, 3}
SYMMETRY Processes
INVARIANTS
    OneActivePerReference
    PoisonNeverDelivered
    PagesMissNothing
    ListsMissNothing
