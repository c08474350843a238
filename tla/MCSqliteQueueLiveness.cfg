SPECIFICATION FairSpec
CONSTANTS
    w1 = w1
    w2 = w2
    Workers = {w1, w2}
    Items = {1, 2}
    WorkerName <- MCWorkerName
    Reference <- MCReference
    OnceItems = {2}
    PoisonItems = {1}
    MaxRetries = 1
    LeaseTimeout = 1
    TicksPerSecond = 1
    RetryWait <- MCWait
    AddDelays = {0}
    MaxClock = 10
    RenewUntil = 0
    MaxOverrides <- MCNever
PROPERTIES
    EveryItemSettles
