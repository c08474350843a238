SPECIFICATION Spec
CONSTANTS
    w1 = w1
    w2 = w2
    Workers = {w1, w2}
    Items = {1}
    WorkerName <- MCWorkerName
    Reference <- MCReference
    OnceItems = {}
    PoisonItems = {}
    MaxRetries = 1
    LeaseTimeout = 1
    TicksPerSecond = 2
    RetryWait <- MCWait
    AddDelays = {0, 1}
    MaxClock = 9
    RenewUntil = 3
    MaxOverrides <- MCOnce
SYMMETRY Processes
INVARIANTS
    TypeOK
    LedgerMatchesClaim
    DeliveriesBounded
    RetryCountIsAudited
PROPERTIES
    ImplementsWorkQueue
    LeaseHonoured
    NoEarlyDelivery
    BindingBelongsToClaim
