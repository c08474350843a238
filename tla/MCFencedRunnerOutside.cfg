SPECIFICATION Spec
CONSTANTS
    w1 = w1
    w2 = w2
    Workers = {w1, w2}
    NumSteps = 1
    CanEnd <- MCOkOrBusiness
    QueueRetries = 1
    RetryBusiness = TRUE
    MaxManual = 1
    MaxForced = 1
SYMMETRY MCSymmetry
CHECK_DEADLOCK FALSE
INVARIANTS
    EveryExecutionIsOnRecord
PROPERTIES
    NoLostUpdate
