SPECIFICATION PromiseSpec
CONSTANTS
    w1 = w1
    w2 = w2
    Workers = {w1, w2}
    NumSteps = 2
    CanEnd <- MCTwoEndings
    QueueRetries = 1
    RetryBusiness = FALSE
    MaxManual = 0
    MaxForced = 1
SYMMETRY MCSymmetry
CHECK_DEADLOCK FALSE
INVARIANTS
    OneTransactionPerItem
    HolderIsCurrent
PROPERTIES
    CompletionIsStored
    StoredVerdictIsFinal
    StoredOutcomeIsKept
    RunnerKeepsPromise
