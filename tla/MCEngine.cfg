SPECIFICATION Spec
CONSTANTS
    NumSteps = 2
    CanEnd <- MCEndings
    MaxRetries = 1
    MaxRuns = 3
INVARIANTS
    TypeOK
    IntentIsDurable
    DurableHistoryIsPrefix
    BusinessFailureIsTerminal
    RetryWithinBudget
    VerdictIsTrue
PROPERTY
    SuccessIsKept
