SPECIFICATION Spec
CONSTANTS
    w1 = w1
    w2 = w2
    Workers = {w1, w2}
    NumSteps = 1
    CanEnd <- MCAnyEnding
    QueueRetries = 1
    RetryBusiness = FALSE
    MaxManual = 0
    MaxForced = 0
SYMMETRY MCSymmetry
CHECK_DEADLOCK FALSE
PROPERTIES
    UnstoredOutcomeIsNotRetried
