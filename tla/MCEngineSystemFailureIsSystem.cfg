SPECIFICATION Spec
CONSTANTS
    NumSteps = 2
    CanEnd <- MCAnyEnding
    MaxRetries = 1
    MaxRuns = 2
INVARIANT
    SystemFailureIsSystem
