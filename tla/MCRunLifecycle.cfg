SPECIFICATION FairSpec
CONSTANTS
    Configs <- MCConfigs
    Items = {1}
    MaxRetries = 1
    Notifiers = 1
    Attempts = 3
CHECK_DEADLOCK FALSE
INVARIANTS
    TypeOK
    CountsHold
    ScopeCoversWork
    StopIsPrompt
PROPERTIES
    SignalIsNotSwallowed
    LossStopsRun
    RunEnds
