SPECIFICATION Spec
CONSTANTS
    Runs = {1}
    Jobs = {j1, j2}
    Platforms = {linux}
    Examples = examples
    Version <- MCVersion
    MaxBuilds = 2
    MaxAttempts = 2
    MaxLosses = 1
SYMMETRY MCSymmetry
INVARIANTS
    PublishedIsTested
    UploadIsApproved
CHECK_DEADLOCK FALSE
