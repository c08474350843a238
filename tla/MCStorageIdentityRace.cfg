SPECIFICATION Spec
CONSTANTS
    Openers = {p1, p2}
    Starts <- MCStarts
    Identities = {a, b}
    Nobody = Nobody
    MaxHistory = 2
    MaxCrashes = 1
INVARIANTS MismatchedSaveIsRefused
SYMMETRY MCSymmetry
CHECK_DEADLOCK FALSE
