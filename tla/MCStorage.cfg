SPECIFICATION Spec
CONSTANTS
    Openers = {p1, p2, p3}
    Starts <- MCStarts
    Identities = {a, b}
    Nobody = Nobody
    MaxHistory = 2
    MaxCrashes = 1
INVARIANTS FilesAreWhole OnlyBadFilesAreRefused LoadsAreCoherent
SYMMETRY MCSymmetry
CHECK_DEADLOCK FALSE
