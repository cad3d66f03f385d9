SPECIFICATION Spec
CONSTANTS
    Members <- MCMembers
    Spellings <- MCSpellings
    TarPath <- MCTarPath
    Place <- MCPlace
    Blobs = {a, b}
    Names = {"", "m"}
    Keys = {k1, k2}
    Levels = {"Official", "Community"}
    MaxEntries = 5
    MaxFaults = 2
SYMMETRY MCSymmetry
INVARIANTS TrustIsEarned SignatureCovers
CHECK_DEADLOCK FALSE
