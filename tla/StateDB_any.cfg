\* Any version in any order, stale writers, a crash, a debug build: no rule is kept.
CONSTANTS
    Keys = {k1}
    Values = {a, b}
    None = None
    EmptyBytes = EmptyBytes
    Unchecked = Unchecked
    Writers = {w1}
    MaxVersion = 1
    MaxCrashes = 1
    Disciplined = FALSE
    OverflowChecks = TRUE
SPECIFICATION Spec
SYMMETRY ValueSymmetry
INVARIANTS
    TypeOK
    RootMatchesState
    TreeAvailable
    CheckedCommitIsExact
