\* One writer that keeps the rules, finalize and a crash.
CONSTANTS
    Keys = {k1}
    Values = {a, b}
    None = None
    EmptyBytes = EmptyBytes
    Unchecked = Unchecked
    Writers = {w1}
    MaxVersion = 2
    MaxCrashes = 1
    Disciplined = TRUE
    OverflowChecks = FALSE
SPECIFICATION FairSpec
INVARIANTS
    RootMatchesState
    DiffsLeadBack
    TornCommitUndoable
PROPERTIES
    VersionedRefined
    FinalizeExact
    FinalizeCarriedOut
