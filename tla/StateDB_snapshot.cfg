\* A commit before the thread of a new read-writer has run.
CONSTANTS
    Keys = {k1}
    Values = {a}
    None = None
    EmptyBytes = EmptyBytes
    Unchecked = Unchecked
    Writers = {w1, w2}
    MaxVersion = 1
    MaxCrashes = 0
    Disciplined = TRUE
    OverflowChecks = FALSE
SPECIFICATION FairSpec
PROPERTY SnapshotAtCreation
