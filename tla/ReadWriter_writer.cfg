\* One call at a time: the write cache, range, commit and revert.
CONSTANTS
    Keys = {1, 2}
    Values = {a, b}
    None = None
    EmptyBytes = EmptyBytes
    Undefined = Undefined
    Promises = {p1}
    RangeOptions <- RangeChoices
    MaxSnapshots = 1
    MaxQueue = 1
    Group = 4
    MaxGroups = 5
    LastMax = 1
    Payloads <- MCPayloads
SPECIFICATION Spec
SYMMETRY ValueSymmetry
INVARIANTS
    TypeOK
    CachesFit
    CommitWritesView
    CommitHashesView
    RevertUndoesCommit
    RevertHashesState
    RangeMatchesView
    RangeRowsAreLive
    DiffSurvivesCodec
PROPERTY ScratchRefined
