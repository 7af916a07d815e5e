SPECIFICATION FairSpec
CONSTANTS
    MaxByte = 1
    Undefined = Undefined
    Keys <- MCKeys
    Values = {v}
    None = None
    NoOp = NoOp
    BatchIds = {b}
    IterateOptions <- MCIterateOptions
    ClearOptions <- MCClearOptions
    CommitBatches <- MCCommitBatches
    Promises = {p1, p2}
    MaxQueue = 2
    MaxBatch = 1
    CloseMessage = CloseMessage
INVARIANTS
    TypeOK
    CallsTracked
    ThreadNeverPanics
    ClearedIsGone
PROPERTIES
    ClosedIsReleased
    InFlightSettles
    ClearKeepsRest
    LinearRefined
