SPECIFICATION Spec
CONSTANTS
    MaxByte = 1
    Undefined = Undefined
    Keys <- MCKeys
    Values = {v}
    None = None
    NoOp = NoOp
    BatchIds = {b}
    IterateOptions <- MCUnbounded
    ClearOptions <- MCClearOptions
    CommitBatches <- MCCommitBatches
    Promises = {p}
    MaxQueue = 1
    MaxBatch = 1
    CloseMessage = CloseMessage
INVARIANTS
    RowsAreState
