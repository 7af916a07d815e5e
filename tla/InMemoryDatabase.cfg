SPECIFICATION Spec
SYMMETRY HandleSymmetry
CONSTANTS
    MaxByte = 2
    Undefined = Undefined
    Handles = {h1, h2}
    Keys <- MCKeys
    Values = {v}
    None = None
    NoOp = NoOp
    MaxBatch = 1
    Options <- MCOptions
    OtherBuckets <- MCOtherBuckets
INVARIANTS
    TypeOK
    BoundedIterationExact
    OneBoundExact
    MockShowsNoMore
    WalkStaysInBucket
