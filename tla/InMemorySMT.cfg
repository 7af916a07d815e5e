\* Updates of up to two keys in any order and from any root.
CONSTANTS
    KeyBits = 6
    SubtreeHeight = 2
    EmptyBytes = EmptyBytes
    None = None
    Batches <- TreeBatches
    Values <- TreeValues
    ByteBits = 2
    MaxUpdates = 3
    QueryLists <- Lists
SPECIFICATION Spec
CHECK_DEADLOCK FALSE
INVARIANTS
    RootsAreReference
    TipIsComplete
    ProofVerifies
    VerifiedIsTrue
    RemovalVerifies
