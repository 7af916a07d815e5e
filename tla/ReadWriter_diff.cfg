\* A writer that overwrites a key and then deletes it.
CONSTANTS
    Keys = {1}
    Values = {a, b}
    None = None
    EmptyBytes = EmptyBytes
    Undefined = Undefined
    Promises = {p1}
    RangeOptions <- NoOptions
    MaxSnapshots = 0
    MaxQueue = 1
SPECIFICATION Spec
INVARIANT DiffKeepsOriginals
