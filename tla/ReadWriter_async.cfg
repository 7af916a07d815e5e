\* Two calls in flight, close and panics: who is answered.
CONSTANTS
    Keys = {1}
    Values = {a}
    None = None
    EmptyBytes = EmptyBytes
    Undefined = Undefined
    Promises = {p1, p2}
    RangeOptions <- BoundsLeftOut
    MaxSnapshots = 1
    MaxQueue = 2
SPECIFICATION FairSpec
PROPERTIES
    InFlightSettles
    ScratchRefined
