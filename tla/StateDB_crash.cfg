\* The process dies between the batch and the put of CURRENT_STATE.
CONSTANTS
    Keys = {k1}
    Values = {a}
    None = None
    EmptyBytes = EmptyBytes
    Unchecked = Unchecked
    Writers = {w1}
    MaxVersion = 1
    MaxCrashes = 1
    Disciplined = TRUE
    OverflowChecks = FALSE
SPECIFICATION Spec
INVARIANT CurrentStateMatches
