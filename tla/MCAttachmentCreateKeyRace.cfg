\* Two requests that reuse one key for different inputs, nothing else failing.
SPECIFICATION Spec
CONSTANTS
    Requests = {r1, r2}
    Inputs = {a, b}
    Keys = {k}
    NoKey = NoKey
    NoJob = NoJob
    MaxFaults = 0
SYMMETRY Symmetry
INVARIANTS
    KeyReuseIsReported
CHECK_DEADLOCK FALSE
