\* One fault and up to one user retry; retry limits as in attachment_tasks.py.
SPECIFICATION Spec
CONSTANTS
    Dispatchers = {api, beat}
    MaxFaults = 1
    MaxUserRetries = 1
    ErrorRetries = 3
    RecheckRetries = 5
INVARIANTS
    TypeOK
    InFlightJobHasCarrier
PROPERTIES
    LateMessageHarmless
    InFlightJobSettles
CHECK_DEADLOCK FALSE
