\* A fault budget beyond the retry limit of the task: four faults, one dispatcher.
SPECIFICATION Spec
CONSTANTS
    Dispatchers = {beat}
    MaxFaults = 4
    MaxUserRetries = 0
    ErrorRetries = 3
    RecheckRetries = 5
INVARIANTS
    InFlightJobHasCarrier
CHECK_DEADLOCK FALSE
