\* Two batches about one fact, one after the other or overlapping.
SPECIFICATION GraphSpec
CONSTANTS
    GraphJobs = {j1}
    Facts = {x1}
    RuleFacts = {}
    MaxJobs = 2
INVARIANTS
    ReplacementVisible
CHECK_DEADLOCK FALSE
