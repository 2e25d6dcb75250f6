\* Two template files; a first attempt, one that takes over, one after a retry.
SPECIFICATION Spec
CONSTANTS
    Items = {i1, i2}
    NoItem = NoItem
    Leases = {w1, w2, w3}
    NoLease = NoLease
SYMMETRY Symmetry
INVARIANTS
    TypeOK
    PublishedTogether
    CountIsExact
    ContextKept
    ReferencedAreStored
PROPERTIES
    StaleAttemptHarmless
    FinishedWorkKept
    ImplementsPackage
CHECK_DEADLOCK FALSE
