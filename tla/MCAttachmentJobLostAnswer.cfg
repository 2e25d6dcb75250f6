\* One file and two attempts suffice to lose an object of a published artifact.
SPECIFICATION Spec
CONSTANTS
    Items = {i1}
    NoItem = NoItem
    Leases = {w1, w2}
    NoLease = NoLease
SYMMETRY Symmetry
INVARIANTS
    PublishedObjectsExist
CHECK_DEADLOCK FALSE
