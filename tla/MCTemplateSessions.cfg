\* One version and file, two bindings and manifests, two concurrent sessions.
SPECIFICATION Spec
CONSTANTS
    Versions = {v1}
    Files = {f1}
    Objects = {o1, o2, o3}
    Manifests = {m0, m1}
    EmptyManifest = m0
    Bindings = {b1, b2}
    Sessions = {s1, s2}
    NoVersion = NoVersion
    NoFile = NoFile
    NoObject = NoObject
    NoBinding = NoBinding
    NoContent = NoContent
SYMMETRY Symmetry
INVARIANTS
    ActiveIsApproved
    FileObjectsStored
PROPERTIES
    OnceActiveFixed
    ImplementsRelease
CHECK_DEADLOCK FALSE
