\* Two versions and their clones, two files, one administrator or job request at a time.
SPECIFICATION Spec
CONSTANTS
    Versions = {v1, v2}
    Files = {f1, f2}
    Objects = {o1, o2, o3}
    Manifests = {m0}
    EmptyManifest = m0
    Bindings = {b1}
    Sessions = {s1}
    NoVersion = NoVersion
    NoFile = NoFile
    NoObject = NoObject
    NoBinding = NoBinding
    NoContent = NoContent
SYMMETRY Symmetry
INVARIANTS
    TypeOK
    FileObjectsKept
CHECK_DEADLOCK FALSE
