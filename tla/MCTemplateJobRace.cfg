\* A version is deleted while a job that has read it is being created.
SPECIFICATION Spec
CONSTANTS
    Versions = {v1}
    Files = {f1}
    Objects = {o1, o2}
    Manifests = {m0}
    EmptyManifest = m0
    Bindings = {b1}
    Sessions = {s1}
    NoVersion = NoVersion
    NoFile = NoFile
    NoObject = NoObject
    NoBinding = NoBinding
    NoContent = NoContent
SYMMETRY Symmetry
INVARIANT
    JobVersionExists
CHECK_DEADLOCK FALSE
