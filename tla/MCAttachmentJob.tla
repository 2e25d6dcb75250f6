-------------------------- MODULE MCAttachmentJob --------------------------
(* TLC instance of AttachmentJob: the items, and the attempts, are          *)
(* interchangeable.                                                         *)
EXTENDS AttachmentJob, TLC

Symmetry == Permutations(Items) \cup Permutations(Leases)
============================================================================
