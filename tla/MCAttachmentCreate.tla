------------------------- MODULE MCAttachmentCreate ------------------------
(* TLC instance of AttachmentCreate: requests, inputs and keys are           *)
(* interchangeable.                                                          *)
EXTENDS AttachmentCreate, TLC

Symmetry == Permutations(Requests) \cup Permutations(Inputs) \cup Permutations(Keys)
============================================================================
