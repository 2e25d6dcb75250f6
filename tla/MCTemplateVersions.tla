------------------------- MODULE MCTemplateVersions ------------------------
(* TLC instance of TemplateVersions: identifiers are interchangeable, and so *)
(* are bindings; of the manifests one is the empty one.                     *)
EXTENDS TemplateVersions, TLC

Symmetry == Permutations(Versions) \cup Permutations(Files) \cup Permutations(Objects)
              \cup Permutations(Sessions) \cup Permutations(Bindings)
============================================================================
