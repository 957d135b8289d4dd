------------------------ MODULE MCDocumentLifecycle ------------------------
(* Instances of DocumentLifecycle for TLC. *)
EXTENDS DocumentLifecycle, TLC

Symmetry == Permutations(Docs) \cup Permutations(Uploads) \cup Permutations(Deletes)
=============================================================================
