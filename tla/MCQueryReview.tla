--------------------------- MODULE MCQueryReview ---------------------------
(* Instances of QueryReview for TLC. *)
EXTENDS QueryReview, TLC

Symmetry == Permutations(Queries) \cup Permutations(Decisions)
            \cup Permutations(Lists)
=============================================================================
