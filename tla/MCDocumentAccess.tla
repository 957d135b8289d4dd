-------------------------- MODULE MCDocumentAccess --------------------------
(* Instances of DocumentAccess for TLC: the founder owns every document.    *)
EXTENDS DocumentAccess, TLC

MCOwner == [d \in Docs |-> Founder]
MCPermissionSets == {{"view", "query"}, {"view", "manage"}}

Symmetry == Permutations(GrantIds)
=============================================================================
