-------------------------- MODULE DocumentContract --------------------------
(***************************************************************************)
(* What the document subsystem promises to the rest of the application,    *)
(* with the transactions, the storage and the background tasks hidden: a   *)
(* document is accepted together with the others of its request, worked on *)
(* once, and then either ready with all of its passages at once or failed  *)
(* with none; a removed document stays removed.                            *)
(***************************************************************************)
EXTENDS Naturals

CONSTANTS Documents, MaxPassages

VARIABLES
    state,      \* what a reader who never sees deleted documents is shown
    passages    \* passages such a reader can be given from the document

States == {"absent", "accepted", "working", "ready", "failed", "removed"}

Init ==
    /\ state = [d \in Documents |-> "absent"]
    /\ passages = [d \in Documents |-> 0]

(* One request makes all of its documents visible at once. *)
Accept(S) ==
    /\ S # {}
    /\ \A d \in S : state[d] = "absent"
    /\ state' = [d \in Documents |-> IF d \in S THEN "accepted" ELSE state[d]]
    /\ UNCHANGED passages

Begin(d) ==
    /\ state[d] = "accepted"
    /\ state' = [state EXCEPT ![d] = "working"]
    /\ UNCHANGED passages

MakeReady(d, n) ==
    /\ state[d] = "working"
    /\ state' = [state EXCEPT ![d] = "ready"]
    /\ passages' = [passages EXCEPT ![d] = n]

Fail(d) ==
    /\ state[d] = "working"
    /\ state' = [state EXCEPT ![d] = "failed"]
    /\ UNCHANGED passages

Remove(d) ==
    /\ state[d] \notin {"absent", "removed"}
    /\ state' = [state EXCEPT ![d] = "removed"]
    /\ passages' = [passages EXCEPT ![d] = 0]

Next ==
    \/ \E S \in SUBSET Documents : Accept(S)
    \/ \E d \in Documents :
          \/ Begin(d)
          \/ \E n \in 1..MaxPassages : MakeReady(d, n)
          \/ Fail(d)
          \/ Remove(d)

Spec == Init /\ [][Next]_<<state, passages>>
=============================================================================
