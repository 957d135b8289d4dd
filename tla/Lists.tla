------------------------------- MODULE Lists -------------------------------
(* What the list comprehensions of the code do to a sequence.               *)
EXTENDS Naturals, Sequences

Listed(s) == {s[i] : i \in DOMAIN s}

(* [x for x in s if x in T]: SelectSeq by a set in place of a test, since   *)
(* the prover has no definition of SelectSeq.                              *)
Kept(s, T) ==
    LET kept[n \in 0..Len(s)] == IF n = 0 THEN <<>>
                                 ELSE IF s[n] \in T THEN Append(kept[n - 1], s[n])
                                 ELSE kept[n - 1]
    IN  kept[Len(s)]
=============================================================================
