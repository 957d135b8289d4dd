--------------------------- MODULE AnswerContract ---------------------------
(***************************************************************************)
(* What one question is promised, whatever the agents do: it runs under    *)
(* the routing policy of the moment it began; it is answered, held for     *)
(* review or given up, once; with the review gate on nothing is answered   *)
(* without sources; and what is cited was found in the asker's scope.      *)
(***************************************************************************)
EXTENDS Naturals

CONSTANTS Chunks, None

VARIABLES
    gate,       \* is the review gate on?
    scope,      \* the chunks the asker may use
    policy,     \* does the tenant require a self-hosted model?
    terms,      \* the policy the question runs under; None before it began
    sent,       \* the profiles the question, or its sources, were sent to
    found,      \* the chunks found for it
    cited,      \* the chunks the answer cites
    phase       \* "asked", "held", "answered", "failed" or "unrouted"

vars == <<gate, scope, policy, terms, sent, found, cited, phase>>

Init ==
    /\ gate \in BOOLEAN /\ scope \subseteq Chunks /\ policy \in BOOLEAN
    /\ terms = None /\ sent = {} /\ found = {} /\ cited = {}
    /\ phase = "asked"

ChangePolicy ==
    /\ policy' \in BOOLEAN
    /\ UNCHANGED <<gate, scope, terms, sent, found, cited, phase>>

(* A model is called, if at all, on a profile the terms allow.              *)
Consults ==
    \/ sent' = sent
    \/ terms' = FALSE /\ sent' = sent \cup {"cloud"}
    \/ sent' = sent \cup {"self_hosted"}

Begin ==
    /\ phase = "asked" /\ terms = None
    /\ terms' = policy
    /\ Consults
    /\ phase' \in {"asked", "unrouted"}
    /\ UNCHANGED <<gate, scope, policy, found, cited>>

Find ==
    /\ phase = "asked" /\ terms # None
    /\ found = {} /\ found' \subseteq scope
    /\ UNCHANGED <<gate, scope, policy, terms, sent, cited, phase>>

Ends ==
    \/ phase' = "held" /\ gate /\ cited' = {}
    \/ phase' = "answered" /\ (gate => found # {}) /\ cited' \subseteq found
    \/ phase' \in {"failed", "unrouted"} /\ cited' = {}

Work ==
    /\ phase = "asked" /\ terms # None
    /\ Consults
    /\ Ends \/ UNCHANGED <<phase, cited>>
    /\ UNCHANGED <<gate, scope, policy, terms, found>>

Next == ChangePolicy \/ Begin \/ Find \/ Work

Spec == Init /\ [][Next]_vars
=============================================================================
