---------------------------- MODULE RateLimiter ----------------------------
(***************************************************************************)
(* RateLimitMiddleware (core/middleware.py), one process: the times of a   *)
(* client's admitted requests, of which those of the last Window count.    *)
(* dispatch does not await between reading and writing them.               *)
(***************************************************************************)
EXTENDS Naturals, Lists

CONSTANTS
    Clients,    \* client keys
    Limit,      \* RATE_LIMIT_PER_MINUTE, greater than 0 or there is no limiter
    Window,     \* 60 seconds, in ticks
    MaxTime     \* bound: the clock stops

ASSUME LimiterAssumption == Limit \in Nat \ {0} /\ Window \in Nat \ {0} /\ MaxTime \in Nat

VARIABLES
    now,        \* time.monotonic()
    hits,       \* _hits
    admitted    \* history: the times of all requests a client got through

limiterVars == <<now, hits, admitted>>

LimiterTypeOK ==
    /\ now \in 0..MaxTime
    /\ hits \in [Clients -> Seq(0..MaxTime)]
    /\ admitted \in [Clients -> Seq(0..MaxTime)]

LimiterInit ==
    /\ now = 0
    /\ hits = [c \in Clients |-> <<>>]
    /\ admitted = [c \in Clients |-> <<>>]

(* Variant: a hit counts from the start of its window only. *)
RecentFixed(c) == Kept(hits[c], {t \in 0..now : t \div Window = now \div Window})

Recent(c) == Kept(hits[c], {t \in 0..now : now - t < Window})

Admit(c) ==
    /\ Len(Recent(c)) < Limit
    /\ hits' = [hits EXCEPT ![c] = Append(Recent(c), now)]
    /\ admitted' = [admitted EXCEPT ![c] = Append(@, now)]
    /\ now' = now

(* 429; the request itself is not counted. *)
Refuse(c) ==
    /\ Len(Recent(c)) >= Limit
    /\ hits' = [hits EXCEPT ![c] = Recent(c)]
    /\ UNCHANGED <<now, admitted>>

Tick ==
    /\ now < MaxTime
    /\ now' = now + 1
    /\ UNCHANGED <<hits, admitted>>

LimiterNext == Tick \/ \E c \in Clients : Admit(c) \/ Refuse(c)

(* No client gets more than Limit requests through in any time of a         *)
(* Window's length - also when it straddles two minutes, which a fixed     *)
(* window, as the class calls itself, would not keep (dispatch).           *)
NeverMoreThanLimit ==
    \A c \in Clients : \A i, j \in DOMAIN admitted[c] :
        i <= j /\ admitted[c][j] - admitted[c][i] < Window => j - i < Limit
=============================================================================
