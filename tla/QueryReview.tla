---------------------------- MODULE QueryReview ----------------------------
(***************************************************************************)
(* A question and its review (api/v1/query.py, agents/nodes.py): the       *)
(* request that runs the agents and stores the query, answered at once or  *)
(* as a stream, and the managers' requests that approve or reject it.      *)
(*                                                                         *)
(* A decision loads the row, waits for the language model, and then sends  *)
(* an UPDATE of the columns whose new value differs from the loaded one;   *)
(* the row is locked from that UPDATE to the commit.  The session of a     *)
(* request commits after its response was sent, except where the code      *)
(* commits itself.                                                         *)
(***************************************************************************)
CONSTANTS
    Queries,        \* the query ids, one for each question asked
    Decisions,      \* approve and reject requests
    Asker,          \* stands for the question's own run among the writers
    Lists,          \* bound: the lists of citations that are not empty
    None,           \* no answer, no decision, no query, the empty list of citations
    HumanReview     \* settings.ENABLE_HUMAN_REVIEW

ASSUME ConstantsAssumption ==
    /\ Asker \notin Decisions
    /\ None \notin Decisions \cup Queries \cup {Asker}
    /\ None \notin Lists
    /\ None \notin [by : Decisions \cup {Asker}, cites : Lists \cup {None}]
    /\ HumanReview \in BOOLEAN

VARIABLES
    row,    \* the committed queries row
    trail,  \* the committed audit_logs rows about the query
    ask,    \* progress of the request that asked the question
    told,   \* what that request's client was told
    dec,    \* local state of a decision
    last    \* history: the last committed decision on the query

vars == <<row, trail, ask, told, dec, last>>

----------------------------------------------------------------------------
Writers == Decisions \cup {Asker}

(* An answer is known by the run that wrote it; with it goes the list of    *)
(* the retrieved sources its [n] markers name.  Two runs may cite the same. *)
Answer == [by : Writers, cites : Lists \cup {None}]

(* build_citations.  The column is a JSON list, compared by value: [] here  *)
(* is None, also without an answer.                                        *)
CitationsOf(a) == IF a # None THEN a.cites ELSE None

(* "pending" and "processing" are never stored.                            *)
Statuses == {"absent", "completed", "pending_approval", "rejected", "failed"}

Row == [status : Statuses, answer : Answer \cup {None}, citations : Lists \cup {None}]

RowOf(s, a) == [status |-> s, answer |-> a, citations |-> CitationsOf(a)]

Absent == RowOf("absent", None)

Events == {"query.answered", "query.pending_approval", "query.approved", "query.rejected"}

AskPcs == {"idle", "running", "flushed", "responded", "stored", "done", "failed"}
Ask == [pc : AskPcs, stream : BOOLEAN, out : Row]

DecisionPcs == {"idle", "loaded", "flushed", "committed", "failed"}
Decision == [pc : DecisionPcs, approves : BOOLEAN, query : Queries \cup {None},
             seen : Row, answer : Answer \cup {None}]

IdleDecision == [pc |-> "idle", approves |-> FALSE, query |-> None,
                 seen |-> Absent, answer |-> None]

TypeOK ==
    /\ row \in [Queries -> Row]
    /\ trail \in [Queries -> SUBSET Events]
    /\ ask \in [Queries -> Ask]
    /\ told \in [Queries -> Statuses \cup {"nothing", "tokens"}]
    /\ dec \in [Decisions -> Decision]
    /\ \A x \in Decisions : dec[x].pc # "idle" => dec[x].query \in Queries
    /\ last \in [Queries -> Decisions \cup {None}]

Init ==
    /\ row = [q \in Queries |-> Absent]
    /\ trail = [q \in Queries |-> {}]
    /\ ask = [q \in Queries |-> [pc |-> "idle", stream |-> FALSE, out |-> Absent]]
    /\ told = [q \in Queries |-> "nothing"]
    /\ dec = [x \in Decisions |-> IdleDecision]
    /\ last = [q \in Queries |-> None]

----------------------------------------------------------------------------
(* The question *)

(* Variant: a node forgets to set the status the request starts the graph   *)
(* with.                                                                   *)
OutcomesUnset(stream) == {RowOf("processing", None), RowOf("completed", None)}

(* What _persist is given: a hold, an answer (which may be empty), or, from *)
(* the graph but not from the stream, a failed synthesis.                  *)
Outcomes(stream) ==
    (IF HumanReview THEN {RowOf("pending_approval", None)} ELSE {})
    \cup (IF stream THEN {} ELSE {RowOf("failed", None)})
    \cup {RowOf("completed", None)}
    \cup {RowOf("completed", [by |-> Asker, cites |-> c]) : c \in Lists \cup {None}}

Submit(q, stream) ==
    /\ ask[q].pc = "idle"
    /\ ask' = [ask EXCEPT ![q] = [@ EXCEPT !.pc = "running", !.stream = stream]]
    /\ UNCHANGED <<row, trail, told, dec, last>>

(* The agents, then _persist and its audit row in the open transaction; a   *)
(* stream has sent the answer's tokens by then.                            *)
Persist(q, r) ==
    /\ ask[q].pc = "running"
    /\ ask' = [ask EXCEPT ![q] = [@ EXCEPT !.pc = "flushed", !.out = r]]
    /\ told' = [told EXCEPT ![q] = IF ask[q].stream /\ r.answer # None THEN "tokens" ELSE @]
    /\ UNCHANGED <<row, trail, dec, last>>

Stored(q) ==
    /\ row' = [row EXCEPT ![q] = ask[q].out]
    /\ trail' = [trail EXCEPT ![q] =
                    {IF ask[q].out.status = "pending_approval"
                     THEN "query.pending_approval" ELSE "query.answered"}]

(* ask: the response, then the session's commit. *)
Respond(q) ==
    /\ ask[q].pc = "flushed"
    /\ ~ask[q].stream
    /\ ask' = [ask EXCEPT ![q].pc = "responded"]
    /\ told' = [told EXCEPT ![q] = ask[q].out.status]
    /\ UNCHANGED <<row, trail, dec, last>>

CommitAsk(q) ==
    /\ ask[q].pc = "responded"
    /\ Stored(q)
    /\ ask' = [ask EXCEPT ![q].pc = "done"]
    /\ UNCHANGED <<told, dec, last>>

(* ask_stream: its own commit, then the "pending" or "done" event. *)
CommitStream(q) ==
    /\ ask[q].pc = "flushed"
    /\ ask[q].stream
    /\ Stored(q)
    /\ ask' = [ask EXCEPT ![q].pc = "stored"]
    /\ UNCHANGED <<told, dec, last>>

(* Variant: the event is sent before the commit. *)
SendEventEarly(q) ==
    /\ ask[q].pc \in {"flushed", "stored"}
    /\ ask[q].stream
    /\ ask' = [ask EXCEPT ![q].pc = IF ask[q].pc = "stored" THEN "done" ELSE @]
    /\ told' = [told EXCEPT ![q] = ask[q].out.status]
    /\ UNCHANGED <<row, trail, dec, last>>

SendEvent(q) ==
    /\ ask[q].pc = "stored"
    /\ ask' = [ask EXCEPT ![q].pc = "done"]
    /\ told' = [told EXCEPT ![q] = ask[q].out.status]
    /\ UNCHANGED <<row, trail, dec, last>>

(* No route to a model, an exception, a lost client or database connection, *)
(* or the end of the process: rollback, whatever the client was told.      *)
AskFails(q) ==
    /\ ask[q].pc \in {"running", "flushed", "responded"}
    /\ ask' = [ask EXCEPT ![q].pc = "failed"]
    /\ UNCHANGED <<row, trail, told, dec, last>>

----------------------------------------------------------------------------
(* Decisions *)

(* _load_pending, which does not look at the status. *)
LoadPending(x, q, approves) ==
    /\ dec[x].pc = "idle"
    /\ row[q].status # "absent"
    /\ dec' = [dec EXCEPT ![x] = [IdleDecision EXCEPT !.pc = "loaded", !.query = q,
                                  !.approves = approves, !.seen = row[q]]]
    /\ UNCHANGED <<row, trail, ask, told, last>>

Verdict(x) == IF dec[x].approves THEN "completed" ELSE "rejected"

(* A rejection of a row loaded as rejected sends no UPDATE. *)
HoldsLock(x) ==
    /\ dec[x].pc = "flushed"
    /\ dec[x].approves \/ dec[x].seen.status # "rejected"

Unlocked(q) == \A x \in Decisions : dec[x].query = q => ~HoldsLock(x)

(* approve_query: planner, retriever and synthesizer, then the UPDATE. *)
ApproveQuery(x, c) ==
    /\ dec[x].pc = "loaded"
    /\ dec[x].approves
    /\ Unlocked(dec[x].query)
    /\ dec' = [dec EXCEPT ![x] = [@ EXCEPT !.pc = "flushed",
                                             !.answer = [by |-> x, cites |-> c]]]
    /\ UNCHANGED <<row, trail, ask, told, last>>

(* reject_query *)
RejectQuery(x) ==
    /\ dec[x].pc = "loaded"
    /\ ~dec[x].approves
    /\ dec[x].seen.status # "rejected" => Unlocked(dec[x].query)
    /\ dec' = [dec EXCEPT ![x].pc = "flushed"]
    /\ UNCHANGED <<row, trail, ask, told, last>>

(* A column is written if its value differs from the loaded one. *)
Written(new, loaded, current) == IF new # loaded THEN new ELSE current

(* Variants of Updated below: the whole loaded row is written back; an      *)
(* empty citation list is not written; a row whose status is no longer the  *)
(* loaded one is left alone.                                               *)
UpdatedWhole(x) ==
    LET d == dec[x] IN
    [status |-> Verdict(x),
     answer |-> IF d.approves THEN d.answer ELSE d.seen.answer,
     citations |-> IF d.approves THEN CitationsOf(d.answer) ELSE d.seen.citations]

UpdatedUnlessUncited(x) ==
    LET d == dec[x]  r == row[d.query]  c == CitationsOf(d.answer) IN
    [status |-> Written(Verdict(x), d.seen.status, r.status),
     answer |-> IF d.approves THEN d.answer ELSE r.answer,
     citations |-> IF c # None THEN c ELSE r.citations]

UpdatedIfUnchanged(x) ==
    LET d == dec[x]  r == row[d.query] IN
    IF r.status # d.seen.status THEN r
    ELSE [status |-> Verdict(x),
          answer |-> IF d.approves THEN d.answer ELSE r.answer,
          citations |-> IF d.approves THEN CitationsOf(d.answer) ELSE r.citations]

(* The row after the UPDATE of a decision.  An answer is encrypted anew, so *)
(* its column always differs.                                              *)
Updated(x) ==
    LET d == dec[x]  r == row[d.query] IN
    [status |-> Written(Verdict(x), d.seen.status, r.status),
     answer |-> IF d.approves THEN d.answer ELSE r.answer,
     citations |-> IF d.approves
                   THEN Written(CitationsOf(d.answer), d.seen.citations, r.citations)
                   ELSE r.citations]

(* Variant: the audit row is left to someone else. *)
CommitDecisionUnaudited(x) ==
    /\ dec[x].pc = "flushed"
    /\ row' = [row EXCEPT ![dec[x].query] = Updated(x)]
    /\ last' = [last EXCEPT ![dec[x].query] = x]
    /\ dec' = [dec EXCEPT ![x].pc = "committed"]
    /\ UNCHANGED <<trail, ask, told>>

(* The commit that ends the session, with the audit row. *)
CommitDecision(x) ==
    /\ dec[x].pc = "flushed"
    /\ row' = [row EXCEPT ![dec[x].query] = Updated(x)]
    /\ trail' = [trail EXCEPT ![dec[x].query] = @ \cup
                    {IF dec[x].approves THEN "query.approved" ELSE "query.rejected"}]
    /\ last' = [last EXCEPT ![dec[x].query] = x]
    /\ dec' = [dec EXCEPT ![x].pc = "committed"]
    /\ UNCHANGED <<ask, told>>

(* A failed synthesis leaves no answer and raises; routing, the database or *)
(* the process may fail too: rollback.                                     *)
DecisionFails(x) ==
    /\ dec[x].pc \in {"loaded", "flushed"}
    /\ dec' = [dec EXCEPT ![x].pc = "failed"]
    /\ UNCHANGED <<row, trail, ask, told, last>>

----------------------------------------------------------------------------
AskStep(q) ==
    \/ \E stream \in BOOLEAN : Submit(q, stream)
    \/ \E r \in Outcomes(ask[q].stream) : Persist(q, r)
    \/ Respond(q)
    \/ CommitAsk(q)
    \/ CommitStream(q)
    \/ SendEvent(q)
    \/ AskFails(q)

DecisionStep(x) ==
    \/ \E q \in Queries, approves \in BOOLEAN : LoadPending(x, q, approves)
    \/ \E c \in Lists \cup {None} : ApproveQuery(x, c)
    \/ RejectQuery(x)
    \/ CommitDecision(x)
    \/ DecisionFails(x)

Next ==
    \/ \E q \in Queries : AskStep(q)
    \/ \E x \in Decisions : DecisionStep(x)

Spec == Init /\ [][Next]_vars

----------------------------------------------------------------------------
(* Properties *)

(* The audit rows of a query account for its row, however decisions         *)
(* overlap: a query waits only while no decision is recorded, it is         *)
(* rejected only by a recorded rejection, and one that was held has an      *)
(* answer, or counts as completed, only after a recorded approval.          *)
TrailExplains(q) ==
    /\ row[q].status = "absent" <=> trail[q] = {}
    /\ row[q].status = "pending_approval" =>
          trail[q] = {"query.pending_approval"} /\ row[q].answer = None
    /\ row[q].status = "rejected" => "query.rejected" \in trail[q]
    /\ "query.pending_approval" \in trail[q]
       /\ (row[q].status = "completed" \/ row[q].answer # None) =>
          "query.approved" \in trail[q]

TrailExplainsRow == \A q \in Queries : TrailExplains(q)

(* A decision over a row loaded long ago undoes nothing: an answer is       *)
(* replaced but never lost, and a query that was decided or answered is     *)
(* never waiting again.                                                    *)
NothingUndone(q) ==
    /\ row[q].answer # None => row'[q].answer # None
    /\ row[q].status \notin {"absent", "pending_approval"} =>
          row'[q].status \notin {"absent", "pending_approval"}

NothingIsUndone == [][\A q \in Queries : NothingUndone(q)]_vars

(* The last committed decision has its way, except one that found its       *)
(* verdict in the row when it loaded it, and so did not write it, and was   *)
(* overtaken by the opposite decision.                                     *)
LastDecisionStands ==
    \A q \in Queries : last[q] # None =>
        \/ row[q].status = Verdict(last[q])
        \/ dec[last[q]].seen.status = Verdict(last[q])

(* The citations stored with an answer are the sources its markers name.    *)
CitationsMatch(q) == row[q].citations = CitationsOf(row[q].answer)

(* They part only when two approvals overlap: the later one cites what it   *)
(* found in the row it loaded, nothing or the very same sources, and so     *)
(* leaves the different citations the earlier one stored meanwhile.         *)
CitationsPartOnlyByOverlap ==
    \A q \in Queries : ~CitationsMatch(q) =>
        \E x, y \in Decisions :
            /\ x # y /\ dec[x].query = q /\ dec[y].query = q
            /\ dec[x].pc = "committed" /\ dec[y].pc = "committed"
            /\ dec[x].approves /\ dec[y].approves
            /\ row[q].answer = dec[x].answer
            /\ dec[x].seen.citations = CitationsOf(dec[x].answer)
            /\ row[q].citations = CitationsOf(dec[y].answer)

(* What source_attributor is for: build_citations is to "Map the [n]        *)
(* markers in the answer to their source chunks".                          *)
CitationsMatchAnswer == \A q \in Queries : CitationsMatch(q)

(* A stream that has sent its last event has stored the query it names. *)
StreamedIsStored ==
    \A q \in Queries : ask[q].stream /\ told[q] \notin {"nothing", "tokens"} =>
        row[q].status # "absent"
=============================================================================
