------------------------- MODULE QueryReview_proofs -------------------------
(***************************************************************************)
(* Proofs about QueryReview for any number of questions and decisions.     *)
(***************************************************************************)
EXTENDS QueryReview, TLAPS

(* A query is in the table from its request's commit on, and nothing can   *)
(* be recorded about it before.                                            *)
AbsentUntilStored(q) ==
    /\ row[q].status = "absent" <=> ask[q].pc \notin {"stored", "done"}
    /\ row[q].status = "absent" => row[q] = Absent /\ trail[q] = {} /\ last[q] = None

(* What a request is about to store; what its client knows by then.        *)
AskInOrder(q) ==
    /\ ask[q].pc \in {"flushed", "responded", "stored", "done"} =>
          ask[q].out \in Outcomes(ask[q].stream)
    /\ ask[q].pc \in {"idle", "running"} => told[q] = "nothing"
    /\ ask[q].stream /\ told[q] \notin {"nothing", "tokens"} => ask[q].pc = "done"

(* The last decision is a committed one. *)
DecidersCommitted(q) == last[q] # None => dec[last[q]].pc = "committed"

(* Decision d is an approval of q that was committed, with citations c.     *)
Approved(d, q, c) ==
    d.query = q /\ d.pc = "committed" /\ d.approves /\ c = CitationsOf(d.answer)

(* What a decision loaded is a past of the row: what the row has lost since *)
(* it cannot have back.                                                    *)
LoadedEarlier(x) ==
    LET d == dec[x] IN d.pc # "idle" =>
        /\ row[d.query].status # "absent"
        /\ d.seen.status \notin {"absent", "pending_approval"} =>
              row[d.query].status # "pending_approval"

(* Citations that are not those a decision loaded are an approval's.        *)
CitationsSince(x) ==
    dec[x].pc # "idle" =>
        \/ row[dec[x].query].citations = dec[x].seen.citations
        \/ \E y \in Decisions : Approved(dec[y], dec[x].query, row[dec[x].query].citations)

(* An approval that has written has the answer of its own run.             *)
AnswerIsOwn(x) ==
    dec[x].approves /\ dec[x].pc \in {"flushed", "committed"} =>
        dec[x].answer # None /\ dec[x].answer.by = x

IInv ==
    /\ TypeOK
    /\ \A q \in Queries : AbsentUntilStored(q) /\ AskInOrder(q) /\ DecidersCommitted(q)
    /\ \A x \in Decisions : LoadedEarlier(x) /\ CitationsSince(x) /\ AnswerIsOwn(x)
    /\ TrailExplainsRow
    /\ LastDecisionStands
    /\ CitationsPartOnlyByOverlap

USE ConstantsAssumption

----------------------------------------------------------------------------
LEMMA OutcomesAreRows == ASSUME NEW s \in BOOLEAN PROVE Outcomes(s) \subseteq Row
<1>1. ASSUME NEW t \in Statuses PROVE RowOf(t, None) \in Row
  BY DEF RowOf, CitationsOf, Row
<1>2. ASSUME NEW c \in Lists \cup {None} PROVE RowOf("completed", [by |-> Asker, cites |-> c]) \in Row
  <2>1. [by |-> Asker, cites |-> c] \in Answer
    BY DEF Answer, Writers
  <2>2. CitationsOf([by |-> Asker, cites |-> c]) \in Lists \cup {None}
    BY DEF CitationsOf
  <2> QED
    BY <2>1, <2>2 DEF RowOf, Row, Statuses
<1>3. \A t \in {"pending_approval", "failed", "completed"} : RowOf(t, None) \in Row
  BY <1>1 DEF Statuses
<1> QED
  BY <1>2, <1>3 DEF Outcomes

(* What a question stores: nothing recorded by a decision, and no answer    *)
(* while it is held.                                                       *)
LEMMA OutcomeShape ==
    ASSUME NEW s \in BOOLEAN, NEW r \in Outcomes(s)
    PROVE  /\ r.status \in {"pending_approval", "failed", "completed"}
           /\ r.status = "pending_approval" => r.answer = None
           /\ r.citations = CitationsOf(r.answer)
  BY DEF Outcomes, RowOf, CitationsOf

LEMMA InitIInv == Init => IInv
  BY DEF Init, IInv, TypeOK, Absent, RowOf, CitationsOf, Row, Ask, AskPcs, Decision, DecisionPcs,
         IdleDecision, Statuses, AbsentUntilStored, AskInOrder, DecidersCommitted, LoadedEarlier,
         CitationsSince, AnswerIsOwn, TrailExplains, TrailExplainsRow, LastDecisionStands,
         CitationsPartOnlyByOverlap, CitationsMatch

(* What the steps of a decision change, column by column.                  *)
LEMMA RecordsStayTyped ==
    /\ \A a \in Ask, pc \in AskPcs, s \in BOOLEAN, r \in Row :
          /\ [a EXCEPT !.pc = pc] \in Ask
          /\ [a EXCEPT !.pc = pc, !.stream = s] \in Ask
          /\ [a EXCEPT !.pc = pc, !.out = r] \in Ask
    /\ \A d \in Decision, pc \in DecisionPcs, w \in Answer \cup {None} :
          /\ [d EXCEPT !.pc = pc] \in Decision
          /\ [d EXCEPT !.pc = pc, !.answer = w] \in Decision
<1>1. ASSUME NEW a \in Ask, NEW pc \in AskPcs, NEW s \in BOOLEAN, NEW r \in Row
      PROVE  /\ [a EXCEPT !.pc = pc] \in Ask
             /\ [a EXCEPT !.pc = pc, !.stream = s] \in Ask
             /\ [a EXCEPT !.pc = pc, !.out = r] \in Ask
  BY DEF Ask
<1>2. ASSUME NEW d \in Decision, NEW pc \in DecisionPcs, NEW w \in Answer \cup {None}
      PROVE  /\ [d EXCEPT !.pc = pc] \in Decision
             /\ [d EXCEPT !.pc = pc, !.answer = w] \in Decision
  BY DEF Decision
<1> QED
  BY <1>1, <1>2

LEMMA LoadEffect ==
    ASSUME TypeOK, NEW x \in Decisions, NEW q \in Queries, NEW approves \in BOOLEAN,
           LoadPending(x, q, approves)
    PROVE  /\ dec[x].pc = "idle" /\ row[q].status # "absent"
           /\ dec'[x] = [pc |-> "loaded", approves |-> approves, query |-> q,
                         seen |-> row[q], answer |-> None]
           /\ \A y \in Decisions : y # x => dec'[y] = dec[y]
           /\ UNCHANGED <<row, trail, ask, told, last>>
  BY DEF TypeOK, LoadPending, IdleDecision

ApproveColumns(x, c) ==
    /\ dec[x].pc = "loaded" /\ dec'[x].pc = "flushed"
    /\ dec'[x].answer = [by |-> x, cites |-> c]
    /\ dec'[x].query = dec[x].query /\ dec'[x].seen = dec[x].seen
    /\ \A y \in Decisions : y # x => dec'[y] = dec[y]
    /\ UNCHANGED <<row, trail, ask, told, last>>

LEMMA ApproveEffect ==
    ASSUME TypeOK, NEW x \in Decisions, NEW c \in Lists \cup {None}, ApproveQuery(x, c)
    PROVE  ApproveColumns(x, c)
<1>1. dec' = [dec EXCEPT ![x] = [dec[x] EXCEPT !.pc = "flushed",
                                               !.answer = [by |-> x, cites |-> c]]]
  BY Zenon DEF ApproveQuery
<1>2. DOMAIN dec = Decisions /\ dec[x] \in Decision
  BY DEF TypeOK
<1>3. dec'[x] = [dec[x] EXCEPT !.pc = "flushed", !.answer = [by |-> x, cites |-> c]]
  BY <1>1, <1>2, Zenon
<1>4. /\ dec'[x].pc = "flushed" /\ dec'[x].answer = [by |-> x, cites |-> c]
      /\ dec'[x].query = dec[x].query /\ dec'[x].seen = dec[x].seen
  BY <1>2, <1>3 DEF Decision
<1> QED
  BY <1>1, <1>2, <1>4 DEF ApproveQuery, ApproveColumns

CommitColumns(x) ==
    /\ dec[x].pc = "flushed" /\ dec'[x].pc = "committed"
    /\ dec'[x].answer = dec[x].answer /\ dec'[x].approves = dec[x].approves
    /\ dec'[x].query = dec[x].query /\ dec'[x].seen = dec[x].seen
    /\ \A y \in Decisions : y # x => dec'[y] = dec[y]
    /\ dec[x].query \in Queries
    /\ row'[dec[x].query] = Updated(x)
    /\ last'[dec[x].query] = x
    /\ trail'[dec[x].query] = trail[dec[x].query] \cup
           {IF dec[x].approves THEN "query.approved" ELSE "query.rejected"}
    /\ \A p \in Queries : p # dec[x].query =>
           row'[p] = row[p] /\ last'[p] = last[p] /\ trail'[p] = trail[p]
    /\ UNCHANGED <<ask, told>>

LEMMA CommitEffect ==
    ASSUME TypeOK, NEW x \in Decisions, CommitDecision(x)
    PROVE  CommitColumns(x)
<1>1. dec[x] \in Decision /\ dec[x].pc = "flushed" /\ dec[x].query \in Queries
  BY DEF TypeOK, CommitDecision
<1>2. dec'[x] = [dec[x] EXCEPT !.pc = "committed"]
  BY DEF TypeOK, CommitDecision
<1>3. /\ dec'[x].pc = "committed" /\ dec'[x].answer = dec[x].answer
      /\ dec'[x].approves = dec[x].approves
      /\ dec'[x].query = dec[x].query /\ dec'[x].seen = dec[x].seen
  BY <1>1, <1>2 DEF Decision
<1>4. /\ \A y \in Decisions : y # x => dec'[y] = dec[y]
      /\ row'[dec[x].query] = Updated(x)
      /\ last'[dec[x].query] = x
      /\ trail'[dec[x].query] = trail[dec[x].query] \cup
             {IF dec[x].approves THEN "query.approved" ELSE "query.rejected"}
      /\ \A p \in Queries : p # dec[x].query =>
             row'[p] = row[p] /\ last'[p] = last[p] /\ trail'[p] = trail[p]
      /\ UNCHANGED <<ask, told>>
  BY <1>1 DEF TypeOK, CommitDecision
<1> QED
  BY <1>1, <1>3, <1>4 DEF CommitColumns

LEMMA UpdatedType ==
    ASSUME TypeOK, NEW x \in Decisions, dec[x].query \in Queries
    PROVE  Updated(x) \in Row
<1>1. dec[x] \in Decision /\ row[dec[x].query] \in Row
  BY DEF TypeOK
<1>2. CitationsOf(dec[x].answer) \in Lists \cup {None}
  BY <1>1 DEF CitationsOf, Decision, Answer
<1> QED
  BY <1>1, <1>2 DEF Updated, Written, Verdict, Row, Decision, Statuses

LEMMA TypeStep == TypeOK /\ [Next]_vars => TypeOK'
<1> SUFFICES ASSUME TypeOK, [Next]_vars PROVE TypeOK'
  OBVIOUS
<1>a. \A q \in Queries : ask[q] \in Ask
  BY DEF TypeOK
<1>d. \A x \in Decisions : dec[x] \in Decision
  BY DEF TypeOK
<1>o. \A q \in Queries : ask[q].stream \in BOOLEAN /\ ask[q].out \in Row
  BY <1>a DEF Ask
<1>1. ASSUME NEW q \in Queries, NEW stream \in BOOLEAN, Submit(q, stream) PROVE TypeOK'
  <2>1. [ask[q] EXCEPT !.pc = "running", !.stream = stream] \in Ask
    BY <1>a, <1>o, RecordsStayTyped DEF AskPcs
  <2> QED
    BY <1>1, <2>1 DEF Submit, TypeOK
<1>2. ASSUME NEW q \in Queries, NEW r \in Outcomes(ask[q].stream), Persist(q, r)
      PROVE  TypeOK'
  <2>1. [ask[q] EXCEPT !.pc = "flushed", !.out = r] \in Ask
    BY <1>a, <1>o, OutcomesAreRows, RecordsStayTyped DEF AskPcs
  <2>2. told' \in [Queries -> Statuses \cup {"nothing", "tokens"}]
    BY <1>2 DEF Persist, TypeOK
  <2> QED
    BY <1>2, <2>1, <2>2 DEF Persist, TypeOK
<1>3. ASSUME NEW q \in Queries, Respond(q) PROVE TypeOK'
  <2>1. [ask[q] EXCEPT !.pc = "responded"] \in Ask /\ ask[q].out.status \in Statuses
    BY <1>a, <1>o, RecordsStayTyped DEF AskPcs, Row
  <2> QED
    BY <1>3, <2>1 DEF Respond, TypeOK
<1>4. ASSUME NEW q \in Queries, CommitAsk(q) PROVE TypeOK'
  <2>1. [ask[q] EXCEPT !.pc = "done"] \in Ask
    BY <1>a, <1>o, RecordsStayTyped DEF AskPcs
  <2> QED
    BY <1>4, <1>o, <2>1 DEF CommitAsk, Stored, Events, TypeOK
<1>5. ASSUME NEW q \in Queries, CommitStream(q) PROVE TypeOK'
  <2>1. [ask[q] EXCEPT !.pc = "stored"] \in Ask
    BY <1>a, <1>o, RecordsStayTyped DEF AskPcs
  <2> QED
    BY <1>5, <1>o, <2>1 DEF CommitStream, Stored, Events, TypeOK
<1>6. ASSUME NEW q \in Queries, SendEvent(q) PROVE TypeOK'
  <2>1. [ask[q] EXCEPT !.pc = "done"] \in Ask /\ ask[q].out.status \in Statuses
    BY <1>a, <1>o, RecordsStayTyped DEF AskPcs, Row
  <2> QED
    BY <1>6, <2>1 DEF SendEvent, TypeOK
<1>7. ASSUME NEW q \in Queries, AskFails(q) PROVE TypeOK'
  <2>1. [ask[q] EXCEPT !.pc = "failed"] \in Ask
    BY <1>a, <1>o, RecordsStayTyped DEF AskPcs
  <2> QED
    BY <1>7, <2>1 DEF AskFails, TypeOK
<1>8. ASSUME NEW x \in Decisions, NEW q \in Queries, NEW approves \in BOOLEAN,
             LoadPending(x, q, approves)
      PROVE  TypeOK'
  <2>1. [pc |-> "loaded", approves |-> approves, query |-> q, seen |-> row[q],
         answer |-> None] \in Decision
    BY DEF Decision, DecisionPcs, TypeOK
  <2>2. dec' \in [Decisions -> Decision]
    BY <1>8, <2>1 DEF LoadPending, IdleDecision, TypeOK
  <2> QED
    BY <1>8, <2>2, LoadEffect DEF TypeOK
<1>9. ASSUME NEW x \in Decisions, NEW c \in Lists \cup {None}, ApproveQuery(x, c)
      PROVE  TypeOK'
  <2>1. [by |-> x, cites |-> c] \in Answer
    BY DEF Answer, Writers
  <2>2. [dec[x] EXCEPT !.pc = "flushed", !.answer = [by |-> x, cites |-> c]] \in Decision
    BY <1>d, <2>1, RecordsStayTyped DEF DecisionPcs
  <2>3. dec' \in [Decisions -> Decision]
    BY <1>9, <2>2 DEF ApproveQuery, TypeOK
  <2>4. dec'[x].query = dec[x].query /\ dec[x].pc # "idle"
    BY <1>9, ApproveEffect DEF ApproveColumns
  <2>5. ApproveColumns(x, c)
    BY <1>9, ApproveEffect
  <2> QED
    BY <2>3, <2>4, <2>5 DEF ApproveColumns, TypeOK
<1>10. ASSUME NEW x \in Decisions, RejectQuery(x) PROVE TypeOK'
  <2>1. [dec[x] EXCEPT !.pc = "flushed"] \in Decision
    BY <1>d, RecordsStayTyped DEF DecisionPcs
  <2> QED
    BY <1>10, <1>d, <2>1 DEF RejectQuery, TypeOK
<1>11. ASSUME NEW x \in Decisions, CommitDecision(x) PROVE TypeOK'
  <2>1. [dec[x] EXCEPT !.pc = "committed"] \in Decision
    BY <1>d, RecordsStayTyped DEF DecisionPcs
  <2>2. CommitColumns(x)
    BY <1>11, CommitEffect
  <2>3. dec[x].query \in Queries /\ Updated(x) \in Row
    BY <2>2, UpdatedType DEF CommitColumns
  <2> QED
    BY <1>11, <1>d, <2>1, <2>3 DEF CommitDecision, Events, TypeOK
<1>12. ASSUME NEW x \in Decisions, DecisionFails(x) PROVE TypeOK'
  <2>1. [dec[x] EXCEPT !.pc = "failed"] \in Decision
    BY <1>d, RecordsStayTyped DEF DecisionPcs
  <2> QED
    BY <1>12, <1>d, <2>1 DEF DecisionFails, TypeOK
<1>13. CASE UNCHANGED vars
  BY <1>13 DEF vars, TypeOK
<1> QED
  BY <1>1, <1>2, <1>3, <1>4, <1>5, <1>6, <1>7, <1>8, <1>9, <1>10, <1>11, <1>12, <1>13
     DEF Next, AskStep, DecisionStep

(* The commit of a question's row: it was absent, nothing was recorded, and *)
(* no decision has loaded it.                                              *)
StoreColumns(q) ==
    /\ row[q] = Absent /\ trail[q] = {} /\ last[q] = None
    /\ \A y \in Decisions : dec[y].pc # "idle" => dec[y].query # q
    /\ row'[q].status \in {"pending_approval", "failed", "completed"}
    /\ row'[q].status = "pending_approval" => row'[q].answer = None
    /\ row'[q].citations = CitationsOf(row'[q].answer)
    /\ trail'[q] = {IF row'[q].status = "pending_approval"
                    THEN "query.pending_approval" ELSE "query.answered"}
    /\ \A p \in Queries : p # q => row'[p] = row[p] /\ trail'[p] = trail[p]

LEMMA StoreEffect ==
    ASSUME IInv, NEW q \in Queries, ask[q].pc \in {"flushed", "responded"}, Stored(q)
    PROVE  StoreColumns(q)
<1>1. ask[q].stream \in BOOLEAN /\ ask[q].out \in Outcomes(ask[q].stream)
  BY DEF IInv, AskInOrder, TypeOK, Ask
<1>2. row'[q] = ask[q].out /\ trail'[q] = {IF ask[q].out.status = "pending_approval"
                                          THEN "query.pending_approval" ELSE "query.answered"}
  BY DEF Stored, IInv, TypeOK
<1>3. \A p \in Queries : p # q => row'[p] = row[p] /\ trail'[p] = trail[p]
  BY DEF Stored, IInv, TypeOK
<1>4. row[q].status = "absent"
  BY DEF IInv, AbsentUntilStored
<1>5. row[q] = Absent /\ trail[q] = {} /\ last[q] = None
  BY <1>4 DEF IInv, AbsentUntilStored
<1>6. \A y \in Decisions : dec[y].pc # "idle" => dec[y].query # q
  BY <1>4 DEF IInv, LoadedEarlier
<1> QED
  BY <1>1, <1>2, <1>3, <1>5, <1>6, OutcomeShape DEF StoreColumns

LEMMA AbsentStep == ASSUME IInv, [Next]_vars, TypeOK'
    PROVE  \A p \in Queries : AbsentUntilStored(p)'
<1> USE DEF IInv, TypeOK, AbsentUntilStored, LoadedEarlier
<1>1. ASSUME NEW q \in Queries, NEW stream \in BOOLEAN, Submit(q, stream)
      PROVE  \A p \in Queries : AbsentUntilStored(p)'
  BY <1>1 DEF Submit
<1>2. ASSUME NEW q \in Queries, NEW r \in Outcomes(ask[q].stream), Persist(q, r)
      PROVE  \A p \in Queries : AbsentUntilStored(p)'
  BY <1>2 DEF Persist
<1>3. ASSUME NEW q \in Queries, Respond(q) PROVE \A p \in Queries : AbsentUntilStored(p)'
  BY <1>3 DEF Respond
<1>4. ASSUME NEW q \in Queries, CommitAsk(q) PROVE \A p \in Queries : AbsentUntilStored(p)'
  <2>1. StoreColumns(q)
    BY <1>4, StoreEffect DEF CommitAsk
  <2> QED
    BY <1>4, <2>1 DEF CommitAsk, StoreColumns
<1>5. ASSUME NEW q \in Queries, CommitStream(q)
      PROVE  \A p \in Queries : AbsentUntilStored(p)'
  <2>1. StoreColumns(q)
    BY <1>5, StoreEffect DEF CommitStream
  <2> QED
    BY <1>5, <2>1 DEF CommitStream, StoreColumns
<1>6. ASSUME NEW q \in Queries, SendEvent(q) PROVE \A p \in Queries : AbsentUntilStored(p)'
  BY <1>6 DEF SendEvent
<1>7. ASSUME NEW q \in Queries, AskFails(q) PROVE \A p \in Queries : AbsentUntilStored(p)'
  BY <1>7 DEF AskFails
<1>8. ASSUME NEW x \in Decisions, NEW q \in Queries, NEW approves \in BOOLEAN,
             LoadPending(x, q, approves)
      PROVE  \A p \in Queries : AbsentUntilStored(p)'
  BY <1>8, LoadEffect
<1>9. ASSUME NEW x \in Decisions, NEW c \in Lists \cup {None}, ApproveQuery(x, c)
      PROVE  \A p \in Queries : AbsentUntilStored(p)'
  <2>1. ApproveColumns(x, c)
    BY <1>9, ApproveEffect
  <2> QED
    BY <2>1 DEF ApproveColumns
<1>10. ASSUME NEW x \in Decisions, RejectQuery(x)
      PROVE  \A p \in Queries : AbsentUntilStored(p)'
  BY <1>10 DEF RejectQuery
<1>11. ASSUME NEW x \in Decisions, CommitDecision(x)
      PROVE  \A p \in Queries : AbsentUntilStored(p)'
  <2>1. CommitColumns(x)
    BY <1>11, CommitEffect
  <2> QED
    BY <2>1 DEF CommitColumns, Updated, Verdict, Written
<1>12. ASSUME NEW x \in Decisions, DecisionFails(x)
      PROVE  \A p \in Queries : AbsentUntilStored(p)'
  BY <1>12 DEF DecisionFails
<1>13. CASE UNCHANGED vars
  BY <1>13 DEF vars
<1> QED
  BY <1>1, <1>2, <1>3, <1>4, <1>5, <1>6, <1>7, <1>8, <1>9, <1>10, <1>11, <1>12,
     <1>13 DEF Next, AskStep, DecisionStep

LEMMA AskOrderStep == ASSUME IInv, [Next]_vars, TypeOK'
    PROVE  \A p \in Queries : AskInOrder(p)'
<1> USE DEF IInv, TypeOK, AskInOrder
<1>1. ASSUME NEW q \in Queries, NEW stream \in BOOLEAN, Submit(q, stream)
      PROVE  \A p \in Queries : AskInOrder(p)'
  BY <1>1 DEF Submit
<1>2. ASSUME NEW q \in Queries, NEW r \in Outcomes(ask[q].stream), Persist(q, r)
      PROVE  \A p \in Queries : AskInOrder(p)'
  BY <1>2 DEF Persist
<1>3. ASSUME NEW q \in Queries, Respond(q) PROVE \A p \in Queries : AskInOrder(p)'
  BY <1>3 DEF Respond
<1>4. ASSUME NEW q \in Queries, CommitAsk(q) PROVE \A p \in Queries : AskInOrder(p)'
  <2>1. StoreColumns(q)
    BY <1>4, StoreEffect DEF CommitAsk
  <2> QED
    BY <1>4, <2>1 DEF CommitAsk, StoreColumns
<1>5. ASSUME NEW q \in Queries, CommitStream(q) PROVE \A p \in Queries : AskInOrder(p)'
  <2>1. StoreColumns(q)
    BY <1>5, StoreEffect DEF CommitStream
  <2> QED
    BY <1>5, <2>1 DEF CommitStream, StoreColumns
<1>6. ASSUME NEW q \in Queries, SendEvent(q) PROVE \A p \in Queries : AskInOrder(p)'
  BY <1>6 DEF SendEvent
<1>7. ASSUME NEW q \in Queries, AskFails(q) PROVE \A p \in Queries : AskInOrder(p)'
  BY <1>7 DEF AskFails
<1>8. ASSUME NEW x \in Decisions, NEW q \in Queries, NEW approves \in BOOLEAN,
             LoadPending(x, q, approves)
      PROVE  \A p \in Queries : AskInOrder(p)'
  BY <1>8, LoadEffect
<1>9. ASSUME NEW x \in Decisions, NEW c \in Lists \cup {None}, ApproveQuery(x, c)
      PROVE  \A p \in Queries : AskInOrder(p)'
  <2>1. ApproveColumns(x, c)
    BY <1>9, ApproveEffect
  <2> QED
    BY <2>1 DEF ApproveColumns
<1>10. ASSUME NEW x \in Decisions, RejectQuery(x) PROVE \A p \in Queries : AskInOrder(p)'
  BY <1>10 DEF RejectQuery
<1>11. ASSUME NEW x \in Decisions, CommitDecision(x) PROVE \A p \in Queries : AskInOrder(p)'
  <2>1. CommitColumns(x)
    BY <1>11, CommitEffect
  <2> QED
    BY <2>1 DEF CommitColumns
<1>12. ASSUME NEW x \in Decisions, DecisionFails(x) PROVE \A p \in Queries : AskInOrder(p)'
  BY <1>12 DEF DecisionFails
<1>13. CASE UNCHANGED vars
  BY <1>13 DEF vars
<1> QED
  BY <1>1, <1>2, <1>3, <1>4, <1>5, <1>6, <1>7, <1>8, <1>9, <1>10, <1>11, <1>12,
     <1>13 DEF Next, AskStep, DecisionStep

LEMMA DecidersStep == ASSUME IInv, [Next]_vars, TypeOK'
    PROVE  \A p \in Queries : DecidersCommitted(p)'
<1> USE DEF IInv, TypeOK, DecidersCommitted
<1>1. ASSUME NEW q \in Queries, NEW stream \in BOOLEAN, Submit(q, stream)
      PROVE  \A p \in Queries : DecidersCommitted(p)'
  BY <1>1 DEF Submit
<1>2. ASSUME NEW q \in Queries, NEW r \in Outcomes(ask[q].stream), Persist(q, r)
      PROVE  \A p \in Queries : DecidersCommitted(p)'
  BY <1>2 DEF Persist
<1>3. ASSUME NEW q \in Queries, Respond(q) PROVE \A p \in Queries : DecidersCommitted(p)'
  BY <1>3 DEF Respond
<1>4. ASSUME NEW q \in Queries, CommitAsk(q) PROVE \A p \in Queries : DecidersCommitted(p)'
  <2>1. StoreColumns(q)
    BY <1>4, StoreEffect DEF CommitAsk
  <2> QED
    BY <1>4, <2>1 DEF CommitAsk, StoreColumns
<1>5. ASSUME NEW q \in Queries, CommitStream(q)
      PROVE  \A p \in Queries : DecidersCommitted(p)'
  <2>1. StoreColumns(q)
    BY <1>5, StoreEffect DEF CommitStream
  <2> QED
    BY <1>5, <2>1 DEF CommitStream, StoreColumns
<1>6. ASSUME NEW q \in Queries, SendEvent(q) PROVE \A p \in Queries : DecidersCommitted(p)'
  BY <1>6 DEF SendEvent
<1>7. ASSUME NEW q \in Queries, AskFails(q) PROVE \A p \in Queries : DecidersCommitted(p)'
  BY <1>7 DEF AskFails
<1>8. ASSUME NEW x \in Decisions, NEW q \in Queries, NEW approves \in BOOLEAN,
             LoadPending(x, q, approves)
      PROVE  \A p \in Queries : DecidersCommitted(p)'
  BY <1>8, LoadEffect
<1>9. ASSUME NEW x \in Decisions, NEW c \in Lists \cup {None}, ApproveQuery(x, c)
      PROVE  \A p \in Queries : DecidersCommitted(p)'
  <2>1. ApproveColumns(x, c)
    BY <1>9, ApproveEffect
  <2> QED
    BY <2>1 DEF ApproveColumns
<1>10. ASSUME NEW x \in Decisions, RejectQuery(x)
      PROVE  \A p \in Queries : DecidersCommitted(p)'
  BY <1>10 DEF RejectQuery
<1>11. ASSUME NEW x \in Decisions, CommitDecision(x)
      PROVE  \A p \in Queries : DecidersCommitted(p)'
  <2>1. CommitColumns(x)
    BY <1>11, CommitEffect
  <2> QED
    BY <2>1 DEF CommitColumns
<1>12. ASSUME NEW x \in Decisions, DecisionFails(x)
      PROVE  \A p \in Queries : DecidersCommitted(p)'
  BY <1>12 DEF DecisionFails
<1>13. CASE UNCHANGED vars
  BY <1>13 DEF vars
<1> QED
  BY <1>1, <1>2, <1>3, <1>4, <1>5, <1>6, <1>7, <1>8, <1>9, <1>10, <1>11, <1>12,
     <1>13 DEF Next, AskStep, DecisionStep

LEMMA LoadedStep == ASSUME IInv, [Next]_vars, TypeOK'
    PROVE  \A y \in Decisions : LoadedEarlier(y)'
<1> USE DEF IInv, TypeOK, LoadedEarlier, DecidersCommitted
<1>1. ASSUME NEW q \in Queries, NEW stream \in BOOLEAN, Submit(q, stream)
      PROVE  \A y \in Decisions : LoadedEarlier(y)'
  BY <1>1 DEF Submit
<1>2. ASSUME NEW q \in Queries, NEW r \in Outcomes(ask[q].stream), Persist(q, r)
      PROVE  \A y \in Decisions : LoadedEarlier(y)'
  BY <1>2 DEF Persist
<1>3. ASSUME NEW q \in Queries, Respond(q) PROVE \A y \in Decisions : LoadedEarlier(y)'
  BY <1>3 DEF Respond
<1>4. ASSUME NEW q \in Queries, CommitAsk(q) PROVE \A y \in Decisions : LoadedEarlier(y)'
  <2>1. StoreColumns(q)
    BY <1>4, StoreEffect DEF CommitAsk
  <2> QED
    BY <1>4, <2>1 DEF CommitAsk, StoreColumns
<1>5. ASSUME NEW q \in Queries, CommitStream(q) PROVE \A y \in Decisions : LoadedEarlier(y)'
  <2>1. StoreColumns(q)
    BY <1>5, StoreEffect DEF CommitStream
  <2> QED
    BY <1>5, <2>1 DEF CommitStream, StoreColumns
<1>6. ASSUME NEW q \in Queries, SendEvent(q) PROVE \A y \in Decisions : LoadedEarlier(y)'
  BY <1>6 DEF SendEvent
<1>7. ASSUME NEW q \in Queries, AskFails(q) PROVE \A y \in Decisions : LoadedEarlier(y)'
  BY <1>7 DEF AskFails
<1>8. ASSUME NEW x \in Decisions, NEW q \in Queries, NEW approves \in BOOLEAN,
             LoadPending(x, q, approves)
      PROVE  \A y \in Decisions : LoadedEarlier(y)'
  <2>1. LoadedEarlier(x)'
    BY <1>8, LoadEffect
  <2>2. ASSUME NEW y \in Decisions, y # x PROVE LoadedEarlier(y)'
    BY <1>8, <2>2, LoadEffect
  <2> QED
    BY <2>1, <2>2
<1>9. ASSUME NEW x \in Decisions, NEW c \in Lists \cup {None}, ApproveQuery(x, c)
      PROVE  \A y \in Decisions : LoadedEarlier(y)'
  <2>1. ApproveColumns(x, c)
    BY <1>9, ApproveEffect
  <2> QED
    BY <2>1 DEF ApproveColumns
<1>10. ASSUME NEW x \in Decisions, RejectQuery(x)
      PROVE  \A y \in Decisions : LoadedEarlier(y)'
  BY <1>10 DEF RejectQuery
<1>11. ASSUME NEW x \in Decisions, CommitDecision(x)
      PROVE  \A y \in Decisions : LoadedEarlier(y)'
  <2>1. CommitColumns(x)
    BY <1>11, CommitEffect
  <2>2. /\ row'[dec[x].query].status # "absent"
        /\ row[dec[x].query].status # "pending_approval" =>
              row'[dec[x].query].status # "pending_approval"
        /\ dec[x].seen.status \notin {"absent", "pending_approval"} =>
              row'[dec[x].query].status # "pending_approval"
    BY <2>1 DEF CommitColumns, Updated, Verdict, Written
  <2> QED
    BY <2>1, <2>2 DEF CommitColumns
<1>12. ASSUME NEW x \in Decisions, DecisionFails(x)
      PROVE  \A y \in Decisions : LoadedEarlier(y)'
  BY <1>12 DEF DecisionFails
<1>13. CASE UNCHANGED vars
  BY <1>13 DEF vars
<1> QED
  BY <1>1, <1>2, <1>3, <1>4, <1>5, <1>6, <1>7, <1>8, <1>9, <1>10, <1>11, <1>12,
     <1>13 DEF Next, AskStep, DecisionStep

(* A decision under way, and a row that changes only by an approval.        *)
LEMMA SinceAsBefore ==
    ASSUME IInv, \A z \in Decisions : dec[z].pc = "committed" => dec'[z] = dec[z],
           NEW y \in Decisions, dec[y].pc # "idle",
           dec'[y].query = dec[y].query, dec'[y].seen = dec[y].seen,
           \/ row'[dec[y].query].citations = row[dec[y].query].citations
           \/ \E z \in Decisions :
                  Approved(dec'[z], dec[y].query, row'[dec[y].query].citations)
    PROVE  CitationsSince(y)'
<1>1. \/ row[dec[y].query].citations = dec[y].seen.citations
      \/ \E z \in Decisions : Approved(dec[z], dec[y].query, row[dec[y].query].citations)
  BY DEF IInv, CitationsSince
<1>2. ASSUME NEW z \in Decisions,
             Approved(dec[z], dec[y].query, row[dec[y].query].citations)
      PROVE  Approved(dec'[z], dec[y].query, row[dec[y].query].citations)
  BY <1>2 DEF Approved
<1>3. \/ row'[dec[y].query].citations = dec[y].seen.citations
      \/ \E z \in Decisions : Approved(dec'[z], dec[y].query, row'[dec[y].query].citations)
  BY <1>1, <1>2
<1> QED
  BY <1>3 DEF CitationsSince, Approved, CitationsOf

LEMMA SinceStep == ASSUME IInv, [Next]_vars, TypeOK'
    PROVE  \A y \in Decisions : CitationsSince(y)'
<1> SUFFICES ASSUME NEW y \in Decisions, dec'[y].pc # "idle" PROVE CitationsSince(y)'
  BY DEF CitationsSince
<1>1. CASE UNCHANGED vars
  BY <1>1, SinceAsBefore DEF vars
<1>2. ASSUME NEW q \in Queries, AskStep(q) PROVE CitationsSince(y)'
  <2>1. UNCHANGED dec
    BY <1>2 DEF AskStep, Submit, Persist, Respond, CommitAsk, CommitStream, SendEvent, AskFails
  <2>2. CASE CommitAsk(q) \/ CommitStream(q)
    <3>1. StoreColumns(q)
      BY <2>2, StoreEffect DEF CommitAsk, CommitStream
    <3>2. row'[dec[y].query] = row[dec[y].query]
      BY <2>1, <3>1 DEF StoreColumns, IInv, TypeOK
    <3> QED
      BY <2>1, <3>2, SinceAsBefore
  <2>3. CASE UNCHANGED row
    BY <2>1, <2>3, SinceAsBefore
  <2> QED
    BY <1>2, <2>2, <2>3 DEF AskStep, Submit, Persist, Respond, SendEvent, AskFails
<1>3. ASSUME NEW x \in Decisions, NEW q \in Queries, NEW approves \in BOOLEAN,
             LoadPending(x, q, approves)
      PROVE  CitationsSince(y)'
  <2>1. CASE y = x
    <3>1. dec'[x].query = q /\ dec'[x].seen = row[q] /\ row' = row
      <4>1. TypeOK
        BY DEF IInv
      <4>2. dec'[x] = [pc |-> "loaded", approves |-> approves, query |-> q,
                       seen |-> row[q], answer |-> None]
            /\ UNCHANGED row
        BY <1>3, <4>1, LoadEffect, Zenon
      <4> QED
        BY <4>2
    <3> QED
      BY <2>1, <3>1 DEF CitationsSince
  <2>2. CASE y # x
    <3>1. dec'[y] = dec[y] /\ row' = row /\ dec[x].pc = "idle"
          /\ \A z \in Decisions : z # x => dec'[z] = dec[z]
      <4>1. TypeOK
        BY DEF IInv
      <4> QED
        BY <1>3, <2>2, <4>1, LoadEffect
    <3> QED
      BY <3>1, SinceAsBefore
  <2> QED
    BY <2>1, <2>2
<1>4. ASSUME NEW x \in Decisions, NEW c \in Lists \cup {None}, ApproveQuery(x, c)
      PROVE  CitationsSince(y)'
  <2>1. ApproveColumns(x, c)
    BY <1>4, ApproveEffect DEF IInv
  <2> QED
    BY <2>1, SinceAsBefore DEF ApproveColumns
<1>5. ASSUME NEW x \in Decisions, RejectQuery(x) \/ DecisionFails(x) PROVE CitationsSince(y)'
  <2>1. /\ \A z \in Decisions : z # x => dec'[z] = dec[z]
        /\ dec[x].pc \in {"loaded", "flushed"} /\ row' = row
        /\ dec'[x].query = dec[x].query /\ dec'[x].seen = dec[x].seen
    BY <1>5 DEF RejectQuery, DecisionFails, IInv, TypeOK, Decision
  <2> QED
    BY <2>1, SinceAsBefore
<1>6. ASSUME NEW x \in Decisions, CommitDecision(x) PROVE CitationsSince(y)'
  <2>1. CommitColumns(x)
    BY <1>6, CommitEffect DEF IInv
  <2>2. /\ \A z \in Decisions : dec[z].pc = "committed" => dec'[z] = dec[z]
        /\ dec[y].pc # "idle" /\ dec'[y].query = dec[y].query /\ dec'[y].seen = dec[y].seen
        /\ dec[y].query \in Queries
    BY <2>1 DEF CommitColumns, IInv, TypeOK
  <2>3. CASE dec[y].query # dec[x].query
    BY <2>1, <2>2, <2>3, SinceAsBefore DEF CommitColumns
  <2>4. CASE dec[y].query = dec[x].query
    <3>1. \/ row'[dec[x].query].citations = row[dec[x].query].citations
          \/ dec[x].approves /\ row'[dec[x].query].citations = CitationsOf(dec[x].answer)
      BY <2>1 DEF CommitColumns, Updated, Written
    <3>2. dec[x].approves /\ row'[dec[x].query].citations = CitationsOf(dec[x].answer) =>
              Approved(dec'[x], dec[x].query, row'[dec[x].query].citations)
      BY <2>1 DEF CommitColumns, Approved
    <3> QED
      BY <2>2, <2>4, <3>1, <3>2, SinceAsBefore
  <2> QED
    BY <2>3, <2>4
<1> QED
  BY <1>1, <1>2, <1>3, <1>4, <1>5, <1>6 DEF Next, DecisionStep

LEMMA AnswerStep == ASSUME IInv, [Next]_vars, TypeOK'
    PROVE  \A y \in Decisions : AnswerIsOwn(y)'
<1> USE DEF IInv, TypeOK, AnswerIsOwn
<1>1. ASSUME NEW q \in Queries, NEW stream \in BOOLEAN, Submit(q, stream)
      PROVE  \A y \in Decisions : AnswerIsOwn(y)'
  BY <1>1 DEF Submit
<1>2. ASSUME NEW q \in Queries, NEW r \in Outcomes(ask[q].stream), Persist(q, r)
      PROVE  \A y \in Decisions : AnswerIsOwn(y)'
  BY <1>2 DEF Persist
<1>3. ASSUME NEW q \in Queries, Respond(q) PROVE \A y \in Decisions : AnswerIsOwn(y)'
  BY <1>3 DEF Respond
<1>4. ASSUME NEW q \in Queries, CommitAsk(q) PROVE \A y \in Decisions : AnswerIsOwn(y)'
  <2>1. StoreColumns(q)
    BY <1>4, StoreEffect DEF CommitAsk
  <2> QED
    BY <1>4, <2>1 DEF CommitAsk, StoreColumns
<1>5. ASSUME NEW q \in Queries, CommitStream(q) PROVE \A y \in Decisions : AnswerIsOwn(y)'
  <2>1. StoreColumns(q)
    BY <1>5, StoreEffect DEF CommitStream
  <2> QED
    BY <1>5, <2>1 DEF CommitStream, StoreColumns
<1>6. ASSUME NEW q \in Queries, SendEvent(q) PROVE \A y \in Decisions : AnswerIsOwn(y)'
  BY <1>6 DEF SendEvent
<1>7. ASSUME NEW q \in Queries, AskFails(q) PROVE \A y \in Decisions : AnswerIsOwn(y)'
  BY <1>7 DEF AskFails
<1>8. ASSUME NEW x \in Decisions, NEW q \in Queries, NEW approves \in BOOLEAN,
             LoadPending(x, q, approves)
      PROVE  \A y \in Decisions : AnswerIsOwn(y)'
  BY <1>8, LoadEffect
<1>9. ASSUME NEW x \in Decisions, NEW c \in Lists \cup {None}, ApproveQuery(x, c)
      PROVE  \A y \in Decisions : AnswerIsOwn(y)'
  <2>1. ApproveColumns(x, c)
    BY <1>9, ApproveEffect
  <2> QED
    BY <2>1 DEF ApproveColumns
<1>10. ASSUME NEW x \in Decisions, RejectQuery(x) PROVE \A y \in Decisions : AnswerIsOwn(y)'
  BY <1>10 DEF RejectQuery
<1>11. ASSUME NEW x \in Decisions, CommitDecision(x)
      PROVE  \A y \in Decisions : AnswerIsOwn(y)'
  <2>1. CommitColumns(x)
    BY <1>11, CommitEffect
  <2> QED
    BY <2>1 DEF CommitColumns
<1>12. ASSUME NEW x \in Decisions, DecisionFails(x)
      PROVE  \A y \in Decisions : AnswerIsOwn(y)'
  BY <1>12 DEF DecisionFails
<1>13. CASE UNCHANGED vars
  BY <1>13 DEF vars
<1> QED
  BY <1>1, <1>2, <1>3, <1>4, <1>5, <1>6, <1>7, <1>8, <1>9, <1>10, <1>11, <1>12,
     <1>13 DEF Next, AskStep, DecisionStep

LEMMA TrailStep == ASSUME IInv, [Next]_vars, TypeOK'
    PROVE  TrailExplainsRow'
<1> USE DEF IInv, TypeOK, TrailExplainsRow, TrailExplains
<1>1. ASSUME NEW q \in Queries, NEW stream \in BOOLEAN, Submit(q, stream)
      PROVE  TrailExplainsRow'
  BY <1>1 DEF Submit
<1>2. ASSUME NEW q \in Queries, NEW r \in Outcomes(ask[q].stream), Persist(q, r)
      PROVE  TrailExplainsRow'
  BY <1>2 DEF Persist
<1>3. ASSUME NEW q \in Queries, Respond(q) PROVE TrailExplainsRow'
  BY <1>3 DEF Respond
<1>4. ASSUME NEW q \in Queries, CommitAsk(q) PROVE TrailExplainsRow'
  <2>1. StoreColumns(q)
    BY <1>4, StoreEffect DEF CommitAsk
  <2>2. TrailExplains(q)'
    BY <2>1 DEF StoreColumns
  <2>3. ASSUME NEW p \in Queries, p # q PROVE TrailExplains(p)'
    BY <2>1, <2>3 DEF StoreColumns
  <2> QED
    BY <2>2, <2>3
<1>5. ASSUME NEW q \in Queries, CommitStream(q) PROVE TrailExplainsRow'
  <2>1. StoreColumns(q)
    BY <1>5, StoreEffect DEF CommitStream
  <2>2. TrailExplains(q)'
    BY <2>1 DEF StoreColumns
  <2>3. ASSUME NEW p \in Queries, p # q PROVE TrailExplains(p)'
    BY <2>1, <2>3 DEF StoreColumns
  <2> QED
    BY <2>2, <2>3
<1>6. ASSUME NEW q \in Queries, SendEvent(q) PROVE TrailExplainsRow'
  BY <1>6 DEF SendEvent
<1>7. ASSUME NEW q \in Queries, AskFails(q) PROVE TrailExplainsRow'
  BY <1>7 DEF AskFails
<1>8. ASSUME NEW x \in Decisions, NEW q \in Queries, NEW approves \in BOOLEAN,
             LoadPending(x, q, approves)
      PROVE  TrailExplainsRow'
  BY <1>8, LoadEffect
<1>9. ASSUME NEW x \in Decisions, NEW c \in Lists \cup {None}, ApproveQuery(x, c)
      PROVE  TrailExplainsRow'
  <2>1. ApproveColumns(x, c)
    BY <1>9, ApproveEffect
  <2> QED
    BY <2>1 DEF ApproveColumns
<1>10. ASSUME NEW x \in Decisions, RejectQuery(x) PROVE TrailExplainsRow'
  BY <1>10 DEF RejectQuery
<1>11. ASSUME NEW x \in Decisions, CommitDecision(x) PROVE TrailExplainsRow'
  <2>1. CommitColumns(x)
    BY <1>11, CommitEffect
  <2> QED
    BY <2>1 DEF CommitColumns, Updated, Verdict, Written, LoadedEarlier, AnswerIsOwn
<1>12. ASSUME NEW x \in Decisions, DecisionFails(x) PROVE TrailExplainsRow'
  BY <1>12 DEF DecisionFails
<1>13. CASE UNCHANGED vars
  BY <1>13 DEF vars
<1> QED
  BY <1>1, <1>2, <1>3, <1>4, <1>5, <1>6, <1>7, <1>8, <1>9, <1>10, <1>11, <1>12,
     <1>13 DEF Next, AskStep, DecisionStep

LEMMA LastStep == ASSUME IInv, [Next]_vars, TypeOK'
    PROVE  LastDecisionStands'
<1> USE DEF IInv, TypeOK, LastDecisionStands, Verdict, DecidersCommitted
<1>1. ASSUME NEW q \in Queries, NEW stream \in BOOLEAN, Submit(q, stream)
      PROVE  LastDecisionStands'
  BY <1>1 DEF Submit
<1>2. ASSUME NEW q \in Queries, NEW r \in Outcomes(ask[q].stream), Persist(q, r)
      PROVE  LastDecisionStands'
  BY <1>2 DEF Persist
<1>3. ASSUME NEW q \in Queries, Respond(q) PROVE LastDecisionStands'
  BY <1>3 DEF Respond
<1>4. ASSUME NEW q \in Queries, CommitAsk(q) PROVE LastDecisionStands'
  <2>1. StoreColumns(q)
    BY <1>4, StoreEffect DEF CommitAsk
  <2> QED
    BY <1>4, <2>1 DEF CommitAsk, StoreColumns
<1>5. ASSUME NEW q \in Queries, CommitStream(q) PROVE LastDecisionStands'
  <2>1. StoreColumns(q)
    BY <1>5, StoreEffect DEF CommitStream
  <2> QED
    BY <1>5, <2>1 DEF CommitStream, StoreColumns
<1>6. ASSUME NEW q \in Queries, SendEvent(q) PROVE LastDecisionStands'
  BY <1>6 DEF SendEvent
<1>7. ASSUME NEW q \in Queries, AskFails(q) PROVE LastDecisionStands'
  BY <1>7 DEF AskFails
<1>8. ASSUME NEW x \in Decisions, NEW q \in Queries, NEW approves \in BOOLEAN,
             LoadPending(x, q, approves)
      PROVE  LastDecisionStands'
  BY <1>8, LoadEffect
<1>9. ASSUME NEW x \in Decisions, NEW c \in Lists \cup {None}, ApproveQuery(x, c)
      PROVE  LastDecisionStands'
  <2>1. ApproveColumns(x, c)
    BY <1>9, ApproveEffect
  <2> QED
    BY <2>1 DEF ApproveColumns
<1>10. ASSUME NEW x \in Decisions, RejectQuery(x) PROVE LastDecisionStands'
  BY <1>10 DEF RejectQuery
<1>11. ASSUME NEW x \in Decisions, CommitDecision(x) PROVE LastDecisionStands'
  <2>1. CommitColumns(x)
    BY <1>11, CommitEffect
  <2> QED
    BY <2>1 DEF CommitColumns, Updated, Verdict, Written
<1>12. ASSUME NEW x \in Decisions, DecisionFails(x) PROVE LastDecisionStands'
  BY <1>12 DEF DecisionFails
<1>13. CASE UNCHANGED vars
  BY <1>13 DEF vars
<1> QED
  BY <1>1, <1>2, <1>3, <1>4, <1>5, <1>6, <1>7, <1>8, <1>9, <1>10, <1>11, <1>12,
     <1>13 DEF Next, AskStep, DecisionStep

(* What parts the answer and the citations of row r: see the property.      *)
Parted(D, r, q) ==
    \E x, y \in Decisions :
        /\ x # y /\ D[x].query = q /\ D[y].query = q
        /\ D[x].pc = "committed" /\ D[y].pc = "committed"
        /\ D[x].approves /\ D[y].approves
        /\ r.answer = D[x].answer
        /\ D[x].seen.citations = CitationsOf(D[x].answer)
        /\ r.citations = CitationsOf(D[y].answer)

LEMMA PartedSays ==
    /\ CitationsPartOnlyByOverlap <=>
          \A q \in Queries : row[q].citations # CitationsOf(row[q].answer) =>
              Parted(dec, row[q], q)
    /\ CitationsPartOnlyByOverlap' <=>
          \A q \in Queries : row'[q].citations # CitationsOf(row'[q].answer) =>
              Parted(dec', row'[q], q)
  BY DEF CitationsPartOnlyByOverlap, CitationsMatch, CitationsOf, Parted

(* A row keeps its answer and citations: what parted them still does.       *)
LEMMA PartedAsBefore ==
    ASSUME IInv, \A z \in Decisions : dec[z].pc = "committed" => dec'[z] = dec[z],
           NEW q \in Queries,
           row'[q].answer = row[q].answer, row'[q].citations = row[q].citations,
           row'[q].citations # CitationsOf(row'[q].answer)
    PROVE  Parted(dec', row'[q], q)
<1>1. Parted(dec, row[q], q)
  BY PartedSays DEF IInv
<1>2. PICK w, y \in Decisions :
          /\ w # y /\ dec[w].query = q /\ dec[y].query = q
          /\ dec[w].pc = "committed" /\ dec[y].pc = "committed"
          /\ dec[w].approves /\ dec[y].approves
          /\ row[q].answer = dec[w].answer
          /\ dec[w].seen.citations = CitationsOf(dec[w].answer)
          /\ row[q].citations = CitationsOf(dec[y].answer)
  BY <1>1 DEF Parted
<1>3. dec'[w] = dec[w] /\ dec'[y] = dec[y]
  BY <1>2
<1> QED
  BY <1>2, <1>3 DEF Parted

(* The commit of an approval that leaves the column as it is: what it found *)
(* there it cites itself, and another approval stored what is there now.    *)
LEMMA PartedByApproval ==
    ASSUME IInv, NEW x \in Decisions, CommitColumns(x), dec[x].approves,
           NEW p \in Queries, dec[x].query = p,
           row'[p].citations # CitationsOf(row'[p].answer)
    PROVE  Parted(dec', row'[p], p)
<1>1. /\ row'[p].answer = dec[x].answer
      /\ row'[p].citations = Written(CitationsOf(dec[x].answer), dec[x].seen.citations,
                                     row[p].citations)
  BY DEF CommitColumns, Updated
<1>2. /\ dec[x].seen.citations = CitationsOf(dec[x].answer)
      /\ row'[p].citations = row[p].citations
  BY <1>1 DEF Written
<1>3. dec[x].pc = "flushed"
  BY DEF CommitColumns
<1>4. PICK y \in Decisions : Approved(dec[y], p, row[p].citations)
  BY <1>1, <1>2, <1>3 DEF IInv, CitationsSince
<1>5. y # x /\ dec'[y] = dec[y]
  BY <1>3, <1>4 DEF CommitColumns, Approved
<1>6. /\ dec'[x].query = p /\ dec'[x].pc = "committed" /\ dec'[x].approves
      /\ dec'[x].answer = dec[x].answer /\ dec'[x].seen = dec[x].seen
  BY DEF CommitColumns
<1> QED
  BY <1>1, <1>2, <1>4, <1>5, <1>6 DEF Parted, Approved

LEMMA CitationStep == ASSUME IInv, [Next]_vars, TypeOK'
    PROVE  CitationsPartOnlyByOverlap'
<1> SUFFICES ASSUME NEW p \in Queries, row'[p].citations # CitationsOf(row'[p].answer)
             PROVE  Parted(dec', row'[p], p)
  BY PartedSays
<1>t. TypeOK
  BY DEF IInv
<1>1. CASE UNCHANGED vars
  BY <1>1, PartedAsBefore DEF vars
<1>2. ASSUME NEW q \in Queries, AskStep(q) PROVE Parted(dec', row'[p], p)
  <2>1. UNCHANGED dec
    BY <1>2 DEF AskStep, Submit, Persist, Respond, CommitAsk, CommitStream, SendEvent, AskFails
  <2>2. CASE CommitAsk(q) \/ CommitStream(q)
    <3>1. StoreColumns(q)
      BY <2>2, StoreEffect DEF CommitAsk, CommitStream
    <3>2. p # q /\ row'[p] = row[p]
      BY <3>1 DEF StoreColumns
    <3> QED
      BY <2>1, <3>2, PartedAsBefore
  <2>3. CASE UNCHANGED row
    BY <2>1, <2>3, PartedAsBefore
  <2> QED
    BY <1>2, <2>2, <2>3 DEF AskStep, Submit, Persist, Respond, SendEvent, AskFails
<1>3. ASSUME NEW x \in Decisions, DecisionStep(x), ~CommitDecision(x)
      PROVE  Parted(dec', row'[p], p)
  <2>1. /\ \A z \in Decisions : z # x => dec'[z] = dec[z]
        /\ dec[x].pc # "committed" /\ row' = row
    BY <1>3, <1>t DEF DecisionStep, LoadPending, ApproveQuery, RejectQuery, DecisionFails, TypeOK
  <2> QED
    BY <2>1, PartedAsBefore
<1>4. ASSUME NEW x \in Decisions, CommitDecision(x) PROVE Parted(dec', row'[p], p)
  <2>1. CommitColumns(x)
    BY <1>4, <1>t, CommitEffect
  <2>2. \A y \in Decisions : dec[y].pc = "committed" => dec'[y] = dec[y]
    BY <2>1 DEF CommitColumns
  <2>3. CASE p # dec[x].query
    <3>1. row'[p] = row[p]
      BY <2>1, <2>3 DEF CommitColumns
    <3> QED
      BY <2>2, <3>1, PartedAsBefore
  <2>4. CASE p = dec[x].query /\ dec[x].approves
    BY <2>1, <2>4, PartedByApproval
  <2>5. CASE p = dec[x].query /\ ~dec[x].approves
    <3>1. row'[p].answer = row[p].answer /\ row'[p].citations = row[p].citations
      BY <2>1, <2>5 DEF CommitColumns, Updated
    <3> QED
      BY <2>2, <3>1, PartedAsBefore
  <2> QED
    BY <2>3, <2>4, <2>5
<1> QED
  BY <1>1, <1>2, <1>3, <1>4 DEF Next

----------------------------------------------------------------------------
LEMMA StepIInv == IInv /\ [Next]_vars => IInv'
<1> SUFFICES ASSUME IInv, [Next]_vars PROVE IInv'
  OBVIOUS
<1>1. TypeOK'
  BY TypeStep DEF IInv
<1> QED
  BY <1>1, AbsentStep, AskOrderStep, DecidersStep, LoadedStep, SinceStep, AnswerStep, TrailStep, LastStep,
     CitationStep DEF IInv

(* The inductive invariant: what a decision loaded is a past of the row it   *)
(* writes, and the trail and the last decision account for the row.          *)
THEOREM Invariance == Spec => []IInv
  BY InitIInv, StepIInv, PTL DEF Spec

(* Every variable of QueryReview keeps its type.                            *)
THEOREM TypeCorrect == Spec => []TypeOK
<1>1. IInv => TypeOK
  BY DEF IInv
<1> QED
  BY <1>1, Invariance, PTL

(* The audit rows account for the query row, whatever decisions overlap.    *)
THEOREM TrailIsExplained == Spec => []TrailExplainsRow
<1>1. IInv => TrailExplainsRow
  BY DEF IInv
<1> QED
  BY <1>1, Invariance, PTL

(* The last decision committed on a query has its way, or found its verdict *)
(* in the row it loaded.                                                   *)
THEOREM LastDecisionHasItsWay == Spec => []LastDecisionStands
<1>1. IInv => LastDecisionStands
  BY DEF IInv
<1> QED
  BY <1>1, Invariance, PTL

(* Citations are not those of the row's answer only when two approvals       *)
(* overlapped and the later one cites what it found in the row it loaded.   *)
THEOREM CitationsPart == Spec => []CitationsPartOnlyByOverlap
<1>1. IInv => CitationsPartOnlyByOverlap
  BY DEF IInv
<1> QED
  BY <1>1, Invariance, PTL

(* A stream's last event names a stored query.                              *)
THEOREM StreamsAreStored == Spec => []StreamedIsStored
<1>1. IInv => StreamedIsStored
  BY DEF IInv, StreamedIsStored, AskInOrder, AbsentUntilStored
<1> QED
  BY <1>1, Invariance, PTL

(* No answer is lost, and no settled query waits again.                     *)
LEMMA UndoneStep ==
    ASSUME IInv, [Next]_vars, NEW p \in Queries
    PROVE  NothingUndone(p)
<1> USE DEF IInv, TypeOK, NothingUndone
<1>1. CASE row'[p] = row[p]
  BY <1>1
<1>2. ASSUME NEW q \in Queries, AskStep(q) PROVE NothingUndone(p)
  <2>1. CASE CommitAsk(q)
    <3>1. StoreColumns(q)
      BY <2>1, StoreEffect DEF CommitAsk
    <3> QED
      BY <3>1 DEF StoreColumns, Absent, RowOf
  <2>2. CASE CommitStream(q)
    <3>1. StoreColumns(q)
      BY <2>2, StoreEffect DEF CommitStream
    <3> QED
      BY <3>1 DEF StoreColumns, Absent, RowOf
  <2>3. CASE UNCHANGED row
    BY <2>3
  <2> QED
    BY <1>2, <2>1, <2>2, <2>3 DEF AskStep, Submit, Persist, Respond, SendEvent, AskFails
<1>3. ASSUME NEW x \in Decisions, DecisionStep(x) PROVE NothingUndone(p)
  <2>1. CASE CommitDecision(x)
    <3>1. CommitColumns(x)
      BY <2>1, CommitEffect
    <3>2. dec[x].approves => dec[x].answer # None
      BY <3>1 DEF CommitColumns, AnswerIsOwn
    <3> QED
      BY <3>1, <3>2 DEF CommitColumns, Updated, Verdict, Written
  <2>2. CASE UNCHANGED row
    BY <2>2
  <2> QED
    BY <1>3, <2>1, <2>2 DEF DecisionStep, LoadPending, ApproveQuery, RejectQuery, DecisionFails
<1> QED
  BY <1>1, <1>2, <1>3 DEF Next, vars

THEOREM NothingIsEverUndone == Spec => NothingIsUndone
<1>1. IInv /\ [Next]_vars => [\A q \in Queries : NothingUndone(q)]_vars
  BY UndoneStep
<1> QED
  BY <1>1, Invariance, PTL DEF Spec, NothingIsUndone
=============================================================================
