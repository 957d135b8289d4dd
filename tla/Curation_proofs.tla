---------------------------- MODULE Curation_proofs ----------------------------
(***************************************************************************)
(* Invariants of Curation, for any number of rows and of requests that     *)
(* overlap in any way.  The first lemmas say what one step of a request    *)
(* does to it and to the rows; then every property gets the inductive      *)
(* invariant it follows from.                                              *)
(***************************************************************************)
EXTENDS Curation, TLAPS

(* The types without the constraints.                                       *)
Typed ==
    /\ segments \in [SegmentIds -> Names \cup {None}]
    /\ entries \in [EntryIds -> Labels \cup Titles \cup {None}]
    /\ tags \subseteq Tag
    /\ policies \in [PolicyIds -> Days \cup {None}]
    /\ req \in [Requests -> Request]
    /\ past \in [Requests -> SUBSET Requests]
    /\ done \subseteq Requests

(* A request between its first statement and its commit.                    *)
Working(q) == q.pc \in {"loaded", "valid", "titled", "ready"}

(* What a request has been asked for fits its endpoint.                     *)
Argued(r, q) ==
    /\ q.kind = "create_segment" => q.name \in Names
    /\ q.kind = "update_segment" =>
          q.target \in SegmentIds /\ q.name \in Names \cup {None} /\ q.old \in Names
    /\ q.kind = "delete_segment" => q.target \in SegmentIds
    /\ q.kind = "set_document_segments" => q.target \in Docs /\ q.retags
    /\ q.kind = "create_objection" => q.name \in Labels /\ q.target = <<r, q.name>> /\ q.retags
    /\ q.kind = "update_objection" =>
          q.target \in ObjectionIds /\ q.name \in Labels \cup {None} /\ q.old \in Labels
    /\ q.kind = "delete_objection" => q.target \in ObjectionIds
    /\ q.kind = "create_ramp_topic" => q.name \in Titles /\ q.target = <<r, q.name>>
    /\ q.kind = "update_ramp_topic" =>
          q.target \in TopicIds /\ q.name \in Titles \cup {None} /\ q.old \in Titles
    /\ q.kind = "delete_ramp_topic" => q.target \in TopicIds
    /\ q.kind = "apply_template" => q.template \in Templates /\ q.target = None
    /\ q.kind = "upsert_retention_policy" =>
          q.name \in Types /\ q.days \in Days /\ q.target \in PolicyIds /\ q.target[2] = q.name
    /\ q.retags => q.kind \in {"set_document_segments", "create_objection", "update_objection"}

(* ... and so does what it has read so far.                                 *)
Fits(r, q) ==
    /\ q.pc = "idle" => q = Idle(q.kind)
    /\ q.pc # "idle" => Argued(r, q)
    /\ q.pc = "titled" => q.kind = "apply_template"
    /\ q.pc = "valid" => q.kind # "create_objection" /\ q.retags
    /\ q.pc = "loaded" /\ q.kind = "update_objection" => q.retags
    /\ \A t \in q.rows : t.of = q.target /\ q.retags
    /\ q.rows # {} => q.pc \in {"ready", "failed", "done"} /\ q.kind # "create_objection"

(* When a request is done, and what it can have seen.                       *)
Timeline ==
    \A r \in Requests :
        /\ req[r].pc = "done" <=> r \in done
        /\ past[r] \subseteq done /\ r \notin past[r]

(* Objections have labels, ramp topics titles.                              *)
LabelsOnly ==
    /\ \A e \in ObjectionIds : entries[e] \in Labels \cup {None}
    /\ \A e \in TopicIds : entries[e] \in Titles \cup {None}

(* Every request is as its endpoint makes it.                               *)
AllFit == \A r \in Requests : Fits(r, req[r])

(* What every other invariant rests on.                                     *)
Base == Typed /\ LabelsOnly /\ AllFit /\ Timeline

(* What a request keeps once it has begun.                                  *)
Keeps(f, q) ==
    /\ f.kind = q.kind /\ f.target = q.target /\ f.name = q.name /\ f.retags = q.retags
    /\ f.segs = q.segs /\ f.days = q.days /\ f.template = q.template /\ f.old = q.old
    /\ f.saw = q.saw

(* Only request r moves, as what it is.                                     *)
Moved(r) ==
    /\ Fits(r, req'[r])
    /\ req' \in [Requests -> Request] /\ past' \in [Requests -> SUBSET Requests]
    /\ \A s \in Requests : s # r => req'[s] = req[s] /\ past'[s] = past[s]
    /\ req'[r].kind = req[r].kind

(* A first statement, which writes nothing; ...                             *)
Begun(r) ==
    /\ req[r].pc = "idle" /\ Working(req'[r])
    /\ past'[r] = done /\ done' = done
    /\ UNCHANGED Rest

(* ... a later one that writes nothing, or the failure of the flush; ...    *)
Continued(r) ==
    /\ Working(req[r]) /\ req'[r].pc \in {"valid", "titled", "ready", "failed"}
    /\ Keeps(req'[r], req[r])
    /\ past'[r] = past[r] /\ done' = done
    /\ UNCHANGED Rest

(* ... and the commit.                                                      *)
Committed(r) ==
    /\ req[r].pc = "ready" /\ req'[r] = [req[r] EXCEPT !.pc = "done"]
    /\ past'[r] = past[r] /\ done' = done \cup {r}

(* A ramp topic is created in one step.                                     *)
CreatedTopic(r) ==
    /\ req[r].pc = "idle" /\ req[r].kind = "create_ramp_topic" /\ req'[r].pc = "done"
    /\ past'[r] = done /\ done' = done \cup {r}

(* The columns of a request, one by one.                                    *)
LEMMA Columns ==
    ASSUME NEW q \in Request
    PROVE  /\ \A v \in {"loaded", "valid", "titled", "ready", "failed", "done"} : [q EXCEPT !.pc = v] \in Request
           /\ \A v \in SegmentIds \cup EntryIds \cup Docs \cup PolicyIds : [q EXCEPT !.target = v] \in Request
           /\ \A v \in Names \cup Labels \cup Titles \cup Types \cup {None} : [q EXCEPT !.name = v] \in Request
           /\ \A v \in BOOLEAN : [q EXCEPT !.retags = v] \in Request
           /\ \A v \in SUBSET SegmentIds : [q EXCEPT !.segs = v] \in Request
           /\ \A v \in Days : [q EXCEPT !.days = v] \in Request
           /\ \A v \in Templates : [q EXCEPT !.template = v] \in Request
           /\ \A v \in Names \cup Labels \cup Titles \cup Days \cup {None} : [q EXCEPT !.old = v] \in Request
           /\ \A v \in SUBSET Tag : [q EXCEPT !.rows = v] \in Request
           /\ \A v \in SUBSET (SegmentIds \X Names) : [q EXCEPT !.saw = v] \in Request
           /\ \A v \in SUBSET (Labels \cup Titles) : [q EXCEPT !.known = v] \in Request
<1>1. \A v \in {"loaded", "valid", "titled", "ready", "failed", "done"} : [q EXCEPT !.pc = v] \in Request
  BY DEF Request
<1>2. \A v \in SegmentIds \cup EntryIds \cup Docs \cup PolicyIds : [q EXCEPT !.target = v] \in Request
  BY DEF Request
<1>3. \A v \in Names \cup Labels \cup Titles \cup Types \cup {None} : [q EXCEPT !.name = v] \in Request
  BY DEF Request
<1>4. \A v \in BOOLEAN : [q EXCEPT !.retags = v] \in Request
  BY DEF Request
<1>5. \A v \in SUBSET SegmentIds : [q EXCEPT !.segs = v] \in Request
  BY DEF Request
<1>6. \A v \in Days : [q EXCEPT !.days = v] \in Request
  BY DEF Request
<1>7. \A v \in Templates : [q EXCEPT !.template = v] \in Request
  BY DEF Request
<1>8. \A v \in Names \cup Labels \cup Titles \cup Days \cup {None} : [q EXCEPT !.old = v] \in Request
  BY DEF Request
<1>9. \A v \in SUBSET Tag : [q EXCEPT !.rows = v] \in Request
  BY DEF Request
<1>10. \A v \in SUBSET (SegmentIds \X Names) : [q EXCEPT !.saw = v] \in Request
  BY DEF Request
<1>11. \A v \in SUBSET (Labels \cup Titles) : [q EXCEPT !.known = v] \in Request
  BY DEF Request
<1> QED
  BY <1>1, <1>2, <1>3, <1>4, <1>5, <1>6, <1>7, <1>8, <1>9, <1>10, <1>11

(* What has to be shown of a first statement, ...                           *)
LEMMA BeginsMoves ==
    ASSUME Typed, NEW r \in Requests, NEW kind, NEW f \in Request, Begins(r, kind, f),
           f.kind = req[r].kind, Working(f), Fits(r, f), UNCHANGED Rest
    PROVE  Moved(r) /\ Begun(r) /\ req'[r] = f /\ req[r].kind = kind
  BY DEF Begins, Typed, Is, Moved, Begun

(* ... of a later one ...                                                   *)
LEMMA ContinuesMoves ==
    ASSUME Typed, NEW r \in Requests, NEW f \in Request, Continues(r, f),
           Keeps(f, req[r]), f.pc \in {"valid", "titled", "ready", "failed"}, Fits(r, f),
           Working(req[r]), UNCHANGED Rest
    PROVE  Moved(r) /\ Continued(r) /\ req'[r] = f
  BY DEF Continues, Typed, Moved, Continued, Keeps

(* ... and what holds of every commit.                                      *)
LEMMA CommitsMoves ==
    ASSUME Base, NEW r \in Requests, Commits(r, req[r]), req[r].pc = "ready"
    PROVE  Moved(r) /\ Committed(r)
<1> DEFINE q == req[r]
<1> DEFINE g == [q EXCEPT !.pc = "done"]
<1>1. q \in Request /\ Fits(r, q)
  BY DEF Base, Typed, AllFit
<1>2. g \in Request /\ Keeps(g, q) /\ g.pc = "done" /\ g.rows = q.rows
  BY <1>1 DEF Request, Keeps
<1>3. Fits(r, g)
  BY <1>1, <1>2 DEF Fits, Argued, Keeps
<1>4. req' = [req EXCEPT ![r] = g] /\ done' = done \cup {r} /\ past' = past
  BY DEF Commits
<1> HIDE DEF g
<1>5. req'[r] = g
  BY <1>4 DEF Base, Typed
<1>6. Moved(r)
  BY <1>2, <1>3, <1>4, <1>5 DEF Base, Typed, Moved, Keeps
<1> QED
  BY <1>4, <1>5, <1>6 DEF Committed, Base, Typed, g

----------------------------------------------------------------------------
(* The steps, by endpoint *)

(* What a request has before its first statement.                           *)
LEMMA IdleColumns ==
    ASSUME Base, NEW r \in Requests, NEW kind, NEW f, Begins(r, kind, f)
    PROVE  /\ req[r] \in Request /\ req[r].kind = kind /\ req[r].rows = {}
           /\ req[r].retags = FALSE /\ req[r].target = None
<1>1. req[r] \in Request /\ Fits(r, req[r]) /\ req[r].kind = kind /\ req[r].pc = "idle"
  BY DEF Base, Typed, AllFit, Begins, Is
<1>2. req[r] = Idle(kind)
  BY <1>1 DEF Fits
<1> QED
  BY <1>1, <1>2 DEF Idle

(* The first statements about segments, ...                                 *)
LEMMA BeginsSegmentMoves ==
    ASSUME Base, NEW r \in Requests,
           \/ \E n \in Names : EnsureUniqueName(r, n)
           \/ \E s \in LiveSegments, n \in Names \cup {None} : LoadSegment(r, "update_segment", s, n)
           \/ \E s \in LiveSegments : LoadSegment(r, "delete_segment", s, None)
    PROVE  Moved(r) /\ Begun(r)
<1>0. Typed
  BY DEF Base
<1>1. ASSUME NEW n \in Names, EnsureUniqueName(r, n)
      PROVE  Moved(r) /\ Begun(r)
  <2> DEFINE q == req[r]
  <2> DEFINE f == [q EXCEPT !.pc = "ready", !.name = n]
  <2>1. Begins(r, "create_segment", f) /\ UNCHANGED Rest
    BY <1>1 DEF EnsureUniqueName
  <2>2. q \in Request /\ q.kind = "create_segment" /\ q.rows = {} /\ q.retags = FALSE /\ q.target = None
    BY <2>1, IdleColumns
  <2> HIDE DEF q
  <2>3. n \in Names
    BY <1>0, <1>1 DEF Typed
  <2>4. f \in Request
    BY <1>1, <2>2, <2>3, Columns
  <2>5. f.kind = q.kind /\ f.rows = {} /\ f.pc = "ready" /\ f.name = n /\ f.retags = FALSE
    BY <1>1, <2>2, <2>3 DEF Request
  <2> HIDE DEF f
  <2>6. Fits(r, f)
    BY <1>1, <2>2, <2>3, <2>5 DEF Fits, Argued
  <2> QED
    BY <1>0, <2>1, <2>2, <2>4, <2>5, <2>6, BeginsMoves DEF Working, q
<1>2. ASSUME NEW kind \in {"update_segment", "delete_segment"}, NEW s \in LiveSegments,
             NEW n \in Names \cup {None}, LoadSegment(r, kind, s, n)
      PROVE  Moved(r) /\ Begun(r)
  <2> DEFINE q == req[r]
  <2> DEFINE f == [q EXCEPT !.pc = IF n # None THEN "loaded" ELSE "ready",
                       !.target = s, !.name = n, !.old = segments[s]]
  <2>1. Begins(r, kind, f) /\ UNCHANGED Rest
    BY <1>2 DEF LoadSegment
  <2>2. q \in Request /\ q.kind = kind /\ q.rows = {} /\ q.retags = FALSE /\ q.target = None
    BY <2>1, IdleColumns
  <2> HIDE DEF q
  <2>3. s \in SegmentIds /\ segments[s] \in Names
    BY <1>0, <1>2 DEF Typed, LiveSegments
  <2>4. f \in Request
    BY <1>2, <2>2, <2>3, Columns
  <2>5. f.kind = q.kind /\ f.rows = {} /\ f.pc \in {"loaded", "ready"} /\ f.name = n /\ f.retags = FALSE
        /\ f.target = s /\ f.old = segments[s]
    BY <1>2, <2>2, <2>3 DEF Request
  <2> HIDE DEF f
  <2>6. Fits(r, f)
    BY <1>2, <2>2, <2>3, <2>5 DEF Fits, Argued
  <2> QED
    BY <1>0, <2>1, <2>2, <2>4, <2>5, <2>6, BeginsMoves DEF Working, q
<1> QED
  BY <1>1, <1>2

(* ... about tags and objections, ...                                       *)
LEMMA BeginsObjectionMoves ==
    ASSUME Base, NEW r \in Requests,
           \/ \E d \in Docs, ids \in SUBSET LiveSegments : SetDocumentSegments(r, d, ids)
           \/ \E n \in Labels, ids \in SUBSET LiveSegments : AddObjection(r, n, ids)
           \/ \E e \in ObjectionIds, n \in Labels \cup {None}, retags \in BOOLEAN,
                 ids \in SUBSET LiveSegments : LoadObjection(r, "update_objection", e, n, retags, ids)
           \/ \E e \in ObjectionIds : LoadObjection(r, "delete_objection", e, None, FALSE, {})
    PROVE  Moved(r) /\ Begun(r)
<1>0. Typed /\ LabelsOnly /\ CurationAssumption
  BY CurationAssumption DEF Base
<1>1. ASSUME NEW d \in Docs, NEW ids \in SUBSET LiveSegments, SetDocumentSegments(r, d, ids)
      PROVE  Moved(r) /\ Begun(r)
  <2> DEFINE q == req[r]
  <2> DEFINE f == [q EXCEPT !.pc = "loaded", !.target = d, !.retags = TRUE, !.segs = ids]
  <2>1. Begins(r, "set_document_segments", f) /\ UNCHANGED Rest
    BY <1>1 DEF SetDocumentSegments
  <2>2. q \in Request /\ q.kind = "set_document_segments" /\ q.rows = {} /\ q.retags = FALSE /\ q.target = None
    BY <2>1, IdleColumns
  <2> HIDE DEF q
  <2>3. ids \subseteq SegmentIds
    BY <1>0, <1>1 DEF LiveSegments
  <2>4. f \in Request
    BY <1>1, <2>2, <2>3, Columns
  <2>5. f.kind = q.kind /\ f.rows = {} /\ f.pc = "loaded" /\ f.retags = TRUE /\ f.target = d
    BY <1>1, <2>2, <2>3 DEF Request
  <2> HIDE DEF f
  <2>6. Fits(r, f)
    BY <1>1, <2>2, <2>3, <2>5 DEF Fits, Argued
  <2> QED
    BY <1>0, <2>1, <2>2, <2>4, <2>5, <2>6, BeginsMoves DEF Working, q
<1>2. ASSUME NEW n \in Labels, NEW ids \in SUBSET LiveSegments, AddObjection(r, n, ids)
      PROVE  Moved(r) /\ Begun(r)
  <2> DEFINE q == req[r]
  <2> DEFINE f == [q EXCEPT !.pc = IF ids = {} THEN "ready" ELSE "loaded",
                       !.target = <<r, n>>, !.name = n, !.retags = TRUE, !.segs = ids]
  <2>1. Begins(r, "create_objection", f) /\ UNCHANGED Rest
    BY <1>2 DEF AddObjection
  <2>2. q \in Request /\ q.kind = "create_objection" /\ q.rows = {} /\ q.retags = FALSE /\ q.target = None
    BY <2>1, IdleColumns
  <2> HIDE DEF q
  <2>3. ids \subseteq SegmentIds /\ <<r, n>> \in EntryIds
    BY <1>0, <1>2 DEF LiveSegments, EntryIds, ObjectionIds, By
  <2>4. f \in Request
    BY <1>2, <2>2, <2>3, Columns
  <2>5. f.kind = q.kind /\ f.rows = {} /\ f.pc \in {"ready", "loaded"} /\ f.retags = TRUE
        /\ f.target = <<r, n>> /\ f.name = n
    BY <1>2, <2>2, <2>3 DEF Request
  <2> HIDE DEF f
  <2>6. Fits(r, f)
    BY <1>2, <2>2, <2>3, <2>5 DEF Fits, Argued
  <2> QED
    BY <1>0, <2>1, <2>2, <2>4, <2>5, <2>6, BeginsMoves DEF Working, q
<1>3. ASSUME NEW e \in ObjectionIds, NEW n \in Labels \cup {None}, NEW retags \in BOOLEAN,
             NEW ids \in SUBSET LiveSegments, LoadObjection(r, "update_objection", e, n, retags, ids)
      PROVE  Moved(r) /\ Begun(r)
  <2> DEFINE q == req[r]
  <2> DEFINE f == [q EXCEPT !.pc = IF retags THEN "loaded" ELSE "ready", !.target = e,
                       !.name = n, !.retags = retags, !.segs = ids, !.old = entries[e]]
  <2>1. Begins(r, "update_objection", f) /\ UNCHANGED Rest
    BY <1>3 DEF LoadObjection
  <2>2. q \in Request /\ q.kind = "update_objection" /\ q.rows = {} /\ q.retags = FALSE /\ q.target = None
    BY <2>1, IdleColumns
  <2> HIDE DEF q
  <2>3. ids \subseteq SegmentIds /\ e \in EntryIds /\ entries[e] \in Labels
    BY <1>0, <1>3 DEF LiveSegments, EntryIds, LoadObjection, LabelsOnly
  <2>4. f \in Request
    BY <1>3, <2>2, <2>3, Columns
  <2>5. f.kind = q.kind /\ f.rows = {} /\ f.pc = (IF retags THEN "loaded" ELSE "ready") /\ f.retags = retags
        /\ f.target = e /\ f.name = n /\ f.old = entries[e]
    BY <1>3, <2>2, <2>3 DEF Request
  <2> HIDE DEF f
  <2>6. Fits(r, f)
    BY <1>3, <2>2, <2>3, <2>5 DEF Fits, Argued
  <2> QED
    BY <1>0, <2>1, <2>2, <2>4, <2>5, <2>6, BeginsMoves DEF Working, q
<1>4. ASSUME NEW e \in ObjectionIds, LoadObjection(r, "delete_objection", e, None, FALSE, {})
      PROVE  Moved(r) /\ Begun(r)
  <2> DEFINE q == req[r]
  <2> DEFINE f == [q EXCEPT !.pc = IF FALSE THEN "loaded" ELSE "ready", !.target = e,
                       !.name = None, !.retags = FALSE, !.segs = {}, !.old = entries[e]]
  <2>1. Begins(r, "delete_objection", f) /\ UNCHANGED Rest
    BY <1>4 DEF LoadObjection
  <2>2. q \in Request /\ q.kind = "delete_objection" /\ q.rows = {} /\ q.retags = FALSE /\ q.target = None
    BY <2>1, IdleColumns
  <2> HIDE DEF q
  <2>3. {} \in SUBSET SegmentIds /\ e \in EntryIds /\ entries[e] \in Labels
    BY <1>0, <1>4 DEF LiveSegments, EntryIds, LoadObjection, LabelsOnly
  <2>4. f \in Request
    BY <1>4, <2>2, <2>3, Columns
  <2>5. f.kind = q.kind /\ f.rows = {} /\ f.pc = "ready" /\ f.retags = FALSE
        /\ f.target = e /\ f.name = None /\ f.old = entries[e]
    BY <1>4, <2>2, <2>3 DEF Request
  <2> HIDE DEF f
  <2>6. Fits(r, f)
    BY <1>4, <2>2, <2>3, <2>5 DEF Fits, Argued
  <2> QED
    BY <1>0, <2>1, <2>2, <2>4, <2>5, <2>6, BeginsMoves DEF Working, q
<1> QED
  BY <1>1, <1>2, <1>3, <1>4

(* ... about ramp topics, templates and policies.                           *)
LEMMA BeginsOtherMoves ==
    ASSUME Base, NEW r \in Requests,
           \/ \E e \in TopicIds, n \in Titles \cup {None} : LoadTopic(r, "update_ramp_topic", e, n)
           \/ \E e \in TopicIds : LoadTopic(r, "delete_ramp_topic", e, None)
           \/ \E t \in Templates : ReadSegments(r, t)
           \/ \E type \in Types, days \in Days, p \in PolicyIds : FindPolicy(r, type, days, p)
    PROVE  Moved(r) /\ Begun(r)
<1>0. Typed /\ LabelsOnly /\ CurationAssumption
  BY CurationAssumption DEF Base
<1>1. ASSUME NEW kind \in {"update_ramp_topic", "delete_ramp_topic"}, NEW e \in TopicIds,
             NEW n \in Titles \cup {None}, LoadTopic(r, kind, e, n)
      PROVE  Moved(r) /\ Begun(r)
  <2> DEFINE q == req[r]
  <2> DEFINE f == [q EXCEPT !.pc = "ready", !.target = e, !.name = n, !.old = entries[e]]
  <2>1. Begins(r, kind, f) /\ UNCHANGED Rest
    BY <1>1 DEF LoadTopic
  <2>2. q \in Request /\ q.kind = kind /\ q.rows = {} /\ q.retags = FALSE /\ q.target = None
    BY <2>1, IdleColumns
  <2> HIDE DEF q
  <2>3. e \in EntryIds /\ entries[e] \in Titles
    BY <1>0, <1>1 DEF EntryIds, LoadTopic, LabelsOnly
  <2>4. f \in Request
    BY <1>1, <2>2, <2>3, Columns
  <2>5. f.kind = q.kind /\ f.rows = {} /\ f.pc = "ready" /\ f.retags = FALSE /\ f.target = e /\ f.name = n /\ f.old = entries[e]
    BY <1>1, <2>2, <2>3 DEF Request
  <2> HIDE DEF f
  <2>6. Fits(r, f)
    BY <1>1, <2>2, <2>3, <2>5 DEF Fits, Argued
  <2> QED
    BY <1>0, <2>1, <2>2, <2>4, <2>5, <2>6, BeginsMoves DEF Working, q
<1>2. ASSUME NEW t \in Templates, ReadSegments(r, t)
      PROVE  Moved(r) /\ Begun(r)
  <2> DEFINE q == req[r]
  <2> DEFINE f == [q EXCEPT !.pc = "loaded", !.template = t,
                       !.saw = {p \in SegmentIds \X Names : segments[p[1]] = p[2]}]
  <2>1. Begins(r, "apply_template", f) /\ UNCHANGED Rest
    BY <1>2 DEF ReadSegments
  <2>2. q \in Request /\ q.kind = "apply_template" /\ q.rows = {} /\ q.retags = FALSE /\ q.target = None
    BY <2>1, IdleColumns
  <2> HIDE DEF q
  <2>3. {p \in SegmentIds \X Names : segments[p[1]] = p[2]} \subseteq SegmentIds \X Names
    BY <1>0, <1>2 DEF Typed
  <2>4. f \in Request
    BY <1>2, <2>2, <2>3, Columns
  <2>5. f.kind = q.kind /\ f.rows = {} /\ f.pc = "loaded" /\ f.retags = FALSE /\ f.target = None /\ f.template = t
    BY <1>2, <2>2, <2>3 DEF Request
  <2> HIDE DEF f
  <2>6. Fits(r, f)
    BY <1>2, <2>2, <2>3, <2>5 DEF Fits, Argued
  <2> QED
    BY <1>0, <2>1, <2>2, <2>4, <2>5, <2>6, BeginsMoves DEF Working, q
<1>3. ASSUME NEW type \in Types, NEW days \in Days, NEW p \in PolicyIds, FindPolicy(r, type, days, p)
      PROVE  Moved(r) /\ Begun(r)
  <2> DEFINE q == req[r]
  <2> DEFINE f == [q EXCEPT !.pc = "ready", !.name = type, !.days = days, !.target = p,
                       !.old = policies[p]]
  <2>1. Begins(r, "upsert_retention_policy", f) /\ UNCHANGED Rest
    BY <1>3 DEF FindPolicy
  <2>2. q \in Request /\ q.kind = "upsert_retention_policy" /\ q.rows = {} /\ q.retags = FALSE /\ q.target = None
    BY <2>1, IdleColumns
  <2> HIDE DEF q
  <2>10. p = <<r, type>> \/ p[2] = type
    <3> DEFINE found == {x \in PolicyIds : x[2] = type /\ policies[x] # None}
    <3>1. IF found = {} THEN p = <<r, type>> ELSE p \in found
      BY <1>3 DEF FindPolicy
    <3>2. p \in found => p[2] = type
      OBVIOUS
    <3> HIDE DEF found
    <3> QED
      BY <3>1, <3>2
  <2>3. p[2] = type /\ policies[p] \in Days \cup {None}
    BY <1>0, <2>10 DEF Typed
  <2>7. [q EXCEPT !.pc = "ready", !.name = type, !.days = days] \in Request
    BY <2>2, Columns
  <2>8. [q EXCEPT !.pc = "ready", !.name = type, !.days = days, !.target = p] \in Request
    BY <2>7, Columns
  <2>9. policies[p] \in Names \cup Labels \cup Titles \cup Days \cup {None}
    BY <2>3
  <2>4. f \in Request
    BY <2>8, <2>9, Columns
  <2>5. f.kind = q.kind /\ f.rows = {} /\ f.pc = "ready" /\ f.retags = FALSE /\ f.target = p /\ f.name = type /\ f.days = days
    BY <1>3, <2>2, <2>3 DEF Request
  <2> HIDE DEF f
  <2>6. Fits(r, f)
    BY <1>3, <2>2, <2>3, <2>5 DEF Fits, Argued
  <2> QED
    BY <1>0, <2>1, <2>2, <2>4, <2>5, <2>6, BeginsMoves DEF Working, q
<1> QED
  BY <1>1, <1>2, <1>3

(* The statements in between.                                               *)
LEMMA ContinuingMoves ==
    ASSUME Base, NEW r \in Requests,
           \/ EnsureNewName(r) \/ ValidateSegmentIds(r) \/ ReadTags(r)
           \/ ReadTitles(r) \/ ReadLabels(r) \/ FlushFails(r)
    PROVE  Moved(r) /\ Continued(r)
<1> DEFINE q == req[r]
<1>0. Typed /\ q \in Request /\ Fits(r, q)
  BY DEF Base, Typed, AllFit
<1>1. ASSUME NEW pc \in {"valid", "ready", "failed"}, Continues(r, [q EXCEPT !.pc = pc]),
             UNCHANGED Rest, Working(q),
             pc = "valid" => q.retags /\ q.kind # "create_objection" /\ q.pc = "loaded"
      PROVE  Moved(r) /\ Continued(r)
  <2> DEFINE f == [q EXCEPT !.pc = pc]
  <2> HIDE DEF q
  <2>1. f \in Request
    BY <1>0, Columns
  <2>2. Keeps(f, q) /\ f.pc = pc /\ f.rows = q.rows
    BY <1>0 DEF Request, Keeps
  <2> HIDE DEF f
  <2>3. Fits(r, f)
    BY <1>0, <1>1, <2>2 DEF Fits, Argued, Keeps, Working
  <2> QED
    BY <1>0, <1>1, <2>1, <2>2, <2>3, ContinuesMoves DEF q, f
<1>2. CASE EnsureNewName(r)
  BY <1>1, <1>2 DEF EnsureNewName, Is, Working
<1>3. CASE ValidateSegmentIds(r)
  <2>1. q.kind \in {"set_document_segments", "create_objection", "update_objection"} /\ q.pc = "loaded"
    BY <1>3 DEF ValidateSegmentIds
  <2>2. q.retags
    BY <1>0, <2>1 DEF Fits, Argued
  <2>3. Continues(r, [q EXCEPT !.pc = IF q.kind = "create_objection" THEN "ready" ELSE "valid"])
        /\ UNCHANGED Rest
    BY <1>3 DEF ValidateSegmentIds
  <2>4. CASE q.kind = "create_objection"
    BY <1>1, <2>1, <2>3, <2>4 DEF Working
  <2>5. CASE q.kind # "create_objection"
    BY <1>1, <2>1, <2>2, <2>3, <2>5 DEF Working
  <2> QED
    BY <2>4, <2>5
<1>4. CASE ReadTags(r)
  <2> DEFINE f == [q EXCEPT !.pc = "ready", !.rows = TagsOf(q.target)]
  <2>1. q.pc = "valid" /\ Continues(r, f) /\ UNCHANGED Rest
    BY <1>4 DEF ReadTags
  <2>2. q.retags /\ q.kind # "create_objection"
    BY <1>0, <2>1 DEF Fits
  <2>3. TagsOf(q.target) \subseteq Tag /\ \A t \in TagsOf(q.target) : t.of = q.target
    BY <1>0 DEF Typed, TagsOf
  <2> HIDE DEF q
  <2>4. f \in Request
    BY <1>0, <2>3, Columns
  <2>5. Keeps(f, q) /\ f.pc = "ready" /\ f.rows = TagsOf(q.target)
    BY <1>0 DEF Request, Keeps
  <2> HIDE DEF f
  <2>6. Fits(r, f)
    BY <1>0, <2>1, <2>2, <2>3, <2>5 DEF Fits, Argued, Keeps
  <2> QED
    BY <1>0, <2>1, <2>4, <2>5, <2>6, ContinuesMoves DEF q, Working
<1>5. ASSUME NEW known \in SUBSET (Labels \cup Titles), NEW pc \in {"titled", "ready"},
             q.kind = "apply_template", Working(q), UNCHANGED Rest,
             Continues(r, [q EXCEPT !.pc = pc, !.known = known])
      PROVE  Moved(r) /\ Continued(r)
  <2> DEFINE f == [q EXCEPT !.pc = pc, !.known = known]
  <2> HIDE DEF q
  <2>1. f \in Request
    BY <1>0, Columns
  <2>2. Keeps(f, q) /\ f.pc = pc /\ f.rows = q.rows
    BY <1>0 DEF Request, Keeps
  <2> HIDE DEF f
  <2>3. Fits(r, f)
    BY <1>0, <1>5, <2>2 DEF Fits, Argued, Keeps, Working
  <2> QED
    BY <1>0, <1>5, <2>1, <2>2, <2>3, ContinuesMoves DEF q, f
<1>6. CASE ReadTitles(r)
  <2> DEFINE known == {n \in Titles : \E e \in TopicIds : entries[e] = n}
  <2>1. Is(r, "apply_template", "loaded") /\ UNCHANGED Rest
        /\ Continues(r, [q EXCEPT !.pc = "titled", !.known = known])
    BY <1>6 DEF ReadTitles
  <2>2. known \in SUBSET (Labels \cup Titles)
    OBVIOUS
  <2> HIDE DEF known
  <2> QED
    BY <1>5, <2>1, <2>2 DEF Is, Working
<1>7. CASE ReadLabels(r)
  <2> DEFINE known == q.known \cup {n \in Labels : \E e \in ObjectionIds : entries[e] = n}
  <2>1. Is(r, "apply_template", "titled") /\ UNCHANGED Rest
        /\ Continues(r, [q EXCEPT !.pc = "ready", !.known = known])
    BY <1>0, <1>7 DEF ReadLabels, Request
  <2>2. known \in SUBSET (Labels \cup Titles)
    BY <1>0 DEF Request
  <2> HIDE DEF known
  <2> QED
    BY <1>5, <2>1, <2>2 DEF Is, Working
<1>8. CASE FlushFails(r)
  BY <1>1, <1>8 DEF FlushFails, Working
<1> QED
  BY <1>2, <1>3, <1>4, <1>6, <1>7, <1>8

(* The commits.                                                             *)
Writes(r) ==
    \/ CreateSegment(r) \/ UpdateSegment(r) \/ DeleteSegment(r)
    \/ ReplaceDocumentSegments(r)
    \/ CreateObjection(r) \/ UpdateObjection(r) \/ DeleteObjection(r)
    \/ UpdateRampTopic(r) \/ DeleteRampTopic(r)
    \/ ApplyTemplate(r) \/ UpsertRetentionPolicy(r)

(* Every write is a commit.                                                 *)
LEMMA WritesMoves ==
    ASSUME Base, NEW r \in Requests, Writes(r)
    PROVE  Moved(r) /\ Committed(r)
<1>1. Commits(r, req[r]) /\ req[r].pc = "ready"
  BY DEF Writes, CreateSegment, UpdateSegment, DeleteSegment, ReplaceDocumentSegments,
         CreateObjection, UpdateObjection, DeleteObjection, UpdateRampTopic, DeleteRampTopic,
         ApplyTemplate, UpsertRetentionPolicy, Is
<1> QED
  BY <1>1, CommitsMoves

(* A ramp topic is created by the one statement of its request.             *)
LEMMA CreateRampTopicMoves ==
    ASSUME Base, NEW r \in Requests, NEW title \in Titles, CreateRampTopic(r, title)
    PROVE  /\ Moved(r) /\ CreatedTopic(r)
           /\ req'[r].target = <<r, title>> /\ req'[r].retags = FALSE
<1> DEFINE q == req[r]
<1> DEFINE f == [q EXCEPT !.pc = "done", !.target = <<r, title>>, !.name = title]
<1>1. q.kind = "create_ramp_topic" /\ q.pc = "idle" /\ q \in Request /\ Fits(r, q)
  BY DEF Base, Typed, AllFit, CreateRampTopic, Is
<1>2. q.rows = {} /\ q.retags = FALSE
  BY <1>1 DEF Fits, Idle
<1>3. req' = [req EXCEPT ![r] = f] /\ past' = [past EXCEPT ![r] = done] /\ done' = done \cup {r}
  BY DEF CreateRampTopic
<1>4. <<r, title>> \in EntryIds
  BY DEF EntryIds, TopicIds, By
<1> HIDE DEF q
<1>5. f \in Request
  BY <1>1, <1>4, Columns
<1>6. f.kind = q.kind /\ f.pc = "done" /\ f.target = <<r, title>> /\ f.name = title
      /\ f.rows = {} /\ f.retags = FALSE
  BY <1>1, <1>2 DEF Request
<1> HIDE DEF f
<1>7. req'[r] = f /\ past'[r] = done
  BY <1>3 DEF Base, Typed
<1>8. Fits(r, f)
  BY <1>1, <1>6 DEF Fits, Argued
<1>9. Moved(r)
  BY <1>1, <1>3, <1>5, <1>6, <1>7, <1>8 DEF Base, Typed, Moved, q
<1> QED
  BY <1>1, <1>3, <1>6, <1>7, <1>9 DEF CreatedTopic, q

(* What can happen in a step.                                               *)
StepOf(r) ==
    /\ Moved(r)
    /\ \/ Begun(r) /\ req[r].pc = "idle" /\ BeginsRequest(r)
       \/ Continued(r) /\ ContinuesRequest(r)
       \/ CreatedTopic(r) /\ \E n \in Titles : CreateRampTopic(r, n)
       \/ Committed(r) /\ Writes(r)

(* A step is the step of one request.                                       *)
LEMMA NextStep ==
    ASSUME Base, [Next]_vars
    PROVE  (\E r \in Requests : StepOf(r)) \/ UNCHANGED vars
<1>1. ASSUME NEW r \in Requests, req[r].pc = "idle", BeginsRequest(r) PROVE StepOf(r)
  <2>1. CASE \E n \in Titles : CreateRampTopic(r, n)
    BY <2>1, CreateRampTopicMoves DEF StepOf
  <2>2. CASE ~\E n \in Titles : CreateRampTopic(r, n)
    <3>1. Moved(r) /\ Begun(r)
      BY <1>1, <2>2, BeginsSegmentMoves, BeginsObjectionMoves, BeginsOtherMoves DEF BeginsRequest
    <3> QED
      BY <1>1, <3>1 DEF StepOf
  <2> QED
    BY <2>1, <2>2
<1>2. ASSUME NEW r \in Requests, ContinuesRequest(r) PROVE StepOf(r)
  BY <1>2, ContinuingMoves, WritesMoves DEF ContinuesRequest, Writes, StepOf
<1> QED
  BY <1>1, <1>2 DEF Next

----------------------------------------------------------------------------
(* What a step does to the rows *)

(* Segments are created under their own id, renamed or deleted.             *)
LEMMA SegmentsStep ==
    ASSUME Base, NEW r \in Requests, StepOf(r)
    PROVE  /\ segments' \in [SegmentIds -> Names \cup {None}]
           /\ \A s \in SegmentIds :
              \/ segments'[s] = segments[s]
              \/ segments'[s] = None /\ DeleteSegment(r) /\ req[r].target = s
              \/ /\ segments'[s] = s[2] /\ s[1] = r /\ s \in NewSegments(r)
                 /\ CreateSegment(r) \/ ApplyTemplate(r)
              \/ /\ segments[s] # None /\ segments'[s] = req[r].name /\ req[r].name # None
                 /\ UpdateSegment(r) /\ req[r].target = s
<1> DEFINE q == req[r]
<1>0. q \in Request /\ Fits(r, q) /\ segments \in [SegmentIds -> Names \cup {None}]
  BY DEF Base, Typed, AllFit
<1>1. CASE segments' = segments
  BY <1>0, <1>1
<1>2. CASE CreateSegment(r)
  <2>1. q.name \in Names /\ segments' = [segments EXCEPT ![<<r, q.name>>] = q.name] /\ q.kind = "create_segment"
    BY <1>0, <1>2 DEF CreateSegment, Fits, Argued, Is
  <2>2. NewSegments(r) = {<<r, q.name>>} /\ <<r, q.name>> \in SegmentIds
    BY <2>1 DEF NewSegments, SegmentIds, By
  <2> HIDE DEF q
  <2> QED
    BY <1>0, <1>2, <2>1, <2>2
<1>3. CASE UpdateSegment(r)
  <2>1. q.target \in SegmentIds /\ q.name \in Names \cup {None} /\ q.kind = "update_segment"
    BY <1>0, <1>3 DEF UpdateSegment, Fits, Argued, Is
  <2>2. segments' = IF q.name \in {None, q.old} THEN segments
                    ELSE [segments EXCEPT ![q.target] = q.name]
    BY <1>3 DEF UpdateSegment
  <2>3. q.name \notin {None, q.old} => segments[q.target] # None
    BY <1>3, <2>1 DEF UpdateSegment, Flushes
  <2> HIDE DEF q
  <2> QED
    BY <1>0, <1>3, <2>1, <2>2, <2>3 DEF q
<1>4. CASE DeleteSegment(r)
  <2>1. q.target \in SegmentIds /\ segments' = [segments EXCEPT ![q.target] = None]
    BY <1>0, <1>4 DEF DeleteSegment, Fits, Argued, Is
  <2> HIDE DEF q
  <2> QED
    BY <1>0, <1>4, <2>1 DEF q
<1>5. CASE ApplyTemplate(r)
  <2>1. segments' = [x \in SegmentIds |-> IF x \in NewSegments(r) THEN x[2] ELSE segments[x]]
        /\ q.kind = "apply_template"
    BY <1>5 DEF ApplyTemplate, Is
  <2>2. \A x \in NewSegments(r) : x[1] = r
    BY <2>1 DEF NewSegments
  <2>3. \A x \in SegmentIds : x[2] \in Names
    BY DEF SegmentIds
  <2> QED
    BY <1>0, <1>5, <2>1, <2>2, <2>3
<1>6. ASSUME segments' # segments
      PROVE  CreateSegment(r) \/ UpdateSegment(r) \/ DeleteSegment(r) \/ ApplyTemplate(r)
  BY <1>6 DEF StepOf, Begun, Continued, Rest, CreateRampTopic, Writes, ReplaceDocumentSegments,
              CreateObjection, UpdateObjection, DeleteObjection, UpdateRampTopic, DeleteRampTopic,
              UpsertRetentionPolicy
<1> QED
  BY <1>1, <1>2, <1>3, <1>4, <1>5, <1>6

(* Objections and ramp topics as well.                                      *)
LEMMA EntriesStep ==
    ASSUME Base, NEW r \in Requests, StepOf(r)
    PROVE  /\ entries' \in [EntryIds -> Labels \cup Titles \cup {None}]
           /\ \A e \in EntryIds :
              \/ entries'[e] = entries[e]
              \/ /\ entries'[e] = None /\ req[r].target = e /\ done' = done \cup {r}
                 /\ DeleteObjection(r) \/ DeleteRampTopic(r)
              \/ entries'[e] = e[2] /\ e[1] = r /\ done' = done \cup {r}
              \/ /\ entries[e] # None /\ entries'[e] = req[r].name /\ req[r].name # None
                 /\ req[r].target = e /\ req'[r].target = e /\ done' = done \cup {r}
                 /\ UpdateObjection(r) \/ UpdateRampTopic(r)
<1> DEFINE q == req[r]
<1>0. q \in Request /\ Fits(r, q) /\ entries \in [EntryIds -> Labels \cup Titles \cup {None}]
  BY DEF Base, Typed, AllFit
<1>1. CASE entries' = entries
  BY <1>0, <1>1
<1>2. CASE CreateObjection(r)
  <2>1. q.name \in Labels /\ q.target = <<r, q.name>> /\ done' = done \cup {r}
        /\ entries' = [entries EXCEPT ![q.target] = q.name]
    BY <1>0, <1>2 DEF CreateObjection, Fits, Argued, Is, Commits
  <2>2. q.target \in EntryIds
    BY <2>1 DEF EntryIds, ObjectionIds, By
  <2> HIDE DEF q
  <2> QED
    BY <1>0, <2>1, <2>2
<1>3. ASSUME UpdateObjection(r) \/ UpdateRampTopic(r)
      PROVE  /\ entries' \in [EntryIds -> Labels \cup Titles \cup {None}]
             /\ \A e \in EntryIds :
                \/ entries'[e] = entries[e]
                \/ /\ entries[e] # None /\ entries'[e] = q.name /\ q.name # None /\ q.target = e
                   /\ req'[r].target = e /\ done' = done \cup {r}
  <2>1. q.target \in EntryIds /\ q.name \in Labels \cup Titles \cup {None}
        /\ q.kind \in {"update_objection", "update_ramp_topic"} /\ q.pc = "ready"
    BY <1>0, <1>3 DEF UpdateObjection, UpdateRampTopic, Fits, Argued, Is, EntryIds
  <2>2. entries' = IF q.name \in {None, q.old} THEN entries
                   ELSE [entries EXCEPT ![q.target] = q.name]
    BY <1>3 DEF UpdateObjection, UpdateRampTopic
  <2>3. q.name \notin {None, q.old} => entries[q.target] # None
    BY <1>3, <2>1 DEF UpdateObjection, UpdateRampTopic, Flushes
  <2>4. Committed(r)
    BY <1>3, WritesMoves DEF Writes
  <2>5. req'[r].target = q.target /\ done' = done \cup {r}
    BY <1>0, <2>4 DEF Committed, Request
  <2> HIDE DEF q
  <2> QED
    BY <1>0, <2>1, <2>2, <2>3, <2>5
<1>4. CASE DeleteObjection(r) \/ DeleteRampTopic(r)
  <2>1. q.target \in EntryIds /\ entries' = [entries EXCEPT ![q.target] = None]
        /\ done' = done \cup {r}
    BY <1>0, <1>4 DEF DeleteObjection, DeleteRampTopic, Fits, Argued, Is, EntryIds, Commits
  <2> HIDE DEF q
  <2> QED
    BY <1>0, <1>4, <2>1 DEF q
<1>5. ASSUME NEW n \in Titles, CreateRampTopic(r, n)
      PROVE  /\ entries' \in [EntryIds -> Labels \cup Titles \cup {None}]
             /\ \A e \in EntryIds :
                \/ entries'[e] = entries[e]
                \/ entries'[e] = e[2] /\ e[1] = r /\ done' = done \cup {r}
  <2>1. entries' = [entries EXCEPT ![<<r, n>>] = n] /\ done' = done \cup {r}
    BY <1>5 DEF CreateRampTopic
  <2>2. <<r, n>> \in EntryIds
    BY DEF EntryIds, TopicIds, By
  <2> QED
    BY <1>0, <2>1, <2>2
<1>6. CASE ApplyTemplate(r)
  <2> DEFINE wanted == (q.template.titles \cup {o.label : o \in q.template.objections}) \ q.known
  <2>1. entries' = [x \in EntryIds |-> IF x[1] = r /\ x[2] \in wanted THEN x[2] ELSE entries[x]]
        /\ done' = done \cup {r}
    BY <1>6 DEF ApplyTemplate, Commits
  <2>2. \A x \in EntryIds : x[2] \in Labels \cup Titles
    BY DEF EntryIds, ObjectionIds, TopicIds
  <2> HIDE DEF wanted
  <2> QED
    BY <1>0, <2>1, <2>2
<1>7. ASSUME entries' # entries
      PROVE  \/ CreateObjection(r) \/ UpdateObjection(r) \/ DeleteObjection(r)
             \/ UpdateRampTopic(r) \/ DeleteRampTopic(r) \/ ApplyTemplate(r)
             \/ \E n \in Titles : CreateRampTopic(r, n)
  BY <1>7 DEF StepOf, Begun, Continued, Rest, Writes, ReplaceDocumentSegments,
              CreateSegment, UpdateSegment, DeleteSegment, UpsertRetentionPolicy
<1>8. CASE UpdateObjection(r) \/ UpdateRampTopic(r)
  BY <1>3, <1>8
<1>9. CASE \E n \in Titles : CreateRampTopic(r, n)
  BY <1>5, <1>9
<1> QED
  BY <1>1, <1>2, <1>4, <1>6, <1>7, <1>8, <1>9

(* The tags that a request adds are its own.                                *)
LEMMA NewTagsTyped ==
    ASSUME Base, NEW r \in Requests, req[r].pc # "idle"
    PROVE  NewTags(r) \subseteq Tag /\ \A t \in NewTags(r) : t.by = r
<1> DEFINE q == req[r]
<1>0. q \in Request /\ Fits(r, q) /\ q.pc # "idle"
  BY DEF Base, Typed, AllFit
<1>1. ASSUME NEW x \in Docs \cup ObjectionIds, NEW ids \in SUBSET SegmentIds
      PROVE  Tagging(r, x, ids) \subseteq Tag /\ \A t \in Tagging(r, x, ids) : t.by = r
  BY <1>1 DEF Tagging, Tag, By
<1>2. CASE q.kind = "apply_template"
  <2>1. q.template \in Template
    BY <1>0, <1>2, CurationAssumption DEF Fits, Argued
  <2>2. NewTags(r) = TemplateTags(r)
    BY <1>2 DEF NewTags
  <2>3. q.saw \subseteq SegmentIds \X Names
    BY <1>0 DEF Request
  <2>4. ASSUME NEW t \in TemplateTags(r) PROVE t \in Tag /\ t.by = r
    <3> DEFINE Found(o) == {p[1] : p \in {p \in q.saw : p[2] \in o.segments}}
    <3> DEFINE Added(o) == {<<r, n>> : n \in (o.segments \cap q.template.segments) \ {p[2] : p \in q.saw}}
    <3>1. PICK o \in q.template.objections : t \in Tagging(r, <<r, o.label>>, Found(o) \cup Added(o))
      BY <2>4 DEF TemplateTags
    <3>2. o.label \in Labels /\ o.segments \subseteq Names
      BY <2>1 DEF Template
    <3>3. Found(o) \subseteq SegmentIds
      BY <2>3
    <3>4. Added(o) \subseteq SegmentIds
      BY <3>2 DEF SegmentIds, By
    <3>5. <<r, o.label>> \in ObjectionIds
      BY <3>2 DEF ObjectionIds, By
    <3> HIDE DEF Found, Added
    <3> QED
      BY <1>1, <3>1, <3>3, <3>4, <3>5
  <2> QED
    BY <2>2, <2>4
<1>3. CASE q.kind # "apply_template" /\ q.retags
  <2>1. q.target \in Docs \cup ObjectionIds
    BY <1>0, <1>3 DEF Fits, Argued, ObjectionIds, By
  <2>2. q.segs \in SUBSET SegmentIds
    BY <1>0 DEF Request
  <2> QED
    BY <1>1, <1>3, <2>1, <2>2 DEF NewTags
<1>4. CASE q.kind # "apply_template" /\ ~q.retags
  BY <1>4 DEF NewTags
<1> QED
  BY <1>2, <1>3, <1>4

(* Tags are added by the requests that tag; others at most remove some.     *)
LEMMA TagsStep ==
    ASSUME Base, NEW r \in Requests, StepOf(r)
    PROVE  /\ tags' \subseteq Tag
           /\ \/ tags' \subseteq tags
              \/ /\ tags' \subseteq tags \cup NewTags(r)
                 /\ \/ ReplaceDocumentSegments(r) \/ CreateObjection(r)
                    \/ UpdateObjection(r) \/ ApplyTemplate(r)
<1>1. CASE ReplaceDocumentSegments(r) \/ CreateObjection(r) \/ UpdateObjection(r) \/ ApplyTemplate(r)
  <2>1. tags' \subseteq tags \cup NewTags(r) /\ req[r].pc # "idle"
    BY <1>1 DEF ReplaceDocumentSegments, CreateObjection, UpdateObjection, ApplyTemplate, Is
  <2> QED
    BY <1>1, <2>1, NewTagsTyped DEF Base, Typed
<1>2. CASE ~(ReplaceDocumentSegments(r) \/ CreateObjection(r) \/ UpdateObjection(r) \/ ApplyTemplate(r))
  <2>1. tags' \subseteq tags
    BY <1>2 DEF StepOf, Begun, Continued, Rest, Writes, CreateRampTopic, CreateSegment, UpdateSegment,
                DeleteSegment, DeleteObjection, UpdateRampTopic, DeleteRampTopic, UpsertRetentionPolicy
  <2> QED
    BY <2>1 DEF Base, Typed
<1> QED
  BY <1>1, <1>2

(* Policies are changed by their PUT.                                       *)
LEMMA PoliciesStep ==
    ASSUME Base, NEW r \in Requests, StepOf(r)
    PROVE  /\ policies' \in [PolicyIds -> Days \cup {None}]
           /\ policies' = policies \/ UpsertRetentionPolicy(r)
<1> DEFINE q == req[r]
<1>1. CASE UpsertRetentionPolicy(r)
  <2>1. q.target \in PolicyIds /\ q.days \in Days
    BY <1>1 DEF Base, AllFit, Fits, Argued, UpsertRetentionPolicy, Is
  <2>2. policies' = IF q.days = q.old THEN policies ELSE [policies EXCEPT ![q.target] = q.days]
    BY <1>1 DEF UpsertRetentionPolicy
  <2> HIDE DEF q
  <2> QED
    BY <1>1, <2>1, <2>2 DEF Base, Typed
<1>2. CASE ~UpsertRetentionPolicy(r)
  BY <1>2 DEF Base, Typed, StepOf, Begun, Continued, Rest, Writes, CreateRampTopic, CreateSegment,
              UpdateSegment, DeleteSegment, ReplaceDocumentSegments, CreateObjection, UpdateObjection,
              DeleteObjection, UpdateRampTopic, DeleteRampTopic, ApplyTemplate
<1> QED
  BY <1>1, <1>2

----------------------------------------------------------------------------
(* Types and constraints *)

(* Objections and ramp topics are told apart by what they are called.       *)
LEMMA EntryKinds ==
    /\ ObjectionIds \cap TopicIds = {}
    /\ \A e \in ObjectionIds : e \in EntryIds /\ e \notin Docs /\ e[1] \in By /\ e[2] \in Labels
    /\ \A e \in TopicIds : e \in EntryIds /\ e \notin Docs /\ e[1] \in By /\ e[2] \in Titles
<1>1. Labels \cap Titles = {} /\ Docs \cap EntryIds = {}
  BY CurationAssumption
<1> QED
  BY <1>1 DEF ObjectionIds, TopicIds, EntryIds

(* The initial states satisfy Base ...                                      *)
LEMMA BaseInit == Init => Base
<1> SUFFICES ASSUME Init PROVE Base
  OBVIOUS
<1>1. ASSUME NEW k \in Kinds PROVE Idle(k) \in Request /\ Idle(k).kind = k /\ Idle(k).pc = "idle"
                                   /\ Idle(k).rows = {}
  BY DEF Idle, Request
<1>2. \A r \in Requests : req[r] \in Request /\ req[r].pc = "idle" /\ req[r] = Idle(req[r].kind)
                          /\ req[r].rows = {}
  BY <1>1 DEF Init
<1>3. req \in [Requests -> Request]
  BY <1>1 DEF Init
<1>4. Typed
  BY <1>3 DEF Init, RowsInit, Typed
<1>5. LabelsOnly
  <2>1. \A e \in EntryIds : entries[e] # None => entries[e] = e[2]
    BY DEF Init, RowsInit
  <2> QED
    BY <2>1, EntryKinds DEF LabelsOnly
<1>6. AllFit
  BY <1>2 DEF AllFit, Fits
<1>7. Timeline
  BY <1>2 DEF Timeline, Init
<1> QED
  BY <1>4, <1>5, <1>6, <1>7 DEF Base

(* ... and every step keeps it.                                             *)
LEMMA BaseStep ==
    ASSUME Base, NEW r \in Requests, StepOf(r)
    PROVE  Base'
<1>0. Moved(r) /\ (Begun(r) \/ Continued(r) \/ CreatedTopic(r) \/ Committed(r))
  BY DEF StepOf
<1>1. done' \subseteq Requests
  BY <1>0 DEF Base, Typed, Begun, Continued, CreatedTopic, Committed
<1>2. Typed'
  BY <1>0, <1>1, SegmentsStep, EntriesStep, TagsStep, PoliciesStep DEF Typed, Moved
<1>3. LabelsOnly'
  <2>1. ASSUME NEW e \in ObjectionIds PROVE entries'[e] \in Labels \cup {None}
    <3>1. ASSUME UpdateObjection(r) \/ UpdateRampTopic(r), req[r].target = e
          PROVE  req[r].name \in Labels \cup {None}
      BY <3>1, EntryKinds DEF Base, AllFit, Fits, Argued, UpdateObjection, UpdateRampTopic, Is
    <3> QED
      BY <3>1, EntriesStep, EntryKinds DEF Base, LabelsOnly
  <2>2. ASSUME NEW e \in TopicIds PROVE entries'[e] \in Titles \cup {None}
    <3>1. ASSUME UpdateObjection(r) \/ UpdateRampTopic(r), req[r].target = e
          PROVE  req[r].name \in Titles \cup {None}
      BY <3>1, EntryKinds DEF Base, AllFit, Fits, Argued, UpdateObjection, UpdateRampTopic, Is
    <3> QED
      BY <3>1, EntriesStep, EntryKinds DEF Base, LabelsOnly
  <2> QED
    BY <2>1, <2>2 DEF LabelsOnly
<1>4. AllFit'
  BY <1>0 DEF Base, AllFit, Moved
<1>5. Timeline'
  BY <1>0 DEF Base, Timeline, Moved, Begun, Continued, CreatedTopic, Committed, Working, Typed, Request
<1> QED
  BY <1>2, <1>3, <1>4, <1>5 DEF Base

(* So Base is inductive.                                                    *)
LEMMA BaseNext == Base /\ [Next]_vars => Base'
<1>1. ASSUME Base, UNCHANGED vars PROVE Base'
  BY <1>1 DEF Base, Typed, LabelsOnly, AllFit, Timeline, vars
<1> QED
  BY <1>1, BaseStep, NextStep

(* Names of segments stay unique: who adds one finds it free.               *)
LEMMA NamesUnique ==
    ASSUME Base, Constraints, NEW r \in Requests, StepOf(r),
           NEW s \in SegmentIds, NEW t \in SegmentIds, segments'[s] = segments'[t], segments'[s] # None
    PROVE  s = t
<1>1. CASE CreateSegment(r) \/ ApplyTemplate(r)
  <2>1. \A x \in NewSegments(r) : ~Taken(x[2])
    BY <1>1 DEF CreateSegment, ApplyTemplate, Flushes
  <2>2. ~DeleteSegment(r) /\ ~UpdateSegment(r)
    BY <1>1 DEF CreateSegment, ApplyTemplate, DeleteSegment, UpdateSegment, Is
  <2>3. \A x \in SegmentIds :
          \/ segments'[x] = segments[x]
          \/ segments'[x] = x[2] /\ x[1] = r /\ x \in NewSegments(r)
    BY <2>2, SegmentsStep
  <2>4. CASE segments'[s] = segments[s] /\ segments'[t] = segments[t]
    BY <2>4 DEF Constraints
  <2>5. CASE segments'[s] = s[2] /\ s[1] = r /\ segments'[t] = t[2] /\ t[1] = r
    <3>1. s = <<s[1], s[2]>> /\ t = <<t[1], t[2]>>
      BY DEF SegmentIds
    <3> QED
      BY <2>5, <3>1
  <2>6. CASE s \in NewSegments(r) /\ segments'[s] = s[2] /\ segments'[t] = segments[t]
    BY <2>1, <2>6 DEF Taken
  <2>7. CASE t \in NewSegments(r) /\ segments'[t] = t[2] /\ segments'[s] = segments[s]
    BY <2>1, <2>7 DEF Taken
  <2> QED
    BY <2>3, <2>4, <2>5, <2>6, <2>7
<1>2. CASE UpdateSegment(r)
  <2>1. req[r].target \in SegmentIds
    BY <1>2 DEF Base, AllFit, Fits, Argued, UpdateSegment, Is
  <2>2. \/ segments' = segments
        \/ ~Taken(req[r].name) /\ segments' = [segments EXCEPT ![req[r].target] = req[r].name]
    BY <1>2 DEF UpdateSegment, Flushes, Is
  <2> QED
    BY <2>1, <2>2 DEF Base, Typed, Constraints, Taken
<1>3. CASE ~(CreateSegment(r) \/ ApplyTemplate(r) \/ UpdateSegment(r))
  <2>1. \A x \in SegmentIds : segments'[x] \in {segments[x], None}
    BY <1>3, SegmentsStep
  <2> QED
    BY <2>1 DEF Constraints
<1> QED
  BY <1>1, <1>2, <1>3

--------------------------------------------------------------------------------
(* Invariants *)

(* What a tag belongs to, and how a request's tags come about.              *)
LEMMA NewTagsOf ==
    ASSUME Base, NEW r \in Requests, req[r].pc # "idle", NEW t \in NewTags(r)
    PROVE  \/ /\ req[r].kind = "apply_template"
              /\ \E o \in req[r].template.objections :
                    o.label \notin req[r].known /\ o.label \in Labels /\ t.of = <<r, o.label>>
           \/ /\ req[r].kind # "apply_template" /\ req[r].retags /\ NewSegments(r) = {}
              /\ t.of = req[r].target /\ t.segment \in req[r].segs
<1> DEFINE q == req[r]
<1>0. Fits(r, q)
  BY DEF Base, AllFit
<1>1. CASE q.kind = "apply_template"
  <2>1. q.template \in Template
    BY <1>0, <1>1, CurationAssumption DEF Fits, Argued
  <2>2. t \in TemplateTags(r)
    BY <1>1 DEF NewTags
  <2>3. PICK o \in q.template.objections : o.label \notin q.known /\ \E ids : t \in Tagging(r, <<r, o.label>>, ids)
    BY <2>2 DEF TemplateTags
  <2>4. t.of = <<r, o.label>>
    BY <2>3 DEF Tagging
  <2>5. o.label \in Labels
    BY <2>1 DEF Template
  <2> QED
    BY <1>1, <2>3, <2>4, <2>5
<1>2. CASE q.kind # "apply_template"
  <2>1. q.retags /\ t \in Tagging(r, q.target, q.segs)
    BY <1>2 DEF NewTags
  <2>2. q.kind # "create_segment"
    BY <1>0, <2>1 DEF Fits, Argued
  <2> QED
    BY <1>2, <2>1, <2>2 DEF Tagging, NewSegments
<1> QED
  BY <1>1, <1>2

(* Tags are deleted with what they refer to, and added to what is there.    *)
LEMMA TagsRefer ==
    ASSUME Base, Constraints, NEW r \in Requests, StepOf(r), NEW t \in tags'
    PROVE  segments'[t.segment] # None /\ (t.of \in EntryIds => entries'[t.of] # None)
<1> DEFINE s == t.segment
<1>0. t \in Tag /\ s \in SegmentIds /\ t.of \in Docs \cup ObjectionIds
  BY TagsStep DEF Tag
<1>1. None \notin Names \cup Labels \cup Titles
  BY CurationAssumption
<1>2. s[2] # None
  BY <1>0, <1>1 DEF SegmentIds
<1>3. ASSUME t.of \in EntryIds PROVE t.of \in ObjectionIds /\ t.of \notin TopicIds /\ t.of[2] # None
  BY <1>0, <1>1, <1>3, EntryKinds, CurationAssumption
<1>4. CASE t \in tags
  <2>1. ~(DeleteSegment(r) /\ req[r].target = s)
    BY DEF DeleteSegment
  <2>2. segments'[s] # None
    BY <1>0, <1>2, <1>4, <2>1, SegmentsStep DEF Constraints
  <2>3. ASSUME t.of \in EntryIds PROVE entries'[t.of] # None
    <3>1. ~(DeleteObjection(r) /\ req[r].target = t.of)
      BY <1>4 DEF DeleteObjection, TagsOf
    <3>2. ~(DeleteRampTopic(r) /\ req[r].target = t.of)
      BY <1>3, <2>3 DEF DeleteRampTopic, Base, AllFit, Fits, Argued, Is
    <3>3. entries[t.of] # None
      BY <1>4, <2>3 DEF Constraints
    <3> QED
      BY <1>3, <2>3, <3>1, <3>2, <3>3, EntriesStep
  <2> QED
    BY <2>2, <2>3
<1>5. CASE t \notin tags
  <2>1. /\ t \in NewTags(r) /\ req[r].pc # "idle" /\ Flushes(r)
        /\ ReplaceDocumentSegments(r) \/ CreateObjection(r) \/ UpdateObjection(r) \/ ApplyTemplate(r)
    BY <1>5, TagsStep DEF ReplaceDocumentSegments, CreateObjection, UpdateObjection, ApplyTemplate, Is
  <2>2. segments[s] # None \/ s \in NewSegments(r)
    BY <2>1 DEF Flushes
  <2>3. CASE ApplyTemplate(r)
    <3>1. segments' = [x \in SegmentIds |-> IF x \in NewSegments(r) THEN x[2] ELSE segments[x]]
      BY <2>3 DEF ApplyTemplate
    <3>2. segments'[s] # None
      BY <1>0, <1>2, <2>2, <3>1
    <3>3. ASSUME t.of \in EntryIds PROVE entries'[t.of] # None
      <4> DEFINE wanted == (req[r].template.titles \cup {o.label : o \in req[r].template.objections}) \ req[r].known
      <4>1. entries' = [x \in EntryIds |-> IF x[1] = r /\ x[2] \in wanted THEN x[2] ELSE entries[x]]
            /\ req[r].kind = "apply_template"
        BY <2>3 DEF ApplyTemplate, Is
      <4>2. PICK o \in req[r].template.objections : o.label \notin req[r].known /\ t.of = <<r, o.label>>
        BY <2>1, <4>1, NewTagsOf
      <4>3. o.label \in wanted
        BY <4>2
      <4> HIDE DEF wanted
      <4> QED
        BY <1>3, <3>3, <4>1, <4>2, <4>3
    <3> QED
      BY <3>2, <3>3
  <2>4. CASE ~ApplyTemplate(r)
    <3>1. req[r].kind # "apply_template" /\ ~DeleteSegment(r) /\ ~DeleteObjection(r) /\ ~DeleteRampTopic(r)
      BY <2>1, <2>4 DEF ReplaceDocumentSegments, CreateObjection, UpdateObjection, Is,
                        DeleteSegment, DeleteObjection, DeleteRampTopic
    <3>2. NewSegments(r) = {} /\ t.of = req[r].target
      BY <2>1, <3>1, NewTagsOf
    <3>3. segments'[s] # None
      BY <1>0, <1>2, <2>2, <3>1, <3>2, SegmentsStep
    <3>4. ASSUME t.of \in EntryIds PROVE entries'[t.of] # None
      <4>1. CASE ReplaceDocumentSegments(r)
        <5>1. req[r].target \in Docs
          BY <4>1 DEF ReplaceDocumentSegments, Base, AllFit, Fits, Argued, Is
        <5> QED
          BY <1>3, <3>2, <3>4, <5>1, EntryKinds
      <4>2. CASE CreateObjection(r)
        <5>1. entries' = [entries EXCEPT ![req[r].target] = req[r].name] /\ req[r].name \in Labels
          BY <4>2 DEF CreateObjection, Base, AllFit, Fits, Argued, Is
        <5> QED
          BY <1>1, <3>2, <3>4, <5>1 DEF Base, Typed
      <4>3. CASE UpdateObjection(r)
        <5>1. entries[t.of] # None
          BY <2>1, <4>3 DEF UpdateObjection, Flushes, Is
        <5> QED
          BY <1>3, <3>1, <3>4, <5>1, EntriesStep
      <4> QED
        BY <2>1, <2>4, <4>1, <4>2, <4>3
    <3> QED
      BY <3>3, <3>4
  <2> QED
    BY <2>3, <2>4
<1> QED
  BY <1>4, <1>5

(* A segment is tagged once: rows about to be deleted count as well.        *)
LEMMA TagsUnique ==
    ASSUME Base, Constraints, NEW r \in Requests, StepOf(r), NEW t \in tags', NEW u \in tags',
           t.of = u.of, t.segment = u.segment
    PROVE  t = u
<1>0. t \in Tag /\ u \in Tag
  BY TagsStep
<1>1. CASE t \in tags /\ u \in tags
  BY <1>1 DEF Constraints
<1>2. CASE t \notin tags \/ u \notin tags
  <2>1. req[r].pc # "idle" /\ Flushes(r) /\ tags' \subseteq tags \cup NewTags(r)
    BY <1>2, TagsStep DEF ReplaceDocumentSegments, CreateObjection, UpdateObjection, ApplyTemplate, Is
  <2>2. \A v \in NewTags(r) : \A w \in tags : w.of = v.of => w.segment # v.segment
    BY <2>1 DEF Flushes, TagsOf
  <2>3. t \in NewTags(r) /\ u \in NewTags(r)
    BY <1>2, <2>1, <2>2
  <2>4. t.by = u.by
    BY <2>1, <2>3, NewTagsTyped
  <2> QED
    BY <1>0, <2>4 DEF Tag
<1> QED
  BY <1>1, <1>2

(* So every step keeps the constraints.                                     *)
LEMMA ConstraintsStep ==
    ASSUME Base, Constraints, NEW r \in Requests, StepOf(r)
    PROVE  Constraints'
<1>1. \A s, t \in SegmentIds : segments'[s] = segments'[t] => s = t \/ segments'[s] = None
  BY NamesUnique
<1>2. \A t \in tags' : segments'[t.segment] # None /\ (t.of \in EntryIds => entries'[t.of] # None)
  BY TagsRefer
<1>3. \A t, u \in tags' : t.of = u.of /\ t.segment = u.segment => t = u
  BY TagsUnique
<1> QED
  BY <1>1, <1>2, <1>3 DEF Constraints

(* They are inductive, given Base.                                          *)
LEMMA ConstraintsNext == Base /\ Constraints /\ [Next]_vars => Constraints'
<1>1. ASSUME Constraints, UNCHANGED vars PROVE Constraints'
  BY <1>1 DEF Constraints, vars
<1> QED
  BY <1>1, ConstraintsStep, NextStep

(* Tags refer to segments and objections that exist, no segment is tagged   *)
(* twice and no two have one name, whatever overlaps (the constraints of    *)
(* document_segments, objection_segments and segments, and the cascades).  *)
THEOREM CurationTyped == Spec => []TypeOK
<1> DEFINE Inv == Base /\ Constraints
<1>1. Init => Inv
  BY BaseInit DEF Init, RowsInit
<1>2. Inv /\ [Next]_vars => Inv'
  BY BaseNext, ConstraintsNext
<1>3. Inv => TypeOK
  BY DEF Base, Typed, TypeOK
<1> QED
  BY <1>1, <1>2, <1>3, PTL DEF Spec

(* What the other properties start from.                                    *)
LEMMA CurationBase == Spec => [](Base /\ Constraints)
<1>1. Init => Base /\ Constraints
  BY BaseInit DEF Init, RowsInit
<1> QED
  BY <1>1, BaseNext, ConstraintsNext, PTL DEF Spec

----------------------------------------------------------------------------
(* Retention policies *)

(* The PUTs for a type.                                                     *)
Puts(type) == {r \in Done("upsert_retention_policy") : req[r].name = type}

(* The policies of a type.                                                  *)
PoliciesOf(type) == {p \in PolicyIds : p[2] = type /\ policies[p] # None}

(* No two PUTs of the type overlapped.                                      *)
Calm(type) == \A s, t \in Puts(type) : s # t => ~Overlapped(s, t)

(* Without overlap there is one policy, that of the last PUT; and a PUT     *)
(* that saw all those before it has found it.                               *)
PutInv ==
    \A type \in Types : Calm(type) =>
        /\ \A p, x \in PoliciesOf(type) : p = x
        /\ \A r \in Puts(type) : Puts(type) \subseteq past[r] \cup {r} =>
              \E p \in PoliciesOf(type) : policies[p] = req[r].days
        /\ \A r \in Requests :
              Is(r, "upsert_retention_policy", "ready") /\ req[r].name = type
                 /\ Puts(type) \subseteq past[r] =>
                 policies[req[r].target] = req[r].old /\ PoliciesOf(type) \subseteq {req[r].target}

(* What is done stays as it was.                                            *)
LEMMA DoneStays ==
    ASSUME Base, NEW r \in Requests, StepOf(r)
    PROVE  /\ r \notin done
           /\ done' = done \/ (done' = done \cup {r} /\ (CreatedTopic(r) \/ Committed(r)))
           /\ \A s \in Requests : s # r => req'[s] = req[s] /\ past'[s] = past[s]
           /\ \A s \in done : s # r /\ s \in Requests /\ req'[s] = req[s] /\ past'[s] = past[s]
           /\ req'[r].kind = req[r].kind
           /\ \A s \in Requests : past'[s] \subseteq done /\ s \notin past'[s]
<1>1. Moved(r) /\ (Begun(r) \/ Continued(r) \/ CreatedTopic(r) \/ Committed(r))
  BY DEF StepOf
<1>2. r \notin done
  BY <1>1 DEF Base, Timeline, Begun, Continued, CreatedTopic, Committed, Working
<1> QED
  BY <1>1, <1>2 DEF Base, Typed, Timeline, Moved, Begun, Continued, CreatedTopic, Committed

(* A PUT has no statement between its first and its commit.                 *)
LEMMA PutsDoNotWait ==
    ASSUME Base, NEW r \in Requests, req[r].kind = "upsert_retention_policy"
    PROVE  /\ Continued(r) /\ ContinuesRequest(r) => req'[r].pc # "ready"
           /\ Committed(r) => req'[r].pc = "done"
<1> DEFINE q == req[r]
<1>0. q \in Request /\ Fits(r, q)
  BY DEF Base, Typed, AllFit
<1>1. Committed(r) => req'[r].pc = "done"
  BY <1>0 DEF Committed, Request
<1>2. ~EnsureNewName(r) /\ ~ValidateSegmentIds(r) /\ ~ReadTitles(r) /\ ~ReadLabels(r)
  BY DEF EnsureNewName, ValidateSegmentIds, ReadTitles, ReadLabels, Is
<1>3. ~ReadTags(r)
  BY <1>0 DEF ReadTags, Fits, Argued
<1>4. ASSUME FlushFails(r) PROVE req'[r].pc = "failed"
  <2>1. req' = [req EXCEPT ![r] = [q EXCEPT !.pc = "failed"]]
    BY <1>4 DEF FlushFails, Continues
  <2>2. [q EXCEPT !.pc = "failed"].pc = "failed"
    BY <1>0 DEF Request
  <2> QED
    BY <2>1, <2>2 DEF Base, Typed
<1>5. ContinuesRequest(r) => FlushFails(r) \/ Writes(r)
  BY <1>2, <1>3 DEF ContinuesRequest, Writes
<1> QED
  BY <1>1, <1>4, <1>5, WritesMoves

(* A PUT changes the policy it found, or adds the first.                    *)
LEMMA PutInvStep ==
    ASSUME Base, PutInv, NEW r \in Requests, StepOf(r)
    PROVE  PutInv'
<1> SUFFICES ASSUME NEW type \in Types, Calm(type)'
             PROVE  /\ \A p, x \in PoliciesOf(type)' : p = x
                    /\ \A s \in Puts(type)' : Puts(type)' \subseteq past'[s] \cup {s} =>
                          \E p \in PoliciesOf(type)' : policies'[p] = req'[s].days
                    /\ \A s \in Requests :
                          Is(s, "upsert_retention_policy", "ready")' /\ req'[s].name = type
                             /\ Puts(type)' \subseteq past'[s] =>
                             /\ policies'[req'[s].target] = req'[s].old
                             /\ PoliciesOf(type)' \subseteq {req'[s].target}
  BY DEF PutInv
<1> DEFINE q == req[r]
<1>0. Fits(r, q) /\ q \in Request
  BY DEF Base, AllFit, Typed
<1>1. Puts(type) \subseteq Puts(type)' /\ \A s \in Puts(type) : s \in done /\ req'[s] = req[s] /\ past'[s] = past[s]
  BY DoneStays DEF Puts, Done
<1>2. Calm(type)
  BY <1>1 DEF Calm, Overlapped
<1>3. CASE ~UpsertRetentionPolicy(r) \/ q.name # type
  <2>1. Puts(type)' = Puts(type)
    <3>1. ASSUME r \in Puts(type)' PROVE FALSE
      <4>1. r \in done' /\ req'[r].kind = "upsert_retention_policy" /\ req'[r].name = type
        BY <3>1 DEF Puts, Done
      <4>2. Committed(r) /\ Writes(r) /\ q.kind = "upsert_retention_policy"
        BY <4>1, DoneStays DEF StepOf, Begun, Continued, CreatedTopic
      <4>3. UpsertRetentionPolicy(r)
        BY <4>2 DEF Writes, CreateSegment, UpdateSegment, DeleteSegment, ReplaceDocumentSegments,
                    CreateObjection, UpdateObjection, DeleteObjection, UpdateRampTopic,
                    DeleteRampTopic, ApplyTemplate, Is
      <4>4. req'[r].name = q.name
        BY <1>0, <4>2 DEF Committed, Request
      <4> QED
        BY <1>3, <4>1, <4>3, <4>4
    <3> QED
      BY <1>1, <3>1, DoneStays DEF Puts, Done
  <2>2. PoliciesOf(type)' = PoliciesOf(type) /\ \A p \in PoliciesOf(type) : policies'[p] = policies[p]
    <3>1. CASE UpsertRetentionPolicy(r)
      <4>1. q.target \in PolicyIds /\ q.target[2] # type
        BY <1>0, <1>3, <3>1 DEF UpsertRetentionPolicy, Fits, Argued, Is
      <4>2. \A p \in PolicyIds : p # q.target => policies'[p] = policies[p]
        BY <3>1 DEF UpsertRetentionPolicy, Base, Typed
      <4> QED
        BY <4>1, <4>2 DEF PoliciesOf
    <3>2. CASE ~UpsertRetentionPolicy(r)
      BY <3>2, PoliciesStep DEF PoliciesOf
    <3> QED
      BY <3>1, <3>2
  <2>3. ASSUME NEW s \in Requests, Is(s, "upsert_retention_policy", "ready")', req'[s].name = type,
               Puts(type) \subseteq past'[s]
        PROVE  policies'[req'[s].target] = req'[s].old /\ PoliciesOf(type) \subseteq {req'[s].target}
    <3>1. CASE s # r
      <4>1. req'[s] = req[s] /\ past'[s] = past[s]
        BY <3>1, DoneStays
      <4>2. policies[req[s].target] = req[s].old /\ PoliciesOf(type) \subseteq {req[s].target}
        BY <1>2, <2>3, <4>1 DEF PutInv, Is
      <4>3. req[s].target \in PolicyIds /\ req[s].target[2] = type
        BY <2>3, <4>1 DEF Base, AllFit, Fits, Argued, Is
      <4>4. policies'[req[s].target] = policies[req[s].target]
        <5>1. CASE UpsertRetentionPolicy(r)
          <6>1. q.target[2] # type
            BY <1>0, <1>3, <5>1 DEF UpsertRetentionPolicy, Fits, Argued, Is
          <6> QED
            BY <4>3, <5>1, <6>1 DEF UpsertRetentionPolicy, Base, Typed
        <5>2. CASE ~UpsertRetentionPolicy(r)
          BY <5>2, PoliciesStep
        <5> QED
          BY <5>1, <5>2
      <4> QED
        BY <4>1, <4>2, <4>4
    <3>2. CASE s = r
      <4>1. q.kind = "upsert_retention_policy" /\ req'[r].pc = "ready"
        BY <2>3, <3>2, DoneStays DEF Is
      <4>2. Begun(r) /\ q.pc = "idle" /\ BeginsRequest(r)
        BY <4>1, PutsDoNotWait DEF StepOf, CreatedTopic, Committed, Request, Base, Typed
      <4>3. PICK days \in Days, p \in PolicyIds, ty \in Types : FindPolicy(r, ty, days, p)
        BY <4>1, <4>2 DEF BeginsRequest, EnsureUniqueName, LoadSegment, SetDocumentSegments, AddObjection,
                    LoadObjection, CreateRampTopic, LoadTopic, ReadSegments, Begins, Is
      <4> DEFINE found == {x \in PolicyIds : x[2] = ty /\ policies[x] # None}
      <4> DEFINE f == [q EXCEPT !.pc = "ready", !.name = ty, !.days = days, !.target = p, !.old = policies[p]]
      <4>4. (IF found = {} THEN p = <<r, ty>> ELSE p \in found) /\ req' = [req EXCEPT ![r] = f]
        BY <4>3 DEF FindPolicy, Begins
      <4>5. f.name = ty /\ f.target = p /\ f.old = policies[p]
        BY <1>0 DEF Request
      <4> HIDE DEF f
      <4>6. req'[r] = f
        BY <4>4 DEF Base, Typed
      <4>7. ty = type /\ found = PoliciesOf(type)
        BY <2>3, <3>2, <4>5, <4>6 DEF PoliciesOf
      <4>8. found \subseteq {p}
        <5>1. \A x, y \in found : x = y
          BY <1>2, <4>7 DEF PutInv
        <5> HIDE DEF found
        <5> QED
          BY <4>4, <5>1
      <4>9. policies' = policies
        BY <4>2 DEF Begun, Rest
      <4> HIDE DEF found
      <4> QED
        BY <3>2, <4>5, <4>6, <4>7, <4>8, <4>9
    <3> QED
      BY <3>1, <3>2
  <2>4. \A s \in Puts(type) : Puts(type) \subseteq past[s] \cup {s} =>
            \E p \in PoliciesOf(type) : policies[p] = req[s].days
    BY <1>2 DEF PutInv
  <2>5. \A p, x \in PoliciesOf(type) : p = x
    BY <1>2 DEF PutInv
  <2> HIDE DEF q
  <2>6. ASSUME NEW s \in Puts(type), Puts(type) \subseteq past'[s] \cup {s}
        PROVE  \E p \in PoliciesOf(type) : policies'[p] = req'[s].days
    BY <1>1, <2>2, <2>4, <2>6
  <2> QED
    BY <2>1, <2>2, <2>3, <2>5, <2>6
<1>4. CASE UpsertRetentionPolicy(r) /\ q.name = type
  <2>1. /\ q.kind = "upsert_retention_policy" /\ q.pc = "ready" /\ q.target \in PolicyIds
        /\ q.target[2] = type /\ q.days \in Days /\ Committed(r) /\ done' = done \cup {r}
    BY <1>0, <1>4, WritesMoves DEF UpsertRetentionPolicy, Is, Fits, Argued, Writes, Committed
  <2>2. req'[r].name = type /\ req'[r].days = q.days /\ req'[r].kind = q.kind /\ req'[r].pc = "done"
        /\ past'[r] = past[r]
    BY <1>0, <1>4, <2>1 DEF Committed, Request
  <2>3. Puts(type)' = Puts(type) \cup {r} /\ r \notin Puts(type)
    BY <1>1, <2>1, <2>2, DoneStays DEF Puts, Done
  <2>4. Puts(type) \subseteq past[r]
    <3>1. ASSUME NEW t \in Puts(type) PROVE t \in past[r]
      <4>1. ~Overlapped(r, t)'
        BY <2>3, <3>1 DEF Calm
      <4>2. r \notin past'[t]
        BY <1>1, <3>1, DoneStays
      <4> QED
        BY <2>2, <4>1, <4>2 DEF Overlapped
    <3> QED
      BY <3>1
  <2>5. policies[q.target] = q.old /\ PoliciesOf(type) \subseteq {q.target}
    BY <1>2, <1>4, <2>1, <2>4 DEF PutInv, Is
  <2>6. policies' = IF q.days = q.old THEN policies ELSE [policies EXCEPT ![q.target] = q.days]
    BY <1>4 DEF UpsertRetentionPolicy
  <2> HIDE DEF q
  <2>7. policies'[q.target] = q.days /\ \A p \in PolicyIds : p # q.target => policies'[p] = policies[p]
    BY <2>1, <2>5, <2>6 DEF Base, Typed
  <2>8. q.days # None
    BY <2>1, CurationAssumption
  <2>9. PoliciesOf(type)' = {q.target}
    BY <2>1, <2>5, <2>7, <2>8 DEF PoliciesOf
  <2>10. \A s \in Puts(type)' : Puts(type)' \subseteq past'[s] \cup {s} => s = r
    BY <2>3, DoneStays DEF Puts, Done
  <2>11. \A s \in Requests : ~(Puts(type)' \subseteq past'[s])
    BY <2>3, DoneStays
  <2> QED
    BY <2>2, <2>7, <2>9, <2>10, <2>11
<1> QED
  BY <1>3, <1>4

(* upsert_retention_policy: without overlapping PUTs there is one policy    *)
(* for a type, with the days of the last; for any number of PUTs.           *)
THEOREM RetentionFollowsUpserts == Spec => []RetentionIsLastUpsert
<1>1. Init => PutInv
  <2> SUFFICES ASSUME Init PROVE PutInv
    OBVIOUS
  <2>1. \A type \in Types : Puts(type) = {}
    BY DEF Init, Puts, Done
  <2>2. \A r \in Requests : req[r].pc = "idle"
    BY DEF Init, Idle
  <2>3. ASSUME NEW type \in Types, NEW p \in PoliciesOf(type), NEW x \in PoliciesOf(type) PROVE p = x
    <3>1. p[1] = None /\ x[1] = None /\ p[2] = type /\ x[2] = type
      BY DEF Init, RowsInit, PoliciesOf
    <3>2. p = <<p[1], p[2]>> /\ x = <<x[1], x[2]>>
      BY DEF PoliciesOf, PolicyIds
    <3> QED
      BY <3>1, <3>2
  <2> QED
    BY <2>1, <2>2, <2>3 DEF PutInv, Is
<1>2. Base /\ PutInv /\ [Next]_vars => PutInv'
  <2>1. ASSUME PutInv, UNCHANGED vars PROVE PutInv'
    BY <2>1 DEF PutInv, vars, Puts, PoliciesOf, Calm, Overlapped, Done, Is
  <2> QED
    BY <2>1, PutInvStep, NextStep
<1>3. PutInv => RetentionIsLastUpsert
  <2> SUFFICES ASSUME PutInv, NEW type \in Types, NEW r \in Puts(type),
                      Puts(type) \subseteq past[r] \cup {r}, Calm(type)
               PROVE  \E p \in PoliciesOf(type) : PoliciesOf(type) = {p} /\ policies[p] = req[r].days
    BY DEF RetentionIsLastUpsert, Puts, PoliciesOf, Calm
  <2> QED
    BY DEF PutInv
<1> QED
  BY <1>1, <1>2, <1>3, CurationBase, PTL DEF Spec

----------------------------------------------------------------------------
(* Where rows come from *)

(* A row in sight was created by a request that is done, or was there.      *)
Origins ==
    /\ \A s \in SegmentIds : segments[s] # None => s[1] \in done \cup {None}
    /\ \A e \in EntryIds : entries[e] # None => e[1] \in done \cup {None}
    /\ \A r \in Requests : \A s \in req[r].segs : s[1] \in done \cup {None}
    /\ \A r \in Requests : req[r].kind = "update_objection" /\ req[r].pc # "idle" =>
          req[r].target[1] \in done \cup {None}

(* A ramp topic is not created in two steps.                                *)
LEMMA RampTopicsDoNotWait ==
    ASSUME Base, NEW r \in Requests, req[r].kind = "create_ramp_topic"
    PROVE  ~(Begun(r) /\ BeginsRequest(r))
<1>1. ASSUME BeginsRequest(r) PROVE \E n \in Titles : CreateRampTopic(r, n)
  BY <1>1 DEF BeginsRequest, EnsureUniqueName, LoadSegment, SetDocumentSegments, AddObjection,
              LoadObjection, LoadTopic, ReadSegments, FindPolicy, Begins, Is
<1> QED
  BY <1>1, CreateRampTopicMoves DEF Begun, CreatedTopic, Working

(* Rows are created at the commit, and requests name only rows in sight.    *)
LEMMA OriginsStep ==
    ASSUME Base, Origins, NEW r \in Requests, StepOf(r)
    PROVE  Origins'
<1> DEFINE q == req[r]
<1>0. q \in Request /\ req'[r] \in Request /\ Moved(r) /\ done \subseteq done'
  BY DEF Base, Typed, StepOf, Moved, Begun, Continued, CreatedTopic, Committed
<1>1. ASSUME NEW s \in SegmentIds, segments'[s] # None PROVE s[1] \in done' \cup {None}
  <2>1. CASE segments[s] # None
    BY <1>0, <2>1 DEF Origins
  <2>2. CASE segments[s] = None
    <3>1. s[1] = r /\ (CreateSegment(r) \/ ApplyTemplate(r))
      BY <1>1, <2>2, SegmentsStep
    <3> QED
      BY <3>1, WritesMoves DEF Writes, Committed
  <2> QED
    BY <2>1, <2>2
<1>2. ASSUME NEW e \in EntryIds, entries'[e] # None PROVE e[1] \in done' \cup {None}
  BY <1>0, <1>2, EntriesStep DEF Origins
<1>6. q.pc = "idle" => q.segs = {}
  <2>1. q.pc = "idle" => q = Idle(q.kind)
    BY DEF Base, AllFit, Fits
  <2> QED
    BY <2>1 DEF Idle
<1>3. ASSUME NEW s \in req'[r].segs PROVE s[1] \in done' \cup {None}
  <2>1. CASE Begun(r) /\ BeginsRequest(r) /\ q.pc = "idle" /\ req'[r].kind # "create_ramp_topic"
    <3>1. req'[r].segs \subseteq LiveSegments
      <4>0. q.segs = {}
        BY <1>6, <2>1
      <4>1. ASSUME NEW kind, NEW f, Begins(r, kind, f) PROVE req'[r] = f
        BY <4>1 DEF Begins, Base, Typed
      <4>2. ASSUME NEW n \in Names, EnsureUniqueName(r, n) PROVE req'[r].segs \subseteq LiveSegments
        <5>1. req'[r] = [q EXCEPT !.pc = "ready", !.name = n]
          BY <4>1, <4>2 DEF EnsureUniqueName
        <5> QED
          BY <1>0, <4>0, <5>1 DEF Request
      <4>3. ASSUME NEW kind, NEW s2, NEW n, LoadSegment(r, kind, s2, n) PROVE req'[r].segs \subseteq LiveSegments
        <5>1. req'[r] = [q EXCEPT !.pc = IF n # None THEN "loaded" ELSE "ready",
                           !.target = s2, !.name = n, !.old = segments[s2]]
          BY <4>1, <4>3 DEF LoadSegment
        <5> QED
          BY <1>0, <4>0, <5>1 DEF Request
      <4>4. ASSUME NEW d \in Docs, NEW ids \in SUBSET LiveSegments, SetDocumentSegments(r, d, ids)
            PROVE  req'[r].segs \subseteq LiveSegments
        <5>1. req'[r] = [q EXCEPT !.pc = "loaded", !.target = d, !.retags = TRUE, !.segs = ids]
          BY <4>1, <4>4 DEF SetDocumentSegments
        <5> QED
          BY <1>0, <4>4, <5>1 DEF Request
      <4>5. ASSUME NEW n \in Labels, NEW ids \in SUBSET LiveSegments, AddObjection(r, n, ids)
            PROVE  req'[r].segs \subseteq LiveSegments
        <5>1. req'[r] = [q EXCEPT !.pc = IF ids = {} THEN "ready" ELSE "loaded",
                             !.target = <<r, n>>, !.name = n, !.retags = TRUE, !.segs = ids]
          BY <4>1, <4>5 DEF AddObjection
        <5> DEFINE pc == IF ids = {} THEN "ready" ELSE "loaded"
        <5>2. [q EXCEPT !.pc = pc, !.target = <<r, n>>, !.name = n, !.retags = TRUE, !.segs = ids].segs = ids
          BY <1>0 DEF Request
        <5> QED
          BY <4>5, <5>1, <5>2
      <4>6. ASSUME NEW kind, NEW e, NEW n, NEW retags, NEW ids \in SUBSET LiveSegments,
                   LoadObjection(r, kind, e, n, retags, ids)
            PROVE  req'[r].segs \subseteq LiveSegments
        <5>1. req'[r] = [q EXCEPT !.pc = IF retags THEN "loaded" ELSE "ready", !.target = e,
                             !.name = n, !.retags = retags, !.segs = ids, !.old = entries[e]]
          BY <4>1, <4>6 DEF LoadObjection
        <5> QED
          BY <1>0, <4>6, <5>1 DEF Request
      <4>7. ASSUME NEW kind, NEW e, NEW n, LoadTopic(r, kind, e, n) PROVE req'[r].segs \subseteq LiveSegments
        <5>1. req'[r] = [q EXCEPT !.pc = "ready", !.target = e, !.name = n, !.old = entries[e]]
          BY <4>1, <4>7 DEF LoadTopic
        <5> QED
          BY <1>0, <4>0, <5>1 DEF Request
      <4>8. ASSUME NEW t, ReadSegments(r, t) PROVE req'[r].segs \subseteq LiveSegments
        <5> DEFINE saw == {p \in SegmentIds \X Names : segments[p[1]] = p[2]}
        <5>1. req'[r] = [q EXCEPT !.pc = "loaded", !.template = t, !.saw = saw]
          BY <4>1, <4>8 DEF ReadSegments
        <5> HIDE DEF saw
        <5> QED
          BY <1>0, <4>0, <5>1 DEF Request
      <4>9. ASSUME NEW type, NEW days, NEW p, FindPolicy(r, type, days, p) PROVE req'[r].segs \subseteq LiveSegments
        <5>1. req'[r] = [q EXCEPT !.pc = "ready", !.name = type, !.days = days, !.target = p,
                             !.old = policies[p]]
          BY <4>1, <4>9 DEF FindPolicy
        <5> QED
          BY <1>0, <4>0, <5>1 DEF Request
      <4>10. ~\E n \in Titles : CreateRampTopic(r, n)
        BY <2>1 DEF CreateRampTopic, Is, Base, Typed, Moved, StepOf
      <4> QED
        <5>1. CASE \E n \in Names : EnsureUniqueName(r, n)
          BY <4>2, <5>1
        <5>2. CASE \/ \E s2 \in LiveSegments, n \in Names \cup {None} : LoadSegment(r, "update_segment", s2, n)
                   \/ \E s2 \in LiveSegments : LoadSegment(r, "delete_segment", s2, None)
          BY <4>3, <5>2
        <5>3. CASE \E d \in Docs, ids \in SUBSET LiveSegments : SetDocumentSegments(r, d, ids)
          BY <4>4, <5>3
        <5>4. CASE \E n \in Labels, ids \in SUBSET LiveSegments : AddObjection(r, n, ids)
          BY <4>5, <5>4
        <5>5. CASE \/ \E e \in ObjectionIds, n \in Labels \cup {None}, retags \in BOOLEAN,
                         ids \in SUBSET LiveSegments : LoadObjection(r, "update_objection", e, n, retags, ids)
                   \/ \E e \in ObjectionIds : LoadObjection(r, "delete_objection", e, None, FALSE, {})
          <6>1. {} \in SUBSET LiveSegments
            OBVIOUS
          <6> QED
            BY <4>6, <5>5, <6>1
        <5>6. CASE \/ \E e \in TopicIds, n \in Titles \cup {None} : LoadTopic(r, "update_ramp_topic", e, n)
                   \/ \E e \in TopicIds : LoadTopic(r, "delete_ramp_topic", e, None)
          BY <4>7, <5>6
        <5>7. CASE \E t \in Templates : ReadSegments(r, t)
          BY <4>8, <5>7
        <5>8. CASE \E type \in Types, days \in Days, p \in PolicyIds : FindPolicy(r, type, days, p)
          BY <4>9, <5>8
        <5>9. BeginsRequest(r)
          BY <2>1
        <5> QED
          BY <4>10, <5>1, <5>2, <5>3, <5>4, <5>5, <5>6, <5>7, <5>8, <5>9 DEF BeginsRequest
    <3> QED
      BY <1>0, <1>3, <3>1 DEF Origins, LiveSegments
  <2>2. CASE Continued(r)
    BY <1>0, <1>3, <2>2 DEF Continued, Keeps, Origins
  <2>3. CASE Committed(r)
    BY <1>0, <1>3, <2>3 DEF Committed, Request, Origins
  <2>4. CASE CreatedTopic(r) /\ \E n \in Titles : CreateRampTopic(r, n)
    <3>1. PICK n \in Titles : CreateRampTopic(r, n)
      BY <2>4
    <3>2. req'[r] = [q EXCEPT !.pc = "done", !.target = <<r, n>>, !.name = n]
      BY <3>1 DEF CreateRampTopic, Base, Typed
    <3>3. q.segs = {}
      BY <1>6, <2>4 DEF CreatedTopic
    <3>4. req'[r].segs = q.segs
      BY <1>0, <3>2 DEF Request
    <3> QED
      BY <1>3, <3>3, <3>4
  <2>5. ~(Begun(r) /\ q.pc = "idle" /\ BeginsRequest(r) /\ req'[r].kind = "create_ramp_topic")
    BY <1>0, RampTopicsDoNotWait DEF Moved
  <2> QED
    BY <2>1, <2>2, <2>3, <2>4, <2>5 DEF StepOf
<1>4. ASSUME req'[r].kind = "update_objection", req'[r].pc # "idle" PROVE req'[r].target[1] \in done' \cup {None}
  <2>0. q.kind = "update_objection"
    BY <1>0, <1>4 DEF Moved
  <2>1. CASE Begun(r) /\ BeginsRequest(r)
    <3>1. PICK e \in ObjectionIds, n \in Labels \cup {None}, retags \in BOOLEAN,
               ids \in SUBSET LiveSegments : LoadObjection(r, "update_objection", e, n, retags, ids)
      BY <2>0, <2>1 DEF BeginsRequest, EnsureUniqueName, LoadSegment, SetDocumentSegments, AddObjection,
                LoadObjection, CreateRampTopic, LoadTopic, ReadSegments, FindPolicy, Begins, Is
    <3> DEFINE f == [q EXCEPT !.pc = IF retags THEN "loaded" ELSE "ready", !.target = e,
                             !.name = n, !.retags = retags, !.segs = ids, !.old = entries[e]]
    <3>2. req' = [req EXCEPT ![r] = f] /\ entries[e] # None
      BY <3>1 DEF LoadObjection, Begins
    <3>3. f.target = e
      BY <1>0 DEF Request
    <3> HIDE DEF f
    <3>4. req'[r].target = e /\ e \in EntryIds
      BY <3>2, <3>3, EntryKinds DEF Base, Typed
    <3> QED
      BY <1>0, <3>2, <3>4 DEF Origins
  <2>2. CASE Continued(r)
    BY <1>0, <2>0, <2>2 DEF Continued, Keeps, Working, Origins
  <2>3. CASE Committed(r)
    BY <1>0, <2>0, <2>3 DEF Committed, Request, Origins
  <2> QED
    BY <2>0, <2>1, <2>2, <2>3 DEF StepOf, CreatedTopic
<1>5. ASSUME NEW s \in Requests, s # r PROVE req'[s] = req[s]
  BY <1>0, <1>5 DEF Moved
<1> QED
  BY <1>0, <1>1, <1>2, <1>3, <1>4, <1>5 DEF Origins

(* At first all rows were there before.                                     *)
LEMMA OriginsInit == Init => Origins
<1> SUFFICES ASSUME Init PROVE Origins
  OBVIOUS
<1>1. \A r \in Requests : req[r].pc = "idle" /\ req[r].segs = {}
  BY DEF Init, Idle
<1> QED
  BY <1>1 DEF Init, RowsInit, Origins

----------------------------------------------------------------------------
(* Tags *)

(* The tags of what is not retagged go with their segments and with it,     *)
(* and none are added.                                                      *)
LEMMA TagsKept ==
    ASSUME Base, NEW r \in Requests, StepOf(r),
           NEW x \in Docs \cup ObjectionIds, x \in Docs \/ x[1] \in done \cup {None},
           ~(Committed(r) /\ req[r].retags /\ req[r].target = x)
    PROVE  /\ TagsOf(x)' \subseteq TagsOf(x)
           /\ x \in Docs \/ entries'[x] # None =>
                 \A t \in TagsOf(x) : segments'[t.segment] # None => t \in TagsOf(x)'
<1> DEFINE q == req[r]
<1>0. Fits(r, q) /\ q \in Request
  BY DEF Base, Typed, AllFit
<1>1. x \in Docs => x \notin ObjectionIds
  BY EntryKinds
<1>2. CASE DeleteSegment(r)
  <2>1. q.target \in SegmentIds /\ q.pc = "ready"
    BY <1>0, <1>2 DEF DeleteSegment, Is, Fits, Argued
  <2>2. segments'[q.target] = None /\ tags' = {t \in tags : t.segment # q.target}
    BY <1>2, <2>1 DEF DeleteSegment, Base, Typed
  <2> QED
    BY <2>2 DEF TagsOf
<1>3. CASE ReplaceDocumentSegments(r) \/ CreateObjection(r) \/ UpdateObjection(r)
  <2>1. q.pc = "ready" /\ Committed(r) /\ q.kind # "apply_template"
        /\ q.kind \in {"set_document_segments", "create_objection", "update_objection"}
    BY <1>3, WritesMoves DEF Writes, ReplaceDocumentSegments, CreateObjection, UpdateObjection, Is
  <2>2. ASSUME NEW t \in q.rows \cup NewTags(r) PROVE t.of # x
    <3>1. q.retags /\ t.of = q.target
      <4>1. CASE t \in q.rows
        BY <1>0, <4>1 DEF Fits
      <4>2. CASE t \in NewTags(r)
        BY <2>1, <4>2, NewTagsOf
      <4> QED
        BY <2>2, <4>1, <4>2
    <3> QED
      BY <2>1, <3>1
  <2>3. tags' = (tags \ q.rows) \cup NewTags(r) \/ tags' = tags \cup NewTags(r)
    BY <1>3 DEF ReplaceDocumentSegments, CreateObjection, UpdateObjection
  <2> QED
    BY <2>2, <2>3 DEF TagsOf
<1>4. CASE DeleteObjection(r)
  <2>1. q.target \in ObjectionIds /\ q.target \in EntryIds
    BY <1>0, <1>4, EntryKinds DEF DeleteObjection, Is, Fits, Argued
  <2>2. entries'[q.target] = None /\ tags' = tags \ TagsOf(q.target)
    BY <1>4, <2>1 DEF DeleteObjection, Base, Typed
  <2>3. x # q.target => TagsOf(x)' = TagsOf(x)
    BY <2>2 DEF TagsOf
  <2>4. x = q.target => x \notin Docs /\ entries'[x] = None
    BY <1>1, <2>1, <2>2
  <2>5. tags' \subseteq tags
    BY <2>2
  <2> QED
    BY <2>3, <2>4, <2>5 DEF TagsOf
<1>5. CASE ApplyTemplate(r)
  <2>1. q.kind = "apply_template" /\ q.pc = "ready" /\ tags' = tags \cup NewTags(r)
    BY <1>5 DEF ApplyTemplate, Is
  <2>2. ASSUME NEW t \in NewTags(r) PROVE t.of # x
    <3>1. PICK o \in q.template.objections : o.label \in Labels /\ t.of = <<r, o.label>>
      BY <2>1, <2>2, NewTagsOf
    <3>2. t.of \in ObjectionIds /\ t.of[1] = r
      BY <3>1 DEF ObjectionIds, By
    <3>3. r \notin done \cup {None}
      BY CurationAssumption, DoneStays
    <3> QED
      BY <1>1, <3>2, <3>3
  <2> QED
    BY <2>1, <2>2 DEF TagsOf
<1>6. CASE ~(DeleteSegment(r) \/ ReplaceDocumentSegments(r) \/ CreateObjection(r)
             \/ UpdateObjection(r) \/ DeleteObjection(r) \/ ApplyTemplate(r))
  <2>1. tags' = tags
    BY <1>6 DEF StepOf, Begun, Continued, Rest, CreateRampTopic, Writes, CreateSegment,
                UpdateSegment, UpdateRampTopic, DeleteRampTopic, UpsertRetentionPolicy
  <2> QED
    BY <2>1 DEF TagsOf
<1> QED
  BY <1>2, <1>3, <1>4, <1>5, <1>6

(* What can be tagged: documents, and objections that are there.            *)
Tagged(x) == x \in Docs \/ entries[x] # None

(* What is tagged has the tags of the last request to set them.             *)
TagsFollow ==
    \A x \in Docs \cup ObjectionIds : Tagged(x) =>
        \A r \in Retags(x) : Retags(x) \subseteq past[r] \cup {r} =>
            {t.segment : t \in TagsOf(x)} = {s \in req[r].segs : segments[s] # None}

(* A request that saw all who set the tags before it read all tags.         *)
RowsRead ==
    \A r \in Requests, x \in Docs \cup ObjectionIds :
        req[r].pc = "ready" /\ req[r].retags /\ req[r].target = x /\ Retags(x) \subseteq past[r] =>
            TagsOf(x) \subseteq req[r].rows

(* What a request to set tags is about.                                     *)
LEMMA RetagTargets ==
    ASSUME Base, Origins, NEW r \in Requests, req[r].retags
    PROVE  /\ req[r].target \in Docs \cup ObjectionIds /\ req[r].target # None
           /\ req[r].target \in Docs \/ req[r].target[1] \in done \cup {None}
                \/ (req[r].kind = "create_objection" /\ req[r].target[1] = r)
<1> DEFINE q == req[r]
<1>0. Fits(r, q) /\ None \notin Docs \cup ObjectionIds
  BY CurationAssumption DEF Base, AllFit, EntryIds
<1>1. q.pc # "idle"
  <2>1. q.pc = "idle" => q = Idle(q.kind)
    BY <1>0 DEF Fits
  <2> QED
    BY <2>1 DEF Idle
<1>2. Argued(r, q) /\ q.kind \in {"set_document_segments", "create_objection", "update_objection"}
  BY <1>0, <1>1 DEF Fits, Argued
<1>3. q.kind = "create_objection" => q.target \in ObjectionIds /\ q.target[1] = r
  BY <1>2 DEF Argued, ObjectionIds, By
<1>4. q.kind = "update_objection" => q.target \in ObjectionIds /\ q.target[1] \in done \cup {None}
  BY <1>1, <1>2 DEF Argued, Origins
<1> QED
  BY <1>0, <1>2, <1>3, <1>4 DEF Argued

(* Only the commit of a request to set tags adds one to those who did.      *)
LEMMA RetagsStep ==
    ASSUME Base, NEW r \in Requests, StepOf(r), NEW x
    PROVE  /\ Retags(x) \subseteq Retags(x)' /\ Retags(x)' \subseteq Retags(x) \cup {r}
           /\ \A s \in Retags(x) : s # r /\ req'[s] = req[s] /\ past'[s] = past[s]
           /\ r \in Retags(x)' <=> Committed(r) /\ req[r].retags /\ req[r].target = x
<1>1. req[r] \in Request /\ Moved(r)
  BY DEF Base, Typed, StepOf
<1>2. Committed(r) => req'[r].target = req[r].target /\ req'[r].retags = req[r].retags /\ r \in done'
  BY <1>1 DEF Committed, Request
<1>3. ~Committed(r) => r \notin done' \/ req'[r].retags = FALSE
  BY DoneStays, CreateRampTopicMoves DEF StepOf, Begun, Continued
<1>4. Committed(r) <=> Committed(r) /\ r \in done'
  BY <1>2
<1> QED
  BY <1>2, <1>3, <1>4, DoneStays DEF Retags

(* Requests to set tags read them in between; their writes set them.        *)
LEMMA RetagsReadTags ==
    ASSUME Base, NEW r \in Requests, StepOf(r),
           req[r].kind \in {"set_document_segments", "update_objection"},
           req'[r].retags, req'[r].pc = "ready"
    PROVE  ReadTags(r)
<1> DEFINE q == req[r]
<1>0. q \in Request /\ Fits(r, q)
  BY DEF Base, Typed, AllFit
<1>1. ASSUME Begun(r), BeginsRequest(r) PROVE FALSE
  <2>1. CASE q.kind = "set_document_segments"
    <3>1. PICK d \in Docs, ids \in SUBSET LiveSegments : SetDocumentSegments(r, d, ids)
      BY <1>1, <2>1 DEF BeginsRequest, EnsureUniqueName, LoadSegment, AddObjection, LoadObjection,
                CreateRampTopic, LoadTopic, ReadSegments, FindPolicy, Begins, Is
    <3>2. req'[r] = [q EXCEPT !.pc = "loaded", !.target = d, !.retags = TRUE, !.segs = ids]
      BY <3>1 DEF SetDocumentSegments, Begins, Base, Typed
    <3>3. req'[r].pc = "loaded"
      BY <1>0, <3>2 DEF Request
    <3> QED
      BY <3>3
  <2>2. CASE q.kind = "update_objection"
    <3>1. PICK e \in ObjectionIds, n \in Labels \cup {None}, retags \in BOOLEAN,
               ids \in SUBSET LiveSegments : LoadObjection(r, "update_objection", e, n, retags, ids)
      BY <1>1, <2>2 DEF BeginsRequest, EnsureUniqueName, LoadSegment, SetDocumentSegments, AddObjection,
                LoadObjection, CreateRampTopic, LoadTopic, ReadSegments, FindPolicy, Begins, Is
    <3> DEFINE pc == IF retags THEN "loaded" ELSE "ready"
    <3> DEFINE f == [q EXCEPT !.pc = pc, !.target = e, !.name = n, !.retags = retags, !.segs = ids,
                              !.old = entries[e]]
    <3>2. req'[r] = f
      BY <3>1 DEF LoadObjection, Begins, Base, Typed
    <3>3. f.pc = pc /\ f.retags = retags
      BY <1>0 DEF Request
    <3> HIDE DEF f
    <3> QED
      BY <3>2, <3>3
  <2> QED
    BY <2>1, <2>2
<1>2. ASSUME ValidateSegmentIds(r) PROVE FALSE
  <2>1. req'[r] = [q EXCEPT !.pc = "valid"]
    BY <1>2 DEF ValidateSegmentIds, Continues, Base, Typed
  <2>2. req'[r].pc = "valid"
    BY <1>0, <2>1 DEF Request
  <2> QED
    BY <2>2
<1>3. ASSUME FlushFails(r) PROVE FALSE
  <2>1. req'[r] = [q EXCEPT !.pc = "failed"]
    BY <1>3 DEF FlushFails, Continues, Base, Typed
  <2>2. req'[r].pc = "failed"
    BY <1>0, <2>1 DEF Request
  <2> QED
    BY <2>2
<1>4. ASSUME Committed(r) PROVE FALSE
  BY <1>0, <1>4 DEF Committed, Request
<1>5. ~EnsureNewName(r) /\ ~ReadTitles(r) /\ ~ReadLabels(r)
  BY DEF EnsureNewName, ReadTitles, ReadLabels, Is
<1>6. ContinuesRequest(r) => ReadTags(r)
  BY <1>2, <1>3, <1>4, <1>5, WritesMoves DEF ContinuesRequest, Writes
<1> QED
  BY <1>1, <1>4, <1>6 DEF StepOf, CreatedTopic

(* ... and the commit of such a request is one of three.                    *)
LEMMA RetagsWrite ==
    ASSUME Base, NEW r \in Requests, StepOf(r), Committed(r),
           req[r].kind \in {"set_document_segments", "create_objection", "update_objection"}
    PROVE  ReplaceDocumentSegments(r) \/ CreateObjection(r) \/ UpdateObjection(r)
<1>1. Writes(r)
  BY DoneStays DEF StepOf, Begun, Continued, CreatedTopic, Committed, Base, Typed, Working
<1> QED
  BY <1>1 DEF Writes, CreateSegment, UpdateSegment, DeleteSegment, DeleteObjection, UpdateRampTopic,
              DeleteRampTopic, ApplyTemplate, UpsertRetentionPolicy, Is

(* No tag is added behind such a request but by one it did not see.         *)
LEMMA RowsReadStep ==
    ASSUME Base, Constraints, Origins, RowsRead, NEW r \in Requests, StepOf(r)
    PROVE  RowsRead'
<1>0. Base' /\ Constraints' /\ Origins'
  BY BaseStep, OriginsStep, ConstraintsStep
<1> SUFFICES ASSUME NEW s \in Requests, NEW x \in Docs \cup ObjectionIds, req'[s].pc = "ready",
                    req'[s].retags, req'[s].target = x, Retags(x)' \subseteq past'[s]
             PROVE  TagsOf(x)' \subseteq req'[s].rows
  BY DEF RowsRead
<1>1. CASE req'[s].kind = "create_objection"
  <2>0. Fits(s, req'[s]) /\ (req'[s].pc = "done" <=> s \in done')
    BY <1>0 DEF Base, AllFit, Timeline
  <2>1. x = <<s, req'[s].name>> /\ req'[s].name \in Labels /\ s \notin done'
    BY <1>1, <2>0 DEF Fits, Argued
  <2>4. x[1] = s /\ x \in EntryIds
    BY <2>1 DEF ObjectionIds, EntryIds, By
  <2>2. entries'[x] = None
    BY <1>0, <2>1, <2>4, CurationAssumption DEF Origins
  <2>3. \A t \in tags' : t.of # x
    BY <1>0, <2>2, <2>4 DEF Constraints
  <2> QED
    BY <2>3 DEF TagsOf
<1>2. CASE req'[s].kind # "create_objection" /\ s # r
  <2>1. req'[s] = req[s] /\ past'[s] = past[s]
    BY <1>2, DoneStays
  <2>2. x \in Docs \/ x[1] \in done \cup {None}
    BY <1>2, <2>1, RetagTargets
  <2>3. Retags(x) \subseteq past[s] /\ r \notin Retags(x)'
    <3>1. past[s] \subseteq done /\ r \notin done
      BY DoneStays DEF Base, Timeline
    <3> QED
      BY <2>1, <3>1, RetagsStep
  <2>4. ~(Committed(r) /\ req[r].retags /\ req[r].target = x)
    BY <2>3, RetagsStep
  <2>5. TagsOf(x) \subseteq req[s].rows
    BY <2>1, <2>3 DEF RowsRead
  <2> QED
    BY <2>1, <2>2, <2>4, <2>5, TagsKept
<1>3. CASE req'[s].kind # "create_objection" /\ s = r
  <2> DEFINE q == req[r]
  <2>0. q \in Request /\ Fits(r, q) /\ Fits(r, req'[r]) /\ req'[r].kind = q.kind
    BY DEF Base, Typed, AllFit, StepOf, Moved
  <2>1. q.kind \in {"set_document_segments", "update_objection"}
    BY <1>3, <2>0 DEF Fits, Argued, Idle
  <2>2. ReadTags(r)
    BY <1>3, <2>0, <2>1, RetagsReadTags
  <2> DEFINE f == [q EXCEPT !.pc = "ready", !.rows = TagsOf(q.target)]
  <2>3. req' = [req EXCEPT ![r] = f] /\ tags' = tags
    BY <2>2 DEF ReadTags, Continues, Rest
  <2>4. f.rows = TagsOf(q.target) /\ f.target = q.target
    BY <2>0 DEF Request
  <2> HIDE DEF f
  <2>5. req'[r] = f
    BY <2>3 DEF Base, Typed
  <2> QED
    BY <1>3, <2>3, <2>4, <2>5 DEF TagsOf
<1> QED
  BY <1>1, <1>2, <1>3

(* The last request replaces the tags; the rest go with their segments.     *)
LEMMA TagsFollowStep ==
    ASSUME Base, Constraints, Origins, RowsRead, TagsFollow, NEW r \in Requests, StepOf(r)
    PROVE  TagsFollow'
<1>0. Base' /\ Constraints' /\ Origins'
  BY BaseStep, OriginsStep, ConstraintsStep
<1> SUFFICES ASSUME NEW x \in Docs \cup ObjectionIds, Tagged(x)', NEW s \in Retags(x)',
                    Retags(x)' \subseteq past'[s] \cup {s}
             PROVE  {t.segment : t \in TagsOf(x)'} = {v \in req'[s].segs : segments'[v] # None}
  BY DEF TagsFollow
<1>1. CASE r \in Retags(x)'
  <2> DEFINE q == req[r]
  <2>1. Committed(r) /\ q.retags /\ q.target = x /\ req[r] \in Request /\ q.pc = "ready"
    BY <1>1, RetagsStep DEF Base, Typed, Committed
  <2>2. s = r
    BY <1>1, DoneStays DEF Retags
  <2>3. Retags(x) \subseteq past[r]
    BY <2>1, <2>2, RetagsStep DEF Committed
  <2>4. TagsOf(x) \subseteq q.rows
    BY <2>1, <2>3 DEF RowsRead
  <2>5. q.kind \in {"set_document_segments", "create_objection", "update_objection"}
        /\ (q.kind = "create_objection" => q.rows = {})
    BY <2>1 DEF Base, AllFit, Fits, Argued
  <2>6. ReplaceDocumentSegments(r) \/ CreateObjection(r) \/ UpdateObjection(r)
    BY <2>1, <2>5, DoneStays, RetagsWrite
  <2>7. tags' = (tags \ q.rows) \cup NewTags(r)
    BY <2>5, <2>6 DEF ReplaceDocumentSegments, CreateObjection, UpdateObjection, Is
  <2>8. NewTags(r) = Tagging(r, x, q.segs)
    BY <2>1, <2>5 DEF NewTags
  <2>9. TagsOf(x)' = Tagging(r, x, q.segs)
    <3>1. TagsOf(x)' = {t \in tags' : t.of = x}
      BY DEF TagsOf
    <3>2. \A t \in Tagging(r, x, q.segs) : t.of = x
      BY DEF Tagging
    <3>3. \A t \in tags : t.of = x => t \in q.rows
      BY <2>4 DEF TagsOf
    <3> QED
      BY <2>7, <2>8, <3>1, <3>2, <3>3
  <2>10. {t.segment : t \in TagsOf(x)'} = q.segs
    <3> DEFINE new == Tagging(r, x, q.segs)
    <3>2. \A t \in new : t.segment \in q.segs
      BY DEF Tagging
    <3>3. \A v \in q.segs : [of |-> x, segment |-> v, by |-> r] \in new
      BY DEF Tagging
    <3> HIDE DEF new, q
    <3>4. \A v \in q.segs : v \in {t.segment : t \in new}
      <4> SUFFICES ASSUME NEW v \in q.segs PROVE \E t \in new : t.segment = v
        OBVIOUS
      <4>1. [of |-> x, segment |-> v, by |-> r].segment = v
        OBVIOUS
      <4> QED
        BY <3>3, <4>1
    <3>1. {t.segment : t \in new} = q.segs
      BY <3>2, <3>4
    <3> QED
      BY <2>9, <3>1 DEF new
  <2>11. \A v \in q.segs : segments'[v] # None
    BY <1>0, <2>10 DEF Constraints, TagsOf
  <2>12. req'[s].segs = q.segs
    BY <2>1, <2>2 DEF Committed, Request
  <2> QED
    BY <2>10, <2>11, <2>12
<1>2. CASE r \notin Retags(x)'
  <2>1. s \in Retags(x) /\ Retags(x) \subseteq past[s] \cup {s} /\ req'[s] = req[s] /\ past'[s] = past[s]
        /\ s \in Requests /\ req[s].retags /\ req[s].target = x /\ s \in done
    <3>1. s \in Retags(x)
      BY <1>2, RetagsStep
    <3>2. s \in done /\ req[s].target = x /\ req[s].retags /\ done \subseteq Requests
      BY <3>1 DEF Retags, Base, Typed
    <3>3. req'[s] = req[s] /\ past'[s] = past[s]
      BY <3>1, RetagsStep
    <3>4. Retags(x) \subseteq Retags(x)'
      BY RetagsStep
    <3> QED
      BY <3>1, <3>2, <3>3, <3>4
  <2>2. x \in Docs \/ x[1] \in done \cup {None}
    BY <2>1, RetagTargets
  <2>3. Tagged(x)
    <3>1. CASE x \in Docs
      BY <3>1 DEF Tagged
    <3>2. CASE x \notin Docs
      <4>1. x \in EntryIds /\ entries'[x] # None /\ x[1] # r
        BY <2>2, <3>2, EntryKinds, CurationAssumption, DoneStays DEF Tagged
      <4> QED
        BY <4>1, EntriesStep DEF Tagged
    <3> QED
      BY <3>1, <3>2
  <2>4. {t.segment : t \in TagsOf(x)} = {v \in req[s].segs : segments[v] # None}
    BY <2>1, <2>3 DEF TagsFollow
  <2>5. ~(Committed(r) /\ req[r].retags /\ req[r].target = x)
    BY <1>2, RetagsStep
  <2>6. /\ TagsOf(x)' \subseteq TagsOf(x)
        /\ \A t \in TagsOf(x) : segments'[t.segment] # None => t \in TagsOf(x)'
    BY <2>2, <2>5, TagsKept DEF Tagged
  <2>7. \A t \in TagsOf(x)' : segments'[t.segment] # None
    BY <1>0 DEF Constraints, TagsOf
  <2>8. \A v \in req[s].segs : segments'[v] # None => segments[v] # None
    <3>1. ASSUME NEW v \in req[s].segs, segments'[v] # None, segments[v] = None PROVE FALSE
      <4>1. v \in SegmentIds /\ v[1] \in done \cup {None}
        BY <2>1 DEF Origins, Base, Typed, Request
      <4>2. v[1] = r
        BY <3>1, <4>1, SegmentsStep
      <4> QED
        BY <4>1, <4>2, CurationAssumption, DoneStays
    <3> QED
      BY <3>1
  <2> DEFINE old == TagsOf(x)
  <2> DEFINE new == TagsOf(x)'
  <2>9. new \subseteq old /\ (\A t \in old : segments'[t.segment] # None => t \in new)
        /\ \A t \in new : segments'[t.segment] # None
    BY <2>6, <2>7
  <2>10. {t.segment : t \in old} = {v \in req[s].segs : segments[v] # None}
    BY <2>4
  <2> HIDE DEF old, new
  <2>11. {t.segment : t \in new} = {v \in req[s].segs : segments'[v] # None}
    BY <2>8, <2>9, <2>10
  <2> QED
    BY <2>1, <2>11 DEF new
<1> QED
  BY <1>1, <1>2

(* replace_document_segments: without overlap a document or an objection    *)
(* has the tags of the last request that set them, for any number of them. *)
THEOREM TagsFollowRetags == Spec => []TagsAreLastRetag
<1> DEFINE Inv == Base /\ Constraints
<1> DEFINE Own == Origins /\ RowsRead /\ TagsFollow
<1>1. Init => Own
  <2> SUFFICES ASSUME Init PROVE RowsRead /\ TagsFollow
    BY OriginsInit
  <2>1. \A r \in Requests : req[r].pc = "idle"
    BY DEF Init, Idle
  <2>2. \A x : Retags(x) = {}
    BY DEF Init, Retags
  <2> QED
    BY <2>1, <2>2 DEF RowsRead, TagsFollow
<1>2. Inv /\ Own /\ [Next]_vars => Own'
  <2>1. ASSUME Own, UNCHANGED vars PROVE Own'
    BY <2>1 DEF Origins, RowsRead, TagsFollow, Tagged, TagsOf, Retags, vars
  <2> QED
    BY <2>1, NextStep, OriginsStep, RowsReadStep, TagsFollowStep
<1>3. Own => TagsAreLastRetag
  BY DEF TagsFollow, TagsAreLastRetag, Tagged
<1>4. Spec => []Inv
  BY CurationBase
<1> HIDE DEF Inv, Own
<1> QED
  BY <1>1, <1>2, <1>3, <1>4, PTL DEF Spec

----------------------------------------------------------------------------
(* Failures *)

(* What a request has checked or read is so.                                *)
KnownSo(r) ==
    LET q == req[r] IN
    /\ q.kind = "create_segment" => ~Taken(q.name)
    /\ q.kind = "update_segment" =>
          /\ segments[q.target] = q.old
          /\ q.pc = "ready" /\ q.name # None => \A s \in SegmentIds \ {q.target} : segments[s] # q.name
    /\ q.kind \in {"update_objection", "update_ramp_topic"} => entries[q.target] = q.old
    /\ q.retags /\ q.pc \in {"valid", "ready"} => \A s \in q.segs : segments[s] # None
    /\ q.retags /\ q.pc = "ready" /\ q.kind # "create_objection" => q.rows = TagsOf(q.target)
    /\ q.kind = "apply_template" => q.saw = {p \in SegmentIds \X Names : segments[p[1]] = p[2]}

(* It is as long as no other request commits.                               *)
Fresh == \A r \in Requests : Working(req[r]) /\ done \subseteq past[r] => KnownSo(r)

(* A request deletes a tag and adds it again.                               *)
KeepsATag(r) == req[r].rows # {} /\ {t.segment : t \in req[r].rows} \cap req[r].segs # {}

(* Then only a tag that is kept breaks a constraint.                        *)
LEMMA KnownFlushes ==
    ASSUME Base, Constraints, Origins, NEW r \in Requests, req[r].pc = "ready", KnownSo(r)
    PROVE  Flushes(r) \/ KeepsATag(r)
<1> DEFINE q == req[r]
<1>0. q \in Request /\ Fits(r, q) /\ Argued(r, q) /\ r \notin done /\ r # None
  BY CurationAssumption DEF Base, Typed, AllFit, Fits, Timeline
<1>1. None \notin Names \cup Labels \cup Titles
  BY CurationAssumption
<1>2. \A s \in NewSegments(r) : ~Taken(s[2])
  <2>1. CASE q.kind = "create_segment"
    <3>1. NewSegments(r) = {<<r, q.name>>} /\ ~Taken(q.name)
      BY <2>1 DEF NewSegments, KnownSo
    <3> QED
      BY <3>1
  <2>2. CASE q.kind = "apply_template"
    <3>1. ASSUME NEW s \in NewSegments(r), Taken(s[2]) PROVE FALSE
      <4>1. PICK n \in q.template.segments \ {p[2] : p \in q.saw} : s = <<r, n>>
        BY <2>2, <3>1 DEF NewSegments
      <4>2. PICK x \in SegmentIds : segments[x] = n
        BY <3>1, <4>1 DEF Taken
      <4>3. n \in Names
        <5>1. q.template \in Template
          BY <1>0, <2>2, CurationAssumption DEF Argued
        <5> QED
          BY <4>1, <5>1 DEF Template
      <4>4. <<x, n>> \in q.saw
        BY <2>2, <4>2, <4>3 DEF KnownSo
      <4> QED
        BY <4>1, <4>4
    <3> QED
      BY <3>1
  <2>3. CASE q.kind \notin {"create_segment", "apply_template"}
    BY <2>3 DEF NewSegments
  <2> QED
    BY <2>1, <2>2, <2>3
<1>3. q.kind = "update_segment" /\ q.name \notin {None, q.old} => segments[q.target] # None /\ ~Taken(q.name)
  BY <1>0, <1>1 DEF KnownSo, Argued, Taken
<1>4. q.kind \in {"update_objection", "update_ramp_topic"} => entries[q.target] # None
  BY <1>0, <1>1 DEF KnownSo, Argued
<1>5. ASSUME NEW t \in NewTags(r)
      PROVE  segments[t.segment] # None \/ t.segment \in NewSegments(r)
  <2>1. CASE q.kind = "apply_template"
    <3> DEFINE news == {<<r, n>> : n \in q.template.segments \ {p[2] : p \in q.saw}}
    <3>1. PICK o \in q.template.objections :
              t \in Tagging(r, <<r, o.label>>, {p[1] : p \in {p \in q.saw : p[2] \in o.segments}}
                        \cup {<<r, n>> : n \in (o.segments \cap q.template.segments) \ {p[2] : p \in q.saw}})
      BY <1>5, <2>1 DEF NewTags, TemplateTags
    <3>2. t.segment \in {p[1] : p \in {p \in q.saw : p[2] \in o.segments}}
                        \cup {<<r, n>> : n \in (o.segments \cap q.template.segments) \ {p[2] : p \in q.saw}}
      BY <3>1 DEF Tagging
    <3>3. NewSegments(r) = news
      BY <2>1 DEF NewSegments
    <3>4. ASSUME NEW p \in q.saw PROVE segments[p[1]] # None
      BY <1>1, <2>1, <3>4 DEF KnownSo
    <3>5. CASE t.segment \in {p[1] : p \in {p \in q.saw : p[2] \in o.segments}}
      BY <3>4, <3>5
    <3>6. CASE t.segment \in {<<r, n>> : n \in (o.segments \cap q.template.segments) \ {p[2] : p \in q.saw}}
      BY <3>3, <3>6
    <3> QED
      BY <3>2, <3>5, <3>6
  <2>2. CASE q.kind # "apply_template"
    <3>1. q.retags /\ t.segment \in q.segs
      BY <1>0, <1>5, <2>2, NewTagsOf
    <3> QED
      BY <1>0, <3>1 DEF KnownSo
  <2> QED
    BY <2>1, <2>2
<1>6. ASSUME NEW t \in NewTags(r), q.kind = "update_objection" PROVE entries[t.of] # None
  BY <1>0, <1>4, <1>6, NewTagsOf
<1>7. ASSUME NEW t \in NewTags(r), NEW u \in TagsOf(t.of), u.segment = t.segment PROVE KeepsATag(r)
  <2>1. CASE q.retags /\ q.kind # "create_objection"
    <3>1. t.of = q.target /\ t.segment \in q.segs
      BY <1>0, <1>7, <2>1, NewTagsOf DEF Argued
    <3>2. u \in q.rows
      BY <1>0, <1>7, <2>1, <3>1 DEF KnownSo
    <3> QED
      BY <1>7, <3>1, <3>2 DEF KeepsATag
  <2>2. CASE ~(q.retags /\ q.kind # "create_objection")
    <3>1. t.of \in ObjectionIds /\ t.of[1] = r
      <4>1. CASE q.kind = "apply_template"
        <5>1. PICK o \in q.template.objections : o.label \in Labels /\ t.of = <<r, o.label>>
          BY <1>0, <1>7, <4>1, NewTagsOf
        <5> QED
          BY <5>1 DEF ObjectionIds, By
      <4>2. CASE q.kind # "apply_template"
        <5>1. q.kind = "create_objection" /\ t.of = q.target
          BY <1>0, <1>7, <2>2, <4>2, NewTagsOf
        <5> QED
          BY <1>0, <5>1 DEF Argued, ObjectionIds, By
      <4> QED
        BY <4>1, <4>2
    <3>2. entries[t.of] = None /\ t.of \in EntryIds
      BY <1>0, <3>1 DEF Origins, EntryIds
    <3>3. u \in tags /\ u.of = t.of
      BY <1>7 DEF TagsOf
    <3> QED
      BY <3>2, <3>3 DEF Constraints
  <2> QED
    BY <2>1, <2>2
<1> QED
  BY <1>2, <1>3, <1>4, <1>5, <1>6, <1>7 DEF Flushes

(* The first statement is right when it is read; ...                        *)
LEMMA KnownBegins ==
    ASSUME Base, NEW r \in Requests, Moved(r), Begun(r), BeginsRequest(r)
    PROVE  KnownSo(r)'
<1> DEFINE q == req[r]
<1> DEFINE g == req'[r]
<1>0. q \in Request /\ g \in Request /\ g.kind = q.kind /\ UNCHANGED Rest /\ Fits(r, g) /\ Working(g)
  BY DEF Base, Typed, Moved, Begun
<1>1. ASSUME NEW kind, NEW f, Begins(r, kind, f) PROVE g = f
  BY <1>1 DEF Begins, Base, Typed
<1>2. (g.retags => g.kind \in {"set_document_segments", "create_objection", "update_objection"})
      /\ (g.kind = "set_document_segments" => g.retags) /\ (g.kind = "create_objection" => g.retags)
  BY <1>0 DEF Fits, Argued, Working
<1>3. CASE q.kind = "create_segment"
  <2>1. PICK n \in Names : EnsureUniqueName(r, n)
    BY <1>3 DEF BeginsRequest, LoadSegment, SetDocumentSegments, AddObjection, LoadObjection,
                CreateRampTopic, LoadTopic, ReadSegments, FindPolicy, Begins, Is
  <2>2. g = [q EXCEPT !.pc = "ready", !.name = n] /\ ~Taken(n)
    BY <1>1, <2>1 DEF EnsureUniqueName
  <2>3. g.name = n
    BY <1>0, <2>2 DEF Request
  <2>4. \A s \in SegmentIds : segments'[s] # g.name
    BY <1>0, <2>2, <2>3 DEF Taken, Rest
  <2> QED
    BY <1>0, <1>2, <1>3, <2>4 DEF KnownSo, Taken
<1>4. CASE q.kind = "update_segment"
  <2>1. PICK s \in LiveSegments, n \in Names \cup {None} : LoadSegment(r, "update_segment", s, n)
    BY <1>4 DEF BeginsRequest, EnsureUniqueName, LoadSegment, SetDocumentSegments, AddObjection, LoadObjection,
                CreateRampTopic, LoadTopic, ReadSegments, FindPolicy, Begins, Is
  <2> DEFINE pc == IF n # None THEN "loaded" ELSE "ready"
  <2>2. g = [q EXCEPT !.pc = pc, !.target = s, !.name = n, !.old = segments[s]]
    BY <1>1, <2>1 DEF LoadSegment
  <2>3. g.pc = pc /\ g.target = s /\ g.name = n /\ g.old = segments[s]
    BY <1>0, <2>2 DEF Request
  <2> HIDE DEF g
  <2>4. segments'[g.target] = g.old /\ ~(g.pc = "ready" /\ g.name # None)
    BY <1>0, <2>3 DEF Rest
  <2> QED
    BY <1>0, <1>2, <1>4, <2>4 DEF KnownSo, g
<1>5. CASE q.kind = "set_document_segments"
  <2>1. PICK d \in Docs, ids \in SUBSET LiveSegments : SetDocumentSegments(r, d, ids)
    BY <1>5 DEF BeginsRequest, EnsureUniqueName, LoadSegment, AddObjection, LoadObjection,
                CreateRampTopic, LoadTopic, ReadSegments, FindPolicy, Begins, Is
  <2>2. g = [q EXCEPT !.pc = "loaded", !.target = d, !.retags = TRUE, !.segs = ids]
    BY <1>1, <2>1 DEF SetDocumentSegments
  <2>3. g.pc = "loaded"
    BY <1>0, <2>2 DEF Request
  <2> QED
    BY <1>0, <1>5, <2>3 DEF KnownSo
<1>6. CASE q.kind = "create_objection"
  <2>1. PICK n \in Labels, ids \in SUBSET LiveSegments : AddObjection(r, n, ids)
    BY <1>6 DEF BeginsRequest, EnsureUniqueName, LoadSegment, SetDocumentSegments, LoadObjection,
                CreateRampTopic, LoadTopic, ReadSegments, FindPolicy, Begins, Is
  <2> DEFINE pc == IF ids = {} THEN "ready" ELSE "loaded"
  <2>2. g = [q EXCEPT !.pc = pc, !.target = <<r, n>>, !.name = n, !.retags = TRUE, !.segs = ids]
    BY <1>1, <2>1 DEF AddObjection
  <2>3. g.pc = pc /\ g.segs = ids
    BY <1>0, <2>2 DEF Request
  <2> HIDE DEF g
  <2>4. g.pc \in {"valid", "ready"} => g.segs = {}
    BY <2>3
  <2> QED
    BY <1>0, <1>6, <2>4 DEF KnownSo, g
<1>7. CASE q.kind = "update_objection"
  <2>1. PICK e \in ObjectionIds, n \in Labels \cup {None}, retags \in BOOLEAN,
             ids \in SUBSET LiveSegments : LoadObjection(r, "update_objection", e, n, retags, ids)
    BY <1>7 DEF BeginsRequest, EnsureUniqueName, LoadSegment, SetDocumentSegments, AddObjection,
                LoadObjection, CreateRampTopic, LoadTopic, ReadSegments, FindPolicy, Begins, Is
  <2> DEFINE pc == IF retags THEN "loaded" ELSE "ready"
  <2>2. g = [q EXCEPT !.pc = pc, !.target = e, !.name = n, !.retags = retags, !.segs = ids,
                      !.old = entries[e]]
    BY <1>1, <2>1 DEF LoadObjection
  <2>3. g.pc = pc /\ g.target = e /\ g.retags = retags /\ g.old = entries[e]
    BY <1>0, <2>2 DEF Request
  <2> HIDE DEF g
  <2>4. entries'[g.target] = g.old /\ (g.retags => g.pc = "loaded")
    BY <1>0, <2>3 DEF Rest
  <2> QED
    BY <1>0, <1>7, <2>4 DEF KnownSo, g
<1>8. CASE q.kind = "update_ramp_topic"
  <2>1. PICK e \in TopicIds, n \in Titles \cup {None} : LoadTopic(r, "update_ramp_topic", e, n)
    BY <1>8 DEF BeginsRequest, EnsureUniqueName, LoadSegment, SetDocumentSegments, AddObjection,
                LoadObjection, CreateRampTopic, LoadTopic, ReadSegments, FindPolicy, Begins, Is
  <2>2. g = [q EXCEPT !.pc = "ready", !.target = e, !.name = n, !.old = entries[e]]
    BY <1>1, <2>1 DEF LoadTopic
  <2>3. g.target = e /\ g.old = entries[e]
    BY <1>0, <2>2 DEF Request
  <2> HIDE DEF g
  <2>4. entries'[g.target] = g.old
    BY <1>0, <2>3 DEF Rest
  <2> QED
    BY <1>0, <1>2, <1>8, <2>4 DEF KnownSo, g
<1>9. CASE q.kind = "apply_template"
  <2>1. PICK t \in Templates : ReadSegments(r, t)
    BY <1>9 DEF BeginsRequest, EnsureUniqueName, LoadSegment, SetDocumentSegments, AddObjection,
                LoadObjection, CreateRampTopic, LoadTopic, FindPolicy, Begins, Is
  <2> DEFINE saw == {p \in SegmentIds \X Names : segments[p[1]] = p[2]}
  <2>2. g = [q EXCEPT !.pc = "loaded", !.template = t, !.saw = saw]
    BY <1>1, <2>1 DEF ReadSegments
  <2>3. saw = saw'
    BY <1>0 DEF Rest
  <2> HIDE DEF saw, q
  <2>4. g.saw = saw
    BY <1>0, <2>2 DEF Request
  <2> HIDE DEF g
  <2>5. g.saw = saw'
    BY <2>3, <2>4
  <2> QED
    BY <1>0, <1>2, <1>9, <2>5 DEF KnownSo, g, saw
<1>10. CASE q.kind \notin {"create_segment", "update_segment", "set_document_segments", "create_objection",
                           "update_objection", "update_ramp_topic", "apply_template"}
  BY <1>0, <1>2, <1>10 DEF KnownSo
<1> QED
  BY <1>3, <1>4, <1>5, <1>6, <1>7, <1>8, <1>9, <1>10

(* ... the others add to it.                                                *)
LEMMA KnownContinues ==
    ASSUME Base, NEW r \in Requests, Moved(r), Continued(r), ContinuesRequest(r), KnownSo(r),
           Working(req'[r])
    PROVE  KnownSo(r)'
<1> DEFINE q == req[r]
<1> DEFINE g == req'[r]
<1>0. q \in Request /\ Fits(r, q) /\ Keeps(g, q) /\ UNCHANGED Rest /\ Working(q)
  BY DEF Base, Typed, AllFit, Continued
<1>1. EnsureNewName(r) \/ ValidateSegmentIds(r) \/ ReadTags(r) \/ ReadTitles(r) \/ ReadLabels(r)
  <2>1. ~Writes(r)
    <3>1. Committed(r) => g.pc = "done"
      BY <1>0 DEF Committed, Request
    <3> QED
      BY <3>1, WritesMoves DEF Working
  <2>2. ~FlushFails(r)
    <3>1. ASSUME FlushFails(r) PROVE g.pc = "failed"
      <4>1. g = [q EXCEPT !.pc = "failed"]
        BY <3>1 DEF FlushFails, Continues, Base, Typed
      <4> QED
        BY <1>0, <4>1 DEF Request
    <3> QED
      BY <3>1 DEF Working
  <2> QED
    BY <2>1, <2>2 DEF ContinuesRequest, Writes
<1>2. segments' = segments /\ entries' = entries /\ tags' = tags
  BY <1>0 DEF Rest
<1>3. g.kind = "create_segment" => \A s \in SegmentIds : segments'[s] # g.name
  BY <1>0, <1>2 DEF KnownSo, Keeps, Taken
<1>4. g.kind = "update_segment" =>
          /\ segments'[g.target] = g.old
          /\ g.pc = "ready" /\ g.name # None => \A s \in SegmentIds \ {g.target} : segments'[s] # g.name
  <2>1. ASSUME g.kind = "update_segment"
        PROVE  \A s \in SegmentIds \ {g.target} : segments'[s] # g.name
    <3>1. EnsureNewName(r)
      BY <1>0, <1>1, <2>1 DEF ValidateSegmentIds, ReadTags, ReadTitles, ReadLabels, Is, Fits, Argued, Keeps
    <3> QED
      BY <1>0, <1>2, <3>1 DEF EnsureNewName, Keeps
  <2> QED
    BY <1>0, <1>2, <2>1 DEF KnownSo, Keeps
<1>5. g.kind \in {"update_objection", "update_ramp_topic"} => entries'[g.target] = g.old
  BY <1>0, <1>2 DEF KnownSo, Keeps
<1>6. ASSUME g.retags
      PROVE  /\ \A s \in g.segs : segments'[s] # None
             /\ g.pc = "ready" /\ g.kind # "create_objection" => g.rows = {t \in tags' : t.of = g.target}
  <2>1. q.kind \in {"set_document_segments", "create_objection", "update_objection"}
    BY <1>0, <1>6 DEF Fits, Argued, Working, Keeps
  <2>2. CASE ValidateSegmentIds(r)
    <3>1. g = [q EXCEPT !.pc = IF q.kind = "create_objection" THEN "ready" ELSE "valid"]
      BY <2>2 DEF ValidateSegmentIds, Continues, Base, Typed
    <3>2. g.pc = (IF q.kind = "create_objection" THEN "ready" ELSE "valid")
      BY <1>0, <3>1 DEF Request
    <3>3. \A s \in q.segs : segments[s] # None
      BY <2>2 DEF ValidateSegmentIds
    <3> HIDE DEF g
    <3> QED
      BY <1>0, <1>2, <3>2, <3>3 DEF Keeps
  <2>3. CASE ReadTags(r)
    <3> DEFINE rows == TagsOf(q.target)
    <3>1. g = [q EXCEPT !.pc = "ready", !.rows = rows] /\ q.pc = "valid"
      BY <2>3 DEF ReadTags, Continues, Base, Typed
    <3>2. rows = {t \in tags' : t.of = g.target}
      BY <1>0, <1>2 DEF TagsOf, Keeps
    <3> HIDE DEF rows
    <3>3. g.rows = rows
      BY <1>0, <3>1 DEF Request
    <3>4. \A s \in q.segs : segments[s] # None
      BY <1>0, <1>6, <3>1 DEF KnownSo, Keeps
    <3> QED
      BY <1>0, <1>2, <3>2, <3>3, <3>4 DEF Keeps
  <2> QED
    BY <1>1, <2>1, <2>2, <2>3 DEF EnsureNewName, ReadTitles, ReadLabels, Is
<1>7. g.kind = "apply_template" => g.saw = {p \in SegmentIds \X Names : segments'[p[1]] = p[2]}
  BY <1>0, <1>2 DEF KnownSo, Keeps
<1> QED
  BY <1>3, <1>4, <1>5, <1>6, <1>7 DEF KnownSo, Taken, TagsOf

(* A request that nothing has committed beside knows what is so.            *)
LEMMA FreshStep ==
    ASSUME Base, Fresh, NEW r \in Requests, StepOf(r)
    PROVE  Fresh'
<1> SUFFICES ASSUME NEW s \in Requests, Working(req'[s]), done' \subseteq past'[s] PROVE KnownSo(s)'
  BY DEF Fresh, Working
<1>1. ~CreatedTopic(r) /\ ~Committed(r)
  <2>1. CreatedTopic(r) \/ Committed(r) => r \in done'
    BY DEF CreatedTopic, Committed
  <2>2. r \notin past'[s]
    BY DoneStays
  <2> QED
    BY <2>1, <2>2
<1>2. CASE s # r
  <2>1. req'[s] = req[s] /\ past'[s] = past[s] /\ done' = done /\ UNCHANGED Rest
    BY <1>1, <1>2, DoneStays DEF StepOf, Begun, Continued
  <2>2. KnownSo(s)
    BY <2>1 DEF Fresh
  <2> QED
    BY <2>1, <2>2 DEF KnownSo, Rest, Taken, TagsOf
<1>3. CASE s = r /\ Begun(r) /\ BeginsRequest(r)
  BY <1>3, KnownBegins DEF StepOf
<1>4. CASE s = r /\ Continued(r) /\ ContinuesRequest(r)
  <2>1. KnownSo(r)
    BY <1>4 DEF Fresh, Continued
  <2> QED
    BY <1>4, <2>1, KnownContinues DEF StepOf
<1> QED
  BY <1>1, <1>2, <1>3, <1>4 DEF StepOf

(* Requests fail at the flush only.                                         *)
LEMMA FailsByFlush ==
    ASSUME Base, NEW r \in Requests, StepOf(r), req'[r].pc = "failed"
    PROVE  FlushFails(r) /\ Continued(r)
<1> DEFINE q == req[r]
<1>0. q \in Request
  BY DEF Base, Typed
<1>1. ~Committed(r) /\ ~CreatedTopic(r) /\ ~Begun(r)
  BY <1>0 DEF Committed, CreatedTopic, Begun, Working, Request
<1>2. Continued(r) /\ ContinuesRequest(r)
  BY <1>1 DEF StepOf
<1>3. ~EnsureNewName(r)
  BY <1>0, <1>1 DEF EnsureNewName, Continues, Base, Typed, Request
<1>4. ~ValidateSegmentIds(r)
  <2>1. ASSUME ValidateSegmentIds(r) PROVE FALSE
    <3> DEFINE pc == IF q.kind = "create_objection" THEN "ready" ELSE "valid"
    <3>1. req'[r] = [q EXCEPT !.pc = pc]
      BY <2>1 DEF ValidateSegmentIds, Continues, Base, Typed
    <3>2. req'[r].pc = pc
      BY <1>0, <3>1 DEF Request
    <3> QED
      BY <3>2
  <2> QED
    BY <2>1
<1>5. ~ReadTags(r)
  <2> DEFINE rows == TagsOf(q.target)
  <2>1. ReadTags(r) => req'[r] = [q EXCEPT !.pc = "ready", !.rows = rows]
    BY DEF ReadTags, Continues, Base, Typed
  <2> HIDE DEF rows
  <2> QED
    BY <1>0, <2>1 DEF Request
<1>6. ~ReadTitles(r)
  <2> DEFINE known == {n \in Titles : \E e \in TopicIds : entries[e] = n}
  <2>1. ReadTitles(r) => req'[r] = [q EXCEPT !.pc = "titled", !.known = known]
    BY DEF ReadTitles, Continues, Base, Typed
  <2> HIDE DEF known
  <2> QED
    BY <1>0, <2>1 DEF Request
<1>7. ~ReadLabels(r)
  <2> DEFINE labels == {n \in Labels : \E e \in ObjectionIds : entries[e] = n}
  <2>1. ReadLabels(r) => req'[r] = [q EXCEPT !.pc = "ready", !.known = @ \cup labels]
    BY DEF ReadLabels, Continues, Base, Typed
  <2> HIDE DEF labels
  <2> QED
    BY <1>0, <2>1 DEF Request
<1> QED
  BY <1>1, <1>2, <1>3, <1>4, <1>5, <1>6, <1>7, WritesMoves DEF ContinuesRequest, Writes

(* And there only if something else committed, or a tag is kept.            *)
LEMMA FailsStep ==
    ASSUME Base, Constraints, Origins, Fresh, FailsOnlyByRace, NEW r \in Requests, StepOf(r)
    PROVE  FailsOnlyByRace'
<1> SUFFICES ASSUME NEW s \in Requests, req'[s].pc = "failed", done' \subseteq past'[s] PROVE KeepsATag(s)'
  BY DEF FailsOnlyByRace, KeepsATag
<1>1. done \subseteq done'
  BY DoneStays
<1>2. CASE s # r
  <2>1. req'[s] = req[s] /\ past'[s] = past[s]
    BY <1>2, DoneStays
  <2>2. KeepsATag(s)
    BY <1>1, <2>1 DEF FailsOnlyByRace, KeepsATag
  <2> QED
    BY <2>1, <2>2 DEF KeepsATag
<1>3. CASE s = r
  <2>1. FlushFails(r) /\ Continued(r)
    BY <1>3, FailsByFlush
  <2>2. done \subseteq past[r] /\ req[r].pc = "ready" /\ ~Flushes(r)
    BY <1>1, <1>3, <2>1 DEF Continued, FlushFails
  <2>3. KeepsATag(r)
    BY <2>2, KnownFlushes DEF Fresh, Working
  <2>4. req'[r].segs = req[r].segs /\ req'[r].rows = req[r].rows
    <3>1. req'[r] = [req[r] EXCEPT !.pc = "failed"] /\ req[r] \in Request
      BY <2>1 DEF FlushFails, Continues, Base, Typed
    <3> QED
      BY <3>1 DEF Request
  <2> QED
    BY <1>3, <2>3, <2>4 DEF KeepsATag
<1> QED
  BY <1>2, <1>3

(* A request that was checked fails at the flush only because another one   *)
(* committed since it began, or because it keeps a tag; for any number.     *)
THEOREM FailuresAreRaces == Spec => []FailsOnlyByRace
<1> DEFINE Inv == Base /\ Constraints
<1> DEFINE Own == Origins /\ Fresh /\ FailsOnlyByRace
<1>1. Init => Own
  <2> SUFFICES ASSUME Init PROVE Fresh /\ FailsOnlyByRace
    BY OriginsInit
  <2>1. \A r \in Requests : req[r].pc = "idle"
    BY DEF Init, Idle
  <2> QED
    BY <2>1 DEF Fresh, FailsOnlyByRace, Working
<1>2. Inv /\ Own /\ [Next]_vars => Own'
  <2>1. ASSUME Own, UNCHANGED vars PROVE Own'
    BY <2>1 DEF Origins, Fresh, FailsOnlyByRace, Working, KnownSo, Taken, TagsOf, vars
  <2> QED
    BY <2>1, NextStep, OriginsStep, FreshStep, FailsStep
<1>3. Spec => []Inv
  BY CurationBase
<1> HIDE DEF Inv
<1> QED
  BY <1>1, <1>2, <1>3, PTL DEF Spec

----------------------------------------------------------------------------
(* Templates *)

(* Somebody has changed y since r began.                                    *)
Touched(r, y) == \E s \in done \ past[r] : req[s].target = y

(* A row that was there before r and has a name that r did not see got it   *)
(* since; and r adds only names it did not see.                             *)
Overlooked(r, y) ==
    /\ y[1] \in past[r] \cup {None} /\ entries[y] # None /\ entries[y] \notin req[r].known

(* What an application overlooked was changed; it adds what it did not see. *)
Looked ==
    \A r \in Requests : req[r].kind = "apply_template" =>
        /\ req[r].pc \in {"titled", "ready", "done"} =>
              \A y \in TopicIds : Overlooked(r, y) => Touched(r, y)
        /\ req[r].pc \in {"ready", "done"} =>
              \A y \in ObjectionIds : Overlooked(r, y) => Touched(r, y)
        /\ req[r].pc = "done" =>
              \A x \in EntryIds : x[1] = r /\ entries[x] # None => x[2] \notin req[r].known

(* What is overlooked was, or has just been changed.                        *)
LEMMA OverlookedStep ==
    ASSUME Base, NEW m \in Requests, StepOf(m), NEW r \in Requests, NEW y \in EntryIds,
           past'[r] = past[r], req'[r].known = req[r].known, Overlooked(r, y)',
           Overlooked(r, y) => Touched(r, y)
    PROVE  Touched(r, y)'
<1>0. y[1] # m /\ m \notin past[r] /\ m \notin done
  BY CurationAssumption, DoneStays DEF Overlooked, Base, Timeline
<1>1. CASE entries'[y] = entries[y]
  <2>1. PICK s \in done \ past[r] : req[s].target = y
    BY <1>1 DEF Overlooked, Touched
  <2>2. s \in done' /\ req'[s] = req[s]
    BY <1>0, <2>1, DoneStays
  <2> QED
    BY <2>1, <2>2 DEF Touched
<1>2. CASE entries'[y] # entries[y]
  <2>1. req'[m].target = y /\ m \in done'
    BY <1>0, <1>2, EntriesStep DEF Overlooked
  <2> QED
    BY <1>0, <2>1 DEF Touched
<1> QED
  BY <1>1, <1>2

(* The application's own statements.                                        *)
LEMMA LookedOwn ==
    ASSUME Base, Origins, Looked, NEW r \in Requests, StepOf(r), req[r].kind = "apply_template"
    PROVE  /\ req'[r].pc \in {"titled", "ready", "done"} =>
                 \A y \in TopicIds : Overlooked(r, y)' => Touched(r, y)'
           /\ req'[r].pc \in {"ready", "done"} =>
                 \A y \in ObjectionIds : Overlooked(r, y)' => Touched(r, y)'
           /\ req'[r].pc = "done" =>
                 \A x \in EntryIds : x[1] = r /\ entries'[x] # None => x[2] \notin req'[r].known
<1> DEFINE q == req[r]
<1>0. q \in Request /\ ~q.retags
  BY DEF Base, Typed, AllFit, Fits, Argued, Idle
<1>1. CASE Begun(r) /\ BeginsRequest(r)
  <2>1. PICK t \in Templates : ReadSegments(r, t)
    BY <1>1 DEF BeginsRequest, EnsureUniqueName, LoadSegment, SetDocumentSegments, AddObjection,
                LoadObjection, CreateRampTopic, LoadTopic, FindPolicy, Begins, Is
  <2> DEFINE saw == {p \in SegmentIds \X Names : segments[p[1]] = p[2]}
  <2>2. req'[r] = [q EXCEPT !.pc = "loaded", !.template = t, !.saw = saw]
    BY <2>1 DEF ReadSegments, Begins, Base, Typed
  <2> HIDE DEF saw
  <2>3. req'[r].pc = "loaded"
    BY <1>0, <2>2 DEF Request
  <2> QED
    BY <2>3
<1>2. CASE ReadTitles(r)
  <2> DEFINE known == {n \in Titles : \E e \in TopicIds : entries[e] = n}
  <2>1. req'[r] = [q EXCEPT !.pc = "titled", !.known = known] /\ entries' = entries
    BY <1>2 DEF ReadTitles, Continues, Rest, Base, Typed
  <2>2. \A y \in TopicIds : entries[y] # None => entries[y] \in known
    BY DEF Base, LabelsOnly
  <2> HIDE DEF known
  <2>3. req'[r].pc = "titled" /\ req'[r].known = known
    BY <1>0, <2>1 DEF Request
  <2> QED
    BY <2>1, <2>2, <2>3 DEF Overlooked
<1>3. CASE ReadLabels(r)
  <2> DEFINE labels == {n \in Labels : \E e \in ObjectionIds : entries[e] = n}
  <2>1. req'[r] = [q EXCEPT !.pc = "ready", !.known = q.known \cup labels] /\ q.pc = "titled"
    BY <1>0, <1>3 DEF ReadLabels, Continues, Is, Base, Typed, Request
  <2>2. \A y \in ObjectionIds : entries[y] # None => entries[y] \in labels
    BY DEF Base, LabelsOnly
  <2>3. entries' = entries /\ past' = past /\ done' = done
    BY <1>3 DEF ReadLabels, Continues, Rest
  <2> HIDE DEF labels
  <2>4. req'[r].pc = "ready" /\ req'[r].known = q.known \cup labels
    BY <1>0, <2>1 DEF Request
  <2>5. ASSUME NEW y \in TopicIds, Overlooked(r, y)' PROVE Touched(r, y)'
    <3>1. Overlooked(r, y)
      BY <2>3, <2>4, <2>5 DEF Overlooked
    <3>2. PICK s \in done \ past[r] : req[s].target = y
      BY <2>1, <3>1 DEF Looked, Touched
    <3>3. req'[s] = req[s]
      BY <3>2, DoneStays
    <3> QED
      BY <2>3, <3>2, <3>3 DEF Touched
  <2> QED
    BY <2>2, <2>3, <2>4, <2>5 DEF Overlooked
<1>4. CASE FlushFails(r)
  <2>1. req'[r] = [q EXCEPT !.pc = "failed"]
    BY <1>4 DEF FlushFails, Continues, Base, Typed
  <2>2. req'[r].pc = "failed"
    BY <1>0, <2>1 DEF Request
  <2> QED
    BY <2>2
<1>5. CASE Committed(r) /\ Writes(r)
  <2>1. ApplyTemplate(r)
    BY <1>5 DEF Writes, CreateSegment, UpdateSegment, DeleteSegment, ReplaceDocumentSegments,
                CreateObjection, UpdateObjection, DeleteObjection, UpdateRampTopic,
                DeleteRampTopic, UpsertRetentionPolicy, Is
  <2>2. q.pc = "ready" /\ req'[r].pc = "done" /\ req'[r].known = q.known /\ past'[r] = past[r]
    BY <1>0, <1>5 DEF Committed, Request
  <2>3. ASSUME NEW y \in EntryIds, Overlooked(r, y)' PROVE Touched(r, y)'
    <3>1. Overlooked(r, y) => Touched(r, y)
      BY <2>2 DEF Looked, EntryIds
    <3> QED
      BY <2>2, <2>3, <3>1, OverlookedStep
  <2>4. ASSUME NEW x \in EntryIds, x[1] = r, entries'[x] # None PROVE x[2] \notin q.known
    <3>1. entries[x] = None
      BY <2>4, CurationAssumption, DoneStays DEF Origins
    <3>2. x[2] \in (q.template.titles \cup {o.label : o \in q.template.objections}) \ q.known
      BY <2>1, <2>4, <3>1 DEF ApplyTemplate
    <3> QED
      BY <3>2
  <2> QED
    BY <2>2, <2>3, <2>4 DEF EntryIds
<1>6. ~EnsureNewName(r) /\ ~ValidateSegmentIds(r) /\ ~CreatedTopic(r)
  BY DEF EnsureNewName, ValidateSegmentIds, CreatedTopic, Is
<1>7. ~ReadTags(r)
  BY DEF ReadTags, Base, AllFit, Fits, Argued
<1>8. ContinuesRequest(r) => ReadTitles(r) \/ ReadLabels(r) \/ FlushFails(r) \/ (Committed(r) /\ Writes(r))
  BY <1>6, <1>7, WritesMoves DEF ContinuesRequest, Writes
<1> QED
  BY <1>1, <1>2, <1>3, <1>4, <1>5, <1>6, <1>8 DEF StepOf

(* The statements of the others change what they touch.                     *)
LEMMA LookedStep ==
    ASSUME Base, Origins, Looked, NEW m \in Requests, StepOf(m)
    PROVE  Looked'
<1> SUFFICES ASSUME NEW r \in Requests, req'[r].kind = "apply_template"
             PROVE  /\ req'[r].pc \in {"titled", "ready", "done"} =>
                          \A y \in TopicIds : Overlooked(r, y)' => Touched(r, y)'
                    /\ req'[r].pc \in {"ready", "done"} =>
                          \A y \in ObjectionIds : Overlooked(r, y)' => Touched(r, y)'
                    /\ req'[r].pc = "done" =>
                          \A x \in EntryIds : x[1] = r /\ entries'[x] # None => x[2] \notin req'[r].known
  BY DEF Looked
<1>1. CASE r = m
  BY <1>1, LookedOwn, DoneStays
<1>2. CASE r # m
  <2>1. req'[r] = req[r] /\ past'[r] = past[r]
    BY <1>2, DoneStays
  <2>2. ASSUME NEW y \in EntryIds, Overlooked(r, y) => Touched(r, y), Overlooked(r, y)' PROVE Touched(r, y)'
    BY <2>1, <2>2, OverlookedStep
  <2>3. ASSUME req[r].pc = "done", NEW x \in EntryIds, x[1] = r, entries'[x] # None
        PROVE  x[2] \notin req[r].known
    <3>1. entries[x] # None
      BY <1>2, <2>3, EntriesStep
    <3> QED
      BY <2>1, <2>3, <3>1 DEF Looked
  <2> QED
    BY <2>1, <2>2, <2>3 DEF Looked, EntryIds
<1> QED
  BY <1>1, <1>2

(* apply_template: what an application adds was there under that name only  *)
(* if the row got it since; for any number of applications and changes.     *)
THEOREM TemplatesAddMissing == Spec => []TemplateAddsOnlyMissing
<1> DEFINE Inv == Base /\ Constraints
<1> DEFINE Own == Origins /\ Looked
<1>1. Init => Own
  <2> SUFFICES ASSUME Init PROVE Looked
    BY OriginsInit
  <2>1. \A r \in Requests : req[r].pc = "idle"
    BY DEF Init, Idle
  <2> QED
    BY <2>1 DEF Looked
<1>2. Inv /\ Own /\ [Next]_vars => Own'
  <2>1. ASSUME Own, UNCHANGED vars PROVE Own'
    BY <2>1 DEF Origins, Looked, Overlooked, Touched, vars
  <2> QED
    BY <2>1, NextStep, OriginsStep, LookedStep
<1>3. Inv /\ Own => TemplateAddsOnlyMissing
  <2> SUFFICES ASSUME Inv, Own, NEW r \in Done("apply_template"), NEW x \in EntryIds, NEW y \in EntryIds,
                      x[1] = r, y[1] \in past[r] \cup {None}, entries[x] = x[2], entries[y] = x[2]
               PROVE  \E s \in done \ past[r] : req[s].target \in {x, y}
    BY DEF TemplateAddsOnlyMissing
  <2>1. r \in Requests /\ req[r].kind = "apply_template" /\ req[r].pc = "done"
    BY DEF Done, Base, Typed, Timeline
  <2>2. x[2] # None
    BY EntryKinds, CurationAssumption DEF EntryIds
  <2>3. Overlooked(r, y)
    BY <2>1, <2>2 DEF Looked, Overlooked
  <2>4. Touched(r, y)
    BY <2>1, <2>3 DEF Looked, EntryIds
  <2> QED
    BY <2>4 DEF Touched
<1>4. Spec => []Inv
  BY CurationBase
<1> HIDE DEF Inv, Own
<1> QED
  BY <1>1, <1>2, <1>3, <1>4, PTL DEF Spec
================================================================================
