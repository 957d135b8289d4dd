------------------------------ MODULE Curation ------------------------------
(***************************************************************************)
(* What the managers of a tenant curate: the list of segments, the library *)
(* of objections and ramp topics, the segments tagged on documents and     *)
(* objections, the starter templates that seed them                        *)
(* (template_service.py), and the retention policies.                      *)
(*                                                                         *)
(* Requests are database sessions as in AccountState: statements read what *)
(* is committed, the writes are flushed last and seen at the commit, and   *)
(* the request fails if they break a constraint.  Who may call an endpoint *)
(* (managers) is left out.                                                 *)
(***************************************************************************)
EXTENDS Naturals, FiniteSets

CONSTANTS
    Requests,       \* request ids, each used once
    Kinds,          \* the endpoints called
    Names, Labels, Titles,  \* of segments, objections and ramp topics
    Docs,           \* documents, none of which is deleted
    Types, Days,    \* resource types and their retention
    Templates,      \* TEMPLATES: records of names, titles and tagged labels
    None            \* no value

AllKinds == {"create_segment", "update_segment", "delete_segment", "set_document_segments",
             "create_objection", "update_objection", "delete_objection",
             "create_ramp_topic", "update_ramp_topic", "delete_ramp_topic",
             "apply_template", "upsert_retention_policy"}

(* A row is identified by the request that created it, None for the rows    *)
(* that were there, and what it was called then: names may change.         *)
By == Requests \cup {None}
SegmentIds == By \X Names
ObjectionIds == By \X Labels
TopicIds == By \X Titles
EntryIds == ObjectionIds \cup TopicIds
PolicyIds == By \X Types

Template == [segments : SUBSET Names, titles : SUBSET Titles,
             objections : SUBSET [label : Labels, segments : SUBSET Names]]

ASSUME CurationAssumption ==
    /\ None \notin Requests \cup Names \cup Labels \cup Titles \cup Docs \cup Days
    /\ Names \cap (Labels \cup Titles) = {} /\ Labels \cap Titles = {}
    /\ None \notin SegmentIds \cup EntryIds \cup PolicyIds
    /\ Docs \cap EntryIds = {}
    /\ Templates \subseteq Template
    /\ Kinds \subseteq AllKinds

VARIABLES
    segments,   \* segments rows: the name, None if there is no such row
    entries,    \* saved_objections and ramp_topics rows: the label or title
    tags,       \* document_segments and objection_segments rows
    policies,   \* data_retention_policies rows: the days
    req,        \* local state of the requests
    past,       \* history: the requests that had committed when this one first read
    done        \* history: the committed requests

vars == <<segments, entries, tags, policies, req, past, done>>

Tag == [of : Docs \cup ObjectionIds, segment : SegmentIds, by : By]

(* Arguments: target, name, the segments to tag (segs) if the tags are to   *)
(* change (retags), days and template.  Read: old is the name or the days  *)
(* of the target, rows its tags, saw the segments and known the titles and *)
(* labels of the tenant.                                                   *)
Request == [kind : Kinds, pc : {"idle", "loaded", "valid", "titled", "ready", "failed", "done"},
            target : SegmentIds \cup EntryIds \cup Docs \cup PolicyIds \cup {None},
            name : Names \cup Labels \cup Titles \cup Types \cup {None},
            retags : BOOLEAN, segs : SUBSET SegmentIds, days : Days \cup {None},
            template : Templates \cup {None},
            old : Names \cup Labels \cup Titles \cup Days \cup {None}, rows : SUBSET Tag,
            saw : SUBSET (SegmentIds \X Names), known : SUBSET (Labels \cup Titles)]

Idle(k) == [kind |-> k, pc |-> "idle", target |-> None, name |-> None, retags |-> FALSE,
            segs |-> {}, days |-> None, template |-> None, old |-> None, rows |-> {}, saw |-> {},
            known |-> {}]

(* Tags refer to rows that exist, once; names of segments are unique.       *)
Constraints ==
    /\ \A t \in tags : /\ segments[t.segment] # None
                       /\ t.of \in EntryIds => entries[t.of] # None
    /\ \A t, u \in tags : t.of = u.of /\ t.segment = u.segment => t = u
    /\ \A s, t \in SegmentIds : segments[s] = segments[t] => s = t \/ segments[s] = None

(* The types, and what the database's constraints keep in spite of cascades *)
(* and of writes over outdated reads.                                      *)
TypeOK ==
    /\ segments \in [SegmentIds -> Names \cup {None}]
    /\ entries \in [EntryIds -> Labels \cup Titles \cup {None}]
    /\ tags \subseteq Tag
    /\ policies \in [PolicyIds -> Days \cup {None}]
    /\ req \in [Requests -> Request]
    /\ past \in [Requests -> SUBSET Requests]
    /\ done \subseteq Requests
    /\ Constraints

(* Rows that were there before. *)
RowsInit ==
    /\ segments \in [SegmentIds -> Names \cup {None}]
    /\ entries \in [EntryIds -> Labels \cup Titles \cup {None}]
    /\ tags \in SUBSET {t \in Tag : t.by = None}
    /\ policies \in [PolicyIds -> Days \cup {None}]
    /\ \A s \in SegmentIds : segments[s] # None => s[1] = None
    /\ \A e \in EntryIds : entries[e] # None => e[1] = None /\ entries[e] = e[2]
    /\ \A p \in PolicyIds : policies[p] # None => p[1] = None
    /\ Constraints

Init ==
    /\ RowsInit
    /\ req \in [Requests -> {Idle(k) : k \in Kinds}]
    /\ past = [r \in Requests |-> {}]
    /\ done = {}

----------------------------------------------------------------------------
Rest == <<segments, entries, tags, policies>>

Is(r, kind, pc) == req[r].kind = kind /\ req[r].pc = pc

Begins(r, kind, fields) ==
    /\ Is(r, kind, "idle")
    /\ req' = [req EXCEPT ![r] = fields]
    /\ past' = [past EXCEPT ![r] = done]
    /\ done' = done

Continues(r, fields) ==
    /\ req' = [req EXCEPT ![r] = fields]
    /\ UNCHANGED <<past, done>>

Commits(r, fields) ==
    /\ req' = [req EXCEPT ![r] = [fields EXCEPT !.pc = "done"]]
    /\ done' = done \cup {r}
    /\ past' = past

Taken(name) == \E s \in SegmentIds : segments[s] = name

TagsOf(x) == {t \in tags : t.of = x}

Tagging(r, x, ids) == {[of |-> x, segment |-> s, by |-> r] : s \in ids}

----------------------------------------------------------------------------
(* What the flush of a request writes *)

(* The objections of a template that are new are tagged with the segments   *)
(* the template names, those found and those it adds.                      *)
TemplateTags(r) ==
    LET q == req[r]
        Found(o) == {p[1] : p \in {p \in q.saw : p[2] \in o.segments}}
        Added(o) == {<<r, n>> : n \in (o.segments \cap q.template.segments)
                                        \ {p[2] : p \in q.saw}}
    IN  UNION {Tagging(r, <<r, o.label>>, Found(o) \cup Added(o))
               : o \in {o \in q.template.objections : o.label \notin q.known}}

NewSegments(r) ==
    LET q == req[r] IN
    IF q.kind = "create_segment" THEN {<<r, q.name>>}
    ELSE IF q.kind = "apply_template"
         THEN {<<r, n>> : n \in q.template.segments \ {p[2] : p \in q.saw}}
         ELSE {}

NewTags(r) ==
    LET q == req[r] IN
    IF q.kind = "apply_template" THEN TemplateTags(r)
    ELSE IF q.retags THEN Tagging(r, q.target, q.segs) ELSE {}

(* INSERTs are flushed before DELETEs, so the rows a request is about to    *)
(* delete still count against its new ones; an UPDATE must find its row.   *)
Flushes(r) ==
    LET q == req[r] IN
    /\ \A s \in NewSegments(r) : ~Taken(s[2])
    /\ q.kind = "update_segment" /\ q.name \notin {None, q.old} =>
          segments[q.target] # None /\ ~Taken(q.name)
    /\ q.kind \in {"update_objection", "update_ramp_topic"} /\ q.name \notin {None, q.old} =>
          entries[q.target] # None
    /\ \A t \in NewTags(r) :
          /\ segments[t.segment] # None \/ t.segment \in NewSegments(r)
          /\ q.kind = "update_objection" => entries[t.of] # None
          /\ \A u \in TagsOf(t.of) : u.segment # t.segment

(* A constraint breaks: the request is rolled back and its client gets a    *)
(* server error.                                                           *)
FlushFails(r) ==
    /\ req[r].pc = "ready"
    /\ ~Flushes(r)
    /\ Continues(r, [req[r] EXCEPT !.pc = "failed"])
    /\ UNCHANGED Rest

----------------------------------------------------------------------------
(* Segments *)

(* Variant: the name is not looked up. *)
UniqueNameUnchecked(r, name) ==
    /\ Begins(r, "create_segment", [req[r] EXCEPT !.pc = "ready", !.name = name])
    /\ UNCHANGED Rest

(* _ensure_unique_name *)
EnsureUniqueName(r, name) ==
    /\ ~Taken(name)
    /\ Begins(r, "create_segment", [req[r] EXCEPT !.pc = "ready", !.name = name])
    /\ UNCHANGED Rest

CreateSegment(r) ==
    /\ Is(r, "create_segment", "ready") /\ Flushes(r)
    /\ segments' = [segments EXCEPT ![<<r, req[r].name>>] = req[r].name]
    /\ Commits(r, req[r])
    /\ UNCHANGED <<entries, tags, policies>>

LoadSegment(r, kind, s, name) ==
    /\ kind \in {"update_segment", "delete_segment"}
    /\ segments[s] # None
    /\ Begins(r, kind, [req[r] EXCEPT !.pc = IF name # None THEN "loaded" ELSE "ready",
                           !.target = s, !.name = name, !.old = segments[s]])
    /\ UNCHANGED Rest

EnsureNewName(r) ==
    /\ Is(r, "update_segment", "loaded")
    /\ \A s \in SegmentIds \ {req[r].target} : segments[s] # req[r].name
    /\ Continues(r, [req[r] EXCEPT !.pc = "ready"])
    /\ UNCHANGED Rest

UpdateSegment(r) ==
    LET q == req[r] IN
    /\ Is(r, "update_segment", "ready") /\ Flushes(r)
    /\ segments' = IF q.name \in {None, q.old} THEN segments
                   ELSE [segments EXCEPT ![q.target] = q.name]
    /\ Commits(r, q)
    /\ UNCHANGED <<entries, tags, policies>>

(* Variant: no ON DELETE CASCADE. *)
DeleteSegmentOnly(r) ==
    /\ Is(r, "delete_segment", "ready")
    /\ segments' = [segments EXCEPT ![req[r].target] = None]
    /\ tags' = tags
    /\ Commits(r, req[r])
    /\ UNCHANGED <<entries, policies>>

(* The tags go by cascade.  Nothing is said of a row that is gone already.  *)
DeleteSegment(r) ==
    /\ Is(r, "delete_segment", "ready")
    /\ segments' = [segments EXCEPT ![req[r].target] = None]
    /\ tags' = {t \in tags : t.segment # req[r].target}
    /\ Commits(r, req[r])
    /\ UNCHANGED <<entries, policies>>

----------------------------------------------------------------------------
(* Tags *)

SetDocumentSegments(r, d, ids) ==
    /\ Begins(r, "set_document_segments",
              [req[r] EXCEPT !.pc = "loaded", !.target = d, !.retags = TRUE,
                             !.segs = ids])
    /\ UNCHANGED Rest

(* validate_segment_ids: all of them exist. *)
ValidateSegmentIds(r) ==
    LET q == req[r] IN
    /\ q.kind \in {"set_document_segments", "create_objection", "update_objection"}
    /\ q.pc = "loaded"
    /\ \A s \in q.segs : segments[s] # None
    /\ Continues(r, [q EXCEPT !.pc = IF q.kind = "create_objection" THEN "ready" ELSE "valid"])
    /\ UNCHANGED Rest

(* The rows to delete. *)
ReadTags(r) ==
    /\ req[r].pc = "valid"
    /\ Continues(r, [req[r] EXCEPT !.pc = "ready", !.rows = TagsOf(req[r].target)])
    /\ UNCHANGED Rest

(* Variant: the old tags stay. *)
ReplaceDocumentSegmentsAdding(r) ==
    /\ Is(r, "set_document_segments", "ready") /\ Flushes(r)
    /\ tags' = tags \cup NewTags(r)
    /\ Commits(r, req[r])
    /\ UNCHANGED <<segments, entries, policies>>

ReplaceDocumentSegments(r) ==
    /\ Is(r, "set_document_segments", "ready") /\ Flushes(r)
    /\ tags' = (tags \ req[r].rows) \cup NewTags(r)
    /\ Commits(r, req[r])
    /\ UNCHANGED <<segments, entries, policies>>

----------------------------------------------------------------------------
(* Objections and ramp topics, whose labels and titles need not differ *)

AddObjection(r, label, ids) ==
    /\ Begins(r, "create_objection",
              [req[r] EXCEPT !.pc = IF ids = {} THEN "ready" ELSE "loaded",
                             !.target = <<r, label>>, !.name = label, !.retags = TRUE,
                             !.segs = ids])
    /\ UNCHANGED Rest

CreateObjection(r) ==
    /\ Is(r, "create_objection", "ready") /\ Flushes(r)
    /\ entries' = [entries EXCEPT ![req[r].target] = req[r].name]
    /\ tags' = tags \cup NewTags(r)
    /\ Commits(r, req[r])
    /\ UNCHANGED <<segments, policies>>

(* _load_objection *)
LoadObjection(r, kind, e, label, retags, ids) ==
    /\ kind \in {"update_objection", "delete_objection"}
    /\ retags \/ ids = {}
    /\ e \in ObjectionIds /\ entries[e] # None
    /\ Begins(r, kind,
              [req[r] EXCEPT !.pc = IF retags THEN "loaded" ELSE "ready", !.target = e,
                             !.name = label, !.retags = retags, !.segs = ids,
                             !.old = entries[e]])
    /\ UNCHANGED Rest

UpdateObjection(r) ==
    LET q == req[r] IN
    /\ Is(r, "update_objection", "ready") /\ Flushes(r)
    /\ entries' = IF q.name \in {None, q.old} THEN entries
                  ELSE [entries EXCEPT ![q.target] = q.name]
    /\ tags' = (tags \ q.rows) \cup NewTags(r)
    /\ Commits(r, q)
    /\ UNCHANGED <<segments, policies>>

DeleteObjection(r) ==
    /\ Is(r, "delete_objection", "ready")
    /\ entries' = [entries EXCEPT ![req[r].target] = None]
    /\ tags' = tags \ TagsOf(req[r].target)
    /\ Commits(r, req[r])
    /\ UNCHANGED <<segments, policies>>

CreateRampTopic(r, title) ==
    /\ Is(r, "create_ramp_topic", "idle")
    /\ entries' = [entries EXCEPT ![<<r, title>>] = title]
    /\ req' = [req EXCEPT ![r] = [@ EXCEPT !.pc = "done", !.target = <<r, title>>,
                                           !.name = title]]
    /\ past' = [past EXCEPT ![r] = done]
    /\ done' = done \cup {r}
    /\ UNCHANGED <<segments, tags, policies>>

(* _load_topic *)
LoadTopic(r, kind, e, title) ==
    /\ kind \in {"update_ramp_topic", "delete_ramp_topic"}
    /\ e \in TopicIds /\ entries[e] # None
    /\ Begins(r, kind, [req[r] EXCEPT !.pc = "ready", !.target = e, !.name = title,
                                      !.old = entries[e]])
    /\ UNCHANGED Rest

UpdateRampTopic(r) ==
    LET q == req[r] IN
    /\ Is(r, "update_ramp_topic", "ready") /\ Flushes(r)
    /\ entries' = IF q.name \in {None, q.old} THEN entries
                  ELSE [entries EXCEPT ![q.target] = q.name]
    /\ Commits(r, q)
    /\ UNCHANGED <<segments, tags, policies>>

DeleteRampTopic(r) ==
    /\ Is(r, "delete_ramp_topic", "ready")
    /\ entries' = [entries EXCEPT ![req[r].target] = None]
    /\ Commits(r, req[r])
    /\ UNCHANGED <<segments, tags, policies>>

----------------------------------------------------------------------------
(* apply_template: three SELECTs, each followed by INSERTs of what is        *)
(* missing; all commit together.                                           *)

ReadSegments(r, t) ==
    /\ Begins(r, "apply_template",
              [req[r] EXCEPT !.pc = "loaded", !.template = t,
                             !.saw = {p \in SegmentIds \X Names : segments[p[1]] = p[2]}])
    /\ UNCHANGED Rest

ReadTitles(r) ==
    /\ Is(r, "apply_template", "loaded")
    /\ Continues(r, [req[r] EXCEPT !.pc = "titled",
                        !.known = {n \in Titles : \E e \in TopicIds : entries[e] = n}])
    /\ UNCHANGED Rest

(* Variant: the labels are looked up among the ramp topics. *)
ReadLabelsOfTopics(r) ==
    /\ Is(r, "apply_template", "titled")
    /\ Continues(r, [req[r] EXCEPT !.pc = "ready",
                        !.known = @ \cup {n \in Labels : \E e \in TopicIds : entries[e] = n}])
    /\ UNCHANGED Rest

ReadLabels(r) ==
    /\ Is(r, "apply_template", "titled")
    /\ Continues(r, [req[r] EXCEPT !.pc = "ready",
                        !.known = @ \cup {n \in Labels : \E e \in ObjectionIds : entries[e] = n}])
    /\ UNCHANGED Rest

ApplyTemplate(r) ==
    LET q == req[r]
        wanted == (q.template.titles \cup {o.label : o \in q.template.objections}) \ q.known
    IN
    /\ Is(r, "apply_template", "ready") /\ Flushes(r)
    /\ segments' = [s \in SegmentIds |-> IF s \in NewSegments(r) THEN s[2] ELSE segments[s]]
    /\ entries' = [e \in EntryIds |-> IF e[1] = r /\ e[2] \in wanted THEN e[2] ELSE entries[e]]
    /\ tags' = tags \cup NewTags(r)
    /\ Commits(r, q)
    /\ UNCHANGED policies

----------------------------------------------------------------------------
(* Retention policies *)

(* Variant: a policy is looked for by its own row only. *)
FindNoPolicy(r, type, days, p) ==
    /\ p = <<r, type>>
    /\ Begins(r, "upsert_retention_policy",
              [req[r] EXCEPT !.pc = "ready", !.name = type, !.days = days, !.target = p])
    /\ UNCHANGED Rest

(* Some policy of the type, or the one to insert.                           *)
FindPolicy(r, type, days, p) ==
    LET found == {x \in PolicyIds : x[2] = type /\ policies[x] # None} IN
    /\ IF found = {} THEN p = <<r, type>> ELSE p \in found
    /\ Begins(r, "upsert_retention_policy",
              [req[r] EXCEPT !.pc = "ready", !.name = type, !.days = days, !.target = p,
                             !.old = policies[p]])
    /\ UNCHANGED Rest

UpsertRetentionPolicy(r) ==
    LET q == req[r] IN
    /\ Is(r, "upsert_retention_policy", "ready")
    /\ policies' = IF q.days = q.old THEN policies ELSE [policies EXCEPT ![q.target] = q.days]
    /\ Commits(r, q)
    /\ UNCHANGED <<segments, entries, tags>>

----------------------------------------------------------------------------
LiveSegments == {s \in SegmentIds : segments[s] # None}

(* The first statement of a request ... *)
BeginsRequest(r) ==
    \/ \E n \in Names : EnsureUniqueName(r, n)
    \/ \E s \in LiveSegments, n \in Names \cup {None} : LoadSegment(r, "update_segment", s, n)
    \/ \E s \in LiveSegments : LoadSegment(r, "delete_segment", s, None)
    \/ \E d \in Docs, ids \in SUBSET LiveSegments : SetDocumentSegments(r, d, ids)
    \/ \E n \in Labels, ids \in SUBSET LiveSegments : AddObjection(r, n, ids)
    \/ \E e \in ObjectionIds, n \in Labels \cup {None}, retags \in BOOLEAN,
          ids \in SUBSET LiveSegments : LoadObjection(r, "update_objection", e, n, retags, ids)
    \/ \E e \in ObjectionIds : LoadObjection(r, "delete_objection", e, None, FALSE, {})
    \/ \E n \in Titles : CreateRampTopic(r, n)
    \/ \E e \in TopicIds, n \in Titles \cup {None} : LoadTopic(r, "update_ramp_topic", e, n)
    \/ \E e \in TopicIds : LoadTopic(r, "delete_ramp_topic", e, None)
    \/ \E t \in Templates : ReadSegments(r, t)
    \/ \E type \in Types, days \in Days, p \in PolicyIds : FindPolicy(r, type, days, p)

(* ... and the others. *)
ContinuesRequest(r) ==
    \/ CreateSegment(r)
    \/ EnsureNewName(r)
    \/ UpdateSegment(r)
    \/ DeleteSegment(r)
    \/ ValidateSegmentIds(r)
    \/ ReadTags(r)
    \/ ReplaceDocumentSegments(r)
    \/ CreateObjection(r)
    \/ UpdateObjection(r)
    \/ DeleteObjection(r)
    \/ UpdateRampTopic(r)
    \/ DeleteRampTopic(r)
    \/ ReadTitles(r)
    \/ ReadLabels(r)
    \/ ApplyTemplate(r)
    \/ UpsertRetentionPolicy(r)
    \/ FlushFails(r)

Next == \E r \in Requests : IF req[r].pc = "idle" THEN BeginsRequest(r) ELSE ContinuesRequest(r)

Spec == Init /\ [][Next]_vars

----------------------------------------------------------------------------
(* Properties *)

Done(kind) == {r \in done : req[r].kind = kind}

Overlapped(r, s) == r \notin past[s] /\ s \notin past[r]

(* The committed requests that set the tags of x.                           *)
Retags(x) == {r \in done : req[r].target = x /\ req[r].retags}

(* "Replace the full set of segments": a document or an objection has       *)
(* exactly the tags of the last request that set them, but for segments    *)
(* that were deleted; overlapping requests may add up                      *)
(* (replace_document_segments).                                            *)
TagsAreLastRetag ==
    \A x \in Docs \cup {e \in ObjectionIds : entries[e] # None} : \A r \in Retags(x) :
        Retags(x) \subseteq past[r] \cup {r} =>
            {t.segment : t \in TagsOf(x)} = {s \in req[r].segs : segments[s] # None}

(* "Re-applying a template never creates duplicates": what an application   *)
(* adds was in the tenant under that label already only if it overlapped   *)
(* with what added it or if that one got its label later                   *)
(* (template_service.apply_template).                                      *)
TemplateAddsOnlyMissing ==
    \A r \in Done("apply_template") : \A x, y \in EntryIds :
        x # y /\ x[1] = r /\ y[1] \in past[r] \cup {None} /\ entries[x] = x[2] /\ entries[y] = x[2] =>
            \E s \in done \ past[r] : req[s].target \in {x, y}

(* No request that was checked first fails at the flush, a server error     *)
(* where the checks would have answered "conflict" or "not found", but for *)
(* one that committed since it began - or if it keeps a tag.               *)
FailsOnlyByRace ==
    \A r \in Requests : req[r].pc = "failed" =>
        \/ done \ past[r] # {}
        \/ req[r].rows # {} /\ {t.segment : t \in req[r].rows} \cap req[r].segs # {}

(* A resource type has one policy, with the days of the last PUT, unless    *)
(* two PUTs overlapped: no constraint keeps it so                          *)
(* (upsert_retention_policy).                                              *)
RetentionIsLastUpsert ==
    \A type \in Types :
        LET puts == {r \in Done("upsert_retention_policy") : req[r].name = type}
            rows == {p \in PolicyIds : p[2] = type /\ policies[p] # None}
        IN  \A r \in puts : puts \subseteq past[r] \cup {r} =>
                \/ \E p \in rows : rows = {p} /\ policies[p] = req[r].days
                \/ \E s, t \in puts : s # t /\ Overlapped(s, t)

(* "Replace the full set of segments tagged on a document": a request alone *)
(* always can.                                                             *)
RetagReplaces ==
    \A r \in Requests : Is(r, "set_document_segments", "failed") => done \ past[r] # {}
=============================================================================
