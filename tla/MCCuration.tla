----------------------------- MODULE MCCuration -----------------------------
(* An instance of Curation for TLC: one document, two segments, one         *)
(* objection and one ramp topic, two templates that share a segment.       *)
EXTENDS Curation, TLC

CONSTANTS enterprise, smb, price, delay, basics, deck, days30, days60, chunks

MCTemplates == {
    [segments |-> {enterprise}, titles |-> {basics},
     objections |-> {[label |-> price, segments |-> {enterprise}]}],
    [segments |-> {enterprise, smb}, titles |-> {},
     objections |-> {[label |-> price, segments |-> {smb}]}]}

Three(kinds) == [Requests -> {Idle(k) : k \in kinds \cap Kinds}]

Rows(ids, kept) == [x \in ids |-> IF x[1] = None /\ x[2] \in kept THEN x[2] ELSE None]

TagInit ==
    /\ segments = Rows(SegmentIds, {enterprise, smb})
    /\ entries = Rows(EntryIds, {price})
    /\ tags \in SUBSET Tagging(None, deck, {<<None, enterprise>>})
    /\ req \in Three({"update_segment", "delete_segment", "set_document_segments"})
               \cup Three({"delete_segment", "update_objection", "delete_objection"})

TemplateInit ==
    /\ segments \in {Rows(SegmentIds, names) : names \in {{}, {enterprise}}}
    /\ entries \in {Rows(EntryIds, names) : names \in {{}, {price, basics}}}
    /\ tags = {}
    /\ req \in Three({"apply_template", "update_segment", "delete_segment", "create_segment"})
               \cup Three({"apply_template", "create_objection", "update_objection",
                           "delete_objection"})
               \cup Three({"apply_template", "create_ramp_topic", "update_ramp_topic",
                           "delete_ramp_topic"})

RetentionInit ==
    /\ segments = Rows(SegmentIds, {}) /\ entries = Rows(EntryIds, {}) /\ tags = {}
    /\ req \in Three({"upsert_retention_policy"})

MCInit ==
    /\ TagInit \/ TemplateInit \/ RetentionInit
    /\ policies = [p \in PolicyIds |-> None]
    /\ RowsInit
    /\ past = [r \in Requests |-> {}]
    /\ done = {}

MCSpec == MCInit /\ [][Next]_vars

Symmetry == Permutations(Requests)
=============================================================================
