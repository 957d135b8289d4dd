------------------------- MODULE DocumentLifecycle -------------------------
(***************************************************************************)
(* The life of a document of one tenant: the upload request that stores    *)
(* its encrypted blob and inserts its row (services/ingestion_intake.py,   *)
(* api/v1/documents.py, api/v1/connectors.py), the background task that    *)
(* turns the blob into passages (services/ingestion.py), and the delete    *)
(* request that removes both (delete_document in api/v1/documents.py).     *)
(*                                                                         *)
(* Three stores are involved.  The documents and document_chunks tables    *)
(* change at the commit of a transaction, all of its writes at once; the   *)
(* object storage changes at the call, and no rollback undoes it.  Every   *)
(* coroutine of the process interleaves with the others at its awaits,     *)
(* which is where one action below ends and the next one begins.           *)
(***************************************************************************)
EXTENDS Naturals, FiniteSets

CONSTANTS
    Docs,        \* the document ids uuid4() may mint
    Uploads,     \* upload, batch, import or connector-sync requests
    Deletes,     \* delete requests
    NoDoc,       \* the document of a delete request that has loaded none
    NoUpload,    \* the origin of an id that was not minted yet
    MaxChunks,   \* bound: passages one document is split into
    MaxCrashes   \* bound: how often the process dies and is restarted

ASSUME ConstantsAssumption ==
    /\ NoDoc \notin Docs
    /\ NoUpload \notin Uploads
    /\ MaxChunks \in Nat \ {0}
    /\ MaxCrashes \in Nat

VARIABLES
    status,     \* documents.status, "absent" while no row is committed
    deleted,    \* documents.deleted_at IS NOT NULL
    count,      \* documents.chunk_count
    chunks,     \* committed document_chunks rows of the document
    blob,       \* an object is stored under the document's storage_key
    origin,     \* the request that minted the id
    upload,     \* progress of an upload request
    task,       \* progress of process_document on the document
    del,        \* local state of a delete request
    crashes     \* crashes so far

rowVars == <<status, deleted, count, chunks>>
vars == <<status, deleted, count, chunks, blob, origin, upload, task, del, crashes>>

----------------------------------------------------------------------------
Settled == {"completed", "failed"}
Statuses == {"absent", "pending", "processing"} \cup Settled

UploadPcs == {"idle", "open", "answered", "aborted"}

(* "held": the background task exists but its request has not committed.   *)
(* "reading" and "embedding" are the two sides of the await on the         *)
(* embedder; "failing" is the except branch, before _mark_failed commits.  *)
(* A "dropped" task never ran to its end because an exception left         *)
(* process_document, a "lost" one because the process died.                *)
Running == {"reading", "embedding", "failing"}
TaskPcs == {"none", "held", "queued", "done", "dropped", "lost"} \cup Running

DeletePcs == {"idle", "loaded", "purged", "deleted", "failed"}

(* What a delete request holds: its document object as loaded (status and  *)
(* chunk_count are never refreshed) and how many chunk rows its DELETE     *)
(* statement matched.                                                      *)
DeleteRequest == [pc : DeletePcs, doc : Docs \cup {NoDoc}, seen : Statuses,
                  count : Nat, matched : Nat]

IdleDelete == [pc |-> "idle", doc |-> NoDoc, seen |-> "absent",
               count |-> 0, matched |-> 0]

TypeOK ==
    /\ status \in [Docs -> Statuses]
    /\ deleted \in [Docs -> BOOLEAN]
    /\ count \in [Docs -> Nat]
    /\ chunks \in [Docs -> Nat]
    /\ blob \in [Docs -> BOOLEAN]
    /\ origin \in [Docs -> Uploads \cup {NoUpload}]
    /\ upload \in [Uploads -> UploadPcs]
    /\ task \in [Docs -> TaskPcs]
    /\ del \in [Deletes -> DeleteRequest]
    /\ \A x \in Deletes : del[x].pc # "idle" => del[x].doc \in Docs
    /\ crashes \in Nat

Init ==
    /\ status = [d \in Docs |-> "absent"]
    /\ deleted = [d \in Docs |-> FALSE]
    /\ count = [d \in Docs |-> 0]
    /\ chunks = [d \in Docs |-> 0]
    /\ blob = [d \in Docs |-> FALSE]
    /\ origin = [d \in Docs |-> NoUpload]
    /\ upload = [u \in Uploads |-> "idle"]
    /\ task = [d \in Docs |-> "none"]
    /\ del = [x \in Deletes |-> IdleDelete]
    /\ crashes = 0

----------------------------------------------------------------------------
(* Upload requests *)

(* Variant: the items before this one are committed first. *)
IntakeDocumentCommitting(u, d) ==
    /\ upload[u] \in {"idle", "open"}
    /\ origin[d] = NoUpload
    /\ upload' = [upload EXCEPT ![u] = "open"]
    /\ origin' = [origin EXCEPT ![d] = u]
    /\ blob' = [blob EXCEPT ![d] = TRUE]
    /\ task' = [task EXCEPT ![d] = "held"]
    /\ status' = [e \in Docs |-> IF origin[e] = u THEN "pending" ELSE status[e]]
    /\ UNCHANGED <<deleted, count, chunks, del, crashes>>

(* intake_document: the blob is put, then the row is flushed and the task  *)
(* is registered in the request's still open transaction.  The sources     *)
(* that refuse an item (IntakeError, wrong type, too large) do so before   *)
(* any of this and change nothing.                                         *)
IntakeDocument(u, d) ==
    /\ upload[u] \in {"idle", "open"}
    /\ origin[d] = NoUpload
    /\ upload' = [upload EXCEPT ![u] = "open"]
    /\ origin' = [origin EXCEPT ![d] = u]
    /\ blob' = [blob EXCEPT ![d] = TRUE]
    /\ task' = [task EXCEPT ![d] = "held"]
    /\ UNCHANGED <<rowVars, del, crashes>>

(* The single commit of upload_document, upload_documents_batch,           *)
(* import_url or sync_notion; the tasks run after the response.            *)
CommitUpload(u) ==
    /\ upload[u] = "open"
    /\ upload' = [upload EXCEPT ![u] = "answered"]
    /\ status' = [d \in Docs |-> IF origin[d] = u THEN "pending" ELSE status[d]]
    /\ task' = [d \in Docs |-> IF origin[d] = u THEN "queued" ELSE task[d]]
    /\ UNCHANGED <<deleted, count, chunks, blob, origin, del, crashes>>

(* An exception that is no IntakeError (the plan limit, an unknown         *)
(* segment, the database): get_session rolls every item back.              *)
AbortUpload(u) ==
    /\ upload[u] = "open"
    /\ upload' = [upload EXCEPT ![u] = "aborted"]
    /\ task' = [d \in Docs |-> IF origin[d] = u THEN "none" ELSE task[d]]
    /\ UNCHANGED <<rowVars, blob, origin, del, crashes>>

----------------------------------------------------------------------------
(* process_document, the background task of one document *)

Siblings(d) == {e \in Docs : origin[e] = origin[d]}

(* The tasks of one response run one after the other. *)
MyTurn(d) == \A e \in Siblings(d) : task[e] \notin Running

(* Variant: a document can be processed again. *)
StartAgain(d) ==
    /\ task[d] \in {"queued", "done"}
    /\ MyTurn(d)
    /\ task' = [task EXCEPT ![d] = "reading"]
    /\ status' = [status EXCEPT ![d] = "processing"]
    /\ UNCHANGED <<deleted, count, chunks, blob, origin, upload, del, crashes>>

Start(d) ==
    /\ task[d] = "queued"
    /\ MyTurn(d)
    /\ task' = [task EXCEPT ![d] = "reading"]
    /\ status' = [status EXCEPT ![d] = "processing"]
    /\ UNCHANGED <<deleted, count, chunks, blob, origin, upload, del, crashes>>

(* storage.get, decrypt, extract and split, up to the await on the embedder. *)
ReadBlob(d) ==
    /\ task[d] = "reading"
    /\ blob[d]
    /\ task' = [task EXCEPT ![d] = "embedding"]
    /\ UNCHANGED <<rowVars, blob, origin, upload, del, crashes>>

(* The chunk rows, chunk_count and COMPLETED, written over the row loaded   *)
(* before the await and committed together.                                *)
FinishIngestion(d, n) ==
    /\ task[d] = "embedding"
    /\ task' = [task EXCEPT ![d] = "done"]
    /\ chunks' = [chunks EXCEPT ![d] = chunks[d] + n]
    /\ count' = [count EXCEPT ![d] = n]
    /\ status' = [status EXCEPT ![d] = "completed"]
    /\ UNCHANGED <<deleted, blob, origin, upload, del, crashes>>

(* Variants: chunk rows flushed before the failure survive it; the blob is  *)
(* thrown away with the work; the failure is swallowed.                    *)
PipelineFailsKeepingChunks(d) ==
    /\ task[d] \in {"reading", "embedding"}
    /\ task' = [task EXCEPT ![d] = "failing"]
    /\ chunks' = [chunks EXCEPT ![d] = 1]
    /\ UNCHANGED <<status, deleted, count, blob, origin, upload, del, crashes>>

PipelineFailsDroppingBlob(d) ==
    /\ task[d] \in {"reading", "embedding"}
    /\ task' = [task EXCEPT ![d] = "failing"]
    /\ blob' = [blob EXCEPT ![d] = FALSE]
    /\ UNCHANGED <<rowVars, origin, upload, del, crashes>>

PipelineFailsSilently(d) ==
    /\ task[d] \in {"reading", "embedding"}
    /\ task' = [task EXCEPT ![d] = "done"]
    /\ UNCHANGED <<rowVars, blob, origin, upload, del, crashes>>

(* Any exception of the pipeline, a missing blob and a failed commit        *)
(* included: rollback.                                                     *)
PipelineFails(d) ==
    /\ task[d] \in {"reading", "embedding"}
    /\ task' = [task EXCEPT ![d] = "failing"]
    /\ UNCHANGED <<rowVars, blob, origin, upload, del, crashes>>

MarkFailed(d) ==
    /\ task[d] = "failing"
    /\ task' = [task EXCEPT ![d] = "done"]
    /\ status' = [status EXCEPT ![d] = "failed"]
    /\ UNCHANGED <<deleted, count, chunks, blob, origin, upload, del, crashes>>

(* The first transaction (before the try) or the one of _mark_failed       *)
(* fails: the exception leaves process_document, and the response runs     *)
(* none of its remaining tasks.                                            *)
TaskRaises(d) ==
    /\ \/ task[d] = "queued" /\ MyTurn(d)
       \/ task[d] = "failing"
    /\ task' = [e \in Docs |->
                  IF e = d \/ (e \in Siblings(d) /\ task[e] = "queued")
                  THEN "dropped" ELSE task[e]]
    /\ UNCHANGED <<rowVars, blob, origin, upload, del, crashes>>

----------------------------------------------------------------------------
(* delete_document *)

LoadForDelete(x, d) ==
    /\ del[x].pc = "idle"
    /\ status[d] # "absent"
    /\ ~deleted[d]
    /\ del' = [del EXCEPT ![x] = [pc |-> "loaded", doc |-> d, seen |-> status[d],
                                  count |-> count[d], matched |-> 0]]
    /\ UNCHANGED <<rowVars, blob, origin, upload, task, crashes>>

(* The DELETE statement, whose effect shows at the commit, then the blob,   *)
(* gone at once unless the storage refuses (kept: StorageError, ignored).   *)
PurgeArtifacts(x, kept) ==
    LET d == del[x].doc IN
    /\ del[x].pc = "loaded"
    /\ del' = [del EXCEPT ![x].pc = "purged", ![x].matched = chunks[d]]
    /\ blob' = IF kept THEN blob ELSE [blob EXCEPT ![d] = FALSE]
    /\ UNCHANGED <<rowVars, origin, upload, task, crashes>>

(* Variants: the loaded chunk_count is subtracted; the passages are left to *)
(* a later clean-up.                                                       *)
CommitDeleteSubtracting(x) ==
    LET d == del[x].doc IN
    /\ del[x].pc = "purged"
    /\ del' = [del EXCEPT ![x].pc = "deleted"]
    /\ deleted' = [deleted EXCEPT ![d] = TRUE]
    /\ count' = [count EXCEPT ![d] = count[d] - del[x].count]
    /\ chunks' = [chunks EXCEPT ![d] = IF del[x].matched > 0 THEN 0 ELSE chunks[d]]
    /\ UNCHANGED <<status, blob, origin, upload, task, crashes>>

CommitDeleteKeepingChunks(x) ==
    LET d == del[x].doc IN
    /\ del[x].pc = "purged"
    /\ del' = [del EXCEPT ![x].pc = "deleted"]
    /\ deleted' = [deleted EXCEPT ![d] = TRUE]
    /\ count' = [count EXCEPT ![d] = 0]
    /\ UNCHANGED <<status, chunks, blob, origin, upload, task, crashes>>

(* deleted_at and, if the loaded chunk_count was not already 0 (an          *)
(* assignment of the loaded value is not written), chunk_count = 0.         *)
CommitDelete(x) ==
    LET d == del[x].doc IN
    /\ del[x].pc = "purged"
    /\ del' = [del EXCEPT ![x].pc = "deleted"]
    /\ deleted' = [deleted EXCEPT ![d] = TRUE]
    /\ count' = [count EXCEPT ![d] = IF del[x].count # 0 THEN 0 ELSE count[d]]
    /\ chunks' = [chunks EXCEPT ![d] = IF del[x].matched > 0 THEN 0 ELSE chunks[d]]
    /\ UNCHANGED <<status, blob, origin, upload, task, crashes>>

(* Refused by assert_can, or a database error up to and including commit.   *)
DeleteFails(x) ==
    /\ del[x].pc \in {"loaded", "purged"}
    /\ del' = [del EXCEPT ![x].pc = "failed"]
    /\ UNCHANGED <<rowVars, blob, origin, upload, task, crashes>>

----------------------------------------------------------------------------
(* The process dies: open transactions roll back, tasks are not persisted. *)
Crash ==
    /\ crashes < MaxCrashes
    /\ crashes' = crashes + 1
    /\ upload' = [u \in Uploads |-> IF upload[u] = "open" THEN "aborted" ELSE upload[u]]
    /\ task' = [d \in Docs |->
                  CASE task[d] = "held" -> "none"
                    [] task[d] \in Running \cup {"queued"} -> "lost"
                    [] OTHER -> task[d]]
    /\ del' = [x \in Deletes |->
                 IF del[x].pc \in {"loaded", "purged"}
                 THEN [del[x] EXCEPT !.pc = "failed"] ELSE del[x]]
    /\ UNCHANGED <<rowVars, blob, origin>>

UploadStep(u) ==
    \/ \E d \in Docs : IntakeDocument(u, d)
    \/ CommitUpload(u)
    \/ AbortUpload(u)

Worker(d) ==
    \/ Start(d)
    \/ ReadBlob(d)
    \/ \E n \in 1..MaxChunks : FinishIngestion(d, n)
    \/ PipelineFails(d)
    \/ MarkFailed(d)
    \/ TaskRaises(d)

DeleteStep(x) ==
    \/ \E d \in Docs : LoadForDelete(x, d)
    \/ \E kept \in BOOLEAN : PurgeArtifacts(x, kept)
    \/ CommitDelete(x)
    \/ DeleteFails(x)

Next ==
    \/ \E u \in Uploads : UploadStep(u)
    \/ \E d \in Docs : Worker(d)
    \/ \E x \in Deletes : DeleteStep(x)
    \/ Crash

Spec == Init /\ [][Next]_vars

(* The event loop runs what is ready: a background task that can take a     *)
(* step does.  Requests are not assumed to arrive.                          *)
FairSpec == Spec /\ \A d \in Docs : WF_vars(Worker(d))

----------------------------------------------------------------------------
(* Properties *)

(* chunk_count, the status and the stored passages of a document nobody     *)
(* deleted always agree: process_document commits the three together, so    *)
(* neither retrieval nor the library page ever sees a half-indexed          *)
(* document, whatever fails, crashes or is deleted next to it.              *)
LiveRowMatchesPassages ==
    \A d \in Docs : ~deleted[d] =>
        /\ count[d] = chunks[d]
        /\ chunks[d] > 0 <=> status[d] = "completed"

(* The items of a batch or of a connector sync share one commit: after any  *)
(* failure or crash, either all of them are in the library or none is.      *)
BatchAllOrNothing ==
    \A d, e \in Docs : origin[d] # NoUpload /\ origin[d] = origin[e] =>
        (status[d] = "absent" <=> status[e] = "absent")

(* A delete that was given a document whose ingestion had ended leaves no   *)
(* passage behind, for good, even when two deletes and other ingestions     *)
(* overlap it, and the row's chunk_count says so.                           *)
PurgeOfSettledDocument ==
    \A x \in Deletes : del[x].pc = "deleted" /\ del[x].seen \in Settled =>
        chunks[del[x].doc] = 0 /\ count[del[x].doc] = 0

(* Only a delete request takes a blob away: a document in the library       *)
(* without its source bytes is one whose delete has passed the storage call *)
(* and has not committed, or failed after it.                               *)
BlobLostOnlyToDelete ==
    \A d \in Docs : status[d] # "absent" /\ ~deleted[d] /\ ~blob[d] =>
        \E x \in Deletes : del[x].doc = d /\ del[x].pc \in {"purged", "failed"}

(* A task ends exactly when its document has a verdict; a document that     *)
(* waits without a task to serve it is one a fault or a crash dropped.      *)
VerdictEndsTask ==
    \A d \in Docs :
        /\ status[d] \in Settled <=> task[d] = "done"
        /\ status[d] = "processing" => task[d] \in Running \cup {"dropped", "lost"}
        /\ status[d] = "pending" => task[d] \in {"queued", "dropped", "lost"}

(* Every accepted document is completed or failed in the end, unless its    *)
(* task was dropped (a database fault outside the pipeline's try) or lost   *)
(* (a crash): a task waits for its siblings, never for ever.                *)
UploadSettlesUnlessDropped ==
    \A d \in Docs : status[d] = "pending" ~>
        status[d] \in Settled \/ task[d] \in {"dropped", "lost"}

(* What the docstring of process_document promises: "Never raises -         *)
(* failures are recorded on the row", so that without a crash every         *)
(* accepted document is completed or failed in the end.                     *)
FailuresAreRecorded == \A d \in Docs : status[d] = "pending" ~> status[d] \in Settled

(* What the comment in delete_document promises: "Purge retrieval artifacts *)
(* so deleted content can never resurface in answers".                      *)
DeletedNeverResurfaces == \A d \in Docs : deleted[d] => chunks[d] = 0

(* The rows as a reader sees them who filters on deleted_at. *)
Shown == [absent |-> "absent", pending |-> "accepted", processing |-> "working",
          completed |-> "ready", failed |-> "failed"]

View(d) == IF deleted[d] THEN "removed" ELSE Shown[status[d]]

Contract == INSTANCE DocumentContract WITH
    Documents <- Docs,
    MaxPassages <- MaxChunks,
    state <- [d \in Docs |-> View(d)],
    passages <- [d \in Docs |-> IF deleted[d] THEN 0 ELSE chunks[d]]

(* Every run of the upload, ingestion and delete code is, to that reader, a *)
(* run of the contract: acceptance by whole requests, one verdict per       *)
(* document, passages all at once, removal for ever.                        *)
ImplementsContract == Contract!Spec
=============================================================================
