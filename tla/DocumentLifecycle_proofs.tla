---------------------- MODULE DocumentLifecycle_proofs ----------------------
(***************************************************************************)
(* Proofs about DocumentLifecycle for every number of documents, requests, *)
(* passages and crashes.                                                   *)
(***************************************************************************)
EXTENDS DocumentLifecycle, TLAPS

(* The progress of the request that minted an id decides whether the row   *)
(* is visible and whether its task is still held back.                     *)
RowsFollowCommit ==
    \A d \in Docs :
        /\ origin[d] = NoUpload => status[d] = "absent" /\ task[d] = "none"
        /\ origin[d] # NoUpload =>
              /\ upload[origin[d]] # "idle"
              /\ status[d] # "absent" <=> upload[origin[d]] = "answered"
              /\ task[d] = "held" <=> upload[origin[d]] = "open"
              /\ task[d] = "none" <=> upload[origin[d]] = "aborted"
              /\ status[d] = "absent" => blob[d]
        /\ deleted[d] => status[d] # "absent"

(* Passages and a chunk_count exist only in completed documents, the        *)
(* deleted ones included.                                                  *)
PassagesOnlyWhenCompleted ==
    \A d \in Docs : status[d] # "completed" => chunks[d] = 0 /\ count[d] = 0

(* What a delete request remembers is still true of a settled document.     *)
DeleteMemory ==
    \A x \in Deletes : del[x].pc # "idle" =>
        /\ status[del[x].doc] # "absent"
        /\ del[x].seen \in Settled => status[del[x].doc] = del[x].seen
        /\ del[x].seen = "completed" => del[x].count # 0
        /\ del[x].pc = "purged" /\ del[x].seen \in Settled =>
              del[x].matched > 0 \/ chunks[del[x].doc] = 0
        /\ del[x].pc = "deleted" => deleted[del[x].doc]

IInv ==
    /\ TypeOK
    /\ RowsFollowCommit
    /\ PassagesOnlyWhenCompleted
    /\ DeleteMemory
    /\ LiveRowMatchesPassages
    /\ PurgeOfSettledDocument
    /\ BlobLostOnlyToDelete
    /\ VerdictEndsTask

USE ConstantsAssumption DEF Settled, Statuses, UploadPcs, Running, TaskPcs, DeletePcs,
                            DeleteRequest, rowVars, vars

----------------------------------------------------------------------------
LEMMA InitIInv == Init => IInv
  BY DEF Init, IInv, TypeOK, IdleDelete, RowsFollowCommit, PassagesOnlyWhenCompleted,
         DeleteMemory, LiveRowMatchesPassages, PurgeOfSettledDocument,
         BlobLostOnlyToDelete, VerdictEndsTask

LEMMA TypeStep == TypeOK /\ [Next]_vars => TypeOK'
<1> SUFFICES ASSUME TypeOK, [Next]_vars PROVE TypeOK'
  OBVIOUS
<1> USE DEF TypeOK
<1>1. ASSUME NEW u \in Uploads, NEW d \in Docs, IntakeDocument(u, d) PROVE TypeOK'
  BY <1>1 DEF IntakeDocument
<1>2. ASSUME NEW u \in Uploads, CommitUpload(u) PROVE TypeOK'
  BY <1>2 DEF CommitUpload
<1>3. ASSUME NEW u \in Uploads, AbortUpload(u) PROVE TypeOK'
  BY <1>3 DEF AbortUpload
<1>4. ASSUME NEW d \in Docs, Start(d) PROVE TypeOK'
  BY <1>4 DEF Start
<1>5. ASSUME NEW d \in Docs, ReadBlob(d) PROVE TypeOK'
  BY <1>5 DEF ReadBlob
<1>6. ASSUME NEW d \in Docs, NEW n \in 1..MaxChunks, FinishIngestion(d, n) PROVE TypeOK'
  BY <1>6 DEF FinishIngestion
<1>7. ASSUME NEW d \in Docs, PipelineFails(d) PROVE TypeOK'
  BY <1>7 DEF PipelineFails
<1>8. ASSUME NEW d \in Docs, MarkFailed(d) PROVE TypeOK'
  BY <1>8 DEF MarkFailed
<1>9. ASSUME NEW d \in Docs, TaskRaises(d) PROVE TypeOK'
  BY <1>9 DEF TaskRaises
<1>10. ASSUME NEW x \in Deletes, NEW d \in Docs, LoadForDelete(x, d) PROVE TypeOK'
  BY <1>10 DEF LoadForDelete
<1>11. ASSUME NEW x \in Deletes, NEW kept \in BOOLEAN, PurgeArtifacts(x, kept) PROVE TypeOK'
  <2>1. blob' \in [Docs -> BOOLEAN]
    BY <1>11 DEF PurgeArtifacts
  <2>2. del[x] \in DeleteRequest /\ chunks[del[x].doc] \in Nat
    BY <1>11 DEF PurgeArtifacts
  <2>3. [del[x] EXCEPT !.pc = "purged", !.matched = chunks[del[x].doc]] \in DeleteRequest
    BY <2>2
  <2>4. del' = [del EXCEPT ![x] = [del[x] EXCEPT !.pc = "purged", !.matched = chunks[del[x].doc]]]
    BY <1>11 DEF PurgeArtifacts
  <2>5. QED
    BY <1>11, <2>1, <2>2, <2>3, <2>4 DEF PurgeArtifacts
<1>12. ASSUME NEW x \in Deletes, CommitDelete(x) PROVE TypeOK'
  BY <1>12 DEF CommitDelete
<1>13. ASSUME NEW x \in Deletes, DeleteFails(x) PROVE TypeOK'
  BY <1>13 DEF DeleteFails
<1>14. ASSUME Crash PROVE TypeOK'
  BY <1>14 DEF Crash
<1>15. CASE UNCHANGED vars
  BY <1>15
<1>16. QED
  BY <1>1, <1>2, <1>3, <1>4, <1>5, <1>6, <1>7, <1>8, <1>9, <1>10, <1>11, <1>12, <1>13,
     <1>14, <1>15 DEF Next, UploadStep, Worker, DeleteStep

(* Every variable keeps the shape Init gives it. *)
THEOREM TypeCorrect == Spec => []TypeOK
<1>1. Init => TypeOK
  BY InitIInv DEF IInv
<1>2. QED
  BY <1>1, TypeStep, PTL DEF Spec

(* Every step keeps the invariant: one step per action, one below it for    *)
(* each part that reads a variable the action changes.                      *)
LEMMA InductiveStep == IInv /\ [Next]_vars => IInv'
<1> SUFFICES ASSUME IInv, [Next]_vars PROVE IInv'
  OBVIOUS
<1>0. TypeOK'
  BY TypeStep DEF IInv
<1> USE <1>0 DEF IInv, TypeOK
<1>1. ASSUME NEW u \in Uploads, NEW d \in Docs, IntakeDocument(u, d) PROVE IInv'
  <2>1. (PassagesOnlyWhenCompleted /\ DeleteMemory /\ LiveRowMatchesPassages
         /\ PurgeOfSettledDocument)'
    BY <1>1 DEF IntakeDocument, PassagesOnlyWhenCompleted, DeleteMemory,
                LiveRowMatchesPassages, PurgeOfSettledDocument
  <2>2. RowsFollowCommit'
    BY <1>1 DEF IntakeDocument, RowsFollowCommit
  <2>3. BlobLostOnlyToDelete'
    BY <1>1 DEF IntakeDocument, BlobLostOnlyToDelete
  <2>4. VerdictEndsTask'
    BY <1>1 DEF IntakeDocument, RowsFollowCommit, VerdictEndsTask
  <2>5. QED
    BY <2>1, <2>2, <2>3, <2>4
<1>2. ASSUME NEW u \in Uploads, CommitUpload(u) PROVE IInv'
  <2>1. PurgeOfSettledDocument'
    BY <1>2 DEF CommitUpload, PurgeOfSettledDocument
  <2>2. RowsFollowCommit'
    BY <1>2 DEF CommitUpload, RowsFollowCommit
  <2>3. PassagesOnlyWhenCompleted'
    BY <1>2 DEF CommitUpload, RowsFollowCommit, PassagesOnlyWhenCompleted
  <2>4. DeleteMemory'
    BY <1>2 DEF CommitUpload, RowsFollowCommit, DeleteMemory
  <2>5. LiveRowMatchesPassages'
    BY <1>2 DEF CommitUpload, RowsFollowCommit, LiveRowMatchesPassages
  <2>6. BlobLostOnlyToDelete'
    BY <1>2 DEF CommitUpload, RowsFollowCommit, BlobLostOnlyToDelete
  <2>7. VerdictEndsTask'
    BY <1>2 DEF CommitUpload, VerdictEndsTask
  <2>8. QED
    BY <2>1, <2>2, <2>3, <2>4, <2>5, <2>6, <2>7
<1>3. ASSUME NEW u \in Uploads, AbortUpload(u) PROVE IInv'
  <2>1. (PassagesOnlyWhenCompleted /\ DeleteMemory /\ LiveRowMatchesPassages
         /\ PurgeOfSettledDocument /\ BlobLostOnlyToDelete)'
    BY <1>3 DEF AbortUpload, PassagesOnlyWhenCompleted, DeleteMemory,
                LiveRowMatchesPassages, PurgeOfSettledDocument, BlobLostOnlyToDelete
  <2>2. RowsFollowCommit'
    BY <1>3 DEF AbortUpload, RowsFollowCommit
  <2>3. VerdictEndsTask'
    BY <1>3 DEF AbortUpload, RowsFollowCommit, VerdictEndsTask
  <2>4. QED
    BY <2>1, <2>2, <2>3
<1>4. ASSUME NEW d \in Docs, Start(d) PROVE IInv'
  <2>1. PurgeOfSettledDocument'
    BY <1>4 DEF Start, PurgeOfSettledDocument
  <2>2. RowsFollowCommit'
    BY <1>4 DEF Start, RowsFollowCommit
  <2>3. PassagesOnlyWhenCompleted'
    BY <1>4 DEF Start, PassagesOnlyWhenCompleted, VerdictEndsTask
  <2>4. DeleteMemory'
    BY <1>4 DEF Start, DeleteMemory, VerdictEndsTask
  <2>5. LiveRowMatchesPassages'
    BY <1>4 DEF Start, LiveRowMatchesPassages, VerdictEndsTask
  <2>6. BlobLostOnlyToDelete'
    BY <1>4 DEF Start, RowsFollowCommit, BlobLostOnlyToDelete
  <2>7. VerdictEndsTask'
    BY <1>4 DEF Start, VerdictEndsTask
  <2>8. QED
    BY <2>1, <2>2, <2>3, <2>4, <2>5, <2>6, <2>7
<1>5. ASSUME NEW d \in Docs, ReadBlob(d) PROVE IInv'
  <2>1. (PassagesOnlyWhenCompleted /\ DeleteMemory /\ LiveRowMatchesPassages
         /\ PurgeOfSettledDocument /\ BlobLostOnlyToDelete)'
    BY <1>5 DEF ReadBlob, PassagesOnlyWhenCompleted, DeleteMemory, LiveRowMatchesPassages,
                PurgeOfSettledDocument, BlobLostOnlyToDelete
  <2>2. RowsFollowCommit'
    BY <1>5 DEF ReadBlob, RowsFollowCommit
  <2>3. VerdictEndsTask'
    BY <1>5 DEF ReadBlob, VerdictEndsTask
  <2>4. QED
    BY <2>1, <2>2, <2>3
<1>6. ASSUME NEW d \in Docs, NEW n \in 1..MaxChunks, FinishIngestion(d, n) PROVE IInv'
  <2>1. RowsFollowCommit'
    BY <1>6 DEF FinishIngestion, RowsFollowCommit
  <2>2. PassagesOnlyWhenCompleted'
    BY <1>6 DEF FinishIngestion, PassagesOnlyWhenCompleted
  <2>3. DeleteMemory'
    BY <1>6 DEF FinishIngestion, DeleteMemory, VerdictEndsTask
  <2>4. LiveRowMatchesPassages'
    BY <1>6 DEF FinishIngestion, LiveRowMatchesPassages, VerdictEndsTask
  <2>5. PurgeOfSettledDocument'
    BY <1>6 DEF FinishIngestion, DeleteMemory, PurgeOfSettledDocument, VerdictEndsTask
  <2>6. BlobLostOnlyToDelete'
    BY <1>6 DEF FinishIngestion, RowsFollowCommit, BlobLostOnlyToDelete
  <2>7. VerdictEndsTask'
    BY <1>6 DEF FinishIngestion, VerdictEndsTask
  <2>8. QED
    BY <2>1, <2>2, <2>3, <2>4, <2>5, <2>6, <2>7
<1>7. ASSUME NEW d \in Docs, PipelineFails(d) PROVE IInv'
  <2>1. (PassagesOnlyWhenCompleted /\ DeleteMemory /\ LiveRowMatchesPassages
         /\ PurgeOfSettledDocument /\ BlobLostOnlyToDelete)'
    BY <1>7 DEF PipelineFails, PassagesOnlyWhenCompleted, DeleteMemory,
                LiveRowMatchesPassages, PurgeOfSettledDocument, BlobLostOnlyToDelete
  <2>2. RowsFollowCommit'
    BY <1>7 DEF PipelineFails, RowsFollowCommit
  <2>3. VerdictEndsTask'
    BY <1>7 DEF PipelineFails, VerdictEndsTask
  <2>4. QED
    BY <2>1, <2>2, <2>3
<1>8. ASSUME NEW d \in Docs, MarkFailed(d) PROVE IInv'
  <2>1. PurgeOfSettledDocument'
    BY <1>8 DEF MarkFailed, PurgeOfSettledDocument
  <2>2. RowsFollowCommit'
    BY <1>8 DEF MarkFailed, RowsFollowCommit
  <2>3. PassagesOnlyWhenCompleted'
    BY <1>8 DEF MarkFailed, PassagesOnlyWhenCompleted, VerdictEndsTask
  <2>4. DeleteMemory'
    BY <1>8 DEF MarkFailed, DeleteMemory, VerdictEndsTask
  <2>5. LiveRowMatchesPassages'
    BY <1>8 DEF MarkFailed, LiveRowMatchesPassages, VerdictEndsTask
  <2>6. BlobLostOnlyToDelete'
    BY <1>8 DEF MarkFailed, RowsFollowCommit, BlobLostOnlyToDelete
  <2>7. VerdictEndsTask'
    BY <1>8 DEF MarkFailed, VerdictEndsTask
  <2>8. QED
    BY <2>1, <2>2, <2>3, <2>4, <2>5, <2>6, <2>7
<1>9. ASSUME NEW d \in Docs, TaskRaises(d) PROVE IInv'
  <2>1. (PassagesOnlyWhenCompleted /\ DeleteMemory /\ LiveRowMatchesPassages
         /\ PurgeOfSettledDocument /\ BlobLostOnlyToDelete)'
    BY <1>9 DEF TaskRaises, PassagesOnlyWhenCompleted, DeleteMemory, LiveRowMatchesPassages,
                PurgeOfSettledDocument, BlobLostOnlyToDelete
  <2>2. RowsFollowCommit'
    BY <1>9 DEF TaskRaises, RowsFollowCommit
  <2>3. VerdictEndsTask'
    BY <1>9 DEF TaskRaises, VerdictEndsTask
  <2>4. QED
    BY <2>1, <2>2, <2>3
<1>10. ASSUME NEW x \in Deletes, NEW d \in Docs, LoadForDelete(x, d) PROVE IInv'
  <2>1. (RowsFollowCommit /\ PassagesOnlyWhenCompleted /\ LiveRowMatchesPassages
         /\ VerdictEndsTask)'
    BY <1>10 DEF LoadForDelete, RowsFollowCommit, PassagesOnlyWhenCompleted,
                 LiveRowMatchesPassages, VerdictEndsTask
  <2>2. DeleteMemory'
    BY <1>10 DEF LoadForDelete, DeleteMemory, LiveRowMatchesPassages
  <2>3. PurgeOfSettledDocument'
    BY <1>10 DEF LoadForDelete, PurgeOfSettledDocument
  <2>4. BlobLostOnlyToDelete'
    BY <1>10 DEF LoadForDelete, BlobLostOnlyToDelete
  <2>5. QED
    BY <2>1, <2>2, <2>3, <2>4
<1>11. ASSUME NEW x \in Deletes, NEW kept \in BOOLEAN,
             PurgeArtifacts(x, kept) PROVE IInv'
  <2>1. (PassagesOnlyWhenCompleted /\ LiveRowMatchesPassages /\ VerdictEndsTask)'
    BY <1>11 DEF PurgeArtifacts, PassagesOnlyWhenCompleted, LiveRowMatchesPassages,
                 VerdictEndsTask
  <2>2. RowsFollowCommit'
    BY <1>11 DEF PurgeArtifacts, RowsFollowCommit, DeleteMemory
  <2>3. DeleteMemory'
    BY <1>11 DEF PurgeArtifacts, DeleteMemory
  <2>4. PurgeOfSettledDocument'
    BY <1>11 DEF PurgeArtifacts, PurgeOfSettledDocument
  <2>5. BlobLostOnlyToDelete'
    BY <1>11 DEF PurgeArtifacts, BlobLostOnlyToDelete
  <2>6. QED
    BY <2>1, <2>2, <2>3, <2>4, <2>5
<1>12. ASSUME NEW x \in Deletes, CommitDelete(x) PROVE IInv'
  <2>1. VerdictEndsTask'
    BY <1>12 DEF CommitDelete, VerdictEndsTask
  <2>2. RowsFollowCommit'
    BY <1>12 DEF CommitDelete, RowsFollowCommit, DeleteMemory
  <2>3. PassagesOnlyWhenCompleted'
    BY <1>12 DEF CommitDelete, PassagesOnlyWhenCompleted
  <2>4. DeleteMemory'
    BY <1>12 DEF CommitDelete, DeleteMemory
  <2>5. LiveRowMatchesPassages'
    BY <1>12 DEF CommitDelete, LiveRowMatchesPassages
  <2>6. PurgeOfSettledDocument'
    BY <1>12 DEF CommitDelete, PassagesOnlyWhenCompleted, DeleteMemory,
                 PurgeOfSettledDocument
  <2>7. BlobLostOnlyToDelete'
    BY <1>12 DEF CommitDelete, BlobLostOnlyToDelete
  <2>8. QED
    BY <2>1, <2>2, <2>3, <2>4, <2>5, <2>6, <2>7
<1>13. ASSUME NEW x \in Deletes, DeleteFails(x) PROVE IInv'
  <2>1. (RowsFollowCommit /\ PassagesOnlyWhenCompleted /\ LiveRowMatchesPassages
         /\ VerdictEndsTask)'
    BY <1>13 DEF DeleteFails, RowsFollowCommit, PassagesOnlyWhenCompleted,
                 LiveRowMatchesPassages, VerdictEndsTask
  <2>2. DeleteMemory'
    BY <1>13 DEF DeleteFails, DeleteMemory
  <2>3. PurgeOfSettledDocument'
    BY <1>13 DEF DeleteFails, PurgeOfSettledDocument
  <2>4. BlobLostOnlyToDelete'
    BY <1>13 DEF DeleteFails, BlobLostOnlyToDelete
  <2>5. QED
    BY <2>1, <2>2, <2>3, <2>4
<1>14. ASSUME Crash PROVE IInv'
  <2>1. (PassagesOnlyWhenCompleted /\ LiveRowMatchesPassages)'
    BY <1>14 DEF Crash, PassagesOnlyWhenCompleted, LiveRowMatchesPassages
  <2>2. RowsFollowCommit'
    BY <1>14 DEF Crash, RowsFollowCommit
  <2>3. DeleteMemory'
    BY <1>14 DEF Crash, DeleteMemory
  <2>4. PurgeOfSettledDocument'
    BY <1>14 DEF Crash, PurgeOfSettledDocument
  <2>5. BlobLostOnlyToDelete'
    BY <1>14 DEF Crash, BlobLostOnlyToDelete
  <2>6. VerdictEndsTask'
    BY <1>14 DEF Crash, VerdictEndsTask
  <2>7. QED
    BY <2>1, <2>2, <2>3, <2>4, <2>5, <2>6
<1>15. CASE UNCHANGED vars
  BY <1>15 DEF RowsFollowCommit, PassagesOnlyWhenCompleted, DeleteMemory,
               LiveRowMatchesPassages, PurgeOfSettledDocument, BlobLostOnlyToDelete,
               VerdictEndsTask
<1>16. QED
  BY <1>1, <1>2, <1>3, <1>4, <1>5, <1>6, <1>7, <1>8, <1>9, <1>10, <1>11, <1>12, <1>13,
     <1>14, <1>15 DEF Next, UploadStep, Worker, DeleteStep

(* Every reachable state satisfies the inductive invariant. *)
THEOREM Invariance == Spec => []IInv
<1>1. QED
  BY InitIInv, InductiveStep, PTL DEF Spec

----------------------------------------------------------------------------
(* The row and the passages of a document nobody deleted always agree. *)
THEOREM RowAgreesWithPassages == Spec => []LiveRowMatchesPassages
<1>1. IInv => LiveRowMatchesPassages
  BY DEF IInv
<1>2. QED
  BY <1>1, Invariance, PTL

(* A request's items enter the library together or not at all: they are in  *)
(* it exactly when their request was answered.                              *)
THEOREM BatchIsAtomic == Spec => []BatchAllOrNothing
<1>1. IInv => BatchAllOrNothing
  BY DEF IInv, TypeOK, RowsFollowCommit, BatchAllOrNothing
<1>2. QED
  BY <1>1, Invariance, PTL

(* Deleting a settled document purges it for good. *)
THEOREM SettledPurgeIsFinal == Spec => []PurgeOfSettledDocument
<1>1. IInv => PurgeOfSettledDocument
  BY DEF IInv
<1>2. QED
  BY <1>1, Invariance, PTL

(* Uploads, tasks and crashes never cost a document its source bytes. *)
THEOREM BlobsSurvive == Spec => []BlobLostOnlyToDelete
<1>1. IInv => BlobLostOnlyToDelete
  BY DEF IInv
<1>2. QED
  BY <1>1, Invariance, PTL

(* Tasks and verdicts go together. *)
THEOREM TasksEndWithVerdict == Spec => []VerdictEndsTask
<1>1. IInv => VerdictEndsTask
  BY DEF IInv
<1>2. QED
  BY <1>1, Invariance, PTL

----------------------------------------------------------------------------
(* The refinement mapping of Contract, by name. *)
Views == [d \in Docs |-> View(d)]
Given == [d \in Docs |-> IF deleted[d] THEN 0 ELSE chunks[d]]

LEMMA ShownValues ==
    /\ Shown["absent"] = "absent"
    /\ Shown["pending"] = "accepted"
    /\ Shown["processing"] = "working"
    /\ Shown["completed"] = "ready"
    /\ Shown["failed"] = "failed"
  BY DEF Shown

LEMMA InitRefines == Init => Contract!Init
  BY ShownValues DEF Init, Contract!Init, View

(* Seen by a reader who filters on deleted_at, a step of the code is a step *)
(* of the contract, or it leaves that reader's view alone.                  *)
LEMMA StepRefines ==
    IInv /\ [Next]_vars => [Contract!Next]_<<Views, Given>>
<1> SUFFICES ASSUME IInv, [Next]_vars PROVE [Contract!Next]_<<Views, Given>>
  OBVIOUS
<1> USE ShownValues DEF IInv, TypeOK, View, Views, Given
<1>1. ASSUME NEW u \in Uploads, CommitUpload(u) PROVE [Contract!Next]_<<Views, Given>>
  <2>1. PICK S \in SUBSET Docs : S = {d \in Docs : origin[d] = u}
    OBVIOUS
  <2>2. CASE S # {}
    <3>1. \A d \in S : status[d] = "absent" /\ ~deleted[d] /\ chunks[d] = 0
      BY <1>1, <2>1 DEF CommitUpload, RowsFollowCommit, PassagesOnlyWhenCompleted
    <3>2. Views' = [d \in Docs |-> IF d \in S THEN "accepted" ELSE Views[d]]
      BY <1>1, <2>1, <3>1 DEF CommitUpload
    <3>3. Given' = Given
      BY <1>1 DEF CommitUpload
    <3>4. Contract!Accept(S)
      BY <2>2, <3>1, <3>2, <3>3 DEF Contract!Accept
    <3>5. QED
      BY <3>4 DEF Contract!Next
  <2>3. CASE S = {}
    <3>1. status' = status
      BY <1>1, <2>1, <2>3 DEF CommitUpload
    <3>2. QED
      BY <1>1, <3>1 DEF CommitUpload
  <2>4. QED
    BY <2>2, <2>3
<1>2. ASSUME NEW d \in Docs, Start(d) PROVE [Contract!Next]_<<Views, Given>>
  <2>1. status[d] = "pending"
    BY <1>2 DEF Start, VerdictEndsTask, RowsFollowCommit
  <2>2. CASE deleted[d]
    BY <1>2, <2>1, <2>2 DEF Start
  <2>3. CASE ~deleted[d]
    <3>1. Views' = [Views EXCEPT ![d] = "working"]
      BY <1>2, <2>1, <2>3 DEF Start
    <3>2. Given' = Given
      BY <1>2, <2>1, <2>3 DEF Start
    <3>3. Contract!Begin(d)
      BY <2>1, <2>3, <3>1, <3>2 DEF Contract!Begin
    <3>4. QED
      BY <2>1, <3>3 DEF Contract!Next
  <2>4. QED
    BY <2>2, <2>3
<1>3. ASSUME NEW d \in Docs, NEW n \in 1..MaxChunks, FinishIngestion(d, n)
      PROVE  [Contract!Next]_<<Views, Given>>
  <2>1. status[d] = "processing" /\ chunks[d] = 0
    BY <1>3 DEF FinishIngestion, VerdictEndsTask, RowsFollowCommit,
                PassagesOnlyWhenCompleted
  <2>2. CASE deleted[d]
    BY <1>3, <2>1, <2>2 DEF FinishIngestion
  <2>3. CASE ~deleted[d]
    <3>1. Views' = [Views EXCEPT ![d] = "ready"]
      BY <1>3, <2>1, <2>3 DEF FinishIngestion
    <3>2. chunks' = [chunks EXCEPT ![d] = n]
      BY <1>3, <2>1 DEF FinishIngestion
    <3>3. Given' = [Given EXCEPT ![d] = n]
      BY <1>3, <2>3, <3>2 DEF FinishIngestion
    <3>4. Contract!MakeReady(d, n)
      BY <2>1, <2>3, <3>1, <3>3 DEF Contract!MakeReady
    <3>5. QED
      BY <3>4 DEF Contract!Next
  <2>4. QED
    BY <2>2, <2>3
<1>4. ASSUME NEW d \in Docs, MarkFailed(d) PROVE [Contract!Next]_<<Views, Given>>
  <2>1. status[d] = "processing"
    BY <1>4 DEF MarkFailed, VerdictEndsTask, RowsFollowCommit
  <2>2. CASE deleted[d]
    BY <1>4, <2>1, <2>2 DEF MarkFailed
  <2>3. CASE ~deleted[d]
    <3>1. Views' = [Views EXCEPT ![d] = "failed"]
      BY <1>4, <2>1, <2>3 DEF MarkFailed
    <3>2. Given' = Given
      BY <1>4, <2>1, <2>3 DEF MarkFailed
    <3>3. Contract!Fail(d)
      BY <2>1, <2>3, <3>1, <3>2 DEF Contract!Fail
    <3>4. QED
      BY <2>1, <3>3 DEF Contract!Next
  <2>4. QED
    BY <2>2, <2>3
<1>5. ASSUME NEW x \in Deletes, CommitDelete(x) PROVE [Contract!Next]_<<Views, Given>>
  <2>1. PICK d \in Docs : d = del[x].doc /\ status[d] # "absent"
    BY <1>5 DEF CommitDelete, DeleteMemory
  <2>2. CASE deleted[d]
    BY <1>5, <2>1, <2>2 DEF CommitDelete
  <2>3. CASE ~deleted[d]
    <3>1. Views' = [Views EXCEPT ![d] = "removed"]
      BY <1>5, <2>1, <2>3 DEF CommitDelete
    <3>2. Given' = [Given EXCEPT ![d] = 0]
      BY <1>5, <2>1, <2>3 DEF CommitDelete
    <3>3. Contract!Remove(d)
      BY <2>1, <2>3, <3>1, <3>2 DEF Contract!Remove
    <3>4. QED
      BY <3>3 DEF Contract!Next
  <2>4. QED
    BY <2>2, <2>3
<1>6. ASSUME UNCHANGED rowVars PROVE UNCHANGED <<Views, Given>>
  BY <1>6
<1>7. ASSUME NEW u \in Uploads, NEW d \in Docs, IntakeDocument(u, d) PROVE UNCHANGED rowVars
  BY <1>7 DEF IntakeDocument
<1>8. ASSUME NEW u \in Uploads, AbortUpload(u) PROVE UNCHANGED rowVars
  BY <1>8 DEF AbortUpload
<1>9. ASSUME NEW d \in Docs, ReadBlob(d) \/ PipelineFails(d) \/ TaskRaises(d)
      PROVE  UNCHANGED rowVars
  BY <1>9 DEF ReadBlob, PipelineFails, TaskRaises
<1>10. ASSUME NEW x \in Deletes, NEW d \in Docs, LoadForDelete(x, d) PROVE UNCHANGED rowVars
  BY <1>10 DEF LoadForDelete
<1>11. ASSUME NEW x \in Deletes, NEW kept \in BOOLEAN, PurgeArtifacts(x, kept)
       PROVE  UNCHANGED rowVars
  BY <1>11 DEF PurgeArtifacts
<1>12. ASSUME NEW x \in Deletes, DeleteFails(x) PROVE UNCHANGED rowVars
  BY <1>12 DEF DeleteFails
<1>13. ASSUME Crash PROVE UNCHANGED rowVars
  BY <1>13 DEF Crash
<1>14. CASE UNCHANGED vars
  BY <1>14
<1>15. QED
  BY <1>1, <1>2, <1>3, <1>4, <1>5, <1>6, <1>7, <1>8, <1>9, <1>10, <1>11, <1>12, <1>13,
     <1>14 DEF Next, UploadStep, Worker, DeleteStep

(* The upload, ingestion and delete code implements DocumentContract. *)
THEOREM Refinement == Spec => ImplementsContract
<1>1. IInv /\ [Next]_vars =>
        [Contract!Next]_<<[d \in Docs |-> View(d)],
                          [d \in Docs |-> IF deleted[d] THEN 0 ELSE chunks[d]]>>
  BY StepRefines DEF Views, Given
<1>2. QED
  BY <1>1, InitRefines, Invariance, PTL DEF Spec, ImplementsContract, Contract!Spec
=============================================================================
