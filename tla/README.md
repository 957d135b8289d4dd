# A TLA+ model of the Enterprise Document Intelligence backend

The backend under `src/backend/app` keeps a tenant's documents, turns them into
searchable passages, and lets people ask questions that are answered from the
passages they may use.  These modules model the parts of it whose correctness
depends on interleaving: which transaction commits when, what a request read
before an `await` and used after it, what an exception or the end of the
process leaves behind.  TLC checks the models on small instances; TLAPS proves
every safety property and both refinements for all sizes.

Paths below are relative to `src/backend/app` unless they start with `src/`.

## The system

One FastAPI process (or several) over PostgreSQL and an object store.  A request
is a coroutine with one database session: `db/session.py:get_session` commits it
when the handler is through and rolls it back on an exception.  With the pinned
FastAPI the commit happens *after the response was sent* unless the handler
commits itself.  Background tasks run in the process after the response, one
after the other, with sessions of their own.  Transactions are READ COMMITTED:
each statement sees the commits before it, an UPDATE waits for the row's lock.
Rows are ORM objects: an UPDATE carries the columns whose value differs from the
one loaded.

| Component | State | Operations | Talks to | What is hard | What makes it correct |
|---|---|---|---|---|---|
| Intake (`services/ingestion_intake.py`, uploads in `api/v1/documents.py`, `api/v1/connectors.py`) | `documents` rows, blobs | upload, batch, import, connector sync | blob store, worker | one commit for many items; blobs do not roll back | all items of a request or none |
| Ingestion worker (`services/ingestion.py`) | `status`, `chunk_count`, passages | process a document, mark it failed | blob store, embedder | two transactions around a long await; exceptions outside the `try`; death of the process | row and passages agree; one verdict per document |
| Deletion (`delete_document`) | `deleted_at`, passages, blob | delete | blob store | overlaps with the worker and with itself; the blob goes before the commit | what is deleted stays gone |
| Access rules (`services/authz.py`) | owner, visibility, `document_access_control`, `group_memberships` | accessible set, single check | every reading request | the rule is written twice; it is evaluated in several statements | a request uses only what its caller could use |
| ACL and group administration (`api/v1/documents.py`, `api/v1/admin.py`) | grants, groups, roles | grant, revoke, add, remove, delete a group, change a role | access rules | check and write are apart; grants outlive their group | the two renderings of the rule agree at all times |
| Question workflow (`api/v1/query.py`, `agents/`) | `queries` row, audit rows | ask, stream, approve, reject | access rules, language model | decisions over a row loaded long ago; the answer leaves before the commit | trail and row agree; no answer is lost; citations belong to the answer |
| Team (`api/v1/admin.py`, `services/invitation_service.py`, `services/billing_service.py`) | users, invitations, subscription | create, change and deactivate a user; invite, new key, revoke, accept; webhook | every request's gate | three COUNTs and an INSERT apart; webhooks in arrival order; the last manager | the plan's seats, one live invitation per address, a manager remains: up to overlaps |
| Credentials (`services/auth_service.py`, `services/password_reset_service.py`, `services/api_key_service.py`, `services/mcp_tools.py`) | reset tokens, API keys; no sessions are stored | log in, refresh, request and use a reset, issue, use and revoke a key | Team | two uses of one token at once; sessions nothing revokes | a token works once; nothing passes for an erased user |
| Compliance (`services/compliance_service.py`, `api/v1/compliance.py`) | data subject requests, retention policies | create, export, erase, reject; set a policy, which nothing in the code enforces | users, queries | erasure while requests run | erased data does not come back |
| Curation (`services/segment_service.py`, `services/template_service.py`, `api/v1/objections.py`, `api/v1/ramp.py`) | segments, saved objections, ramp topics, tags | create, rename, delete, replace tags, apply a template | documents | applied twice; replaced twice; a flush sends INSERTs first | no duplicates; the last replacement stands |
| Agents (`agents/`, `services/model_router.py`, `services/retrieval.py`) | the state of one question | plan, search, verify, hold, answer, cite; each model call is routed | access rules, models | the tenant's policy changes meanwhile; lists are cut before they are merged | the best sources, cited from the scope, on an allowed route |
| Rate limiter (`core/middleware.py`) | time stamps by client, in one process | admit, refuse | every request | boundaries of windows | never more than the limit in a window |
| Evaluation gate (`services/eval_seed.py`, `services/eval_harness.py`, `services/evaluation.py`, `src/backend/evals/run_evals.py`) | a corpus, `eval_runs`, `eval_results` | seed, ask, score, save, exit | agents | a second call finds what a broken first left; ids that repeat | the verdict is that of the answers |
| Audit trail (`services/audit_service.py`) | `audit_logs` | append in the caller's transaction, or in its own | all | rolled back with a failed request | it accounts for the rows |
| Threads (`api/v1/conversations.py`) | `conversations` | create, rename, list | queries | nothing: no endpoint deletes one | - |
| Extraction, chunking, clients of model, embedder and mail, encryption, analytics, frontend | none of the service's | conversions, calls | - | they fail | - |

The first three rows of the table are composed in `DocumentLifecycle`, the next
two in `DocumentAccess`, and the sixth is `QueryReview`.  Team, Credentials and
the subject requests of Compliance are composed in `Accounts`, curation and the
retention policies are `Curation`, and agents, limiter and gate make up
`Answers`.  `PROJECT.json` lists for every component how far
it is modelled, and every hazard at its line.

## The modules

### `DocumentLifecycle`, `DocumentContract`

The upload request, the worker's task for each document and the delete request,
interleaved at their awaits.

| In the model | In the code |
|---|---|
| `status`, `deleted`, `count` | the columns `status`, `deleted_at`, `chunk_count` of a `documents` row, as committed |
| `chunks` | how many `document_chunks` rows of the document are committed |
| `blob` | the object under its `storage_key` |
| `origin`, `upload` | the request that minted the id, and how far it got |
| `task` | `process_document` on the document: held back until the response, queued, in one of its phases, or over |
| `del` | the row a delete loaded, and how many passages its DELETE statement matched |
| `IntakeDocument` | `intake_document`: put the blob, insert the row, register the task |
| `CommitUpload`, `AbortUpload` | the request's one commit, or its rollback; the blobs stay |
| `Start` | the transaction that sets PROCESSING (outside the `try`) |
| `ReadBlob`, `FinishIngestion` | `_run_pipeline` before and after the await on the embedder, with the second commit |
| `PipelineFails`, `MarkFailed`, `TaskRaises` | the `except` branch, `_mark_failed`, and an exception that leaves `process_document` and takes the remaining tasks of the response with it |
| `LoadForDelete`, `PurgeArtifacts`, `CommitDelete`, `DeleteFails` | `delete_document`: load, DELETE and blob removal, commit of the changed columns, rollback |
| `Crash` | the process dies; nothing re-queues its tasks (`_find_pending` has no caller) |

`chunk_count` is written by the ORM rule: setting it to zero on a row loaded with
zero writes nothing.  `DocumentContract` is what a reader who filters on
`deleted_at` can rely on: documents become visible by whole requests, are worked
on once, are ready with all their passages or failed with none, and stay removed.
`ImplementsContract` states that `DocumentLifecycle` implements it, under the
mapping `View`.

### `DocumentAccess`

The access rule in its two renderings, `AccessibleDocs` (`accessible_document_ids`)
and `CanAccess` (`can_access_document`), the endpoints that change what it
depends on, and a reading request that evaluates it statement by statement:
`Enter` reads the role, `ReadDocuments` runs the first two SELECTs (one action: owner
and visibility of a row never change, so for each document the two differ only
by a delete, which may as well come before or after both), `ReadGroups` and `ReadGrants` one each, then `Search` and `Answer` for
a search or a question, `ListDocuments` for the list, with its filter on
`deleted_at`.  `CheckManage` and `GrantAcl`/`RevokeAcl` are the two halves of the
ACL endpoints.  The administration of roles and groups and the delete take effect
at one commit each; their own check is merged with it, which loses nothing: an
owner's right to delete cannot be taken away, and a change of role does not
depend on what was read.

The library is empty at first.  `StartUpload` is the gate of an upload, a batch,
a URL import or a connector sync; `CommitUpload` is its commit, which enters all
documents of the request at once, whatever became of the uploader's role in
between; `StorePassages` is the worker.  So rows come into being while a request
runs, and that matters to a manager's request: its scope is `None`, no
restriction, which at every statement means the rows there are by then (`Scope`).
`seen` is a history variable: what the caller could use at some moment of the
request, what was uploaded after a caller who entered as a manager had lost
that role (`late`), and whether the caller left a group during the request.

### `QueryReview`

One question's request (`ask` or `ask_stream`) and any number of decisions on
it.  A decision is `LoadPending` (which looks at no status), a model call, the
UPDATE (`ApproveQuery`, `RejectQuery`: from here on it holds the row's lock,
unless it writes nothing) and `CommitDecision` or `DecisionFails`.  `Updated` is
the ORM rule once more: an answer is encrypted anew each time, so its column
always differs, while the citations are a JSON list that is compared by value.  An
answer is known by the run that wrote it and the list it cites (`CitationsOf`); two
runs may cite the same list, from the small set `Lists`, or none.
`told` is what the asking client has been told, which for `ask` comes before
`CommitAsk` and for a stream after `CommitStream`.  `last` is a history variable.

### `AccountState`, `Membership`, `Privacy`, `Accounts`

The rows of one tenant that the account endpoints share, and any number of
requests that overlap on them.  `AccountState` declares the rows and what a
request is: one session at READ COMMITTED.

| In the model | In the code |
|---|---|
| `users`, `invites`, `sub`, `tokens`, `keys`, `dsrs`, `queries` | the committed rows of the tables of those names, without what no property tells apart (password and key hashes, texts) |
| `req[r]` | one request: which endpoint, its arguments, and what it has read so far |
| `Begins` | its first statement; for an admin endpoint the gate that loads the acting user (`Admits`) |
| `Continues` | one more statement or check |
| `Commits` | its writes, which others see all at once |
| `Column(new, loaded, current)` | the ORM rule: a column is written if its value is not the one loaded |
| `past`, `done` | history: which requests had committed when this one first read, and which have by now |
| a request that stays where it is | a refusal or an exception: it rolls back, and leaves nothing |

`Membership` has the user and invitation endpoints, the seat check in its three
statements (`ReadPlan`, `CountActive`, `EnforceQuota`) and the provider's webhook.
`Privacy` has logins and refreshed sessions, reset tokens, API keys and the calls
made with them, questions as rows that an erasure must find, and data subject
requests from their creation to the export, the erasure or the rejection.  Time
enters by `InviteExpires` and `TokenExpires`.  `Accounts` lets the requests of
both families overlap and states the properties.  The code locks no row and sets
no serializable level, so most of these say *which overlap an anomaly takes*:
`Missed(r)` are the requests that committed after `r` first read.

### `Curation`

The same kind of requests on segments, objections, ramp topics, tags and
retention policies.  Here the database's constraints matter, and the order in
which the unit of work flushes: `Flushes` says when the writes of a request keep
every constraint, with the rows it is about to delete still in place, because a
mapper's INSERTs go out before its DELETEs; otherwise `FlushFails`.  A row is
identified by the request that created it and its first name, so that `ApplyTemplate`
can add several rows at once.

### `Lists`, `Ranking`, `AgentWorkflow`, `AnswerContract`, `RateLimiter`, `Evaluation`, `Answers`

`Ranking` has the arithmetic of the hybrid search as operators: union of the
lists, reciprocal ranks, normalization, blend, stable sort, cut and the merge of
subqueries; the code's floats are exact fractions.  `Lists` has the list
comprehension they and the limiter filter with (`Kept`).  `AgentWorkflow` is one
question through the nodes of `agents/workflow.py`, one action each, `Search` once for each
subquery; every model call is routed by `Resolve`, while `UpdateTenantSettings`
may change the policy at any moment.  What models, embeddings and reranker say
is any value; an answer without sources has the confidence zero, which counts as
low because `ConfidenceThreshold` is positive (`WorkflowAssumption`).  `AnswerContract` is what a question is promised: it runs under the
routing policy of the moment it began, is answered, held or given up once, is
not answered without sources while the review gate is on, and cites only what was found in the asker's
scope.  `ImplementsAnswerContract` states that the agents implement it.

`RateLimiter` is the store of one process: `Admit`, `Refuse` and a clock;
`dispatch` does not await between reading and writing, so each is one step.
`Evaluation` is the deploy gate: it seeds its corpus file by file, asks every
question, scores with the fake evaluator, rounded to ten-thousandths (`Whole`), commits
(`Verdict`), and then prints its summary and exits (`Report`).  `Raises` and
`Killed` may come at any point, also between the commit and the exit, which leaves
a stored run and another exit code; a later call finds what was left.  `Answers` puts the three side by side: they share a process and
no state.

Each module also has variants of some operators, marked as such: the code as it
would be with a plausible mistake.  Nothing uses them; they are the mutations
under which the properties have been seen to fail.

## Checked with TLC

| Run | Instance | Result |
|---|---|---|
| `lifecycle` | 2 upload requests, 3 documents, 2 deletes, up to 2 passages, 1 crash | the invariants and `ImplementsContract` hold |
| `lifecycle_liveness` | the same with 1 delete, no symmetry | `UploadSettlesUnlessDropped` holds |
| `lifecycle_resurfaces` | 1 document, 1 delete | `DeletedNeverResurfaces` fails |
| `lifecycle_recorded` | 2 documents of one request, no crash | `FailuresAreRecorded` fails |
| `access` | a manager and a rep, 1 group, 1 restricted document, uploaded at any time, 2 grants, 1 reading and 1 ACL request | the invariants hold |
| `access_torn` | the same with 1 grant | `NeverReadsUnusable` fails |
| `review` | 2 questions, 3 decisions, 2 lists of citations besides the empty one | the invariants and `NothingIsUndone` hold |
| `review_citations` | 1 question, 2 decisions, 2 lists | `CitationsMatchAnswer` fails |
| `accounts` | 3 users, 2 invitations, 2 tokens, 2 keys, 2 subject requests; 2 or 3 overlapping requests of mixed endpoints | the invariants, `SeatsFitUnlessMissed` and `AcceptedAsVerified` hold |
| `curation` | 2 names of segments, 2 labels, 1 title, 1 document, 2 templates that share a segment; 3 overlapping requests | the invariants hold |
| `curation_retag` | 1 request | `RetagReplaces` fails |
| `answers` | 3 passages, 2 subqueries, sources cut to 2; 2 clients, limit 2, windows of 3 ticks, 7 ticks; 2 files, datasets of up to 2 questions, 2 calls of the gate | the invariants and `ImplementsAnswerContract` hold |

### What holds

- A live document's `chunk_count`, status and passages agree in every state
  (`LiveRowMatchesPassages`); the items of a batch enter together or not at all
  (`BatchAllOrNothing`); a delete of a document whose ingestion had ended leaves
  no passage, whatever overlaps it (`PurgeOfSettledDocument`); only deletes take
  blobs away (`BlobLostOnlyToDelete`); tasks and verdicts move together
  (`VerdictEndsTask`); a document gets its verdict unless its task was dropped
  or lost (`UploadSettlesUnlessDropped`).
- The list rule and the single-document rule let the same live documents through
  at all times (`SetAgreesWithCheck`).  A request returns only documents its
  caller could use at some moment of it, with three exceptions: the caller left a
  group meanwhile; the document was uploaded after the caller, let in as a
  manager, had lost the role; a delete left its passages (`ReadsWereAllowed`).
  A list has the first two exceptions only, and so never shows a document deleted
  before it began (`ListsShowNoResidue`).
- The audit rows of a query account for its row in every order of decisions
  (`TrailExplainsRow`), no answer is lost and no settled query waits again
  (`NothingIsUndone`), the last decision stands or had found its verdict in
  place (`LastDecisionStands`), a stream announces only what is stored
  (`StreamedIsStored`), and answer and citations part only when two approvals
  overlap and the later cites exactly what it had found in the row, nothing or
  the very same list (`CitationsPartOnlyByOverlap`).
- Who passed the seat check fits the plan, unless it missed a request that takes
  a seat or changes the plan (`SeatsFitUnlessMissed`).  The last manager goes only by
  their own request or by one that overlapped with the removal of its maker
  (`ManagerLeft`).  Two live invitations of one address come from overlapping
  requests (`OneLiveInvite`); one for somebody who is a member already has one of three
  stated causes, of which only the direct creation of a user takes no overlap
  (`MembersAreNotInvited`); what is accepted is what was verified
  (`AcceptedAsVerified`).  Plan and status are those of the last event
  (`SubscriptionIsLastEvent`).
- Two uses of one reset token have both read it before either marked it
  (`TokenUsedOnce`).  An erasure is never undone by a request that loaded the
  user before (`ErasureSticks`), it leaves no question but one that overlapped it
  (`ErasedDataIsGone`), and no session, key or token of the user passes
  afterwards (`ErasedCannotAct`).  A fulfilled request is not fulfilled again,
  unless a late rejection reopened it (`FulfilledOnce`).
- Tags are those of the last request that set them (`TagsAreLastRetag`), a template
  applied again adds nothing that is there (`TemplateAddsOnlyMissing`), a checked
  request fails at the flush only by a race or by keeping a tag
  (`FailsOnlyByRace`), and a retention policy is that of the last PUT
  (`RetentionIsLastUpsert`); overlaps aside, each time.
- The sources of an answer are the best of all candidates, although every
  subquery's list is cut first (`ChunksAreBest`); the agents keep the contract of
  an answer (`ImplementsAnswerContract`); no client gets more than the limit
  through in any span of a window, not only in those that start with one
  (`NeverMoreThanLimit`); a deploy passes or is held back for its scores alone
  (`GateIsHonest`).

### What does not

1. *Deleted content can resurface.*  A worker waiting for the embedder does not
   notice a delete and commits passages of the deleted document; nothing removes
   them.  The search does not look at `deleted_at`: a manager, whose search is
   unrestricted, and a rep with a grant on the document can be answered from
   them.  The comment at `api/v1/documents.py:401` says this cannot happen.
2. *A failure may go unrecorded.*  The first transaction of `process_document`
   is outside its `try`; an exception there leaves the document, and those after
   it in the same response, pending for ever.  The docstring says it never raises.
3. *A torn read of the rule.*  Groups and grants are read by two statements; who
   leaves a group between them is matched with a grant made to it afterwards.
4. *Citations of another run.*  Two overlapping approvals: if the second cites
   just the list it loaded - an empty one, or the same passages again -, that is
   no change and is not written, and the first run's citations stay beside the
   second run's answer.
5. *A kept tag fails the request.*  Replacing the tags of a document or an
   objection deletes all rows and adds all new ones before one flush, which
   sends the INSERTs first: a segment in both sets breaks the unique constraint.
   The tests replace by disjoint or empty sets only.

More is allowed by the properties, as exceptions stated in them.  A request that
was let in as a manager's keeps its unrestricted scope after a demotion, and is
answered from restricted documents uploaded only then, which the caller could use
at no moment (`ReadsWereAllowed`, `NeverReadsUnusable`, `ListsShowNoResidue`).  A rejection that
was read before a fulfilment is recorded over it and reopens the request
(`FulfilledOnce`).  A stored run may be shown as failed although each of its
rows is above every threshold, if two of its questions share an id, and as passed
although the deploy was held back, if the process died or a print failed
after the commit (`GateIsHonest`; never the reverse: exit code 0 means a passed
run, stored unless `--no-save`).

### Bounds

Two of each actor are where these races begin: every property above relates at
most two requests to one row.  Three documents over two requests are needed for
a request with siblings next to another request; two passages tell "all" from
"some"; one crash reaches every state a crash can leave, because tasks are lost
and nothing restores them, and a second finds only tasks of later requests.
For access, the tables are sets and the rule treats each document on its own, so
one restricted document with two grants, to a user or a group and with one of
two permission lists, covers the cases; it is absent at first, so that requests
run before, across and after its upload.  Two users are needed to have someone
else change what one reads.  A third decision is needed for a rejection to fall
between two approvals; the second question shows that decisions on one do not
disturb the other; two lists are enough for two runs to cite the same or not.

For `Accounts` and `Curation` a third request is needed where an anomaly takes
one request that overlaps two others, or a rejection between two fulfilments.
The run `accounts` starts every pair of endpoints of `Membership` and every pair of
`Privacy`, and every three of those that work on one invitation, that let people
join, or that erase; `curation` starts every three of the endpoints on segments and
tags, on objections, on ramp topics and on policies, each with templates where they meet.
What larger mixes could add to the two is covered by the proofs.  The limit of three
seats meets a tenant with one or two active users.  `Answers` starts one of its three
components at a time, the others at rest, because they share no state.  Seven
ticks hold two windows and the spans that straddle them; three passages are one
more than the sources may be, with two subqueries that find different ones.

The proofs remove these bounds for the safety properties of `DocumentLifecycle`,
`DocumentAccess`, `QueryReview`, `Accounts`, `Curation` and `Answers`.
Every run that ends is allowed to: ids, requests and decisions run out, which
is why deadlock is not reported.

### Fairness

`FairSpec` asks weak fairness of `Worker(d)` only: the event loop resumes a
ready background task, and the clients the task awaits return or time out into
an exception.  Nothing is assumed of clients, of deletes, or of crashes, which
may stop at any point; a dropped or lost task has no step left, so fairness
gives it none.  The safety properties are checked without fairness.

## Proved with TLAPS

Each component has its proofs in `<Module>_proofs`, for arbitrary sets of
documents, users, groups, requests, questions and decisions (of `Accounts`, for finite
sets of users and invitations), and under no assumption but those the module
names: `ConstantsAssumption`, `RowsAssumption` or `CurationAssumption` (that the reserved values are
none of the ids, and that bounds are natural numbers), and for `Answers` those listed below.

- `DocumentLifecycle_proofs`: type correctness, the five safety invariants of
  the run `lifecycle`, and `Refinement`: `Spec => ImplementsContract`.  The
  invariant `IInv` adds to the properties what makes them inductive: a row is
  visible exactly when its request committed and its task is held exactly until
  then (`RowsFollowCommit`), only completed documents have passages or a count
  (`PassagesOnlyWhenCompleted`), and what a delete remembers is still true of a
  document that had settled (`DeleteMemory`).  The refinement maps each step to
  a step of the contract or a stutter; a failed delete and a purge are stutters,
  a commit is `Accept` of the whole request.
- `DocumentAccess_proofs`: type correctness, `ListMatchesCheck`,
  `ReadsAreAllowed` and `ListsAreLive`.  The agreement of the two renderings
  needs no induction (`OneRule`).  The other two follow a request through its
  statements: what the caller can use now has been recorded; a manager's request
  has recorded every document there is as usable, uploaded too late, or deleted
  (`PrivilegedSawAll`, which every commit of an upload must keep); groups read are
  still the caller's or one was left; and the set computed so far holds only
  recorded or deleted documents, all of which exist, as do those that grants name
  (`ReferencesExist`).
- `Accounts_steps`, `Accounts_proofs`: type correctness and all
  twelve properties of the run `accounts`.  The first module has a lemma for each
  endpoint, what its steps do to the rows and to the request (`Effect`), so that
  no later proof expands an action it is not about.  The second rests on `Base`:
  types, what a request at each point must have read (`Fits`), and that what a
  request saw had committed (`Timeline`).  On top of it every property has its
  own strengthening, which says what a request still under way knows about a row
  that has or has not changed since: `ResetInv`, `WebhookInv`, `FulfillInv`,
  `EraseInv` (no loaded copy of a user can undo the erasure, because of the ORM
  rule), `DataInv`, `AcceptInv`, `PairInv`, `MemberInv`.  Last come the two that count: `SeatInv`
  compares the users and invitations a request counted with those of the moment,
  as finite sets, and `ManagerInv` follows who may still take the last manager
  away.  Besides `RowsAssumption` they rest on `PlansAssumption`: the default
  plan exists and limits are natural numbers or none.
- `Curation_proofs`: type correctness with the database's
  constraints, and the other four properties of the run `curation`, from
  `CurationAssumption` alone.  The first lemmas say what a step does to a request
  (`StepOf`) and to each kind of row.  `Base` is the counterpart of that of
  `Accounts`; `Origins` adds that nothing in sight was created by a request still
  under way, so that what a cascade took does not come back.  Then, for a request
  still under way: what it found of a policy is still so unless another PUT
  committed (`PutInv`); it read every tag it has to replace (`RowsRead`); all it
  checked is still so as long as nobody commits (`Fresh`), from which the flush
  succeeds (`KnownFlushes`); and a name it did not see was given later (`Looked`).
- `QueryReview_proofs`: type correctness and all six properties of the run
  `review`.  The heart of `IInv` is `LoadedEarlier`: what a decision loaded is a
  past of the row, so that what has changed since cannot be what it writes back;
  `CitationsSince` says the same of the citations, whose values may repeat: they
  are still those it loaded, or of an approval committed since.
  `DecidersCommitted` and `AnswerIsOwn` identify the writers, and
  `AbsentUntilStored` that nothing happens to a query before its commit.  The
  effect of each committing action is a lemma (`StoreEffect`, `CommitEffect`,
  `ApproveEffect`) that the preservation lemmas cite.

- `AgentWorkflow_proofs`: what the operators of `Ranking` do to lists of any
  length, and that one question keeps what it is promised.  The difficulty is
  that filtering, sorting and summing are recursive over data.  An induction
  principle with a predicate as its parameter is out of the provers' reach, but
  one about sets of numbers is not: `LeastNumber` follows from the
  well-foundedness of `<`, `Induction` from it, and the recursive function of
  `Kept` is shown to exist (`KeptSolved`) before anything is said about its
  value.  `KeptPlaces` then says that a filter drops elements and nothing else;
  `SortPlaces` that the sort is a permutation, because `Before` is a strict total
  order of the places of a list and an injection of a finite set into itself is
  onto; `TopLeads` that what a cut leaves leads the rest.  `ChunksAreBest` rests on
  `BestSoFar`: what is merged so far lacks the best score of a chunk only if
  `FinalTopK` other chunks are at least as good.  It is kept because the cut of a
  subquery drops only what as many others beat (`SearchKeepsBest`), and at the end
  it is all that the last cut needs (`TopIsBest`).  `WorkflowIInv` adds where the
  question is: nothing is found before the policy was read (`ReadBeforeFound`),
  what is found is in scope, the outcome is written once, and with the gate on
  only an answer with sources passes the hold.  `StepRefines` maps each step to
  a step of `AnswerContract` or a stutter (a search before the last is one).
- `Answers_proofs`: the types of the run `answers`, its three invariants and
  `AgentsKeepContract`: `Spec => ImplementsAnswerContract`.  For the limiter,
  `LimiterInv`: a client's remembered times are the end of all admitted ones, no
  more than `Limit`, and what was forgotten had left the window.  For the gate,
  `EvaluationIInv`: answers follow the dataset and their contexts come from an
  ingested file, a scored run tells what the scores of all answers say
  (`RunIsScored`), a run is committed before its verdict becomes the exit code and
  stays when the process breaks off in between (`StagesInOrder`), and the exit
  code follows the run (`ExitFollowsRun`).  Sums need the
  same induction, over the parts of a finite set (`TotalSolved`); `MeanByItem` is
  the step from a mean to an item.  The assumptions are `RankingAssumption`
  (finitely many passages, the weight a fraction, `RrfK` positive),
  `WorkflowAssumption`, `LimiterAssumption` and `EvaluationAssumption`
  (numbers are numbers, `None` is no score, thresholds are scores, that of the
  verifier is positive, a corpus has a file).  No lemma depends on the value of the weight, on how ranks are turned
  into scores, or on what the reranker says.

Only model-checked: `UploadSettlesUnlessDropped`, because liveness under fairness
is beyond the installed provers.  What the proofs do not touch either are the five
runs that find a violation.

## Not modelled

Conversions (extraction, chunking, encryption, embeddings), the language model,
embedder, mail, payment and Notion clients other than by success or failure,
analytics and usage reports, reading the audit trail, conversations, and the frontend, which is one
of the clients.  Within the modelled components: what is refused before anything
is stored (types, sizes, malware), the limits on documents and queries, which
follow the pattern of the seat limit, segment scoping, the bookmark of an
answer, the thread a question belongs to; registration, which creates a tenant
nobody else can see yet, and with it the inserting branch of the webhook
(`services/billing_service.py:278`), since registration leaves every tenant a
subscription to update; compliance events and time stamps of last use, which
nothing reads; the classification of a document in routing, which no caller passes; the
RAGAS judge, dataset files and the command line of the gate.  The worker is one process; a
second process shares only the database, which the models already treat as
shared, but has a limiter of its own.

## Plan

In this order.

1. Composition of `DocumentLifecycle` and `DocumentAccess` by a common deletion,
   so that leftover passages meet the search, and its proof.
2. The limits on documents and queries beside that on seats; connector syncs
   repeated with the identity of the synced page, once the code keeps one.
