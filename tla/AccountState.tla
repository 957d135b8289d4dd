---------------------------- MODULE AccountState ----------------------------
(***************************************************************************)
(* The rows of one tenant that the account endpoints share - users,        *)
(* invitations, subscription, password reset tokens, API keys, data        *)
(* subject requests and stored queries - and the requests that work on     *)
(* them.                                                                   *)
(*                                                                         *)
(* A request is one database session at READ COMMITTED: each statement     *)
(* reads what is committed when it runs, and the writes, flushed last, are *)
(* seen by others at the commit, one step here.  An UPDATE carries only    *)
(* the columns whose value was changed after the row was loaded.  A        *)
(* request that is refused or fails rolls back: it just never commits.     *)
(***************************************************************************)
EXTENDS Naturals, FiniteSets

CONSTANTS
    Users, Invites, Tokens, Keys, Dsrs,     \* row ids
    Requests,       \* request ids, each used once
    Kinds,          \* the endpoints called
    Emails,
    Roles, ManagerRoles,    \* UserRole; OWNER and ADMIN
    Patches,        \* the bodies of PATCH /users: a role and an activity, or None
    Redacted,       \* stands for erased-{id}@redacted.invalid, unique to the row
    None,           \* no value
    Plans,          \* the keys of PLANS
    PlanKeys,       \* the plan keys events may name
    SeatLimit,      \* limits.seats of each plan; None is unlimited
    DefaultPlan,    \* settings.DEFAULT_PLAN_KEY
    Statuses        \* SubscriptionStatus

AllKinds == {"create_user", "update_user", "deactivate_user",
             "create_invitation", "regenerate_link", "revoke_invitation", "accept_invite",
             "webhook", "login", "refresh", "forgot_password", "reset_password",
             "create_api_key", "revoke_api_key", "create_dsr", "fulfill_dsr", "ask", "mcp_tool"}

ASSUME RowsAssumption ==
    /\ IsFiniteSet(Users) /\ IsFiniteSet(Invites)
    /\ Users \cap Invites = {}
    /\ Redacted \notin Emails
    /\ None \notin Users \cup Invites \cup Tokens \cup Keys \cup Dsrs \cup Requests
                  \cup Emails \cup {Redacted} \cup Roles \cup BOOLEAN
    /\ ManagerRoles \subseteq Roles
    /\ Patches \subseteq (Roles \cup {None}) \X (BOOLEAN \cup {None})
    /\ Kinds \subseteq AllKinds

ASSUME PlansAssumption ==
    /\ Plans \subseteq PlanKeys /\ DefaultPlan \in Plans
    /\ SeatLimit \in [Plans -> Nat \cup {None}]

VARIABLES
    users,      \* users rows
    invites,    \* invitations rows
    sub,        \* the subscriptions row
    tokens,     \* password_reset_tokens rows
    keys,       \* api_keys rows
    dsrs,       \* data_subject_requests rows
    queries,    \* the asking requests whose queries row is stored
    req,        \* local state of the requests
    past,       \* history: the requests that had committed when this one first read
    done        \* history: the committed requests

tables == <<users, invites, sub, tokens, keys, dsrs, queries>>

vars == <<users, invites, sub, tokens, keys, dsrs, queries, req, past, done>>

----------------------------------------------------------------------------
(* Rows.  email = None, user = None, "absent": there is no such row.        *)

(* The password hash, which no property tells apart, is left out.           *)
UserRow == [email : Emails \cup {None, Redacted}, role : Roles \cup {None},
            active : BOOLEAN, deleted : BOOLEAN]
NoUser == [email |-> None, role |-> None, active |-> FALSE, deleted |-> FALSE]

(* key: the request that minted the invite key last; None for the first.    *)
InviteRow == [email : Emails \cup {None}, role : Roles \cup {None},
              key : Requests \cup {None},
              status : {"pending", "accepted", "revoked"}, expired : BOOLEAN]
NoInvite == [email |-> None, role |-> None, key |-> None,
             status |-> "revoked", expired |-> FALSE]

SubRow == [plan : PlanKeys, status : Statuses]

TokenRow == [user : Users \cup {None}, used : BOOLEAN, expired : BOOLEAN]

KeyRow == [user : Users \cup {None}, revoked : BOOLEAN, expired : BOOLEAN]

(* ACCESS and EXPORT are fulfilled alike, by a bundle that is only read.    *)
DsrRow == [status : {"absent", "received", "fulfilled", "rejected"}, erasure : BOOLEAN,
           subject : Users \cup {None}, email : Emails \cup {None}]

Ids == Users \cup Invites \cup Tokens \cup Keys \cup Dsrs

Loaded == InviteRow \cup SubRow \cup TokenRow \cup KeyRow \cup DsrRow \cup {None}

(* Arguments: target is the row asked for, then email, role, active, event  *)
(* and erasure.  Read: user is the users row loaded last, saw the row of    *)
(* the target, plan and counted what the seat check read, subject and found *)
(* the person and the queries a data subject request is about.             *)
Request == [kind : Kinds,
            pc : {"idle", "admitted", "loaded", "planned", "counted", "cleared",
                  "resolved", "ready", "done"},
            actor : Users \cup {None}, target : Ids \cup {None},
            email : Emails \cup {None}, role : Roles \cup {None},
            active : BOOLEAN \cup {None}, event : SubRow \cup {None}, erasure : BOOLEAN,
            user : UserRow, saw : Loaded,
            plan : Plans \cup {None}, counted : SUBSET (Users \cup Invites),
            subject : Users \cup {None}, found : SUBSET Requests]

Idle(k) == [kind |-> k, pc |-> "idle", actor |-> None, target |-> None, email |-> None,
            role |-> None, active |-> None, event |-> None, erasure |-> FALSE,
            user |-> NoUser, saw |-> None, plan |-> None, counted |-> {},
            subject |-> None, found |-> {}]

TypeOK ==
    /\ users \in [Users -> UserRow]
    /\ invites \in [Invites -> InviteRow]
    /\ sub \in SubRow
    /\ tokens \in [Tokens -> TokenRow]
    /\ keys \in [Keys -> KeyRow]
    /\ dsrs \in [Dsrs -> DsrRow]
    /\ queries \subseteq Requests
    /\ req \in [Requests -> Request]
    /\ past \in [Requests -> SUBSET Requests]
    /\ done \subseteq Requests

----------------------------------------------------------------------------
Exists(u) == users[u].email # None
Live(u) == Exists(u) /\ ~users[u].deleted

(* get_current_user: the account a session or a key acts for is read again  *)
(* by every request.                                                       *)
ValidUser(u) == Live(u) /\ users[u].active

(* require_role(OWNER, ADMIN) *)
Manager(u) == ValidUser(u) /\ users[u].role \in ManagerRoles

Managers == {u \in Users : Manager(u)}

(* count_active_users *)
ActiveUsers == {u \in Users : Live(u) /\ users[u].active}

(* Invitations reserve their seat while pending, expired or not.            *)
PendingInvites == {i \in Invites : invites[i].email # None /\ invites[i].status = "pending"}

(* Variant: whatever key the row has. *)
PlanNamed(key) == key

(* plan_for: an unknown plan key means the default plan; the status of the  *)
(* subscription plays no part.                                             *)
PlanFor(key) == IF key \in Plans THEN key ELSE DefaultPlan

Seats == Cardinality(ActiveUsers \cup PendingInvites)

(* uq_users_tenant_id_email: soft-deleted rows keep their address.          *)
Taken(e) == \E u \in Users : users[u].email = e

HasLiveUser(e) == \E u \in Users : Live(u) /\ users[u].email = e

(* A column is part of the UPDATE if its value differs from the loaded one. *)
Column(new, loaded, current) == IF new # loaded THEN new ELSE current

----------------------------------------------------------------------------
(* The life of a request *)

Is(r, kind, pc) == req[r].kind = kind /\ req[r].pc = pc

(* Its first statement; what had committed by then is remembered.           *)
Begins(r, kind, fields) ==
    /\ Is(r, kind, "idle")
    /\ req' = [req EXCEPT ![r] = fields]
    /\ past' = [past EXCEPT ![r] = done]
    /\ done' = done

(* ... which for an admin endpoint is the gate. *)
Admits(r, kind, a, fields) ==
    /\ Manager(a)
    /\ Begins(r, kind, [fields EXCEPT !.pc = "admitted", !.actor = a, !.user = users[a]])

Continues(r, fields) ==
    /\ req' = [req EXCEPT ![r] = fields]
    /\ UNCHANGED <<past, done>>

Commits(r, fields) ==
    /\ req' = [req EXCEPT ![r] = [fields EXCEPT !.pc = "done"]]
    /\ done' = done \cup {r}
    /\ past' = past
=============================================================================
