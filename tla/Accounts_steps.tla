--------------------------- MODULE Accounts_steps ---------------------------
(***************************************************************************)
(* What one step of a request of Accounts does, endpoint by endpoint: the  *)
(* lemmas that the proofs of Accounts_proofs rest on.                      *)
(***************************************************************************)
EXTENDS Accounts, TLAPS

(* The columns that a request keeps once it has begun.                      *)
Keeps(f, q) ==
    /\ f.kind = q.kind /\ f.actor = q.actor /\ f.email = q.email
    /\ f.event = q.event /\ f.erasure = q.erasure

(* ... and those that the last step of it leaves alone as well.             *)
KeepsAll(f, q) == Keeps(f, q) /\ f.saw = q.saw /\ f.found = q.found

(* A request between its first statement and its commit.                    *)
Working(q) == q.pc \notin {"idle", "done"}

(* The arguments of a request, and what it has loaded, fit what it is.      *)
Argued(q) ==
    /\ q.kind \in {"create_user", "create_invitation"} => q.email \in Emails
    /\ q.kind \in {"update_user", "deactivate_user"} => q.target \in Users
    /\ q.kind \in {"regenerate_link", "revoke_invitation"} => q.target \in Invites
    /\ q.kind = "accept_invite" => q.target \in Invites /\ q.saw \in InviteRow
    /\ q.kind = "webhook" => q.event \in SubRow /\ q.saw \in SubRow
    /\ q.kind = "reset_password" => q.target \in Tokens
    /\ q.kind = "fulfill_dsr" => q.target \in Dsrs

Fits(q) ==
    /\ q.pc # "idle" => Argued(q)
    /\ q.pc \in {"planned", "counted"} => q.kind \in {"create_user", "create_invitation"}
    /\ q.kind = "fulfill_dsr" /\ q.pc \notin {"idle", "admitted"} => q.saw \in DsrRow

(* Only request r moves, as what it is.                                     *)
Moved(r) ==
    /\ Fits(req'[r])
    /\ req' \in [Requests -> Request] /\ past' \in [Requests -> SUBSET Requests]
    /\ \A s \in Requests : s # r => req'[s] = req[s] /\ past'[s] = past[s]
    /\ req'[r].kind = req[r].kind

(* The first statement: it reads, and remembers what had committed.         *)
Begun(r) ==
    /\ req[r].pc = "idle" /\ Working(req'[r])
    /\ req'[r].actor = req[r].actor \/ (req'[r].actor \in Users /\ ValidUser(req'[r].actor))
    /\ past'[r] = done /\ done' = done
    /\ UNCHANGED tables

(* A later statement: it reads on, and keeps what it was asked for.         *)
Continued(r) ==
    /\ Working(req[r]) /\ Working(req'[r])
    /\ Keeps(req'[r], req[r])
    /\ past'[r] = past[r] /\ done' = done
    /\ UNCHANGED tables

(* The commit: only then do rows change.                                    *)
Committed(r) ==
    /\ Working(req[r]) /\ req'[r].pc = "done"
    /\ KeepsAll(req'[r], req[r])
    /\ past'[r] = past[r] /\ done' = done \cup {r}

(* A first statement with fields that fit is a Moved and Begun step.        *)
LEMMA BeginsMoves ==
    ASSUME TypeOK, NEW r \in Requests, NEW kind, NEW f \in Request, Begins(r, kind, f),
           f.kind = req[r].kind, Working(f), Fits(f),
           f.actor = req[r].actor \/ (f.actor \in Users /\ ValidUser(f.actor)),
           UNCHANGED tables
    PROVE  Moved(r) /\ Begun(r) /\ req'[r] = f /\ req[r].kind = kind
  BY DEF Begins, TypeOK, Is, Moved, Begun

(* So is a later statement Moved and Continued ...                          *)
LEMMA ContinuesMoves ==
    ASSUME TypeOK, NEW r \in Requests, NEW f \in Request, Continues(r, f),
           Keeps(f, req[r]), Working(f), Fits(f), Working(req[r]), UNCHANGED tables
    PROVE  Moved(r) /\ Continued(r) /\ req'[r] = f
  BY DEF Continues, TypeOK, Moved, Continued, Keeps

(* ... and a commit Moved and Committed.                                    *)
LEMMA CommitsMoves ==
    ASSUME TypeOK, NEW r \in Requests, NEW f \in Request, Commits(r, f),
           KeepsAll(f, req[r]), Fits(f), f.pc \notin {"idle", "admitted"}, Working(req[r])
    PROVE  /\ Moved(r) /\ Committed(r) /\ req'[r] = [f EXCEPT !.pc = "done"]
           /\ req'[r].target = f.target /\ req'[r].subject = f.subject
<1> DEFINE g == [f EXCEPT !.pc = "done"]
<1>1. g \in Request /\ KeepsAll(g, req[r]) /\ g.pc = "done"
      /\ g.target = f.target /\ g.subject = f.subject
  BY DEF Request, KeepsAll, Keeps
<1>5. Fits(g)
  <2>1. g.kind = f.kind /\ g.email = f.email /\ g.saw = f.saw /\ g.event = f.event
    BY DEF Request
  <2> QED
    BY <1>1, <2>1 DEF Fits, Argued
<1>2. req' = [req EXCEPT ![r] = g] /\ done' = done \cup {r} /\ past' = past
  BY DEF Commits
<1>3. req'[r] = g
  BY <1>2 DEF TypeOK
<1> QED
  BY <1>1, <1>2, <1>3, <1>5 DEF TypeOK, Moved, Committed, KeepsAll, Keeps

(* The gate of an admin endpoint admits a valid manager.                    *)
LEMMA AdmitsMoves ==
    ASSUME TypeOK, NEW r \in Requests, NEW kind, NEW a \in Managers, NEW f \in Request,
           f.kind = req[r].kind, Argued(f),
           Admits(r, kind, a, f), UNCHANGED tables
    PROVE  /\ Moved(r) /\ Begun(r) /\ req[r].kind = kind
           /\ req'[r].pc = "admitted" /\ req'[r].target = f.target /\ req'[r].email = f.email
<1> DEFINE g == [f EXCEPT !.pc = "admitted", !.actor = a, !.user = users[a]]
<1>1. a \in Users /\ users[a] \in UserRow /\ ValidUser(a)
  BY DEF TypeOK, Managers, Manager
<1>2. g \in Request /\ g.kind = f.kind /\ g.pc = "admitted" /\ g.actor = a
      /\ g.target = f.target /\ g.email = f.email /\ g.saw = f.saw /\ g.event = f.event
  BY <1>1 DEF Request
<1>6. Fits(g)
  BY <1>2 DEF Fits, Argued
<1>3. Begins(r, kind, g)
  BY DEF Admits
<1>4. Working(g)
  BY <1>2 DEF Working
<1> HIDE DEF g
<1>5. Moved(r) /\ Begun(r) /\ req'[r] = g /\ req[r].kind = kind
  BY <1>1, <1>2, <1>3, <1>4, <1>6, BeginsMoves
<1> QED
  BY <1>2, <1>5

----------------------------------------------------------------------------
(* The effects: the rows that the last step changes, and what the other     *)
(* steps leave in the columns that the invariants are about.                *)

(* Sessions, API keys and tool calls.                                       *)
QuietEffect(r) ==
    /\ req[r].kind \in {"login", "refresh", "mcp_tool", "create_api_key", "revoke_api_key"}
    /\ Begun(r) \/ Continued(r) \/ Committed(r)
    /\ UNCHANGED <<users, invites, sub, tokens, dsrs, queries>>
    /\ keys' \in [Keys -> KeyRow]

AskEffect(r) ==
    /\ req[r].kind = "ask"
    /\ UNCHANGED <<users, invites, sub, tokens, keys, dsrs>>
    /\ \/ Begun(r) /\ queries' = queries
       \/ Committed(r) /\ queries' = queries \cup {r}

WebhookEffect(r) ==
    /\ req[r].kind = "webhook"
    /\ UNCHANGED <<users, invites, tokens, keys, dsrs, queries>>
    /\ \/ /\ Begun(r) /\ sub' = sub
          /\ req'[r].saw = sub
       \/ /\ Committed(r)
          /\ LET e == req[r].event IN
             sub' = [plan |-> Column(e.plan, req[r].saw.plan, sub.plan),
                     status |-> Column(e.status, req[r].saw.status, sub.status)]

ForgotEffect(r) ==
    /\ req[r].kind = "forgot_password"
    /\ UNCHANGED <<users, invites, sub, keys, dsrs, queries>>
    /\ \/ /\ Begun(r) /\ tokens' = tokens
          /\ req'[r].subject \in Users /\ ValidUser(req'[r].subject)
       \/ /\ Committed(r) /\ req'[r].subject = req[r].subject
          /\ tokens' \in [Tokens -> TokenRow]
          /\ \A t \in Tokens : tokens[t].user # None => tokens'[t] = tokens[t]

ResetEffect(r) ==
    /\ req[r].kind = "reset_password"
    /\ UNCHANGED <<users, invites, sub, keys, dsrs, queries>>
    /\ \/ /\ Begun(r) /\ tokens' = tokens
          /\ req'[r].pc = "loaded" /\ req'[r].target \in Tokens
          /\ tokens[req'[r].target].user # None /\ ~tokens[req'[r].target].used
       \/ /\ Continued(r) /\ tokens' = tokens
          /\ req[r].pc = "loaded" /\ req'[r].pc = "ready"
          /\ req'[r].target = req[r].target /\ req'[r].subject = req[r].subject
          /\ Live(req[r].subject)
       \/ /\ Committed(r)
          /\ req[r].pc = "ready"
          /\ req'[r].target = req[r].target /\ req'[r].subject = req[r].subject
          /\ tokens' = [tokens EXCEPT ![req[r].target] =
                           [tokens[req[r].target] EXCEPT !.used = TRUE]]

NewDsrEffect(r) ==
    /\ req[r].kind = "create_dsr"
    /\ UNCHANGED <<users, invites, sub, tokens, keys, queries>>
    /\ \/ Begun(r) /\ dsrs' = dsrs
       \/ Continued(r) /\ dsrs' = dsrs
       \/ /\ Committed(r)
          /\ dsrs' \in [Dsrs -> DsrRow]
          /\ \A d \in Dsrs : dsrs[d].status # "absent" => dsrs'[d] = dsrs[d]

(* users' against users: nobody else appears, and nobody comes back.        *)
Shrinks == \A u \in Users : /\ users'[u].email = users[u].email
                            /\ users[u].deleted => users'[u].deleted

(* A row that was free is taken by address e.                               *)
Joins(e) == \E u \in Users : /\ users[u] = NoUser /\ users'[u].email = e
                             /\ \A v \in Users : v # u => users'[v] = users[v]

UsersEffect(r) ==
    /\ req[r].kind \in {"create_user", "update_user", "deactivate_user"}
    /\ UNCHANGED <<invites, sub, tokens, keys, dsrs, queries>>
    /\ users' \in [Users -> UserRow]
    /\ \/ Begun(r) /\ users' = users
       \/ Continued(r) /\ users' = users
       \/ Committed(r) /\ (Shrinks \/ (req[r].kind = "create_user" /\ Joins(req[r].email)))

(* A free invitation row is filled; no other changes.                       *)
InviteAppears(i, e) ==
    /\ invites[i] = NoInvite /\ invites'[i].email = e
    /\ \A j \in Invites : j # i => invites'[j] = invites[j]

NewInviteCommits(r, i) ==
    /\ Committed(r) /\ req[r].pc = "ready"
    /\ req'[r].target = i /\ InviteAppears(i, req[r].email)

NewInviteEffect(r) ==
    /\ req[r].kind = "create_invitation"
    /\ UNCHANGED <<users, sub, tokens, keys, dsrs, queries>>
    /\ invites' \in [Invites -> InviteRow]
    /\ \/ Begun(r) /\ invites' = invites /\ req'[r].pc = "admitted"
       \/ /\ Continued(r) /\ invites' = invites
          /\ \/ req'[r].pc \notin {"loaded", "ready"}
             \/ req'[r].pc = "loaded" /\ ~HasLiveUser(req[r].email)
             \/ /\ req[r].pc = "loaded" /\ req'[r].pc = "ready"
                /\ \A i \in PendingInvites : invites[i].email # req[r].email
       \/ \E i \in Invites : NewInviteCommits(r, i)

(* A new key or a revocation makes no invitation pending.                   *)
OnlyLinkOf(k) ==
    \A i \in Invites :
        /\ i # k => invites'[i] = invites[i]
        /\ invites'[i].email = invites[i].email
        /\ invites'[i].status = "pending" => invites[i].status = "pending"

LinkEffect(r) ==
    /\ req[r].kind \in {"regenerate_link", "revoke_invitation"}
    /\ UNCHANGED <<users, sub, tokens, keys, dsrs, queries>>
    /\ invites' \in [Invites -> InviteRow]
    /\ \/ Begun(r) /\ invites' = invites
       \/ Continued(r) /\ invites' = invites
       \/ Committed(r) /\ req'[r].target = req[r].target /\ OnlyLinkOf(req[r].target)

AcceptEffect(r) ==
    /\ req[r].kind = "accept_invite"
    /\ UNCHANGED <<sub, tokens, keys, dsrs, queries>>
    /\ \/ /\ Begun(r) /\ UNCHANGED <<users, invites>>
          /\ req'[r].target \in PendingInvites /\ req'[r].saw = invites[req'[r].target]
       \/ /\ Continued(r) /\ UNCHANGED <<users, invites>>
          /\ req'[r].target = req[r].target /\ req'[r].saw = req[r].saw
       \/ /\ Committed(r) /\ req'[r].target = req[r].target
          /\ users' \in [Users -> UserRow] /\ Joins(req[r].saw.email)
          /\ invites' = [invites EXCEPT ![req[r].target] =
                            [invites[req[r].target] EXCEPT !.status = "accepted"]]

SetsStatus(r, new) ==
    dsrs' = [dsrs EXCEPT ![req[r].target] = [dsrs[req[r].target] EXCEPT !.status = new]]

(* The steps of a fulfilment. *)
FulfillBegins(r) ==
    /\ Begun(r) /\ UNCHANGED <<users, dsrs, queries>>
    /\ req'[r].pc = "admitted" /\ dsrs[req'[r].target].status # "absent"

FulfillGoes(r, pc, next) ==
    /\ Continued(r) /\ UNCHANGED <<users, dsrs, queries>>
    /\ req[r].pc = pc /\ req'[r].pc = next /\ req'[r].target = req[r].target

FulfillLoads(r) ==
    /\ FulfillGoes(r, "admitted", "loaded")
    /\ dsrs[req[r].target].status # "fulfilled"

FulfillResolves(r) ==
    FulfillGoes(r, "loaded", "resolved") /\ req'[r].saw = req[r].saw

FulfillFinds(r) ==
    /\ FulfillGoes(r, "resolved", "ready")
    /\ req'[r].saw = req[r].saw /\ req'[r].subject = req[r].subject
    /\ req[r].subject # None /\ req[r].saw.erasure
    /\ req'[r].found = {k \in queries : req[k].actor = req[r].subject}

FulfillCommits(r, pc) ==
    /\ Committed(r) /\ req[r].pc = pc
    /\ req'[r].target = req[r].target /\ req'[r].subject = req[r].subject

FulfillRejects(r) ==
    /\ FulfillCommits(r, "resolved") /\ UNCHANGED <<users, queries>>
    /\ req[r].subject = None
    /\ SetsStatus(r, Column("rejected", req[r].saw.status, dsrs[req[r].target].status))

FulfillExports(r) ==
    /\ FulfillCommits(r, "resolved") /\ UNCHANGED <<users, queries>>
    /\ req[r].subject # None /\ ~req[r].saw.erasure
    /\ SetsStatus(r, "fulfilled")

FulfillErases(r) ==
    LET row == users[req[r].subject] IN
    /\ FulfillCommits(r, "ready") /\ SetsStatus(r, "fulfilled")
    /\ queries' = queries \ req[r].found
    /\ users' = [users EXCEPT ![req[r].subject] = [row EXCEPT
                    !.active = Column(FALSE, req[r].user.active, row.active),
                    !.deleted = TRUE, !.email = Redacted]]

FulfillEffect(r) ==
    /\ req[r].kind = "fulfill_dsr"
    /\ UNCHANGED <<invites, sub, tokens, keys>>
    /\ \/ FulfillBegins(r) \/ FulfillLoads(r) \/ FulfillResolves(r) \/ FulfillFinds(r)
       \/ FulfillRejects(r) \/ FulfillExports(r) \/ FulfillErases(r)

----------------------------------------------------------------------------

(* The seat check of the two endpoints that have one.                       *)
LEMMA QuotaMoves ==
    ASSUME TypeOK, NEW r \in Requests, Fits(req[r]),
           ReadPlan(r) \/ CountActive(r) \/ EnforceQuota(r)
    PROVE  /\ Moved(r) /\ Continued(r)
           /\ req[r].kind \in {"create_user", "create_invitation"}
           /\ req'[r].pc \in {"planned", "counted", "cleared"}
<1>0. req[r] \in Request
  BY DEF TypeOK
<1>1. ASSUME ReadPlan(r)
      PROVE  /\ Moved(r) /\ Continued(r)
             /\ req[r].kind \in {"create_user", "create_invitation"}
             /\ req'[r].pc \in {"planned", "counted", "cleared"}
  <2> DEFINE f == [req[r] EXCEPT !.pc = "planned", !.plan = PlanFor(sub.plan)]
  <2>1. PlanFor(sub.plan) \in Plans
    BY <1>0, PlansAssumption DEF TypeOK, PlanFor, SubRow
  <2>2. f \in Request
    BY <1>0, <2>1 DEF Request
  <2>3. Keeps(f, req[r]) /\ Working(f) /\ f.pc = "planned"
    BY <1>0 DEF Request, Keeps, Working
  <2>4. Continues(r, f) /\ UNCHANGED tables /\ Working(req[r])
    BY <1>1 DEF ReadPlan, Working
  <2>5. req[r].kind \in {"create_user", "create_invitation"}
    BY <1>1 DEF ReadPlan, Fits
  <2> HIDE DEF f
  <2>6. Fits(f)
    BY <2>3, <2>4, <2>5 DEF Fits, Argued, Keeps, Working
  <2> QED
    BY <2>2, <2>3, <2>4, <2>5, <2>6, ContinuesMoves
<1>2. ASSUME CountActive(r)
      PROVE  /\ Moved(r) /\ Continued(r)
             /\ req[r].kind \in {"create_user", "create_invitation"}
             /\ req'[r].pc \in {"planned", "counted", "cleared"}
  <2> DEFINE f == [req[r] EXCEPT !.pc = "counted", !.counted = ActiveUsers]
  <2>1. ActiveUsers \subseteq Users
    BY <1>0, PlansAssumption DEF TypeOK, ActiveUsers
  <2>2. f \in Request
    BY <1>0, <2>1 DEF Request
  <2>3. Keeps(f, req[r]) /\ Working(f) /\ f.pc = "counted"
    BY <1>0 DEF Request, Keeps, Working
  <2>4. Continues(r, f) /\ UNCHANGED tables /\ Working(req[r])
    BY <1>2 DEF CountActive, Working
  <2>5. req[r].kind \in {"create_user", "create_invitation"}
    BY <1>2 DEF CountActive, Fits
  <2> HIDE DEF f
  <2>6. Fits(f)
    BY <2>3, <2>4, <2>5 DEF Fits, Argued, Keeps, Working
  <2> QED
    BY <2>2, <2>3, <2>4, <2>5, <2>6, ContinuesMoves
<1>3. ASSUME EnforceQuota(r)
      PROVE  /\ Moved(r) /\ Continued(r)
             /\ req[r].kind \in {"create_user", "create_invitation"}
             /\ req'[r].pc \in {"planned", "counted", "cleared"}
  <2> DEFINE f == [req[r] EXCEPT !.pc = "cleared", !.counted = req[r].counted \cup PendingInvites]
  <2>1. req[r].counted \cup PendingInvites \subseteq Users \cup Invites
    BY <1>0, PlansAssumption DEF TypeOK, PendingInvites, Request
  <2>2. f \in Request
    BY <1>0, <2>1 DEF Request
  <2>3. Keeps(f, req[r]) /\ Working(f) /\ f.pc = "cleared"
    BY <1>0 DEF Request, Keeps, Working
  <2>4. Continues(r, f) /\ UNCHANGED tables /\ Working(req[r])
    BY <1>3 DEF EnforceQuota, Working
  <2>5. req[r].kind \in {"create_user", "create_invitation"}
    BY <1>3 DEF EnforceQuota, Fits
  <2> HIDE DEF f
  <2>6. Fits(f)
    BY <2>3, <2>4, <2>5 DEF Fits, Argued, Keeps, Working
  <2> QED
    BY <2>2, <2>3, <2>4, <2>5, <2>6, ContinuesMoves
<1> QED
  BY <1>1, <1>2, <1>3

(* The webhook. *)
LEMMA WebhookMoves ==
    ASSUME TypeOK, NEW r \in Requests, Fits(req[r]),
           \/ \E event \in SubRow : LoadSubscription(r, event)
           \/ ApplyWebhookEvent(r)
    PROVE  Moved(r) /\ WebhookEffect(r)
<1>0. req[r] \in Request
  BY DEF TypeOK
<1>1. ASSUME NEW event \in SubRow, LoadSubscription(r, event) PROVE Moved(r) /\ WebhookEffect(r)
  <2> DEFINE f == [req[r] EXCEPT !.pc = "ready", !.event = event, !.saw = sub]
  <2>1. sub \in SubRow /\ sub \in Loaded
    BY <1>0, <1>1 DEF TypeOK, Loaded
  <2>2. f \in Request
    BY <1>0, <2>1, <1>1 DEF Request
  <2>3. f.kind = req[r].kind /\ Working(f) /\ f.pc = "ready" /\ f.actor = req[r].actor /\ f.event = event /\ f.saw = sub
    BY <1>0 DEF Request, Working
  <2>4. Begins(r, "webhook", f) /\ UNCHANGED tables
    BY <1>1 DEF LoadSubscription
  <2> HIDE DEF f
  <2>5. Fits(f)
    BY <1>0, <1>1, <2>1, <2>2, <2>3, <2>4 DEF Fits, Argued, Begins, Is
  <2>6. Moved(r) /\ Begun(r) /\ req'[r] = f /\ req[r].kind = "webhook"
    BY <1>0, <2>1, <2>5, <2>2, <2>3, <2>4, BeginsMoves
  <2> QED
    BY <2>1, <2>5, <2>2, <2>3, <2>4, <2>6 DEF WebhookEffect, tables
<1>2. ASSUME ApplyWebhookEvent(r) PROVE Moved(r) /\ WebhookEffect(r)
  <2> DEFINE f == req[r]
  <2>1. f \in Request
    BY <1>0 DEF Request
  <2>2. KeepsAll(f, req[r]) /\ f.pc = req[r].pc
    BY <1>0 DEF Request, Keeps, KeepsAll
  <2>3. Commits(r, f) /\ Working(req[r]) /\ req[r].pc # "admitted" /\ req[r].kind = "webhook" /\ UNCHANGED <<users, invites, tokens, keys, dsrs, queries>>
        /\ LET e == req[r].event IN
           sub' = [plan |-> Column(e.plan, req[r].saw.plan, sub.plan),
                   status |-> Column(e.status, req[r].saw.status, sub.status)]
    BY <1>2 DEF ApplyWebhookEvent, Is, Working, notMembership
  <2> HIDE DEF f
  <2>4. Fits(f) /\ f.pc \notin {"idle", "admitted"}
    BY <1>0, <2>1, <2>2, <2>3 DEF Fits, Argued, KeepsAll, Keeps, Working
  <2>5. Moved(r) /\ Committed(r) /\ req'[r].target = f.target /\ req'[r].subject = f.subject
    BY <2>1, <2>2, <2>3, <2>4, CommitsMoves
  <2> QED
    BY <2>1, <2>2, <2>3, <2>5 DEF WebhookEffect
<1> QED
  BY <1>1, <1>2

(* Sessions, API keys and tool calls. *)
LEMMA QuietMoves ==
    ASSUME TypeOK, NEW r \in Requests, Fits(req[r]),
           \/ \E u \in Users : Login(r, u)
           \/ \E u \in Users : RefreshTokens(r, u)
           \/ IssueTokens(r)
           \/ \E k \in Keys : AdmitToolCall(r, k)
           \/ FinishToolCall(r)
           \/ \E a \in Managers, u \in Users : AdmitApiKey(r, a, u)
           \/ LoadKeyUser(r)
           \/ IssueApiKey(r)
           \/ \E a \in Managers, k \in Keys : AdmitRevokeKey(r, a, k)
           \/ LoadKey(r)
           \/ RevokeApiKey(r)
    PROVE  Moved(r) /\ QuietEffect(r)
<1>0. req[r] \in Request
  BY DEF TypeOK
<1>1. ASSUME NEW u \in Users, Login(r, u) PROVE Moved(r) /\ QuietEffect(r)
  <2> DEFINE f == [req[r] EXCEPT !.pc = "ready", !.actor = u]
  <2>1. keys \in [Keys -> KeyRow]
    BY <1>0, <1>1 DEF TypeOK
  <2>2. f \in Request
    BY <1>0, <2>1, <1>1 DEF Request
  <2>3. f.kind = req[r].kind /\ Working(f) /\ f.pc = "ready" /\ f.actor = u
    BY <1>0 DEF Request, Working
  <2>4. Begins(r, "login", f) /\ UNCHANGED tables /\ ValidUser(u)
    BY <1>1 DEF Login
  <2> HIDE DEF f
  <2>5. Fits(f)
    BY <1>0, <1>1, <2>1, <2>2, <2>3, <2>4 DEF Fits, Argued, Begins, Is
  <2>6. Moved(r) /\ Begun(r) /\ req'[r] = f /\ req[r].kind = "login"
    BY <1>0, <2>1, <2>5, <2>2, <2>3, <2>4, BeginsMoves
  <2> QED
    BY <2>1, <2>5, <2>2, <2>3, <2>4, <2>6 DEF QuietEffect, tables
<1>2. ASSUME NEW u \in Users, RefreshTokens(r, u) PROVE Moved(r) /\ QuietEffect(r)
  <2> DEFINE f == [req[r] EXCEPT !.pc = "ready", !.actor = u]
  <2>1. keys \in [Keys -> KeyRow]
    BY <1>0, <1>2 DEF TypeOK
  <2>2. f \in Request
    BY <1>0, <2>1, <1>2 DEF Request
  <2>3. f.kind = req[r].kind /\ Working(f) /\ f.pc = "ready" /\ f.actor = u
    BY <1>0 DEF Request, Working
  <2>4. Begins(r, "refresh", f) /\ UNCHANGED tables /\ ValidUser(u)
    BY <1>2 DEF RefreshTokens
  <2> HIDE DEF f
  <2>5. Fits(f)
    BY <1>0, <1>2, <2>1, <2>2, <2>3, <2>4 DEF Fits, Argued, Begins, Is
  <2>6. Moved(r) /\ Begun(r) /\ req'[r] = f /\ req[r].kind = "refresh"
    BY <1>0, <2>1, <2>5, <2>2, <2>3, <2>4, BeginsMoves
  <2> QED
    BY <2>1, <2>5, <2>2, <2>3, <2>4, <2>6 DEF QuietEffect, tables
<1>3. ASSUME IssueTokens(r) PROVE Moved(r) /\ QuietEffect(r)
  <2> DEFINE f == req[r]
  <2>1. keys \in [Keys -> KeyRow]
    BY <1>0, <1>3 DEF TypeOK
  <2>2. f \in Request
    BY <1>0, <2>1 DEF Request
  <2>3. KeepsAll(f, req[r]) /\ f.pc = req[r].pc
    BY <1>0 DEF Request, Keeps, KeepsAll
  <2>4. Commits(r, f) /\ Working(req[r]) /\ req[r].pc # "admitted" /\ req[r].kind \in {"login", "refresh"} /\ UNCHANGED <<users, invites, sub, tokens, dsrs, queries>> /\ keys' = keys
    BY <1>3 DEF IssueTokens, Is, Working, tables
  <2> HIDE DEF f
  <2>5. Fits(f) /\ f.pc \notin {"idle", "admitted"}
    BY <1>0, <2>1, <2>2, <2>3, <2>4 DEF Fits, Argued, KeepsAll, Keeps, Working
  <2>6. Moved(r) /\ Committed(r) /\ req'[r].target = f.target /\ req'[r].subject = f.subject
    BY <2>2, <2>3, <2>4, <2>5, CommitsMoves
  <2> QED
    BY <2>1, <2>2, <2>3, <2>4, <2>6 DEF QuietEffect
<1>4. ASSUME NEW k \in Keys, AdmitToolCall(r, k) PROVE Moved(r) /\ QuietEffect(r)
  <2> DEFINE f == [req[r] EXCEPT !.pc = "ready", !.actor = keys[k].user, !.target = k]
  <2>1. keys \in [Keys -> KeyRow] /\ keys[k].user \in Users /\ k \in Ids
    BY <1>0, <1>4 DEF TypeOK, AdmitToolCall, Authenticates, KeyRow, Ids
  <2>2. f \in Request
    BY <1>0, <2>1, <1>4 DEF Request
  <2>3. f.kind = req[r].kind /\ Working(f) /\ f.pc = "ready" /\ f.actor = keys[k].user
    BY <1>0 DEF Request, Working
  <2>4. Begins(r, "mcp_tool", f) /\ UNCHANGED tables /\ ValidUser(keys[k].user)
    BY <1>4 DEF AdmitToolCall, Authenticates
  <2> HIDE DEF f
  <2>5. Fits(f)
    BY <1>0, <1>4, <2>1, <2>2, <2>3, <2>4 DEF Fits, Argued, Begins, Is
  <2>6. Moved(r) /\ Begun(r) /\ req'[r] = f /\ req[r].kind = "mcp_tool"
    BY <1>0, <2>1, <2>5, <2>2, <2>3, <2>4, BeginsMoves
  <2> QED
    BY <2>1, <2>5, <2>2, <2>3, <2>4, <2>6 DEF QuietEffect, tables
<1>5. ASSUME FinishToolCall(r) PROVE Moved(r) /\ QuietEffect(r)
  <2> DEFINE f == req[r]
  <2>1. keys \in [Keys -> KeyRow]
    BY <1>0, <1>5 DEF TypeOK
  <2>2. f \in Request
    BY <1>0, <2>1 DEF Request
  <2>3. KeepsAll(f, req[r]) /\ f.pc = req[r].pc
    BY <1>0 DEF Request, Keeps, KeepsAll
  <2>4. Commits(r, f) /\ Working(req[r]) /\ req[r].pc # "admitted" /\ req[r].kind = "mcp_tool" /\ UNCHANGED <<users, invites, sub, tokens, dsrs, queries>> /\ keys' = keys
    BY <1>5 DEF FinishToolCall, Is, Working, tables
  <2> HIDE DEF f
  <2>5. Fits(f) /\ f.pc \notin {"idle", "admitted"}
    BY <1>0, <2>1, <2>2, <2>3, <2>4 DEF Fits, Argued, KeepsAll, Keeps, Working
  <2>6. Moved(r) /\ Committed(r) /\ req'[r].target = f.target /\ req'[r].subject = f.subject
    BY <2>2, <2>3, <2>4, <2>5, CommitsMoves
  <2> QED
    BY <2>1, <2>2, <2>3, <2>4, <2>6 DEF QuietEffect
<1>6. ASSUME NEW a \in Managers, NEW u \in Users, AdmitApiKey(r, a, u) PROVE Moved(r) /\ QuietEffect(r)
  <2> DEFINE f == [req[r] EXCEPT !.subject = u]
  <2>1. keys \in [Keys -> KeyRow]
    BY <1>0, <1>6 DEF TypeOK
  <2>2. f \in Request
    BY <1>0, <2>1, <1>6 DEF Request
  <2>3. f.kind = req[r].kind
    BY <1>0 DEF Request
  <2>4. Admits(r, "create_api_key", a, f) /\ UNCHANGED tables
    BY <1>6 DEF AdmitApiKey
  <2> HIDE DEF f
  <2>5. Argued(f)
    BY <1>0, <1>6, <2>1, <2>2, <2>3, <2>4 DEF Argued, Admits, Begins, Is
  <2>6. Moved(r) /\ Begun(r) /\ req[r].kind = "create_api_key" /\ req'[r].pc = "admitted" /\ req'[r].target = f.target
    BY <1>0, <2>1, <2>5, <2>2, <2>3, <2>4, AdmitsMoves
  <2> QED
    BY <2>1, <2>5, <2>2, <2>3, <2>4, <2>6 DEF QuietEffect, tables
<1>7. ASSUME LoadKeyUser(r) PROVE Moved(r) /\ QuietEffect(r)
  <2> DEFINE f == [req[r] EXCEPT !.pc = "ready"]
  <2>1. keys \in [Keys -> KeyRow]
    BY <1>0, <1>7 DEF TypeOK
  <2>2. f \in Request
    BY <1>0, <2>1 DEF Request
  <2>3. Keeps(f, req[r]) /\ Working(f) /\ f.pc = "ready"
    BY <1>0 DEF Request, Keeps, Working
  <2>4. Continues(r, f) /\ UNCHANGED tables /\ Working(req[r]) /\ req[r].kind = "create_api_key"
    BY <1>7, <1>0 DEF LoadKeyUser, Is, Working
  <2> HIDE DEF f
  <2>5. Fits(f)
    BY <1>0, <2>1, <2>2, <2>3, <2>4 DEF Fits, Argued, Keeps, Working
  <2>6. Moved(r) /\ Continued(r) /\ req'[r] = f
    BY <1>0, <2>1, <2>5, <2>2, <2>3, <2>4, ContinuesMoves
  <2> QED
    BY <2>1, <2>5, <2>2, <2>3, <2>4, <2>6 DEF QuietEffect, tables
<1>8. ASSUME IssueApiKey(r) PROVE Moved(r) /\ QuietEffect(r)
  <2>1. PICK k \in Keys : 
           /\ keys' = [keys EXCEPT ![k] = [user |-> req[r].subject,
                                         revoked |-> FALSE, expired |-> FALSE]]
           /\ Commits(r, [req[r] EXCEPT !.target = k])
    BY <1>8 DEF IssueApiKey
  <2> DEFINE f == [req[r] EXCEPT !.target = k]
  <2>2. k \in Ids /\ req[r].subject \in Users \cup {None}
    BY <1>0, <2>1, <1>8 DEF TypeOK, Ids, Request
  <2>3. f \in Request
    BY <1>0, <2>2 DEF Request
  <2>4. KeepsAll(f, req[r]) /\ f.pc = req[r].pc
    BY <1>0 DEF Request, Keeps, KeepsAll
  <2>5. Commits(r, f) /\ Working(req[r]) /\ req[r].pc # "admitted" /\ req[r].kind = "create_api_key" /\ UNCHANGED <<users, invites, sub, tokens, dsrs, queries>>
    BY <2>1, <1>8 DEF IssueApiKey, Is, Working, notPrivacy
  <2>6. keys' \in [Keys -> KeyRow]
    BY <1>0, <2>2, <2>5, <2>1, <1>8 DEF TypeOK, IssueApiKey, KeyRow
  <2> HIDE DEF f
  <2>7. Fits(f) /\ f.pc \notin {"idle", "admitted"}
    BY <1>0, <2>2, <2>6, <2>3, <2>4, <2>5 DEF Fits, Argued, KeepsAll, Keeps, Working
  <2>8. Moved(r) /\ Committed(r) /\ req'[r].target = f.target /\ req'[r].subject = f.subject
    BY <2>3, <2>4, <2>5, <2>7, CommitsMoves
  <2> QED
    BY <2>2, <2>6, <2>3, <2>4, <2>5, <2>8 DEF QuietEffect
<1>9. ASSUME NEW a \in Managers, NEW k \in Keys, AdmitRevokeKey(r, a, k) PROVE Moved(r) /\ QuietEffect(r)
  <2> DEFINE f == [req[r] EXCEPT !.target = k]
  <2>1. keys \in [Keys -> KeyRow] /\ k \in Ids
    BY <1>0, <1>9 DEF TypeOK, Ids
  <2>2. f \in Request
    BY <1>0, <2>1, <1>9 DEF Request
  <2>3. f.kind = req[r].kind
    BY <1>0 DEF Request
  <2>4. Admits(r, "revoke_api_key", a, f) /\ UNCHANGED tables
    BY <1>9 DEF AdmitRevokeKey
  <2> HIDE DEF f
  <2>5. Argued(f)
    BY <1>0, <1>9, <2>1, <2>2, <2>3, <2>4 DEF Argued, Admits, Begins, Is
  <2>6. Moved(r) /\ Begun(r) /\ req[r].kind = "revoke_api_key" /\ req'[r].pc = "admitted" /\ req'[r].target = f.target
    BY <1>0, <2>1, <2>5, <2>2, <2>3, <2>4, AdmitsMoves
  <2> QED
    BY <2>1, <2>5, <2>2, <2>3, <2>4, <2>6 DEF QuietEffect, tables
<1>10. ASSUME LoadKey(r) PROVE Moved(r) /\ QuietEffect(r)
  <2> DEFINE f == [req[r] EXCEPT !.pc = "ready"]
  <2>1. keys \in [Keys -> KeyRow]
    BY <1>0, <1>10 DEF TypeOK
  <2>2. f \in Request
    BY <1>0, <2>1 DEF Request
  <2>3. Keeps(f, req[r]) /\ Working(f) /\ f.pc = "ready"
    BY <1>0 DEF Request, Keeps, Working
  <2>4. Continues(r, f) /\ UNCHANGED tables /\ Working(req[r]) /\ req[r].kind = "revoke_api_key"
    BY <1>10, <1>0 DEF LoadKey, Is, Working
  <2> HIDE DEF f
  <2>5. Fits(f)
    BY <1>0, <2>1, <2>2, <2>3, <2>4 DEF Fits, Argued, Keeps, Working
  <2>6. Moved(r) /\ Continued(r) /\ req'[r] = f
    BY <1>0, <2>1, <2>5, <2>2, <2>3, <2>4, ContinuesMoves
  <2> QED
    BY <2>1, <2>5, <2>2, <2>3, <2>4, <2>6 DEF QuietEffect, tables
<1>11. ASSUME RevokeApiKey(r) PROVE Moved(r) /\ QuietEffect(r)
  <2> DEFINE f == req[r]
  <2>1. f \in Request
    BY <1>0 DEF Request
  <2>2. KeepsAll(f, req[r]) /\ f.pc = req[r].pc
    BY <1>0 DEF Request, Keeps, KeepsAll
  <2>3. Commits(r, f) /\ Working(req[r]) /\ req[r].pc # "admitted" /\ req[r].kind = "revoke_api_key" /\ UNCHANGED <<users, invites, sub, tokens, dsrs, queries>>
    BY <1>11 DEF RevokeApiKey, Is, Working, notPrivacy
  <2>4. keys' \in [Keys -> KeyRow]
    BY <1>0, <2>3, <1>11 DEF TypeOK, RevokeApiKey, KeyRow
  <2> HIDE DEF f
  <2>5. Fits(f) /\ f.pc \notin {"idle", "admitted"}
    BY <1>0, <2>4, <2>1, <2>2, <2>3 DEF Fits, Argued, KeepsAll, Keeps, Working
  <2>6. Moved(r) /\ Committed(r) /\ req'[r].target = f.target /\ req'[r].subject = f.subject
    BY <2>1, <2>2, <2>3, <2>5, CommitsMoves
  <2> QED
    BY <2>4, <2>1, <2>2, <2>3, <2>6 DEF QuietEffect
<1> QED
  BY <1>1, <1>2, <1>3, <1>4, <1>5, <1>6, <1>7, <1>8, <1>9, <1>10, <1>11

(* Questions. *)
LEMMA AskMoves ==
    ASSUME TypeOK, NEW r \in Requests, Fits(req[r]),
           \/ \E u \in Users : AdmitAsk(r, u)
           \/ StoreQuery(r)
    PROVE  Moved(r) /\ AskEffect(r)
<1>0. req[r] \in Request
  BY DEF TypeOK
<1>1. ASSUME NEW u \in Users, AdmitAsk(r, u) PROVE Moved(r) /\ AskEffect(r)
  <2> DEFINE f == [req[r] EXCEPT !.pc = "ready", !.actor = u]
  <2>1. f \in Request
    BY <1>0, <1>1 DEF Request
  <2>2. f.kind = req[r].kind /\ Working(f) /\ f.pc = "ready" /\ f.actor = u
    BY <1>0 DEF Request, Working
  <2>3. Begins(r, "ask", f) /\ UNCHANGED tables /\ ValidUser(u)
    BY <1>1 DEF AdmitAsk
  <2> HIDE DEF f
  <2>4. Fits(f)
    BY <1>0, <1>1, <2>1, <2>2, <2>3 DEF Fits, Argued, Begins, Is
  <2>5. Moved(r) /\ Begun(r) /\ req'[r] = f /\ req[r].kind = "ask"
    BY <1>0, <2>4, <2>1, <2>2, <2>3, BeginsMoves
  <2> QED
    BY <2>4, <2>1, <2>2, <2>3, <2>5 DEF AskEffect, tables
<1>2. ASSUME StoreQuery(r) PROVE Moved(r) /\ AskEffect(r)
  <2> DEFINE f == req[r]
  <2>1. f \in Request
    BY <1>0 DEF Request
  <2>2. KeepsAll(f, req[r]) /\ f.pc = req[r].pc
    BY <1>0 DEF Request, Keeps, KeepsAll
  <2>3. Commits(r, f) /\ Working(req[r]) /\ req[r].pc # "admitted" /\ req[r].kind = "ask" /\ UNCHANGED <<users, invites, sub, tokens, keys, dsrs>> /\ queries' = queries \cup {r}
    BY <1>2 DEF StoreQuery, Is, Working, notPrivacy
  <2> HIDE DEF f
  <2>4. Fits(f) /\ f.pc \notin {"idle", "admitted"}
    BY <1>0, <2>1, <2>2, <2>3 DEF Fits, Argued, KeepsAll, Keeps, Working
  <2>5. Moved(r) /\ Committed(r) /\ req'[r].target = f.target /\ req'[r].subject = f.subject
    BY <2>1, <2>2, <2>3, <2>4, CommitsMoves
  <2> QED
    BY <2>1, <2>2, <2>3, <2>5 DEF AskEffect
<1> QED
  BY <1>1, <1>2

(* Requests for a reset. *)
LEMMA ForgotMoves ==
    ASSUME TypeOK, NEW r \in Requests, Fits(req[r]),
           \/ \E u \in Users : LoadAccount(r, u)
           \/ RequestReset(r)
    PROVE  Moved(r) /\ ForgotEffect(r)
<1>0. req[r] \in Request
  BY DEF TypeOK
<1>1. ASSUME NEW u \in Users, LoadAccount(r, u) PROVE Moved(r) /\ ForgotEffect(r)
  <2> DEFINE f == [req[r] EXCEPT !.pc = "ready", !.subject = u]
  <2>1. f \in Request
    BY <1>0, <1>1 DEF Request
  <2>2. f.kind = req[r].kind /\ Working(f) /\ f.pc = "ready" /\ f.actor = req[r].actor /\ f.subject = u
    BY <1>0 DEF Request, Working
  <2>3. Begins(r, "forgot_password", f) /\ UNCHANGED tables /\ ValidUser(u)
    BY <1>1 DEF LoadAccount
  <2> HIDE DEF f
  <2>4. Fits(f)
    BY <1>0, <1>1, <2>1, <2>2, <2>3 DEF Fits, Argued, Begins, Is
  <2>5. Moved(r) /\ Begun(r) /\ req'[r] = f /\ req[r].kind = "forgot_password"
    BY <1>0, <2>4, <2>1, <2>2, <2>3, BeginsMoves
  <2> QED
    BY <2>4, <2>1, <2>2, <2>3, <2>5 DEF ForgotEffect, tables
<1>2. ASSUME RequestReset(r) PROVE Moved(r) /\ ForgotEffect(r)
  <2>1. PICK t \in Tokens : 
           /\ tokens[t].user = None
           /\ tokens' = [tokens EXCEPT ![t] = [user |-> req[r].subject,
                                             used |-> FALSE, expired |-> FALSE]]
           /\ Commits(r, [req[r] EXCEPT !.target = t])
    BY <1>2 DEF RequestReset
  <2> DEFINE f == [req[r] EXCEPT !.target = t]
  <2>2. t \in Ids /\ req[r].subject \in Users \cup {None}
    BY <1>0, <2>1, <1>2 DEF TypeOK, Ids, Request
  <2>3. f \in Request
    BY <1>0, <2>2 DEF Request
  <2>4. KeepsAll(f, req[r]) /\ f.pc = req[r].pc /\ f.subject = req[r].subject
    BY <1>0 DEF Request, Keeps, KeepsAll
  <2>5. Commits(r, f) /\ Working(req[r]) /\ req[r].pc # "admitted" /\ req[r].kind = "forgot_password" /\ UNCHANGED <<users, invites, sub, keys, dsrs, queries>>
    BY <2>1, <1>2 DEF RequestReset, Is, Working, notPrivacy
  <2>6. /\ tokens' \in [Tokens -> TokenRow]
        /\ \A o \in Tokens : tokens[o].user # None => tokens'[o] = tokens[o]
    BY <1>0, <2>2, <2>5, <2>1, <1>2 DEF TypeOK, RequestReset, TokenRow
  <2> HIDE DEF f
  <2>7. Fits(f) /\ f.pc \notin {"idle", "admitted"}
    BY <1>0, <2>2, <2>6, <2>3, <2>4, <2>5 DEF Fits, Argued, KeepsAll, Keeps, Working
  <2>8. Moved(r) /\ Committed(r) /\ req'[r].target = f.target /\ req'[r].subject = f.subject
    BY <2>3, <2>4, <2>5, <2>7, CommitsMoves
  <2> QED
    BY <2>2, <2>6, <2>3, <2>4, <2>5, <2>8 DEF ForgotEffect
<1> QED
  BY <1>1, <1>2

(* Resets. *)
LEMMA ResetMoves ==
    ASSUME TypeOK, NEW r \in Requests, Fits(req[r]),
           \/ \E t \in Tokens : LoadToken(r, t)
           \/ LoadTokenUser(r)
           \/ CompleteReset(r)
    PROVE  Moved(r) /\ ResetEffect(r)
<1>0. req[r] \in Request
  BY DEF TypeOK
<1>1. ASSUME NEW t \in Tokens, LoadToken(r, t) PROVE Moved(r) /\ ResetEffect(r)
  <2> DEFINE f == [req[r] EXCEPT !.pc = "loaded", !.target = t, !.saw = tokens[t], !.subject = tokens[t].user]
  <2>1. tokens[t] \in Loaded /\ tokens[t].user \in Users \cup {None} /\ t \in Ids
    BY <1>0, <1>1 DEF TypeOK, TokenRow, Loaded, Ids
  <2>2. f \in Request
    BY <1>0, <2>1, <1>1 DEF Request
  <2>3. f.kind = req[r].kind /\ Working(f) /\ f.pc = "loaded" /\ f.actor = req[r].actor /\ f.target = t
    BY <1>0 DEF Request, Working
  <2>4. Begins(r, "reset_password", f) /\ UNCHANGED tables /\ tokens[t].user # None /\ ~tokens[t].used
    BY <1>1 DEF LoadToken
  <2> HIDE DEF f
  <2>5. Fits(f)
    BY <1>0, <1>1, <2>1, <2>2, <2>3, <2>4 DEF Fits, Argued, Begins, Is
  <2>6. Moved(r) /\ Begun(r) /\ req'[r] = f /\ req[r].kind = "reset_password"
    BY <1>0, <2>1, <2>5, <2>2, <2>3, <2>4, BeginsMoves
  <2> QED
    BY <2>1, <2>5, <2>2, <2>3, <2>4, <2>6 DEF ResetEffect, tables
<1>2. ASSUME LoadTokenUser(r) PROVE Moved(r) /\ ResetEffect(r)
  <2> DEFINE f == [req[r] EXCEPT !.pc = "ready"]
  <2>1. f \in Request
    BY <1>0 DEF Request
  <2>2. Keeps(f, req[r]) /\ Working(f) /\ f.pc = "ready" /\ f.target = req[r].target /\ f.subject = req[r].subject
    BY <1>0 DEF Request, Keeps, Working
  <2>3. Continues(r, f) /\ UNCHANGED tables /\ Working(req[r]) /\ req[r].kind = "reset_password" /\ req[r].pc = "loaded" /\ Live(req[r].subject)
    BY <1>2, <1>0 DEF LoadTokenUser, Is, Working
  <2> HIDE DEF f
  <2>4. Fits(f)
    BY <1>0, <2>1, <2>2, <2>3 DEF Fits, Argued, Keeps, Working
  <2>5. Moved(r) /\ Continued(r) /\ req'[r] = f
    BY <1>0, <2>4, <2>1, <2>2, <2>3, ContinuesMoves
  <2> QED
    BY <2>4, <2>1, <2>2, <2>3, <2>5 DEF ResetEffect, tables
<1>3. ASSUME CompleteReset(r) PROVE Moved(r) /\ ResetEffect(r)
  <2> DEFINE f == req[r]
  <2>1. f \in Request
    BY <1>0 DEF Request
  <2>2. KeepsAll(f, req[r]) /\ f.pc = req[r].pc /\ f.target = req[r].target /\ f.subject = req[r].subject
    BY <1>0 DEF Request, Keeps, KeepsAll
  <2>3. Commits(r, f) /\ Working(req[r]) /\ req[r].pc # "admitted" /\ req[r].kind = "reset_password" /\ UNCHANGED <<users, invites, sub, keys, dsrs, queries>> /\ req[r].pc = "ready"
        /\ tokens' = [tokens EXCEPT ![req[r].target] = [tokens[req[r].target] EXCEPT !.used = TRUE]]
    BY <1>3 DEF CompleteReset, Is, Working, notPrivacy
  <2> HIDE DEF f
  <2>4. Fits(f) /\ f.pc \notin {"idle", "admitted"}
    BY <1>0, <2>1, <2>2, <2>3 DEF Fits, Argued, KeepsAll, Keeps, Working
  <2>5. Moved(r) /\ Committed(r) /\ req'[r].target = f.target /\ req'[r].subject = f.subject
    BY <2>1, <2>2, <2>3, <2>4, CommitsMoves
  <2> QED
    BY <2>1, <2>2, <2>3, <2>5 DEF ResetEffect
<1> QED
  BY <1>1, <1>2, <1>3

(* New data subject requests. *)
LEMMA NewDsrMoves ==
    ASSUME TypeOK, NEW r \in Requests, Fits(req[r]),
           \/ \E a \in Managers, id \in Users \cup {None}, e \in Emails, erasure \in BOOLEAN : AdmitCreateDsr(r, a, id, e, erasure)
           \/ \E u \in Users \cup {None} : ResolveNewSubject(r, u)
           \/ CreateDsr(r)
    PROVE  Moved(r) /\ NewDsrEffect(r)
<1>0. req[r] \in Request
  BY DEF TypeOK
<1>1. ASSUME NEW a \in Managers, NEW id \in Users \cup {None}, NEW e \in Emails, NEW erasure \in BOOLEAN, AdmitCreateDsr(r, a, id, e, erasure) PROVE Moved(r) /\ NewDsrEffect(r)
  <2> DEFINE f == [req[r] EXCEPT !.subject = id, !.email = e, !.erasure = erasure]
  <2>1. f \in Request
    BY <1>0, <1>1 DEF Request
  <2>2. f.kind = req[r].kind
    BY <1>0 DEF Request
  <2>3. Admits(r, "create_dsr", a, f) /\ UNCHANGED tables
    BY <1>1 DEF AdmitCreateDsr
  <2> HIDE DEF f
  <2>4. Argued(f)
    BY <1>0, <1>1, <2>1, <2>2, <2>3 DEF Argued, Admits, Begins, Is
  <2>5. Moved(r) /\ Begun(r) /\ req[r].kind = "create_dsr" /\ req'[r].pc = "admitted" /\ req'[r].target = f.target
    BY <1>0, <2>4, <2>1, <2>2, <2>3, AdmitsMoves
  <2> QED
    BY <2>4, <2>1, <2>2, <2>3, <2>5 DEF NewDsrEffect, tables
<1>2. ASSUME NEW u \in Users \cup {None}, ResolveNewSubject(r, u) PROVE Moved(r) /\ NewDsrEffect(r)
  <2> DEFINE f == [req[r] EXCEPT !.pc = "ready", !.subject = u]
  <2>1. f \in Request
    BY <1>0, <1>2 DEF Request
  <2>2. Keeps(f, req[r]) /\ Working(f) /\ f.pc = "ready"
    BY <1>0 DEF Request, Keeps, Working
  <2>3. Continues(r, f) /\ UNCHANGED tables /\ Working(req[r]) /\ req[r].kind = "create_dsr"
    BY <1>2, <1>0 DEF ResolveNewSubject, Is, Working
  <2> HIDE DEF f
  <2>4. Fits(f)
    BY <1>0, <2>1, <2>2, <2>3 DEF Fits, Argued, Keeps, Working
  <2>5. Moved(r) /\ Continued(r) /\ req'[r] = f
    BY <1>0, <2>4, <2>1, <2>2, <2>3, ContinuesMoves
  <2> QED
    BY <2>4, <2>1, <2>2, <2>3, <2>5 DEF NewDsrEffect, tables
<1>3. ASSUME CreateDsr(r) PROVE Moved(r) /\ NewDsrEffect(r)
  <2>1. PICK d \in Dsrs : 
           /\ dsrs[d].status = "absent"
           /\ dsrs' = [dsrs EXCEPT ![d] =
                          [status |-> "received", erasure |-> req[r].erasure,
                           subject |-> req[r].subject, email |-> req[r].email]]
           /\ Commits(r, [req[r] EXCEPT !.target = d])
    BY <1>3 DEF CreateDsr
  <2> DEFINE f == [req[r] EXCEPT !.target = d]
  <2>2. /\ d \in Ids /\ req[r].subject \in Users \cup {None}
        /\ req[r].email \in Emails \cup {None} /\ req[r].erasure \in BOOLEAN
    BY <1>0, <2>1, <1>3 DEF TypeOK, Ids, Request
  <2>3. f \in Request
    BY <1>0, <2>2 DEF Request
  <2>4. KeepsAll(f, req[r]) /\ f.pc = req[r].pc
    BY <1>0 DEF Request, Keeps, KeepsAll
  <2>5. Commits(r, f) /\ Working(req[r]) /\ req[r].pc # "admitted" /\ req[r].kind = "create_dsr" /\ UNCHANGED <<users, invites, sub, tokens, keys, queries>>
    BY <2>1, <1>3 DEF CreateDsr, Is, Working, notPrivacy
  <2>6. /\ dsrs' \in [Dsrs -> DsrRow]
        /\ \A o \in Dsrs : dsrs[o].status # "absent" => dsrs'[o] = dsrs[o]
    BY <1>0, <2>2, <2>5, <2>1, <1>3 DEF TypeOK, CreateDsr, DsrRow
  <2> HIDE DEF f
  <2>7. Fits(f) /\ f.pc \notin {"idle", "admitted"}
    BY <1>0, <2>2, <2>6, <2>3, <2>4, <2>5 DEF Fits, Argued, KeepsAll, Keeps, Working
  <2>8. Moved(r) /\ Committed(r) /\ req'[r].target = f.target /\ req'[r].subject = f.subject
    BY <2>3, <2>4, <2>5, <2>7, CommitsMoves
  <2> QED
    BY <2>2, <2>6, <2>3, <2>4, <2>5, <2>8 DEF NewDsrEffect
<1> QED
  BY <1>1, <1>2, <1>3

(* The user endpoints. *)
LEMMA UsersMove ==
    ASSUME TypeOK, NEW r \in Requests, Fits(req[r]),
           \/ \E a \in Managers, e \in Emails, role \in Roles : AdmitCreateUser(r, a, e, role)
           \/ CreateUser(r)
           \/ \E a \in Managers, u \in Users, role \in Roles \cup {None}, active \in BOOLEAN \cup {None} : AdmitUpdateUser(r, a, u, role, active)
           \/ \E a \in Managers, u \in Users : AdmitDeactivateUser(r, a, u)
           \/ LoadUser(r)
           \/ UpdateUser(r)
           \/ DeactivateUser(r)
    PROVE  Moved(r) /\ UsersEffect(r)
<1>0. req[r] \in Request
  BY DEF TypeOK
<1>1. ASSUME NEW a \in Managers, NEW e \in Emails, NEW role \in Roles, AdmitCreateUser(r, a, e, role) PROVE Moved(r) /\ UsersEffect(r)
  <2> DEFINE f == [req[r] EXCEPT !.email = e, !.role = role]
  <2>1. users \in [Users -> UserRow]
    BY <1>0, <1>1 DEF TypeOK
  <2>2. f \in Request
    BY <1>0, <2>1, <1>1 DEF Request
  <2>3. f.kind = req[r].kind /\ f.email = e
    BY <1>0 DEF Request
  <2>4. Admits(r, "create_user", a, f) /\ UNCHANGED tables
    BY <1>1 DEF AdmitCreateUser
  <2> HIDE DEF f
  <2>5. Argued(f)
    BY <1>0, <1>1, <2>1, <2>2, <2>3, <2>4 DEF Argued, Admits, Begins, Is
  <2>6. Moved(r) /\ Begun(r) /\ req[r].kind = "create_user" /\ req'[r].pc = "admitted" /\ req'[r].target = f.target
    BY <1>0, <2>1, <2>5, <2>2, <2>3, <2>4, AdmitsMoves
  <2> QED
    BY <2>1, <2>5, <2>2, <2>3, <2>4, <2>6 DEF UsersEffect, tables
<1>2. ASSUME CreateUser(r) PROVE Moved(r) /\ UsersEffect(r)
  <2>1. PICK u \in Users : 
           /\ users[u] = NoUser
           /\ users' = [users EXCEPT ![u] = [email |-> req[r].email, role |-> req[r].role,
                                           active |-> TRUE, deleted |-> FALSE]]
           /\ Commits(r, [req[r] EXCEPT !.target = u])
    BY <1>2 DEF CreateUser
  <2> DEFINE f == [req[r] EXCEPT !.target = u]
  <2>2. u \in Ids /\ req[r].email \in Emails \cup {None} /\ req[r].role \in Roles \cup {None}
    BY <1>0, <2>1, <1>2 DEF TypeOK, Ids, Request
  <2>3. f \in Request
    BY <1>0, <2>2 DEF Request
  <2>4. KeepsAll(f, req[r]) /\ f.pc = req[r].pc
    BY <1>0 DEF Request, Keeps, KeepsAll
  <2>5. Commits(r, f) /\ Working(req[r]) /\ req[r].pc # "admitted" /\ req[r].kind = "create_user" /\ UNCHANGED <<invites, sub, tokens, keys, dsrs, queries>>
    BY <2>1, <1>2 DEF CreateUser, Is, Working, notMembership
  <2>6. users' \in [Users -> UserRow] /\ Joins(req[r].email)
    BY <1>0, <2>2, <2>5, <2>1, <1>2 DEF TypeOK, CreateUser, UserRow, Joins
  <2> HIDE DEF f
  <2>7. Fits(f) /\ f.pc \notin {"idle", "admitted"}
    BY <1>0, <2>2, <2>6, <2>3, <2>4, <2>5 DEF Fits, Argued, KeepsAll, Keeps, Working
  <2>8. Moved(r) /\ Committed(r) /\ req'[r].target = f.target /\ req'[r].subject = f.subject
    BY <2>3, <2>4, <2>5, <2>7, CommitsMoves
  <2> QED
    BY <2>2, <2>6, <2>3, <2>4, <2>5, <2>8 DEF UsersEffect
<1>3. ASSUME NEW a \in Managers, NEW u \in Users, NEW role \in Roles \cup {None}, NEW active \in BOOLEAN \cup {None}, AdmitUpdateUser(r, a, u, role, active) PROVE Moved(r) /\ UsersEffect(r)
  <2> DEFINE f == [req[r] EXCEPT !.target = u, !.role = role, !.active = active]
  <2>1. users \in [Users -> UserRow] /\ u \in Ids
    BY <1>0, <1>3 DEF TypeOK, Ids
  <2>2. f \in Request
    BY <1>0, <2>1, <1>3 DEF Request
  <2>3. f.kind = req[r].kind /\ f.target = u
    BY <1>0 DEF Request
  <2>4. Admits(r, "update_user", a, f) /\ UNCHANGED tables
    BY <1>3 DEF AdmitUpdateUser
  <2> HIDE DEF f
  <2>5. Argued(f)
    BY <1>0, <1>3, <2>1, <2>2, <2>3, <2>4 DEF Argued, Admits, Begins, Is
  <2>6. Moved(r) /\ Begun(r) /\ req[r].kind = "update_user" /\ req'[r].pc = "admitted" /\ req'[r].target = f.target
    BY <1>0, <2>1, <2>5, <2>2, <2>3, <2>4, AdmitsMoves
  <2> QED
    BY <2>1, <2>5, <2>2, <2>3, <2>4, <2>6 DEF UsersEffect, tables
<1>4. ASSUME NEW a \in Managers, NEW u \in Users, AdmitDeactivateUser(r, a, u) PROVE Moved(r) /\ UsersEffect(r)
  <2> DEFINE f == [req[r] EXCEPT !.target = u]
  <2>1. users \in [Users -> UserRow] /\ u \in Ids
    BY <1>0, <1>4 DEF TypeOK, Ids
  <2>2. f \in Request
    BY <1>0, <2>1, <1>4 DEF Request
  <2>3. f.kind = req[r].kind /\ f.target = u
    BY <1>0 DEF Request
  <2>4. Admits(r, "deactivate_user", a, f) /\ UNCHANGED tables
    BY <1>4 DEF AdmitDeactivateUser
  <2> HIDE DEF f
  <2>5. Argued(f)
    BY <1>0, <1>4, <2>1, <2>2, <2>3, <2>4 DEF Argued, Admits, Begins, Is
  <2>6. Moved(r) /\ Begun(r) /\ req[r].kind = "deactivate_user" /\ req'[r].pc = "admitted" /\ req'[r].target = f.target
    BY <1>0, <2>1, <2>5, <2>2, <2>3, <2>4, AdmitsMoves
  <2> QED
    BY <2>1, <2>5, <2>2, <2>3, <2>4, <2>6 DEF UsersEffect, tables
<1>5. ASSUME LoadUser(r) PROVE Moved(r) /\ UsersEffect(r)
  <2> DEFINE f == [req[r] EXCEPT !.pc = "ready", !.user = users[req[r].target]]
  <2>1. users \in [Users -> UserRow] /\ users[req[r].target] \in UserRow
    BY <1>0, <1>5 DEF TypeOK, Request, Fits, Argued, LoadUser
  <2>2. f \in Request
    BY <1>0, <2>1 DEF Request
  <2>3. Keeps(f, req[r]) /\ Working(f) /\ f.pc = "ready" /\ f.target = req[r].target
    BY <1>0 DEF Request, Keeps, Working
  <2>4. Continues(r, f) /\ UNCHANGED tables /\ Working(req[r]) /\ req[r].kind \in {"update_user", "deactivate_user"}
    BY <1>5, <1>0 DEF LoadUser, Is, Working
  <2> HIDE DEF f
  <2>5. Fits(f)
    BY <1>0, <2>1, <2>2, <2>3, <2>4 DEF Fits, Argued, Keeps, Working
  <2>6. Moved(r) /\ Continued(r) /\ req'[r] = f
    BY <1>0, <2>1, <2>5, <2>2, <2>3, <2>4, ContinuesMoves
  <2> QED
    BY <2>1, <2>5, <2>2, <2>3, <2>4, <2>6 DEF UsersEffect, tables
<1>6. ASSUME UpdateUser(r) PROVE Moved(r) /\ UsersEffect(r)
  <2> DEFINE f == req[r]
  <2>1. req[r].role \in Roles \cup {None} /\ req[r].active \in BOOLEAN \cup {None} /\ req[r].target \in Users
    BY <1>0, <1>6 DEF TypeOK, Request, Fits, Argued, UpdateUser, Is
  <2>2. f \in Request
    BY <1>0, <2>1 DEF Request
  <2>3. KeepsAll(f, req[r]) /\ f.pc = req[r].pc /\ f.target = req[r].target
    BY <1>0 DEF Request, Keeps, KeepsAll
  <2>4. Commits(r, f) /\ Working(req[r]) /\ req[r].pc # "admitted" /\ req[r].kind = "update_user" /\ UNCHANGED <<invites, sub, tokens, keys, dsrs, queries>>
    BY <1>6 DEF UpdateUser, Is, Working, notMembership
  <2> DEFINE row == [users[req[r].target] EXCEPT
         !.role = IF req[r].role = None THEN users[req[r].target].role
                  ELSE Column(req[r].role, req[r].user.role, users[req[r].target].role),
         !.active = IF req[r].active = None THEN users[req[r].target].active
                    ELSE Column(req[r].active, req[r].user.active, users[req[r].target].active)]
  <2>5. row \in UserRow /\ row.email = users[req[r].target].email
        /\ row.deleted = users[req[r].target].deleted
    BY <1>0, <2>1 DEF TypeOK, UserRow, Column
  <2>6. users' = [users EXCEPT ![req[r].target] = row]
    BY <1>6 DEF UpdateUser
  <2> HIDE DEF row
  <2>7. users' \in [Users -> UserRow] /\ Shrinks
    BY <2>5, <2>6 DEF TypeOK, Shrinks
  <2> HIDE DEF f
  <2>8. Fits(f) /\ f.pc \notin {"idle", "admitted"}
    BY <1>0, <2>1, <2>7, <2>2, <2>3, <2>4 DEF Fits, Argued, KeepsAll, Keeps, Working
  <2>9. Moved(r) /\ Committed(r) /\ req'[r].target = f.target /\ req'[r].subject = f.subject
    BY <2>2, <2>3, <2>4, <2>8, CommitsMoves
  <2> QED
    BY <2>1, <2>7, <2>2, <2>3, <2>4, <2>9 DEF UsersEffect
<1>7. ASSUME DeactivateUser(r) PROVE Moved(r) /\ UsersEffect(r)
  <2> DEFINE f == req[r]
  <2>1. req[r].target \in Users
    BY <1>0, <1>7 DEF TypeOK, Request, Fits, Argued, DeactivateUser, Is
  <2>2. f \in Request
    BY <1>0, <2>1 DEF Request
  <2>3. KeepsAll(f, req[r]) /\ f.pc = req[r].pc /\ f.target = req[r].target
    BY <1>0 DEF Request, Keeps, KeepsAll
  <2>4. Commits(r, f) /\ Working(req[r]) /\ req[r].pc # "admitted" /\ req[r].kind = "deactivate_user" /\ UNCHANGED <<invites, sub, tokens, keys, dsrs, queries>>
    BY <1>7 DEF DeactivateUser, Is, Working, notMembership
  <2> DEFINE row == [users[req[r].target] EXCEPT
         !.active = Column(FALSE, req[r].user.active, users[req[r].target].active),
         !.deleted = TRUE]
  <2>5. row \in UserRow /\ row.email = users[req[r].target].email /\ row.deleted
    BY <1>0, <2>1 DEF TypeOK, UserRow, Column
  <2>6. users' = [users EXCEPT ![req[r].target] = row]
    BY <1>7 DEF DeactivateUser
  <2> HIDE DEF row
  <2>7. users' \in [Users -> UserRow] /\ Shrinks
    BY <2>5, <2>6 DEF TypeOK, Shrinks
  <2> HIDE DEF f
  <2>8. Fits(f) /\ f.pc \notin {"idle", "admitted"}
    BY <1>0, <2>1, <2>7, <2>2, <2>3, <2>4 DEF Fits, Argued, KeepsAll, Keeps, Working
  <2>9. Moved(r) /\ Committed(r) /\ req'[r].target = f.target /\ req'[r].subject = f.subject
    BY <2>2, <2>3, <2>4, <2>8, CommitsMoves
  <2> QED
    BY <2>1, <2>7, <2>2, <2>3, <2>4, <2>9 DEF UsersEffect
<1> QED
  BY <1>1, <1>2, <1>3, <1>4, <1>5, <1>6, <1>7

(* New invitations. *)
LEMMA NewInviteMoves ==
    ASSUME TypeOK, NEW r \in Requests, Fits(req[r]),
           \/ \E a \in Managers, e \in Emails, role \in Roles : AdmitCreateInvitation(r, a, e, role)
           \/ CheckNoUser(r)
           \/ CheckNoInvite(r)
           \/ CreateInvitation(r)
    PROVE  Moved(r) /\ NewInviteEffect(r)
<1>0. req[r] \in Request
  BY DEF TypeOK
<1>1. ASSUME NEW a \in Managers, NEW e \in Emails, NEW role \in Roles, AdmitCreateInvitation(r, a, e, role) PROVE Moved(r) /\ NewInviteEffect(r)
  <2> DEFINE f == [req[r] EXCEPT !.email = e, !.role = role]
  <2>1. invites \in [Invites -> InviteRow]
    BY <1>0, <1>1 DEF TypeOK
  <2>2. f \in Request
    BY <1>0, <2>1, <1>1 DEF Request
  <2>3. f.kind = req[r].kind /\ f.email = e
    BY <1>0 DEF Request
  <2>4. Admits(r, "create_invitation", a, f) /\ UNCHANGED tables
    BY <1>1 DEF AdmitCreateInvitation
  <2> HIDE DEF f
  <2>5. Argued(f)
    BY <1>0, <1>1, <2>1, <2>2, <2>3, <2>4 DEF Argued, Admits, Begins, Is
  <2>6. Moved(r) /\ Begun(r) /\ req[r].kind = "create_invitation" /\ req'[r].pc = "admitted" /\ req'[r].target = f.target
    BY <1>0, <2>1, <2>5, <2>2, <2>3, <2>4, AdmitsMoves
  <2> QED
    BY <2>1, <2>5, <2>2, <2>3, <2>4, <2>6 DEF NewInviteEffect, tables
<1>2. ASSUME CheckNoUser(r) PROVE Moved(r) /\ NewInviteEffect(r)
  <2> DEFINE f == [req[r] EXCEPT !.pc = "loaded"]
  <2>1. invites \in [Invites -> InviteRow]
    BY <1>0, <1>2 DEF TypeOK
  <2>2. f \in Request
    BY <1>0, <2>1 DEF Request
  <2>3. Keeps(f, req[r]) /\ Working(f) /\ f.pc = "loaded"
    BY <1>0 DEF Request, Keeps, Working
  <2>4. Continues(r, f) /\ UNCHANGED tables /\ Working(req[r]) /\ req[r].kind = "create_invitation" /\ ~HasLiveUser(req[r].email)
    BY <1>2, <1>0 DEF CheckNoUser, Is, Working
  <2> HIDE DEF f
  <2>5. Fits(f)
    BY <1>0, <2>1, <2>2, <2>3, <2>4 DEF Fits, Argued, Keeps, Working
  <2>6. Moved(r) /\ Continued(r) /\ req'[r] = f
    BY <1>0, <2>1, <2>5, <2>2, <2>3, <2>4, ContinuesMoves
  <2> QED
    BY <2>1, <2>5, <2>2, <2>3, <2>4, <2>6 DEF NewInviteEffect, tables
<1>3. ASSUME CheckNoInvite(r) PROVE Moved(r) /\ NewInviteEffect(r)
  <2> DEFINE f == [req[r] EXCEPT !.pc = "ready"]
  <2>1. invites \in [Invites -> InviteRow]
    BY <1>0, <1>3 DEF TypeOK
  <2>2. f \in Request
    BY <1>0, <2>1 DEF Request
  <2>3. Keeps(f, req[r]) /\ Working(f) /\ f.pc = "ready"
    BY <1>0 DEF Request, Keeps, Working
  <2>4. Continues(r, f) /\ UNCHANGED tables /\ Working(req[r]) /\ req[r].kind = "create_invitation" /\ req[r].pc = "loaded" /\ \A i \in PendingInvites : invites[i].email # req[r].email
    BY <1>3, <1>0 DEF CheckNoInvite, Is, Working
  <2> HIDE DEF f
  <2>5. Fits(f)
    BY <1>0, <2>1, <2>2, <2>3, <2>4 DEF Fits, Argued, Keeps, Working
  <2>6. Moved(r) /\ Continued(r) /\ req'[r] = f
    BY <1>0, <2>1, <2>5, <2>2, <2>3, <2>4, ContinuesMoves
  <2> QED
    BY <2>1, <2>5, <2>2, <2>3, <2>4, <2>6 DEF NewInviteEffect, tables
<1>4. ASSUME CreateInvitation(r) PROVE Moved(r) /\ NewInviteEffect(r)
  <2>1. PICK i \in Invites : 
           /\ invites[i] = NoInvite
           /\ invites' = [invites EXCEPT ![i] = [email |-> req[r].email, role |-> req[r].role,
                                               key |-> r, status |-> "pending",
                                               expired |-> FALSE]]
           /\ Commits(r, [req[r] EXCEPT !.target = i])
    BY <1>4 DEF CreateInvitation
  <2> DEFINE f == [req[r] EXCEPT !.target = i]
  <2>2. i \in Ids /\ req[r].email \in Emails \cup {None} /\ req[r].role \in Roles \cup {None}
    BY <1>0, <2>1, <1>4 DEF TypeOK, Ids, Request
  <2>3. f \in Request
    BY <1>0, <2>2 DEF Request
  <2>4. KeepsAll(f, req[r]) /\ f.pc = req[r].pc /\ f.target = i
    BY <1>0 DEF Request, Keeps, KeepsAll
  <2>5. Commits(r, f) /\ Working(req[r]) /\ req[r].pc # "admitted" /\ req[r].kind = "create_invitation" /\ UNCHANGED <<users, sub, tokens, keys, dsrs, queries>> /\ req[r].pc = "ready"
    BY <2>1, <1>4 DEF CreateInvitation, Is, Working, notMembership
  <2>6. invites' \in [Invites -> InviteRow] /\ InviteAppears(i, req[r].email)
    BY <1>0, <2>2, <2>5, <2>1, <1>4 DEF TypeOK, CreateInvitation, InviteRow, InviteAppears
  <2> HIDE DEF f
  <2>7. Fits(f) /\ f.pc \notin {"idle", "admitted"}
    BY <1>0, <2>2, <2>6, <2>3, <2>4, <2>5 DEF Fits, Argued, KeepsAll, Keeps, Working
  <2>8. Moved(r) /\ Committed(r) /\ req'[r].target = f.target /\ req'[r].subject = f.subject
    BY <2>3, <2>4, <2>5, <2>7, CommitsMoves
  <2> QED
    BY <2>2, <2>6, <2>3, <2>4, <2>5, <2>8 DEF NewInviteEffect, NewInviteCommits
<1> QED
  BY <1>1, <1>2, <1>3, <1>4

(* New links and revocations. *)
LEMMA LinkMoves ==
    ASSUME TypeOK, NEW r \in Requests, Fits(req[r]),
           \/ \E a \in Managers, i \in Invites : AdmitRegenerate(r, a, i)
           \/ \E a \in Managers, i \in Invites : AdmitRevoke(r, a, i)
           \/ LoadInvitation(r)
           \/ RegenerateToken(r)
           \/ Revoke(r)
    PROVE  Moved(r) /\ LinkEffect(r)
<1>0. req[r] \in Request
  BY DEF TypeOK
<1>1. ASSUME NEW a \in Managers, NEW i \in Invites, AdmitRegenerate(r, a, i) PROVE Moved(r) /\ LinkEffect(r)
  <2> DEFINE f == [req[r] EXCEPT !.target = i]
  <2>1. invites \in [Invites -> InviteRow] /\ i \in Ids
    BY <1>0, <1>1 DEF TypeOK, Ids
  <2>2. f \in Request
    BY <1>0, <2>1, <1>1 DEF Request
  <2>3. f.kind = req[r].kind /\ f.target = i
    BY <1>0 DEF Request
  <2>4. Admits(r, "regenerate_link", a, f) /\ UNCHANGED tables
    BY <1>1 DEF AdmitRegenerate
  <2> HIDE DEF f
  <2>5. Argued(f)
    BY <1>0, <1>1, <2>1, <2>2, <2>3, <2>4 DEF Argued, Admits, Begins, Is
  <2>6. Moved(r) /\ Begun(r) /\ req[r].kind = "regenerate_link" /\ req'[r].pc = "admitted" /\ req'[r].target = f.target
    BY <1>0, <2>1, <2>5, <2>2, <2>3, <2>4, AdmitsMoves
  <2> QED
    BY <2>1, <2>5, <2>2, <2>3, <2>4, <2>6 DEF LinkEffect, tables
<1>2. ASSUME NEW a \in Managers, NEW i \in Invites, AdmitRevoke(r, a, i) PROVE Moved(r) /\ LinkEffect(r)
  <2> DEFINE f == [req[r] EXCEPT !.target = i]
  <2>1. invites \in [Invites -> InviteRow] /\ i \in Ids
    BY <1>0, <1>2 DEF TypeOK, Ids
  <2>2. f \in Request
    BY <1>0, <2>1, <1>2 DEF Request
  <2>3. f.kind = req[r].kind /\ f.target = i
    BY <1>0 DEF Request
  <2>4. Admits(r, "revoke_invitation", a, f) /\ UNCHANGED tables
    BY <1>2 DEF AdmitRevoke
  <2> HIDE DEF f
  <2>5. Argued(f)
    BY <1>0, <1>2, <2>1, <2>2, <2>3, <2>4 DEF Argued, Admits, Begins, Is
  <2>6. Moved(r) /\ Begun(r) /\ req[r].kind = "revoke_invitation" /\ req'[r].pc = "admitted" /\ req'[r].target = f.target
    BY <1>0, <2>1, <2>5, <2>2, <2>3, <2>4, AdmitsMoves
  <2> QED
    BY <2>1, <2>5, <2>2, <2>3, <2>4, <2>6 DEF LinkEffect, tables
<1>3. ASSUME LoadInvitation(r) PROVE Moved(r) /\ LinkEffect(r)
  <2> DEFINE f == [req[r] EXCEPT !.pc = "ready", !.saw = invites[req[r].target]]
  <2>1. invites \in [Invites -> InviteRow] /\ invites[req[r].target] \in Loaded
    BY <1>0, <1>3 DEF TypeOK, Loaded, Fits, Argued, LoadInvitation
  <2>2. f \in Request
    BY <1>0, <2>1 DEF Request
  <2>3. Keeps(f, req[r]) /\ Working(f) /\ f.pc = "ready" /\ f.target = req[r].target
    BY <1>0 DEF Request, Keeps, Working
  <2>4. Continues(r, f) /\ UNCHANGED tables /\ Working(req[r]) /\ req[r].kind \in {"regenerate_link", "revoke_invitation"}
    BY <1>3, <1>0 DEF LoadInvitation, Is, Working
  <2> HIDE DEF f
  <2>5. Fits(f)
    BY <1>0, <2>1, <2>2, <2>3, <2>4 DEF Fits, Argued, Keeps, Working
  <2>6. Moved(r) /\ Continued(r) /\ req'[r] = f
    BY <1>0, <2>1, <2>5, <2>2, <2>3, <2>4, ContinuesMoves
  <2> QED
    BY <2>1, <2>5, <2>2, <2>3, <2>4, <2>6 DEF LinkEffect, tables
<1>4. ASSUME RegenerateToken(r) PROVE Moved(r) /\ LinkEffect(r)
  <2> DEFINE f == req[r]
  <2>1. f \in Request
    BY <1>0 DEF Request
  <2>2. KeepsAll(f, req[r]) /\ f.pc = req[r].pc /\ f.target = req[r].target
    BY <1>0 DEF Request, Keeps, KeepsAll
  <2>3. Commits(r, f) /\ Working(req[r]) /\ req[r].pc # "admitted" /\ req[r].kind = "regenerate_link" /\ UNCHANGED <<users, sub, tokens, keys, dsrs, queries>>
    BY <1>4 DEF RegenerateToken, Is, Working, notMembership
  <2>4. invites' \in [Invites -> InviteRow] /\ OnlyLinkOf(req[r].target)
    BY <1>0, <2>3, <1>4 DEF TypeOK, RegenerateToken, InviteRow, OnlyLinkOf
  <2> HIDE DEF f
  <2>5. Fits(f) /\ f.pc \notin {"idle", "admitted"}
    BY <1>0, <2>4, <2>1, <2>2, <2>3 DEF Fits, Argued, KeepsAll, Keeps, Working
  <2>6. Moved(r) /\ Committed(r) /\ req'[r].target = f.target /\ req'[r].subject = f.subject
    BY <2>1, <2>2, <2>3, <2>5, CommitsMoves
  <2> QED
    BY <2>4, <2>1, <2>2, <2>3, <2>6 DEF LinkEffect
<1>5. ASSUME Revoke(r) PROVE Moved(r) /\ LinkEffect(r)
  <2> DEFINE f == req[r]
  <2>1. req[r].target \in Invites
    BY <1>0, <1>5 DEF TypeOK, Fits, Argued, Revoke, Is
  <2>2. f \in Request
    BY <1>0, <2>1 DEF Request
  <2>3. KeepsAll(f, req[r]) /\ f.pc = req[r].pc /\ f.target = req[r].target
    BY <1>0 DEF Request, Keeps, KeepsAll
  <2>4. Commits(r, f) /\ Working(req[r]) /\ req[r].pc # "admitted" /\ req[r].kind = "revoke_invitation" /\ UNCHANGED <<users, sub, tokens, keys, dsrs, queries>>
    BY <1>5 DEF Revoke, Is, Working, notMembership
  <2> DEFINE row == [invites[req[r].target] EXCEPT
         !.status = Column("revoked", req[r].saw.status, invites[req[r].target].status)]
  <2>5. row \in InviteRow /\ row.email = invites[req[r].target].email
        /\ (row.status = "pending" => invites[req[r].target].status = "pending")
    BY <1>0, <2>1 DEF TypeOK, InviteRow, Column
  <2>6. invites' = [invites EXCEPT ![req[r].target] = row]
    BY <1>5 DEF Revoke
  <2> HIDE DEF row
  <2>7. invites' \in [Invites -> InviteRow] /\ OnlyLinkOf(req[r].target)
    BY <2>5, <2>6 DEF TypeOK, OnlyLinkOf
  <2> HIDE DEF f
  <2>8. Fits(f) /\ f.pc \notin {"idle", "admitted"}
    BY <1>0, <2>1, <2>7, <2>2, <2>3, <2>4 DEF Fits, Argued, KeepsAll, Keeps, Working
  <2>9. Moved(r) /\ Committed(r) /\ req'[r].target = f.target /\ req'[r].subject = f.subject
    BY <2>2, <2>3, <2>4, <2>8, CommitsMoves
  <2> QED
    BY <2>1, <2>7, <2>2, <2>3, <2>4, <2>9 DEF LinkEffect
<1> QED
  BY <1>1, <1>2, <1>3, <1>4, <1>5

(* Acceptances. *)
LEMMA AcceptMoves ==
    ASSUME TypeOK, NEW r \in Requests, Fits(req[r]),
           \/ \E i \in Invites : LoadForAcceptance(r, i)
           \/ CheckAddressFree(r)
           \/ AcceptInvitation(r)
    PROVE  Moved(r) /\ AcceptEffect(r)
<1>0. req[r] \in Request
  BY DEF TypeOK
<1>1. ASSUME NEW i \in Invites, LoadForAcceptance(r, i) PROVE Moved(r) /\ AcceptEffect(r)
  <2> DEFINE f == [req[r] EXCEPT !.pc = "loaded", !.target = i, !.saw = invites[i]]
  <2>1. i \in Ids /\ invites[i] \in InviteRow /\ invites[i] \in Loaded
    BY <1>0, <1>1 DEF TypeOK, Ids, Loaded
  <2>2. f \in Request
    BY <1>0, <2>1, <1>1 DEF Request
  <2>3. f.kind = req[r].kind /\ Working(f) /\ f.pc = "loaded" /\ f.actor = req[r].actor /\ f.target = i /\ f.saw = invites[i]
    BY <1>0 DEF Request, Working
  <2>4. Begins(r, "accept_invite", f) /\ UNCHANGED tables /\ i \in PendingInvites
    BY <1>1 DEF LoadForAcceptance
  <2> HIDE DEF f
  <2>5. Fits(f)
    BY <1>0, <1>1, <2>1, <2>2, <2>3, <2>4 DEF Fits, Argued, Begins, Is
  <2>6. Moved(r) /\ Begun(r) /\ req'[r] = f /\ req[r].kind = "accept_invite"
    BY <1>0, <2>1, <2>5, <2>2, <2>3, <2>4, BeginsMoves
  <2> QED
    BY <2>1, <2>5, <2>2, <2>3, <2>4, <2>6 DEF AcceptEffect, tables
<1>2. ASSUME CheckAddressFree(r) PROVE Moved(r) /\ AcceptEffect(r)
  <2> DEFINE f == [req[r] EXCEPT !.pc = "ready"]
  <2>1. f \in Request
    BY <1>0 DEF Request
  <2>2. Keeps(f, req[r]) /\ Working(f) /\ f.pc = "ready" /\ f.target = req[r].target /\ f.saw = req[r].saw
    BY <1>0 DEF Request, Keeps, Working
  <2>3. Continues(r, f) /\ UNCHANGED tables /\ Working(req[r]) /\ req[r].kind = "accept_invite"
    BY <1>2, <1>0 DEF CheckAddressFree, Is, Working
  <2> HIDE DEF f
  <2>4. Fits(f)
    BY <1>0, <2>1, <2>2, <2>3 DEF Fits, Argued, Keeps, Working
  <2>5. Moved(r) /\ Continued(r) /\ req'[r] = f
    BY <1>0, <2>4, <2>1, <2>2, <2>3, ContinuesMoves
  <2> QED
    BY <2>4, <2>1, <2>2, <2>3, <2>5 DEF AcceptEffect, tables
<1>3. ASSUME AcceptInvitation(r) PROVE Moved(r) /\ AcceptEffect(r)
  <2>1. PICK u \in Users : 
           /\ users[u] = NoUser
           /\ users' = [users EXCEPT ![u] = [email |-> req[r].saw.email, role |-> req[r].saw.role,
                                           active |-> TRUE, deleted |-> FALSE]]
           /\ Commits(r, [req[r] EXCEPT !.subject = u])
    BY <1>3 DEF AcceptInvitation
  <2> DEFINE f == [req[r] EXCEPT !.subject = u]
  <2>2. req[r].saw \in InviteRow
    BY <1>0, <2>1, <1>3 DEF TypeOK, Request, Fits, Argued, AcceptInvitation, Is
  <2>3. f \in Request
    BY <1>0, <2>2 DEF Request
  <2>4. KeepsAll(f, req[r]) /\ f.pc = req[r].pc /\ f.target = req[r].target
    BY <1>0 DEF Request, Keeps, KeepsAll
  <2>5. Commits(r, f) /\ Working(req[r]) /\ req[r].pc # "admitted" /\ req[r].kind = "accept_invite" /\ UNCHANGED <<sub, tokens, keys, dsrs, queries>>
        /\ invites' = [invites EXCEPT ![req[r].target] =
                         [invites[req[r].target] EXCEPT !.status = "accepted"]]
    BY <2>1, <1>3 DEF AcceptInvitation, Is, Working, notMembership
  <2>6. users' \in [Users -> UserRow] /\ Joins(req[r].saw.email)
    BY <1>0, <2>2, <2>5, <2>1, <1>3 DEF TypeOK, AcceptInvitation, UserRow, InviteRow, Joins
  <2> HIDE DEF f
  <2>7. Fits(f) /\ f.pc \notin {"idle", "admitted"}
    BY <1>0, <2>2, <2>6, <2>3, <2>4, <2>5 DEF Fits, Argued, KeepsAll, Keeps, Working
  <2>8. Moved(r) /\ Committed(r) /\ req'[r].target = f.target /\ req'[r].subject = f.subject
    BY <2>3, <2>4, <2>5, <2>7, CommitsMoves
  <2> QED
    BY <2>2, <2>6, <2>3, <2>4, <2>5, <2>8 DEF AcceptEffect
<1> QED
  BY <1>1, <1>2, <1>3

(* Fulfilments. *)
LEMMA FulfillMoves ==
    ASSUME TypeOK, NEW r \in Requests, Fits(req[r]),
           \/ \E a \in Managers, d \in Dsrs : AdmitFulfillDsr(r, a, d)
           \/ LoadDsr(r)
           \/ \E u \in Users \cup {None} : ResolveSubject(r, u)
           \/ FindQueries(r)
           \/ RejectDsr(r)
           \/ FulfillExport(r)
           \/ EraseSubject(r)
    PROVE  Moved(r) /\ FulfillEffect(r)
<1>0. req[r] \in Request
  BY DEF TypeOK
<1>1. ASSUME NEW a \in Managers, NEW d \in Dsrs, AdmitFulfillDsr(r, a, d) PROVE Moved(r) /\ FulfillEffect(r)
  <2> DEFINE f == [req[r] EXCEPT !.target = d]
  <2>1. d \in Ids
    BY <1>0, <1>1 DEF TypeOK, Ids
  <2>2. f \in Request
    BY <1>0, <2>1, <1>1 DEF Request
  <2>3. f.kind = req[r].kind /\ f.target = d
    BY <1>0 DEF Request
  <2>4. Admits(r, "fulfill_dsr", a, f) /\ UNCHANGED tables /\ dsrs[d].status # "absent"
    BY <1>1 DEF AdmitFulfillDsr
  <2> HIDE DEF f
  <2>5. Argued(f)
    BY <1>0, <1>1, <2>1, <2>2, <2>3, <2>4 DEF Argued, Admits, Begins, Is
  <2>6. Moved(r) /\ Begun(r) /\ req[r].kind = "fulfill_dsr" /\ req'[r].pc = "admitted" /\ req'[r].target = f.target
    BY <1>0, <2>1, <2>5, <2>2, <2>3, <2>4, AdmitsMoves
  <2> QED
    BY <2>1, <2>5, <2>2, <2>3, <2>4, <2>6 DEF FulfillEffect, FulfillBegins, tables
<1>2. ASSUME LoadDsr(r) PROVE Moved(r) /\ FulfillEffect(r)
  <2> DEFINE f == [req[r] EXCEPT !.pc = "loaded", !.saw = dsrs[req[r].target]]
  <2>1. dsrs[req[r].target] \in DsrRow /\ dsrs[req[r].target] \in Loaded
    BY <1>0, <1>2 DEF TypeOK, Loaded, Fits, Argued, LoadDsr, Is
  <2>2. f \in Request
    BY <1>0, <2>1 DEF Request
  <2>3. Keeps(f, req[r]) /\ Working(f) /\ f.pc = "loaded" /\ f.target = req[r].target /\ f.saw = dsrs[req[r].target]
    BY <1>0 DEF Request, Keeps, Working
  <2>4. Continues(r, f) /\ UNCHANGED tables /\ Working(req[r]) /\ req[r].kind = "fulfill_dsr" /\ req[r].pc = "admitted" /\ dsrs[req[r].target].status # "fulfilled"
    BY <1>2, <1>0 DEF LoadDsr, Is, Working
  <2> HIDE DEF f
  <2>5. Fits(f)
    BY <1>0, <2>1, <2>2, <2>3, <2>4 DEF Fits, Argued, Keeps, Working
  <2>6. Moved(r) /\ Continued(r) /\ req'[r] = f
    BY <1>0, <2>1, <2>5, <2>2, <2>3, <2>4, ContinuesMoves
  <2> QED
    BY <2>1, <2>5, <2>2, <2>3, <2>4, <2>6 DEF FulfillEffect, FulfillLoads, FulfillGoes, tables
<1>3. ASSUME NEW u \in Users \cup {None}, ResolveSubject(r, u) PROVE Moved(r) /\ FulfillEffect(r)
  <2> DEFINE f == [req[r] EXCEPT !.pc = "resolved", !.subject = u,
                         !.user = IF u \in Users \ {req[r].actor} THEN users[u] ELSE req[r].user]
  <2>1. (IF u \in Users \ {req[r].actor} THEN users[u] ELSE req[r].user) \in UserRow
    BY <1>0, <1>3 DEF TypeOK, Request
  <2>2. \A w \in UserRow : [req[r] EXCEPT !.pc = "resolved", !.subject = u, !.user = w] \in Request
    BY <1>0, <1>3 DEF Request
  <2>3. f \in Request
    BY <2>2, <2>1
  <2>4. Keeps(f, req[r]) /\ Working(f) /\ f.pc = "resolved" /\ f.target = req[r].target /\ f.saw = req[r].saw
    BY <1>0 DEF Request, Keeps, Working
  <2>5. Continues(r, f) /\ UNCHANGED tables /\ Working(req[r]) /\ req[r].kind = "fulfill_dsr" /\ req[r].pc = "loaded"
    BY <1>3, <1>0 DEF ResolveSubject, Is, Working
  <2> HIDE DEF f
  <2>6. Fits(f)
    BY <1>0, <2>1, <2>2, <2>3, <2>4, <2>5 DEF Fits, Argued, Keeps, Working
  <2>7. Moved(r) /\ Continued(r) /\ req'[r] = f
    BY <1>0, <2>1, <2>2, <2>6, <2>3, <2>4, <2>5, ContinuesMoves
  <2> QED
    BY <2>1, <2>2, <2>6, <2>3, <2>4, <2>5, <2>7 DEF FulfillEffect, FulfillResolves, FulfillGoes, tables
<1>4. ASSUME FindQueries(r) PROVE Moved(r) /\ FulfillEffect(r)
  <2> DEFINE f == [req[r] EXCEPT !.pc = "ready", !.found = {k \in queries : req[k].actor = req[r].subject}]
  <2>1. {k \in queries : req[k].actor = req[r].subject} \in SUBSET Requests
    BY <1>0, <1>4 DEF TypeOK
  <2>2. f \in Request
    BY <1>0, <2>1 DEF Request
  <2>3. Keeps(f, req[r]) /\ Working(f) /\ f.pc = "ready" /\ f.target = req[r].target /\ f.saw = req[r].saw /\ f.subject = req[r].subject
        /\ f.found = {k \in queries : req[k].actor = req[r].subject}
    BY <1>0 DEF Request, Keeps, Working
  <2>4. Continues(r, f) /\ UNCHANGED tables /\ Working(req[r]) /\ req[r].kind = "fulfill_dsr" /\ req[r].pc = "resolved"
        /\ req[r].subject # None /\ req[r].saw.erasure
    BY <1>4, <1>0 DEF FindQueries, Is, Working
  <2> HIDE DEF f
  <2>5. Fits(f)
    BY <1>0, <2>1, <2>2, <2>3, <2>4 DEF Fits, Argued, Keeps, Working
  <2>6. Moved(r) /\ Continued(r) /\ req'[r] = f
    BY <1>0, <2>1, <2>5, <2>2, <2>3, <2>4, ContinuesMoves
  <2> QED
    BY <2>1, <2>5, <2>2, <2>3, <2>4, <2>6 DEF FulfillEffect, FulfillFinds, FulfillGoes, tables
<1>5. ASSUME RejectDsr(r) PROVE Moved(r) /\ FulfillEffect(r)
  <2> DEFINE f == req[r]
  <2>1. f \in Request
    BY <1>0 DEF Request
  <2>2. KeepsAll(f, req[r]) /\ f.pc = req[r].pc /\ f.target = req[r].target /\ f.subject = req[r].subject
    BY <1>0 DEF Request, Keeps, KeepsAll
  <2>3. Commits(r, f) /\ Working(req[r]) /\ req[r].pc # "admitted" /\ req[r].kind = "fulfill_dsr" /\ UNCHANGED <<users, invites, sub, tokens, keys, queries>> /\ req[r].pc = "resolved"
        /\ req[r].subject = None
        /\ SetsStatus(r, Column("rejected", req[r].saw.status, dsrs[req[r].target].status))
    BY <1>5 DEF RejectDsr, Is, Working, notPrivacy, SetsStatus
  <2> HIDE DEF f
  <2>4. Fits(f) /\ f.pc \notin {"idle", "admitted"}
    BY <1>0, <2>1, <2>2, <2>3 DEF Fits, Argued, KeepsAll, Keeps, Working
  <2>5. Moved(r) /\ Committed(r) /\ req'[r].target = f.target /\ req'[r].subject = f.subject
    BY <2>1, <2>2, <2>3, <2>4, CommitsMoves
  <2> QED
    BY <2>1, <2>2, <2>3, <2>5 DEF FulfillEffect, FulfillRejects, FulfillCommits
<1>6. ASSUME FulfillExport(r) PROVE Moved(r) /\ FulfillEffect(r)
  <2> DEFINE f == req[r]
  <2>1. f \in Request
    BY <1>0 DEF Request
  <2>2. KeepsAll(f, req[r]) /\ f.pc = req[r].pc /\ f.target = req[r].target /\ f.subject = req[r].subject
    BY <1>0 DEF Request, Keeps, KeepsAll
  <2>3. Commits(r, f) /\ Working(req[r]) /\ req[r].pc # "admitted" /\ req[r].kind = "fulfill_dsr" /\ UNCHANGED <<users, invites, sub, tokens, keys, queries>> /\ req[r].pc = "resolved"
        /\ req[r].subject # None /\ ~req[r].saw.erasure /\ SetsStatus(r, "fulfilled")
    BY <1>6 DEF FulfillExport, Is, Working, notPrivacy, SetsStatus
  <2> HIDE DEF f
  <2>4. Fits(f) /\ f.pc \notin {"idle", "admitted"}
    BY <1>0, <2>1, <2>2, <2>3 DEF Fits, Argued, KeepsAll, Keeps, Working
  <2>5. Moved(r) /\ Committed(r) /\ req'[r].target = f.target /\ req'[r].subject = f.subject
    BY <2>1, <2>2, <2>3, <2>4, CommitsMoves
  <2> QED
    BY <2>1, <2>2, <2>3, <2>5 DEF FulfillEffect, FulfillExports, FulfillCommits
<1>7. ASSUME EraseSubject(r) PROVE Moved(r) /\ FulfillEffect(r)
  <2> DEFINE f == req[r]
  <2>1. f \in Request
    BY <1>0 DEF Request
  <2>2. KeepsAll(f, req[r]) /\ f.pc = req[r].pc /\ f.target = req[r].target /\ f.subject = req[r].subject
    BY <1>0 DEF Request, Keeps, KeepsAll
  <2>3. Commits(r, f) /\ Working(req[r]) /\ req[r].pc # "admitted" /\ req[r].kind = "fulfill_dsr" /\ UNCHANGED <<invites, sub, tokens, keys>> /\ req[r].pc = "ready"
        /\ SetsStatus(r, "fulfilled") /\ queries' = queries \ req[r].found
        /\ users' = [users EXCEPT ![req[r].subject] = [users[req[r].subject] EXCEPT
                        !.active = Column(FALSE, req[r].user.active, users[req[r].subject].active),
                        !.deleted = TRUE, !.email = Redacted]]
    BY <1>7 DEF EraseSubject, Is, Working, notPrivacy, SetsStatus
  <2> HIDE DEF f
  <2>4. Fits(f) /\ f.pc \notin {"idle", "admitted"}
    BY <1>0, <2>1, <2>2, <2>3 DEF Fits, Argued, KeepsAll, Keeps, Working
  <2>5. Moved(r) /\ Committed(r) /\ req'[r].target = f.target /\ req'[r].subject = f.subject
    BY <2>1, <2>2, <2>3, <2>4, CommitsMoves
  <2> QED
    BY <2>1, <2>2, <2>3, <2>5 DEF FulfillEffect, FulfillErases, FulfillCommits
<1> QED
  BY <1>1, <1>2, <1>3, <1>4, <1>5, <1>6, <1>7

----------------------------------------------------------------------------
(* Every step *)

(* What a step of one request does, by endpoint.                            *)
Effect(r) ==
    \/ QuietEffect(r) \/ AskEffect(r) \/ WebhookEffect(r)
    \/ ForgotEffect(r) \/ ResetEffect(r) \/ NewDsrEffect(r) \/ FulfillEffect(r)
    \/ UsersEffect(r) \/ NewInviteEffect(r) \/ LinkEffect(r) \/ AcceptEffect(r)

(* enforce_quota changes no row.                                            *)
LEMMA QuotaEffect ==
    ASSUME TypeOK, NEW r \in Requests, Fits(req[r]),
           ReadPlan(r) \/ CountActive(r) \/ EnforceQuota(r)
    PROVE  Moved(r) /\ Effect(r)
<1>1. /\ Moved(r) /\ Continued(r)
      /\ req[r].kind \in {"create_user", "create_invitation"}
      /\ req'[r].pc \in {"planned", "counted", "cleared"}
  BY QuotaMoves
<1>2. CASE req[r].kind = "create_user"
  BY <1>1, <1>2 DEF Effect, UsersEffect, Continued, tables, TypeOK
<1>3. CASE req[r].kind = "create_invitation"
  BY <1>1, <1>3 DEF Effect, NewInviteEffect, Continued, tables, TypeOK
<1> QED
  BY <1>1, <1>2, <1>3

(* The first statements of Membership.                                      *)
LEMMA BeginsHereEffect ==
    ASSUME TypeOK, NEW r \in Requests, Fits(req[r]), BeginsHere(r)
    PROVE  Moved(r) /\ Effect(r)
<1>1. ASSUME NEW a \in Managers, NEW e \in Emails, NEW role \in Roles,
             AdmitCreateUser(r, a, e, role) \/ AdmitCreateInvitation(r, a, e, role)
      PROVE  Moved(r) /\ Effect(r)
  BY <1>1, UsersMove, NewInviteMoves DEF Effect
<1>2. ASSUME NEW a \in Managers, NEW u \in Users, NEW p \in Patches,
             AdmitUpdateUser(r, a, u, p[1], p[2])
      PROVE  Moved(r) /\ Effect(r)
  <2>1. p[1] \in Roles \cup {None} /\ p[2] \in BOOLEAN \cup {None}
    BY <1>2, RowsAssumption
  <2> QED
    BY <1>2, <2>1, UsersMove DEF Effect
<1>3. ASSUME NEW a \in Managers, NEW u \in Users, AdmitDeactivateUser(r, a, u)
      PROVE  Moved(r) /\ Effect(r)
  BY <1>3, UsersMove DEF Effect
<1>4. ASSUME NEW a \in Managers, NEW i \in Invites,
             AdmitRegenerate(r, a, i) \/ AdmitRevoke(r, a, i)
      PROVE  Moved(r) /\ Effect(r)
  BY <1>4, LinkMoves DEF Effect
<1>5. ASSUME NEW i \in Invites, LoadForAcceptance(r, i) PROVE Moved(r) /\ Effect(r)
  BY <1>5, AcceptMoves DEF Effect
<1>6. ASSUME NEW event \in SubRow, LoadSubscription(r, event) PROVE Moved(r) /\ Effect(r)
  BY <1>6, WebhookMoves DEF Effect
<1> QED
  BY <1>1, <1>2, <1>3, <1>4, <1>5, <1>6 DEF BeginsHere

(* The other statements of Membership.                                      *)
LEMMA ContinuesHereEffect ==
    ASSUME TypeOK, NEW r \in Requests, Fits(req[r]), ContinuesHere(r)
    PROVE  Moved(r) /\ Effect(r)
<1>1. CASE ReadPlan(r) \/ CountActive(r) \/ EnforceQuota(r)
  BY <1>1, QuotaEffect
<1>2. CASE CreateUser(r) \/ LoadUser(r) \/ UpdateUser(r) \/ DeactivateUser(r)
  BY <1>2, UsersMove DEF Effect
<1>3. CASE CheckNoUser(r) \/ CheckNoInvite(r) \/ CreateInvitation(r)
  BY <1>3, NewInviteMoves DEF Effect
<1>4. CASE LoadInvitation(r) \/ RegenerateToken(r) \/ Revoke(r)
  BY <1>4, LinkMoves DEF Effect
<1>5. CASE CheckAddressFree(r) \/ AcceptInvitation(r)
  BY <1>5, AcceptMoves DEF Effect
<1>6. CASE ApplyWebhookEvent(r)
  BY <1>6, WebhookMoves DEF Effect
<1> QED
  BY <1>1, <1>2, <1>3, <1>4, <1>5, <1>6 DEF ContinuesHere

(* The first statements of Privacy.                                         *)
LEMMA BeginsThereEffect ==
    ASSUME TypeOK, NEW r \in Requests, Fits(req[r]), BeginsThere(r)
    PROVE  Moved(r) /\ Effect(r)
<1>1. ASSUME NEW u \in Users, Login(r, u) \/ RefreshTokens(r, u) PROVE Moved(r) /\ Effect(r)
  BY <1>1, QuietMoves DEF Effect
<1>2. ASSUME NEW u \in Users, LoadAccount(r, u) PROVE Moved(r) /\ Effect(r)
  BY <1>2, ForgotMoves DEF Effect
<1>3. ASSUME NEW u \in Users, AdmitAsk(r, u) PROVE Moved(r) /\ Effect(r)
  BY <1>3, AskMoves DEF Effect
<1>4. ASSUME NEW t \in Tokens, LoadToken(r, t) PROVE Moved(r) /\ Effect(r)
  BY <1>4, ResetMoves DEF Effect
<1>5. ASSUME NEW a \in Managers, NEW u \in Users, AdmitApiKey(r, a, u)
      PROVE  Moved(r) /\ Effect(r)
  BY <1>5, QuietMoves DEF Effect
<1>6. ASSUME NEW a \in Managers, NEW k \in Keys, AdmitRevokeKey(r, a, k)
      PROVE  Moved(r) /\ Effect(r)
  BY <1>6, QuietMoves DEF Effect
<1>7. ASSUME NEW k \in Keys, AdmitToolCall(r, k) PROVE Moved(r) /\ Effect(r)
  BY <1>7, QuietMoves DEF Effect
<1>8. ASSUME NEW a \in Managers, NEW id \in Users \cup {None}, NEW e \in Emails,
             NEW erasure \in BOOLEAN, AdmitCreateDsr(r, a, id, e, erasure)
      PROVE  Moved(r) /\ Effect(r)
  BY <1>8, NewDsrMoves DEF Effect
<1>9. ASSUME NEW a \in Managers, NEW d \in Dsrs, AdmitFulfillDsr(r, a, d)
      PROVE  Moved(r) /\ Effect(r)
  BY <1>9, FulfillMoves DEF Effect
<1> QED
  BY <1>1, <1>2, <1>3, <1>4, <1>5, <1>6, <1>7, <1>8, <1>9 DEF BeginsThere

(* The other statements of Privacy.                                         *)
LEMMA ContinuesThereEffect ==
    ASSUME TypeOK, NEW r \in Requests, Fits(req[r]), ContinuesThere(r)
    PROVE  Moved(r) /\ Effect(r)
<1>1. CASE IssueTokens(r) \/ LoadKeyUser(r) \/ IssueApiKey(r) \/ LoadKey(r)
           \/ RevokeApiKey(r) \/ FinishToolCall(r)
  BY <1>1, QuietMoves DEF Effect
<1>2. CASE RequestReset(r)
  BY <1>2, ForgotMoves DEF Effect
<1>3. CASE LoadTokenUser(r) \/ CompleteReset(r)
  BY <1>3, ResetMoves DEF Effect
<1>4. CASE StoreQuery(r)
  BY <1>4, AskMoves DEF Effect
<1>5. ASSUME NEW u \in Users \cup {None}, ResolveNewSubject(r, u) PROVE Moved(r) /\ Effect(r)
  BY <1>5, NewDsrMoves DEF Effect
<1>6. CASE CreateDsr(r)
  BY <1>6, NewDsrMoves DEF Effect
<1>7. ASSUME NEW u \in Users \cup {None}, ResolveSubject(r, u) PROVE Moved(r) /\ Effect(r)
  BY <1>7, FulfillMoves DEF Effect
<1>8. CASE LoadDsr(r) \/ RejectDsr(r) \/ FulfillExport(r) \/ FindQueries(r) \/ EraseSubject(r)
  BY <1>8, FulfillMoves DEF Effect
<1> QED
  BY <1>1, <1>2, <1>3, <1>4, <1>5, <1>6, <1>7, <1>8 DEF ContinuesThere

(* What a step of a request does.                                           *)
LEMMA StepEffect ==
    ASSUME TypeOK, NEW r \in Requests, Fits(req[r]), MembershipStep(r) \/ PrivacyStep(r)
    PROVE  Moved(r) /\ Effect(r)
  BY BeginsHereEffect, ContinuesHereEffect, BeginsThereEffect, ContinuesThereEffect
     DEF MembershipStep, PrivacyStep

(* What the passing of time does: no row is added, used or accepted by it.  *)
Aged ==
    /\ UNCHANGED <<users, sub, keys, dsrs, queries, req, past, done>>
    /\ tokens' \in [Tokens -> TokenRow] /\ invites' \in [Invites -> InviteRow]
    /\ \A t \in Tokens : tokens'[t].user = tokens[t].user /\ tokens'[t].used = tokens[t].used
    /\ \A i \in Invites : /\ invites'[i].email = invites[i].email
                          /\ invites'[i].status = invites[i].status
                          /\ invites'[i].key = invites[i].key

(* Expiry leaves everything but the expired flags alone.                    *)
LEMMA TimeEffect ==
    ASSUME TypeOK, TimePasses
    PROVE  Aged
<1>1. ASSUME NEW i \in Invites, InviteExpires(i) PROVE Aged
  <2> DEFINE row == [invites[i] EXCEPT !.expired = TRUE]
  <2>1. row \in InviteRow /\ row.email = invites[i].email /\ row.status = invites[i].status
        /\ row.key = invites[i].key
    BY DEF TypeOK, InviteRow
  <2>2. invites' = [invites EXCEPT ![i] = row] /\ UNCHANGED tokens
        /\ UNCHANGED <<users, sub, keys, dsrs, queries, req, past, done>>
    BY <1>1 DEF InviteExpires, notMembership
  <2> HIDE DEF row
  <2> QED
    BY <2>1, <2>2 DEF Aged, TypeOK
<1>2. ASSUME NEW t \in Tokens, TokenExpires(t) PROVE Aged
  <2> DEFINE row == [tokens[t] EXCEPT !.expired = TRUE]
  <2>1. row \in TokenRow /\ row.user = tokens[t].user /\ row.used = tokens[t].used
    BY DEF TypeOK, TokenRow
  <2>2. tokens' = [tokens EXCEPT ![t] = row] /\ UNCHANGED invites
        /\ UNCHANGED <<users, sub, keys, dsrs, queries, req, past, done>>
    BY <1>2 DEF TokenExpires, notPrivacy
  <2> HIDE DEF row
  <2> QED
    BY <2>1, <2>2 DEF Aged, TypeOK
<1> QED
  BY <1>1, <1>2 DEF TimePasses
=============================================================================
