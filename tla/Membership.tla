----------------------------- MODULE Membership -----------------------------
(***************************************************************************)
(* Who belongs to a tenant and what it pays for: the user and invitation   *)
(* endpoints (api/v1/admin.py, invitation_service.py), the seat limit of   *)
(* the plan and the provider's webhook (billing_service.py).  Billing is   *)
(* taken to be enabled: the check does nothing otherwise.                  *)
(***************************************************************************)
EXTENDS AccountState

notMembership == <<tokens, keys, dsrs, queries>>

----------------------------------------------------------------------------
(* enforce_quota(db, tenant_id, "seats"): the subscription, the count of    *)
(* active users and the count of pending invitations are three statements.  *)

ReadPlan(r) ==
    /\ req[r].kind \in {"create_user", "create_invitation"}
    /\ req[r].pc = "admitted"
    /\ req[r].kind = "create_user" => ~Taken(req[r].email)
    /\ Continues(r, [req[r] EXCEPT !.pc = "planned", !.plan = PlanFor(sub.plan)])
    /\ UNCHANGED tables

CountActive(r) ==
    /\ req[r].pc = "planned"
    /\ SeatLimit[req[r].plan] # None
    /\ Continues(r, [req[r] EXCEPT !.pc = "counted", !.counted = ActiveUsers])
    /\ UNCHANGED tables

(* Variant: the limit itself is let through. *)
EnforceQuotaLate(r) ==
    LET all == req[r].counted \cup PendingInvites IN
    /\ \/ req[r].pc = "planned" /\ SeatLimit[req[r].plan] = None
       \/ req[r].pc = "counted" /\ Cardinality(all) <= SeatLimit[req[r].plan]
    /\ Continues(r, [req[r] EXCEPT !.pc = "cleared", !.counted = all])
    /\ UNCHANGED tables

EnforceQuota(r) ==
    LET all == req[r].counted \cup PendingInvites IN
    /\ \/ req[r].pc = "planned" /\ SeatLimit[req[r].plan] = None
       \/ req[r].pc = "counted" /\ Cardinality(all) < SeatLimit[req[r].plan]
    /\ Continues(r, [req[r] EXCEPT !.pc = "cleared", !.counted = all])
    /\ UNCHANGED tables

----------------------------------------------------------------------------
(* Users *)

AdmitCreateUser(r, a, e, role) ==
    /\ Admits(r, "create_user", a, [req[r] EXCEPT !.email = e, !.role = role])
    /\ UNCHANGED tables

(* The INSERT fails on an address that was taken meanwhile.                 *)
CreateUser(r) ==
    /\ Is(r, "create_user", "cleared")
    /\ ~Taken(req[r].email)
    /\ \E u \in Users :
          /\ users[u] = NoUser
          /\ users' = [users EXCEPT ![u] = [email |-> req[r].email, role |-> req[r].role,
                                            active |-> TRUE, deleted |-> FALSE]]
          /\ Commits(r, [req[r] EXCEPT !.target = u])
    /\ UNCHANGED <<invites, sub, notMembership>>

(* The ids in a path are of rows that exist; others are refused.            *)
AdmitUpdateUser(r, a, u, role, active) ==
    /\ Exists(u)
    /\ Admits(r, "update_user", a, [req[r] EXCEPT !.target = u, !.role = role, !.active = active])
    /\ UNCHANGED tables

AdmitDeactivateUser(r, a, u) ==
    /\ Exists(u)
    /\ Admits(r, "deactivate_user", a, [req[r] EXCEPT !.target = u])
    /\ UNCHANGED tables

(* Variant: the check of the own account is left out. *)
LoadUserAny(r) ==
    LET q == req[r] IN
    /\ q.kind \in {"update_user", "deactivate_user"} /\ q.pc = "admitted"
    /\ ~users[q.target].deleted
    /\ Continues(r, [q EXCEPT !.pc = "ready", !.user = users[q.target]])
    /\ UNCHANGED tables

(* _load_tenant_user, a SELECT of its own: nothing keeps the row the gate   *)
(* loaded.  Nobody may deactivate their own account.                       *)
LoadUser(r) ==
    LET q == req[r] IN
    /\ q.kind \in {"update_user", "deactivate_user"} /\ q.pc = "admitted"
    /\ ~users[q.target].deleted
    /\ q.kind = "deactivate_user" \/ q.active = FALSE => q.target # q.actor
    /\ Continues(r, [q EXCEPT !.pc = "ready", !.user = users[q.target]])
    /\ UNCHANGED tables

(* Variant: every column of the loaded row is written back. *)
UpdateUserWhole(r) ==
    LET q == req[r] IN
    /\ Is(r, "update_user", "ready")
    /\ users' = [users EXCEPT ![q.target] =
                    [q.user EXCEPT !.role = IF q.role # None THEN q.role ELSE @,
                                   !.active = IF q.active # None THEN q.active ELSE @]]
    /\ Commits(r, q)
    /\ UNCHANGED <<invites, sub, notMembership>>

UpdateUser(r) ==
    LET q == req[r]
        row == users[q.target] IN
    /\ Is(r, "update_user", "ready")
    /\ users' = [users EXCEPT ![q.target] = [row EXCEPT
                    !.role = IF q.role = None THEN row.role
                             ELSE Column(q.role, q.user.role, row.role),
                    !.active = IF q.active = None THEN row.active
                               ELSE Column(q.active, q.user.active, row.active)]]
    /\ Commits(r, q)
    /\ UNCHANGED <<invites, sub, notMembership>>

DeactivateUser(r) ==
    LET q == req[r]
        row == users[q.target] IN
    /\ Is(r, "deactivate_user", "ready")
    /\ users' = [users EXCEPT ![q.target] = [row EXCEPT
                    !.active = Column(FALSE, q.user.active, row.active), !.deleted = TRUE]]
    /\ Commits(r, q)
    /\ UNCHANGED <<invites, sub, notMembership>>

----------------------------------------------------------------------------
(* Invitations *)

AdmitCreateInvitation(r, a, e, role) ==
    /\ Admits(r, "create_invitation", a, [req[r] EXCEPT !.email = e, !.role = role])
    /\ UNCHANGED tables

(* Variant: users that are switched off are overlooked. *)
CheckNoActiveUser(r) ==
    /\ Is(r, "create_invitation", "cleared")
    /\ \A u \in ActiveUsers : users[u].email # req[r].email
    /\ Continues(r, [req[r] EXCEPT !.pc = "loaded"])
    /\ UNCHANGED tables

(* After the seats: no live user of the address, ...                        *)
CheckNoUser(r) ==
    /\ Is(r, "create_invitation", "cleared")
    /\ ~HasLiveUser(req[r].email)
    /\ Continues(r, [req[r] EXCEPT !.pc = "loaded"])
    /\ UNCHANGED tables

(* Variant: the pending invitations are not looked at. *)
CheckNothing(r) ==
    /\ Is(r, "create_invitation", "loaded")
    /\ Continues(r, [req[r] EXCEPT !.pc = "ready"])
    /\ UNCHANGED tables

(* ... and no pending invitation of it.                                     *)
CheckNoInvite(r) ==
    /\ Is(r, "create_invitation", "loaded")
    /\ \A i \in PendingInvites : invites[i].email # req[r].email
    /\ Continues(r, [req[r] EXCEPT !.pc = "ready"])
    /\ UNCHANGED tables

CreateInvitation(r) ==
    /\ Is(r, "create_invitation", "ready")
    /\ \E i \in Invites :
          /\ invites[i] = NoInvite
          /\ invites' = [invites EXCEPT ![i] =
                            [email |-> req[r].email, role |-> req[r].role, key |-> r,
                             status |-> "pending", expired |-> FALSE]]
          /\ Commits(r, [req[r] EXCEPT !.target = i])
    /\ UNCHANGED <<users, sub, notMembership>>

AdmitRegenerate(r, a, i) ==
    /\ invites[i] # NoInvite
    /\ Admits(r, "regenerate_link", a, [req[r] EXCEPT !.target = i])
    /\ UNCHANGED tables

AdmitRevoke(r, a, i) ==
    /\ invites[i] # NoInvite
    /\ Admits(r, "revoke_invitation", a, [req[r] EXCEPT !.target = i])
    /\ UNCHANGED tables

(* Only a pending invitation gets a new key; any may be revoked.            *)
LoadInvitation(r) ==
    LET i == req[r].target IN
    /\ req[r].kind \in {"regenerate_link", "revoke_invitation"} /\ req[r].pc = "admitted"
    /\ req[r].kind = "regenerate_link" => invites[i].status = "pending"
    /\ Continues(r, [req[r] EXCEPT !.pc = "ready", !.saw = invites[i]])
    /\ UNCHANGED tables

RegenerateToken(r) ==
    /\ Is(r, "regenerate_link", "ready")
    /\ invites' = [invites EXCEPT ![req[r].target] = [@ EXCEPT !.key = r]]
    /\ Commits(r, req[r])
    /\ UNCHANGED <<users, sub, notMembership>>

Revoke(r) ==
    LET row == invites[req[r].target] IN
    /\ Is(r, "revoke_invitation", "ready")
    /\ invites' = [invites EXCEPT ![req[r].target] =
                      [row EXCEPT !.status = Column("revoked", req[r].saw.status, row.status)]]
    /\ Commits(r, req[r])
    /\ UNCHANGED <<users, sub, notMembership>>

(* Variant: the invitation is found by its address alone. *)
LoadForAcceptanceAny(r, i) ==
    /\ invites[i].email # None /\ ~invites[i].expired
    /\ Begins(r, "accept_invite", [req[r] EXCEPT !.pc = "loaded", !.target = i,
                                   !.saw = invites[i]])
    /\ UNCHANGED tables

(* A pending invitation of the address, with the key it has at that moment. *)
LoadForAcceptance(r, i) ==
    /\ i \in PendingInvites /\ ~invites[i].expired
    /\ Begins(r, "accept_invite", [req[r] EXCEPT !.pc = "loaded", !.target = i,
                                   !.saw = invites[i]])
    /\ UNCHANGED tables

CheckAddressFree(r) ==
    /\ Is(r, "accept_invite", "loaded")
    /\ ~HasLiveUser(req[r].saw.email)
    /\ Continues(r, [req[r] EXCEPT !.pc = "ready"])
    /\ UNCHANGED tables

(* No seat check: the invitation is taken to hold the seat.                 *)
AcceptInvitation(r) ==
    LET q == req[r] IN
    /\ Is(r, "accept_invite", "ready")
    /\ ~Taken(q.saw.email)
    /\ \E u \in Users :
          /\ users[u] = NoUser
          /\ users' = [users EXCEPT ![u] = [email |-> q.saw.email, role |-> q.saw.role,
                                            active |-> TRUE, deleted |-> FALSE]]
          /\ Commits(r, [q EXCEPT !.subject = u])
    /\ invites' = [invites EXCEPT ![q.target] = [@ EXCEPT !.status = "accepted"]]
    /\ UNCHANGED <<sub, notMembership>>

(* expires_at goes by. *)
InviteExpires(i) ==
    /\ i \in PendingInvites /\ ~invites[i].expired
    /\ invites' = [invites EXCEPT ![i] = [@ EXCEPT !.expired = TRUE]]
    /\ UNCHANGED <<users, sub, notMembership, req, past, done>>

----------------------------------------------------------------------------
(* Billing *)

(* subscription_for.  A tenant that was registered has the row; the branch  *)
(* that inserts a missing one is left out.                                 *)
LoadSubscription(r, event) ==
    /\ Begins(r, "webhook", [req[r] EXCEPT !.pc = "ready", !.event = event, !.saw = sub])
    /\ UNCHANGED tables

(* Variant: an event that does not change the plan is taken for a duplicate. *)
ApplyWebhookOnce(r) ==
    LET e == req[r].event IN
    /\ Is(r, "webhook", "ready")
    /\ sub' = [plan |-> Column(e.plan, req[r].saw.plan, sub.plan),
               status |-> IF e.plan # req[r].saw.plan THEN e.status ELSE sub.status]
    /\ Commits(r, req[r])
    /\ UNCHANGED <<users, invites, notMembership>>

(* Events are taken in the order they arrive, without comparing their       *)
(* times.  The seats column, which no limit reads, is left out.             *)
ApplyWebhookEvent(r) ==
    LET e == req[r].event IN
    /\ Is(r, "webhook", "ready")
    /\ sub' = [plan |-> Column(e.plan, req[r].saw.plan, sub.plan),
               status |-> Column(e.status, req[r].saw.status, sub.status)]
    /\ Commits(r, req[r])
    /\ UNCHANGED <<users, invites, notMembership>>

----------------------------------------------------------------------------
(* The first statement of a request ... *)
BeginsHere(r) ==
    \/ \E a \in Managers, e \in Emails, role \in Roles :
          AdmitCreateUser(r, a, e, role) \/ AdmitCreateInvitation(r, a, e, role)
    \/ \E a \in Managers, u \in Users, p \in Patches : AdmitUpdateUser(r, a, u, p[1], p[2])
    \/ \E a \in Managers, u \in Users : AdmitDeactivateUser(r, a, u)
    \/ \E a \in Managers, i \in Invites : AdmitRegenerate(r, a, i) \/ AdmitRevoke(r, a, i)
    \/ \E i \in Invites : LoadForAcceptance(r, i)
    \/ \E event \in SubRow : LoadSubscription(r, event)

(* ... and the others. *)
ContinuesHere(r) ==
    \/ ReadPlan(r)
    \/ CountActive(r)
    \/ EnforceQuota(r)
    \/ CreateUser(r)
    \/ LoadUser(r)
    \/ UpdateUser(r)
    \/ DeactivateUser(r)
    \/ CheckNoUser(r)
    \/ CheckNoInvite(r)
    \/ CreateInvitation(r)
    \/ LoadInvitation(r)
    \/ RegenerateToken(r)
    \/ Revoke(r)
    \/ CheckAddressFree(r)
    \/ AcceptInvitation(r)
    \/ ApplyWebhookEvent(r)

MembershipStep(r) == IF req[r].pc = "idle" THEN BeginsHere(r) ELSE ContinuesHere(r)
=============================================================================
