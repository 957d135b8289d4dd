------------------------------ MODULE Accounts ------------------------------
(***************************************************************************)
(* The account endpoints together: any mix of overlapping requests from    *)
(* Membership and Privacy over the same rows.  No row is locked and no     *)
(* transaction is serializable, so most properties say which overlap an    *)
(* anomaly takes: r overlapped s if s committed, but not before r first    *)
(* read.                                                                   *)
(***************************************************************************)
EXTENDS Membership, Privacy

(* Rows that requests made one after the other leave behind.                *)
RowsInit ==
    /\ users \in [Users -> UserRow]
    /\ invites \in [Invites -> InviteRow]
    /\ sub \in SubRow
    /\ tokens \in [Tokens -> TokenRow]
    /\ keys \in [Keys -> KeyRow]
    /\ dsrs \in [Dsrs -> DsrRow]
    /\ queries = {}
    /\ Managers # {}
    /\ \A u \in Users :
          /\ users[u].email = None => users[u] = NoUser
          /\ users[u].email # None => users[u].role # None
          /\ users[u].email = Redacted => users[u].deleted
    /\ \A u, v \in Users : users[u].email = users[v].email => u = v \/ users[u].email \notin Emails
    /\ \A i \in Invites : IF invites[i].email = None THEN invites[i] = NoInvite
                          ELSE invites[i].role # None /\ invites[i].key = None
    /\ \A i, j \in PendingInvites : invites[i].email = invites[j].email => i = j
    /\ \A i \in PendingInvites : ~HasLiveUser(invites[i].email)
    /\ \A t \in Tokens : tokens[t].user # None => Exists(tokens[t].user)
    /\ \A k \in Keys : keys[k].user # None => Exists(keys[k].user)
    /\ \A d \in Dsrs : /\ dsrs[d].status \in {"absent", "received"}
                       /\ dsrs[d].status # "absent" <=> dsrs[d].email # None
                       /\ dsrs[d].subject # None => Exists(dsrs[d].subject)

Init ==
    /\ RowsInit
    /\ req \in [Requests -> {Idle(k) : k \in Kinds}]
    /\ past = [r \in Requests |-> {}]
    /\ done = {}

TimePasses ==
    \/ \E i \in Invites : InviteExpires(i)
    \/ \E t \in Tokens : TokenExpires(t)

Next == (\E r \in Requests : MembershipStep(r) \/ PrivacyStep(r)) \/ TimePasses

Spec == Init /\ [][Next]_vars

----------------------------------------------------------------------------
(* Properties *)

Done(kind) == {r \in done : req[r].kind = kind}

(* The requests r did not see: they committed after its first statement.    *)
Missed(r) == done \ (past[r] \cup {r})

(* Neither of two committed requests saw the other.                         *)
Overlapped(r, s) == r \notin past[s] /\ s \notin past[r]

SeatTakers == Done("create_user") \cup Done("create_invitation") \cup Done("accept_invite")
              \cup {r \in Done("update_user") : req[r].active = TRUE}

(* A user or an invitation that passed the seat check fits the plan of the  *)
(* moment it commits, unless it missed a request that takes a seat or       *)
(* changes the plan - not even the two counts, taken one after the other,   *)
(* let it through otherwise (enforce_quota).                               *)
FitsPlan(r) ==
    LET limit == SeatLimit[PlanFor(sub'.plan)] IN
    req[r].kind \in {"create_user", "create_invitation"} /\ r \in done' \ done =>
        \/ limit = None \/ Seats' <= limit
        \/ Missed(r) \cap (SeatTakers \cup Done("webhook")) # {}

SeatsFitUnlessMissed == [][\A r \in Requests : FitsPlan(r)]_vars

(* A committed request that takes user u out of the managers, or may have.  *)
Demotes(r, u) == req[r].kind = "update_user" /\ req[r].target = u /\ req[r].role # None

Erases(r, u) == req[r].kind = "fulfill_dsr" /\ req[r].saw.erasure /\ req[r].subject = u

Removes(r, u) ==
    \/ Demotes(r, u) \/ Erases(r, u)
    \/ req[r].kind \in {"update_user", "deactivate_user"} /\ req[r].target = u

(* A tenant that has no manager left, and that nobody can administer any    *)
(* more, lost its last one by that manager's own request - a demotion or an *)
(* erasure, not a deactivation -, or by one that overlapped with the        *)
(* removal of the manager who made it.                                     *)
ManagerLeft ==
    Managers = {} => \E r \in done :
        \/ Demotes(r, req[r].actor) \/ Erases(r, req[r].actor)
        \/ \E s \in Missed(r), u \in Users : Removes(r, u) /\ Removes(s, req[r].actor)

(* An invitation is accepted as it was verified - pending, and with the key *)
(* that was presented - unless a revocation, a new key or another           *)
(* acceptance of it came in between (accept_invitation).                    *)
AcceptsWhatItSaw(r) ==
    LET i == req[r].target IN
    req[r].kind = "accept_invite" /\ r \in done' \ done =>
        \/ invites[i].status = "pending" /\ invites[i].key = req[r].saw.key
        \/ \E s \in Missed(r) : req[s].target = i

AcceptedAsVerified == [][\A r \in Requests : AcceptsWhatItSaw(r)]_vars

(* "One live invite per email is enforced in the service": two pending      *)
(* invitations of one address come from requests that overlapped.           *)
OneLiveInvite ==
    \A i, j \in PendingInvites : i # j /\ invites[i].email = invites[j].email =>
        \E r, s \in Done("create_invitation") :
            r # s /\ Overlapped(r, s) /\ {req[r].email, req[s].email} = {invites[i].email}

(* An invitation still reserves a seat for someone who is a member already, *)
(* and so could not accept it, only if that member was created directly     *)
(* - create_user does not look at invitations -, or joined by another       *)
(* invitation, or if the invitation missed how they joined.                 *)
MembersAreNotInvited ==
    \A i \in PendingInvites : HasLiveUser(invites[i].email) =>
        \/ \E r \in Done("create_user") : req[r].email = invites[i].email
        \/ \E r \in Done("accept_invite") :
              req[r].target # i /\ req[r].saw.email = invites[i].email

(* Once the events of the provider are applied, plan and status are those   *)
(* of one event, the last: unless events overlapped, when columns of two    *)
(* may mix (apply_webhook_event).                                          *)
SubscriptionIsLastEvent ==
    \A r \in Done("webhook") : Done("webhook") \subseteq past[r] \cup {r} => sub = req[r].event

(* "Single-use": two passwords are set with one token only by requests that *)
(* both read it before either had marked it (complete_reset).              *)
TokenUsedOnce ==
    \A r, s \in Done("reset_password") :
        r # s /\ req[r].target = req[s].target => Overlapped(r, s)

Erasures == {r \in Done("fulfill_dsr") : req[r].saw.erasure /\ req[r].subject # None}

(* An erased user stays erased, whatever requests loaded the row before:    *)
(* updates write only the columns they change (erase_subject).             *)
ErasureSticks ==
    \A r \in Erasures : users[req[r].subject].email = Redacted /\ users[req[r].subject].deleted

(* What an erased user asked is gone, unless the question and the erasure   *)
(* overlapped.                                                             *)
ErasedDataIsGone ==
    \A r \in Erasures : \A k \in queries :
        req[k].actor = req[r].subject => Overlapped(k, r)

(* Nothing is done in the name of an erased user any more: no session, no   *)
(* API key and no reset token of theirs passes once the erasure committed - *)
(* not even when a reactivation that overlapped left the row active.        *)
ErasedCannotAct ==
    \A r \in Erasures, s \in done : r \in past[s] =>
        /\ req[s].actor # req[r].subject
        /\ req[s].kind \in {"reset_password", "forgot_password"} => req[s].subject # req[r].subject

(* A data subject request that was fulfilled is not taken up again - except *)
(* that one who overlapped with the fulfilment, and found no such person,  *)
(* may record a rejection over it, which opens it again (fulfill_dsr).      *)
FulfilledOnce ==
    \A r, s \in Done("fulfill_dsr") :
        r # s /\ req[r].target = req[s].target /\ req[r].subject # None /\ r \in past[s] =>
            \E t \in Done("fulfill_dsr") :
                req[t].target = req[r].target /\ req[t].subject = None /\ r \notin past[t]
=============================================================================
