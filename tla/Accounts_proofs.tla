-------------------------- MODULE Accounts_proofs --------------------------
(***************************************************************************)
(* Invariants of Accounts, for any number of rows and of requests that     *)
(* overlap in any way.  Accounts_steps says what one step does; here every *)
(* property gets the inductive invariant it follows from.  Last come the   *)
(* two that depend on who is an active member at every moment: the seats   *)
(* of the plan, and the managers.                                          *)
(***************************************************************************)
EXTENDS Accounts_steps, FiniteSetTheorems

(* When a request is done, and what it can have seen.                       *)
Timeline ==
    \A r \in Requests :
        /\ req[r].pc = "done" <=> r \in done
        /\ req[r].pc = "idle" => req[r].actor = None
        /\ past[r] \subseteq done /\ r \notin past[r]

(* All requests fit what they are.                                          *)
AllFit == \A r \in Requests : Fits(req[r])

(* What every other invariant rests on.                                     *)
Base == TypeOK /\ AllFit /\ Timeline

(* A step of a request is one of the three kinds.                           *)
LEMMA EffectPhase ==
    ASSUME NEW r \in Requests, Effect(r)
    PROVE  Begun(r) \/ Continued(r) \/ Committed(r)
  BY DEF Effect, QuietEffect, AskEffect, WebhookEffect, ForgotEffect, ResetEffect,
         NewDsrEffect, UsersEffect, NewInviteEffect, NewInviteCommits, LinkEffect, AcceptEffect,
         FulfillEffect, FulfillBegins, FulfillGoes, FulfillLoads, FulfillResolves, FulfillFinds,
         FulfillCommits, FulfillRejects, FulfillExports, FulfillErases

(* Every step of the specification is a step of one request or time.        *)
LEMMA NextEffect ==
    ASSUME Base, [Next]_vars
    PROVE  (\E r \in Requests : Moved(r) /\ Effect(r)) \/ Aged
<1>1. ASSUME NEW r \in Requests, MembershipStep(r) \/ PrivacyStep(r)
      PROVE  Moved(r) /\ Effect(r)
  BY <1>1, StepEffect DEF Base, AllFit
<1>2. ASSUME TimePasses PROVE Aged
  BY <1>2, TimeEffect DEF Base
<1>3. ASSUME UNCHANGED vars PROVE Aged
  BY <1>3 DEF Base, TypeOK, Aged, vars
<1> QED
  BY <1>1, <1>2, <1>3 DEF Next

(* No endpoint writes anything but rows.                                    *)
LEMMA TablesTyped ==
    ASSUME Base, NEW r \in Requests, Moved(r), Effect(r)
    PROVE  /\ users' \in [Users -> UserRow] /\ invites' \in [Invites -> InviteRow]
           /\ sub' \in SubRow /\ tokens' \in [Tokens -> TokenRow]
           /\ keys' \in [Keys -> KeyRow] /\ dsrs' \in [Dsrs -> DsrRow]
           /\ queries' \subseteq Requests
<1>0. TypeOK /\ Fits(req[r]) /\ req[r] \in Request
  BY DEF Base, AllFit, TypeOK
<1>1. CASE QuietEffect(r)
  BY <1>0, <1>1 DEF TypeOK, QuietEffect
<1>2. CASE AskEffect(r)
  BY <1>0, <1>2 DEF TypeOK, AskEffect
<1>3. CASE WebhookEffect(r)
  <2>1. CASE sub' = sub
    BY <1>0, <1>3, <2>1 DEF TypeOK, WebhookEffect
  <2>2. CASE Committed(r)
    <3>1. req[r].event \in SubRow /\ req[r].saw \in SubRow
      BY <1>0, <1>3, <2>2 DEF Fits, Argued, Committed, Working, WebhookEffect
    <3>2. sub' = [plan |-> Column(req[r].event.plan, req[r].saw.plan, sub.plan),
                  status |-> Column(req[r].event.status, req[r].saw.status, sub.status)]
          \/ sub' = sub
      BY <1>3, <2>2 DEF WebhookEffect
    <3> QED
      BY <1>0, <1>3, <3>1, <3>2 DEF TypeOK, WebhookEffect, SubRow, Column
  <2> QED
    BY <1>3, <2>1, <2>2 DEF WebhookEffect
<1>4. CASE ForgotEffect(r)
  BY <1>0, <1>4 DEF TypeOK, ForgotEffect
<1>5. CASE ResetEffect(r)
  <2>1. [tokens[req[r].target] EXCEPT !.used = TRUE] \in TokenRow \/ req[r].target \notin Tokens
    BY <1>0 DEF TypeOK, TokenRow
  <2> QED
    BY <1>0, <1>5, <2>1 DEF TypeOK, ResetEffect
<1>6. CASE NewDsrEffect(r)
  BY <1>0, <1>6 DEF TypeOK, NewDsrEffect
<1>7. CASE UsersEffect(r)
  BY <1>0, <1>7 DEF TypeOK, UsersEffect
<1>8. CASE NewInviteEffect(r)
  BY <1>0, <1>8 DEF TypeOK, NewInviteEffect
<1>9. CASE LinkEffect(r)
  BY <1>0, <1>9 DEF TypeOK, LinkEffect
<1>10. CASE AcceptEffect(r)
  <2>1. [invites[req[r].target] EXCEPT !.status = "accepted"] \in InviteRow
        \/ req[r].target \notin Invites
    BY <1>0 DEF TypeOK, InviteRow
  <2> QED
    BY <1>0, <1>10, <2>1 DEF TypeOK, AcceptEffect
<1>11. CASE FulfillEffect(r)
  <2>1. ASSUME NEW new \in {"fulfilled", "rejected", dsrs[req[r].target].status}, SetsStatus(r, new)
        PROVE  dsrs' \in [Dsrs -> DsrRow]
    <3>1. [dsrs[req[r].target] EXCEPT !.status = new] \in DsrRow \/ req[r].target \notin Dsrs
      BY <1>0, <2>1 DEF TypeOK, DsrRow
    <3> QED
      BY <1>0, <2>1, <3>1 DEF TypeOK, SetsStatus
  <2>2. CASE FulfillErases(r)
    <3> DEFINE row == [users[req[r].subject] EXCEPT
            !.active = Column(FALSE, req[r].user.active, users[req[r].subject].active),
            !.deleted = TRUE, !.email = Redacted]
    <3>1. row \in UserRow \/ req[r].subject \notin Users
      BY <1>0 DEF TypeOK, UserRow, Column
    <3>2. users' = [users EXCEPT ![req[r].subject] = row]
      BY <2>2 DEF FulfillErases
    <3>3. users' \in [Users -> UserRow]
      BY <1>0, <3>1, <3>2 DEF TypeOK
    <3> HIDE DEF row
    <3>4. dsrs' \in [Dsrs -> DsrRow]
      BY <2>1, <2>2 DEF FulfillErases
    <3> QED
      BY <1>0, <1>11, <2>2, <3>3, <3>4 DEF TypeOK, FulfillEffect, FulfillErases
  <2>3. CASE FulfillExports(r)
    <3>1. dsrs' \in [Dsrs -> DsrRow]
      BY <2>1, <2>3 DEF FulfillExports
    <3> QED
      BY <1>0, <1>11, <2>3, <3>1 DEF TypeOK, FulfillEffect, FulfillExports
  <2>4. CASE FulfillRejects(r)
    <3>1. dsrs' \in [Dsrs -> DsrRow]
      BY <2>1, <2>4 DEF FulfillRejects, Column
    <3> QED
      BY <1>0, <1>11, <2>4, <3>1 DEF TypeOK, FulfillEffect, FulfillRejects
  <2>5. CASE FulfillBegins(r) \/ FulfillLoads(r) \/ FulfillResolves(r) \/ FulfillFinds(r)
    BY <1>0, <1>11, <2>5
       DEF TypeOK, FulfillEffect, FulfillBegins, FulfillLoads, FulfillResolves, FulfillFinds, FulfillGoes
  <2> QED
    BY <1>11, <2>2, <2>3, <2>4, <2>5 DEF FulfillEffect
<1> QED
  BY <1>1, <1>2, <1>3, <1>4, <1>5, <1>6, <1>7, <1>8, <1>9, <1>10, <1>11 DEF Effect

(* The initial states satisfy Base ...                                      *)
LEMMA BaseInit == Init => Base
<1> SUFFICES ASSUME Init PROVE Base
  OBVIOUS
<1>1. ASSUME NEW k \in Kinds PROVE Idle(k) \in Request /\ Idle(k).pc = "idle" /\ Idle(k).actor = None
  <2>1. NoUser \in UserRow
    BY DEF NoUser, UserRow
  <2>2. None \in Loaded
    BY DEF Loaded
  <2> QED
    BY <2>1, <2>2 DEF Idle, Request
<1>2. \A r \in Requests : req[r] \in Request /\ req[r].pc = "idle" /\ req[r].actor = None
  BY <1>1 DEF Init
<1>3. req \in [Requests -> Request]
  BY <1>1 DEF Init
<1>4. TypeOK
  BY <1>3 DEF Init, RowsInit, TypeOK
<1>5. AllFit
  BY <1>2 DEF AllFit, Fits
<1>6. Timeline
  BY <1>2 DEF Timeline, Init
<1> QED
  BY <1>4, <1>5, <1>6 DEF Base

(* ... every step keeps it ...                                              *)
LEMMA BaseNext == Base /\ [Next]_vars => Base'
<1> SUFFICES ASSUME Base, [Next]_vars PROVE Base'
  OBVIOUS
<1>1. ASSUME NEW r \in Requests, Moved(r), Effect(r) PROVE Base'
  <2>1. Begun(r) \/ Continued(r) \/ Committed(r)
    BY <1>1, EffectPhase
  <2>2. TypeOK'
    <3>1. done' \subseteq Requests
      BY <2>1 DEF Base, TypeOK, Begun, Continued, Committed
    <3> QED
      BY <1>1, <3>1, TablesTyped DEF TypeOK, Moved
  <2>3. AllFit'
    BY <1>1 DEF Base, AllFit, Moved
  <2>4. Timeline'
    BY <1>1, <2>1 DEF Base, Timeline, Moved, Begun, Continued, Committed, Working, Keeps
  <2> QED
    BY <2>2, <2>3, <2>4 DEF Base
<1>2. CASE Aged
  BY <1>2 DEF Base, Aged, TypeOK, AllFit, Timeline
<1> QED
  BY <1>1, <1>2, NextEffect

(* Requests, rows and histories are what their types say, and a request    *)
(* acts on rows of the kind its endpoint is about, at any moment (the       *)
(* account endpoints).                                                     *)
THEOREM AccountsTyped == Spec => []TypeOK
<1>1. Base => TypeOK
  BY DEF Base
<1> QED
  BY BaseInit, BaseNext, <1>1, PTL DEF Spec

(* ... and so it always holds.                                              *)
LEMMA AccountsBase == Spec => []Base
  BY BaseInit, BaseNext, PTL DEF Spec

----------------------------------------------------------------------------
(* Reset tokens *)

(* A token that was spent is marked, and whoever spent it came too late to  *)
(* be seen by anyone else who works with it.                                *)
ResetInv ==
    \A r \in Requests : req[r].kind = "reset_password" /\ req[r].pc # "idle" =>
        /\ tokens[req[r].target].user # None
        /\ r \in done => tokens[req[r].target].used
        /\ \A s \in Done("reset_password") : req[s].target = req[r].target => s \notin past[r]

(* ResetInv is inductive.                                                   *)
LEMMA ResetInvNext == Base /\ ResetInv /\ [Next]_vars => ResetInv'
<1> SUFFICES ASSUME Base, ResetInv, [Next]_vars PROVE ResetInv'
  OBVIOUS
<1>1. ASSUME NEW r \in Requests, Moved(r), Effect(r) PROVE ResetInv'
  <2>0. Timeline /\ TypeOK /\ AllFit /\ done \subseteq Requests
    BY DEF Base, TypeOK
  <2>1. CASE ResetEffect(r)
    <3>1. CASE Begun(r)
      <4>1. /\ tokens' = tokens /\ req'[r].target \in Tokens /\ done' = done
            /\ tokens[req'[r].target].user # None /\ ~tokens[req'[r].target].used
        BY <2>1, <3>1 DEF ResetEffect, Begun, Working, Continued, Committed
      <4> QED
        BY <1>1, <2>0, <2>1, <3>1, <4>1
           DEF ResetInv, Moved, Begun, Working, Timeline, ResetEffect, Done
    <3>2. CASE Continued(r)
      <4>1. tokens' = tokens /\ done' = done /\ req'[r].target = req[r].target
        BY <2>1, <3>2 DEF ResetEffect, Begun, Working, Continued, Committed
      <4> QED
        BY <1>1, <2>0, <2>1, <3>2, <4>1 DEF ResetInv, Moved, Continued, Working, Timeline, Done
    <3>3. CASE Committed(r)
      <4> DEFINE t == req[r].target
      <4>1. /\ done' = done \cup {r} /\ req'[r].target = t
            /\ tokens' = [tokens EXCEPT ![t] = [tokens[t] EXCEPT !.used = TRUE]]
        BY <2>1, <3>3 DEF ResetEffect, Begun, Working, Continued, Committed
      <4>2. t \in Tokens /\ tokens[t] \in TokenRow
        BY <2>0, <2>1, <3>3 DEF AllFit, Fits, Argued, Committed, Working, TypeOK, ResetEffect
      <4>3. /\ tokens'[t].used /\ tokens'[t].user = tokens[t].user
            /\ \A o \in Tokens : o # t => tokens'[o] = tokens[o]
        BY <4>1, <4>2, <2>0 DEF TypeOK, TokenRow
      <4>4. \A s \in Requests : req[s].kind = "reset_password" /\ req[s].pc # "idle" =>
                                   req[s].target \in Tokens
        BY <2>0 DEF AllFit, Fits, Argued
      <4>5. \A s \in Requests : r \notin past'[s] /\ past'[s] = past[s]
        BY <1>1, <2>0, <3>3 DEF Moved, Committed, Timeline, Working
      <4>6. req'[r].pc = "done" /\ req'[r].kind = req[r].kind /\ req[r].kind = "reset_password"
            /\ req[r].pc # "idle" /\ r \notin done
        BY <1>1, <2>0, <2>1, <3>3 DEF ResetEffect, Committed, Moved, Working, Timeline
      <4>7. \A s \in Requests : s # r => req'[s] = req[s]
        BY <1>1 DEF Moved
      <4>8. \A s \in Requests : req'[s].kind = req[s].kind /\ req'[s].target = req[s].target
        BY <4>1, <4>6, <4>7
      <4>9. Done("reset_password")' = Done("reset_password") \cup {r}
        BY <2>0, <4>1, <4>6, <4>8 DEF Done
      <4>10. ASSUME NEW s \in Requests, req'[s].kind = "reset_password", req'[s].pc # "idle"
             PROVE  /\ tokens'[req'[s].target].user # None
                    /\ s \in done' => tokens'[req'[s].target].used
                    /\ \A o \in Done("reset_password")' :
                          req'[o].target = req'[s].target => o \notin past'[s]
        <5>1. req[s].kind = "reset_password" /\ req[s].pc # "idle"
              /\ req'[s].target = req[s].target /\ req[s].target \in Tokens
          BY <4>4, <4>6, <4>7, <4>8, <4>10
        <5>2. /\ tokens[req[s].target].user # None
              /\ s \in done => tokens[req[s].target].used
              /\ \A o \in Done("reset_password") :
                    req[o].target = req[s].target => o \notin past[s]
          BY <5>1 DEF ResetInv
        <5>3. tokens'[req[s].target].user # None
          BY <4>3, <5>1, <5>2
        <5>4. s \in done' => tokens'[req[s].target].used
          BY <4>1, <4>3, <5>1, <5>2
        <5>5. ASSUME NEW o \in Done("reset_password")', req'[o].target = req'[s].target
              PROVE  o \notin past'[s]
          <6>1. CASE o = r
            BY <4>5, <6>1
          <6>2. CASE o \in Done("reset_password")
            BY <2>0, <4>5, <4>8, <5>2, <5>5, <6>2 DEF Done
          <6> QED
            BY <4>9, <5>5, <6>1, <6>2
        <5> QED
          BY <5>1, <5>3, <5>4, <5>5
      <4> QED
        BY <4>10 DEF ResetInv
    <3> QED
      BY <1>1, <3>1, <3>2, <3>3, EffectPhase
  <2>2. CASE ~ResetEffect(r)
    <3>1. req[r].kind # "reset_password" /\ \A t \in Tokens : tokens[t].user # None => tokens'[t] = tokens[t]
      BY <1>1, <2>2 DEF Effect, QuietEffect, AskEffect, WebhookEffect, ForgotEffect, NewDsrEffect,
                        UsersEffect, NewInviteEffect, LinkEffect, AcceptEffect, FulfillEffect
    <3>2. Done("reset_password")' = Done("reset_password")
      BY <1>1, <2>0, <3>1, EffectPhase DEF Done, Moved, Begun, Continued, Committed
    <3>3. \A s \in Requests : req[s].kind = "reset_password" /\ req[s].pc # "idle" => req[s].target \in Tokens
      BY <2>0 DEF AllFit, Fits, Argued
    <3>4. \A s \in Requests : s # r => (s \in done' <=> s \in done)
      BY <1>1, EffectPhase DEF Begun, Continued, Committed
    <3> QED
      BY <1>1, <3>1, <3>2, <3>3, <3>4 DEF ResetInv, Moved, Done
  <2> QED
    BY <2>1, <2>2
<1>2. CASE Aged
  <2>1. \A s \in Requests : req[s].kind = "reset_password" /\ req[s].pc # "idle" => req[s].target \in Tokens
    BY DEF Base, AllFit, Fits, Argued
  <2> QED
    BY <1>2, <2>1 DEF Aged, ResetInv, Done
<1> QED
  BY <1>1, <1>2, NextEffect

(* complete_reset: of two resets with one token, neither can have seen the  *)
(* other; for any number of tokens and of overlapping requests.             *)
THEOREM TokensAreSingleUse == Spec => []TokenUsedOnce
<1>1. Init => ResetInv
  BY DEF Init, ResetInv, Idle
<1>2. Base /\ ResetInv => TokenUsedOnce
  BY DEF Base, TypeOK, Timeline, ResetInv, TokenUsedOnce, Done, Overlapped
<1> QED
  BY AccountsBase, ResetInvNext, <1>1, <1>2, PTL DEF Spec

----------------------------------------------------------------------------
(* The subscription *)

(* A webhook that saw all that were applied holds the row as it is.         *)
WebhookInv ==
    \A r \in Requests : req[r].kind = "webhook" =>
        /\ Working(req[r]) /\ Done("webhook") \subseteq past[r] => req[r].saw = sub
        /\ r \in done /\ Done("webhook") \subseteq past[r] \cup {r} => sub = req[r].event

(* WebhookInv is inductive.                                                 *)
LEMMA WebhookInvNext == Base /\ WebhookInv /\ [Next]_vars => WebhookInv'
<1> SUFFICES ASSUME Base, WebhookInv, [Next]_vars PROVE WebhookInv'
  OBVIOUS
<1>1. ASSUME NEW r \in Requests, Moved(r), Effect(r) PROVE WebhookInv'
  <2>0. Timeline /\ TypeOK /\ AllFit /\ done \subseteq Requests
    BY DEF Base, TypeOK
  <2>1. \A s \in Requests : s # r => req'[s] = req[s] /\ past'[s] = past[s]
    BY <1>1 DEF Moved
  <2>2. CASE WebhookEffect(r)
    <3>1. CASE Begun(r)
      <4>1. /\ sub' = sub /\ done' = done /\ req'[r].saw = sub /\ req'[r].pc # "done"
            /\ req'[r].kind = "webhook" /\ r \notin done
        BY <1>1, <2>0, <2>2, <3>1
           DEF WebhookEffect, Begun, Working, Committed, Moved, Timeline
      <4>2. Done("webhook")' = Done("webhook")
        BY <2>0, <2>1, <4>1 DEF Done
      <4> QED
        BY <2>1, <4>1, <4>2 DEF WebhookInv
    <3>2. CASE Committed(r)
      <4>1. /\ done' = done \cup {r} /\ req[r].kind = "webhook" /\ req'[r].kind = "webhook"
            /\ req'[r].event = req[r].event /\ past'[r] = past[r] /\ Working(req[r])
            /\ ~Working(req'[r]) /\ r \notin done
        BY <1>1, <2>0, <2>2, <3>2
           DEF WebhookEffect, Committed, KeepsAll, Keeps, Moved, Timeline, Working
      <4>2. Done("webhook")' = Done("webhook") \cup {r}
        BY <2>0, <2>1, <4>1 DEF Done
      <4>3. ASSUME Done("webhook") \subseteq past[r] PROVE sub' = req[r].event
        <5>1. req[r].saw = sub
          BY <4>1, <4>3 DEF WebhookInv
        <5>2. req[r].event \in SubRow /\ sub \in SubRow
          BY <2>0, <4>1 DEF AllFit, Fits, Argued, Working, TypeOK
        <5>3. sub' = [plan |-> Column(req[r].event.plan, sub.plan, sub.plan),
                      status |-> Column(req[r].event.status, sub.status, sub.status)]
          BY <2>2, <3>2, <5>1 DEF WebhookEffect, Begun, Committed, Working
        <5> QED
          BY <5>2, <5>3 DEF Column, SubRow
      <4>4. \A s \in Requests : r \notin past'[s]
        BY <2>0, <2>1, <4>1 DEF Timeline
      <4>5. r \notin Done("webhook")
        BY <4>1 DEF Done
      <4> QED
        BY <2>1, <4>1, <4>2, <4>3, <4>4, <4>5 DEF WebhookInv
    <3> QED
      BY <2>2, <3>1, <3>2 DEF WebhookEffect
  <2>3. CASE ~WebhookEffect(r)
    <3>1. req[r].kind # "webhook" /\ sub' = sub
      BY <1>1, <2>3 DEF Effect, QuietEffect, AskEffect, ForgotEffect, ResetEffect, NewDsrEffect,
                        UsersEffect, NewInviteEffect, LinkEffect, AcceptEffect, FulfillEffect
    <3>2. Done("webhook")' = Done("webhook")
      BY <1>1, <2>0, <3>1, EffectPhase DEF Done, Moved, Begun, Continued, Committed
    <3>3. \A s \in Requests : s # r => (s \in done' <=> s \in done)
      BY <1>1, EffectPhase DEF Begun, Continued, Committed
    <3>4. req'[r].kind # "webhook"
      BY <1>1, <3>1 DEF Moved
    <3> QED
      BY <2>1, <3>1, <3>2, <3>3, <3>4 DEF WebhookInv
  <2> QED
    BY <2>2, <2>3
<1>2. CASE Aged
  BY <1>2 DEF Aged, WebhookInv, Done
<1> QED
  BY <1>1, <1>2, NextEffect

(* apply_webhook_event: without an overlap, the row is the last event, not  *)
(* a mixture of two.                                                       *)
THEOREM SubscriptionFollowsEvents == Spec => []SubscriptionIsLastEvent
<1>1. Init => WebhookInv
  BY DEF Init, WebhookInv, Idle, Working, Done
<1>2. Base /\ WebhookInv => SubscriptionIsLastEvent
  BY DEF Base, TypeOK, WebhookInv, SubscriptionIsLastEvent, Done
<1> QED
  BY AccountsBase, WebhookInvNext, <1>1, <1>2, PTL DEF Spec

----------------------------------------------------------------------------
(* Data subject requests *)

(* Request r is not done before the step, nobody has seen it, and the       *)
(* others stand still.                                                     *)
LEMMA OthersStand ==
    ASSUME Base, NEW r \in Requests, Moved(r), Effect(r)
    PROVE  /\ r \notin done /\ (done' = done \/ (done' = done \cup {r} /\ Committed(r)))
           /\ \A s \in Requests : r \notin past'[s] /\ past'[s] \subseteq done
           /\ \A s \in Requests : s # r => req'[s] = req[s] /\ past'[s] = past[s]
           /\ req'[r].kind = req[r].kind
  BY EffectPhase DEF Base, Timeline, Moved, Begun, Continued, Committed, Working

(* t recorded a rejection over the fulfilment by r, which it did not see.   *)
Reopens(t, r) ==
    /\ t \in Done("fulfill_dsr") /\ req[t].target = req[r].target
    /\ req[t].subject = None /\ r \notin past[t]

(* No fulfilment follows one it saw, unless a rejection reopened that.      *)
FulfillInv ==
    /\ \A s \in Requests : req[s].kind = "fulfill_dsr" /\ req[s].pc # "idle" =>
          dsrs[req[s].target].status # "absent"
    /\ \A r \in Done("fulfill_dsr") : req[r].subject # None =>
          /\ \/ dsrs[req[r].target].status = "fulfilled"
             \/ \E t \in Requests : Reopens(t, r)
          /\ \A s \in Requests :
                /\ s # r /\ req[s].kind = "fulfill_dsr" /\ req[s].pc \notin {"idle", "admitted"}
                /\ req[s].target = req[r].target /\ r \in past[s]
                => \E t \in Requests : Reopens(t, r)

(* What a fulfilment does to its own row.                                   *)
LEMMA FulfillRow ==
    ASSUME Base, NEW r \in Requests, Moved(r), FulfillEffect(r)
    PROVE  \/ /\ Begun(r) /\ dsrs' = dsrs /\ req'[r].pc = "admitted"
              /\ dsrs[req'[r].target].status # "absent"
           \/ /\ Continued(r) /\ dsrs' = dsrs /\ req'[r].target = req[r].target
              /\ \/ req[r].pc # "admitted"
                 \/ dsrs[req[r].target].status # "fulfilled"
           \/ /\ Committed(r) /\ req'[r].target = req[r].target /\ req[r].pc # "admitted"
              /\ req'[r].subject = req[r].subject /\ req[r].target \in Dsrs
              /\ \A d \in Dsrs : d # req[r].target => dsrs'[d] = dsrs[d]
              /\ dsrs[req[r].target].status # "absent" => dsrs'[req[r].target].status # "absent"
              /\ req[r].subject # None => dsrs'[req[r].target].status = "fulfilled"
<1>1. CASE FulfillBegins(r)
  BY <1>1 DEF FulfillBegins
<1>2. CASE FulfillLoads(r) \/ FulfillResolves(r) \/ FulfillFinds(r)
  BY <1>2 DEF FulfillLoads, FulfillResolves, FulfillFinds, FulfillGoes
<1>3. ASSUME FulfillRejects(r) \/ FulfillExports(r) \/ FulfillErases(r)
      PROVE  /\ Committed(r) /\ req'[r].target = req[r].target /\ req[r].pc # "admitted"
             /\ req'[r].subject = req[r].subject /\ req[r].target \in Dsrs
             /\ \A d \in Dsrs : d # req[r].target => dsrs'[d] = dsrs[d]
             /\ dsrs[req[r].target].status # "absent" => dsrs'[req[r].target].status # "absent"
             /\ req[r].subject # None => dsrs'[req[r].target].status = "fulfilled"
  <2> DEFINE d == req[r].target
  <2>1. /\ Committed(r) /\ req'[r].target = d /\ req'[r].subject = req[r].subject
        /\ req[r].pc # "admitted"
    BY <1>3 DEF FulfillRejects, FulfillExports, FulfillErases, FulfillCommits
  <2>2. d \in Dsrs /\ dsrs \in [Dsrs -> DsrRow]
    BY <2>1 DEF Base, TypeOK, AllFit, Fits, Argued, Committed, Working, FulfillEffect
  <2>3. PICK new : /\ SetsStatus(r, new)
                   /\ req[r].subject # None => new = "fulfilled"
                   /\ new \in {"fulfilled", "rejected", dsrs[d].status}
    <3>1. CASE FulfillRejects(r)
      BY <3>1 DEF FulfillRejects, Column
    <3>2. CASE FulfillExports(r) \/ FulfillErases(r)
      BY <3>2 DEF FulfillExports, FulfillErases
    <3> QED
      BY <1>3, <3>1, <3>2
  <2> DEFINE row == [dsrs[d] EXCEPT !.status = new]
  <2>4. row.status = new
    BY <2>2 DEF DsrRow
  <2>5. dsrs' = [dsrs EXCEPT ![d] = row]
    BY <2>3 DEF SetsStatus
  <2> HIDE DEF row
  <2>6. dsrs'[d] = row /\ \A o \in Dsrs : o # d => dsrs'[o] = dsrs[o]
    BY <2>2, <2>5
  <2>7. dsrs[d].status # "absent" => dsrs'[d].status # "absent"
    BY <2>3, <2>4, <2>6
  <2>8. req[r].subject # None => dsrs'[d].status = "fulfilled"
    BY <2>3, <2>4, <2>6
  <2> QED
    BY <2>1, <2>2, <2>6, <2>7, <2>8
<1> QED
  BY <1>1, <1>2, <1>3 DEF FulfillEffect

(* FulfillInv is inductive.                                                 *)
LEMMA FulfillInvNext == Base /\ FulfillInv /\ [Next]_vars => FulfillInv'
<1> SUFFICES ASSUME Base, FulfillInv, [Next]_vars PROVE FulfillInv'
  OBVIOUS
<1>0. \A s \in Requests : req[s].kind = "fulfill_dsr" /\ req[s].pc # "idle" => req[s].target \in Dsrs
  BY DEF Base, AllFit, Fits, Argued
<1>1. ASSUME NEW r \in Requests, Moved(r), Effect(r) PROVE FulfillInv'
  <2>0. Timeline /\ TypeOK /\ done \subseteq Requests
    BY DEF Base, TypeOK
  <2>1. /\ r \notin done /\ (done' = done \/ (done' = done \cup {r} /\ Committed(r)))
        /\ \A s \in Requests : r \notin past'[s] /\ past'[s] \subseteq done
        /\ \A s \in Requests : s # r => req'[s] = req[s] /\ past'[s] = past[s]
        /\ req'[r].kind = req[r].kind
    BY <1>1, OthersStand
  <2>2. \A t, s \in Requests : s # r /\ Reopens(t, s) => Reopens(t, s)'
    BY <2>0, <2>1 DEF Reopens, Done
  <2>3. \A s \in Done("fulfill_dsr") : s # r /\ s \in Done("fulfill_dsr")' /\ s \in Requests
    BY <2>0, <2>1 DEF Done
  <2>4. CASE ~FulfillEffect(r)
    <3>1. /\ req[r].kind # "fulfill_dsr"
          /\ \A d \in Dsrs : dsrs[d].status # "absent" => dsrs'[d] = dsrs[d]
      BY <1>1, <2>4 DEF Effect, QuietEffect, AskEffect, WebhookEffect, ForgotEffect, ResetEffect,
                        NewDsrEffect, UsersEffect, NewInviteEffect, LinkEffect, AcceptEffect
    <3>2. Done("fulfill_dsr")' = Done("fulfill_dsr")
      BY <2>0, <2>1, <3>1 DEF Done
    <3>3. \A s \in Requests : req'[s].kind = "fulfill_dsr" => s # r
      BY <2>1, <3>1
    <3>4. \A s \in Requests : req'[s].kind = "fulfill_dsr" /\ req'[s].pc # "idle" =>
             dsrs'[req'[s].target] = dsrs[req[s].target] /\ dsrs[req[s].target].status # "absent"
      BY <1>0, <2>1, <3>1, <3>3 DEF FulfillInv
    <3>5. ASSUME NEW s \in Done("fulfill_dsr"), req[s].subject # None
          PROVE  dsrs'[req'[s].target] = dsrs[req[s].target]
      <4>1. s \in Requests /\ s # r /\ req[s].kind = "fulfill_dsr" /\ req[s].pc = "done"
        BY <2>0, <2>1 DEF Done, Timeline
      <4> QED
        BY <2>1, <3>4, <4>1
    <3> QED
      BY <2>1, <2>2, <2>3, <3>2, <3>3, <3>4, <3>5 DEF FulfillInv
  <2>5. CASE FulfillEffect(r)
    <3>0. req[r].kind = "fulfill_dsr" /\ req'[r].kind = "fulfill_dsr"
      BY <2>1, <2>5 DEF FulfillEffect
    <3>1. CASE /\ Begun(r) /\ dsrs' = dsrs /\ req'[r].pc = "admitted"
               /\ dsrs[req'[r].target].status # "absent"
      <4>1. done' = done /\ Done("fulfill_dsr")' = Done("fulfill_dsr")
        BY <2>0, <2>1, <3>1 DEF Begun, Done
      <4> QED
        BY <2>1, <2>2, <2>3, <3>1, <4>1 DEF FulfillInv
    <3>2. CASE /\ Continued(r) /\ dsrs' = dsrs /\ req'[r].target = req[r].target
               /\ \/ req[r].pc # "admitted"
                  \/ dsrs[req[r].target].status # "fulfilled"
      <4>1. done' = done /\ Done("fulfill_dsr")' = Done("fulfill_dsr") /\ req[r].pc # "idle"
            /\ past'[r] = past[r]
        BY <2>0, <2>1, <3>2 DEF Continued, Done, Working
      <4>2. \A s \in Requests : req'[s].kind = "fulfill_dsr" /\ req'[s].pc # "idle" =>
               dsrs'[req'[s].target].status # "absent"
        BY <2>1, <3>0, <3>2, <4>1 DEF FulfillInv
      <4>3. ASSUME NEW o \in Done("fulfill_dsr"), req[o].subject # None, o \in past[r],
                   req[o].target = req[r].target
            PROVE  \E t \in Requests : Reopens(t, o)
        BY <2>3, <3>0, <3>2, <4>1, <4>3 DEF FulfillInv
      <4> QED
        BY <2>1, <2>2, <2>3, <3>2, <4>1, <4>2, <4>3 DEF FulfillInv
    <3>3. CASE /\ Committed(r) /\ req'[r].target = req[r].target /\ req[r].pc # "admitted"
               /\ req'[r].subject = req[r].subject /\ req[r].target \in Dsrs
               /\ \A d \in Dsrs : d # req[r].target => dsrs'[d] = dsrs[d]
               /\ dsrs[req[r].target].status # "absent" => dsrs'[req[r].target].status # "absent"
               /\ req[r].subject # None => dsrs'[req[r].target].status = "fulfilled"
      <4>1. /\ done' = done \cup {r} /\ Done("fulfill_dsr")' = Done("fulfill_dsr") \cup {r}
            /\ req[r].pc # "idle" /\ past'[r] = past[r] /\ req'[r].pc = "done"
        BY <2>0, <2>1, <3>0, <3>3 DEF Committed, Done, Working
      <4>2. \A s \in Requests : req'[s].kind = "fulfill_dsr" /\ req'[s].pc # "idle" =>
               dsrs'[req'[s].target].status # "absent"
        BY <1>0, <2>1, <3>0, <3>3, <4>1 DEF FulfillInv
      <4>3. ASSUME NEW o \in Done("fulfill_dsr"), req[o].subject # None
            PROVE  \/ dsrs'[req'[o].target].status = "fulfilled"
                   \/ \E t \in Requests : Reopens(t, o)'
        <5>1. o \in Requests /\ o # r /\ req'[o] = req[o] /\ req[o].target \in Dsrs
          BY <1>0, <2>0, <2>1, <2>3 DEF Done, Timeline
        <5>2. CASE \E t \in Requests : Reopens(t, o)
          BY <2>2, <5>1, <5>2
        <5>3. CASE dsrs[req[o].target].status = "fulfilled" /\ ~\E t \in Requests : Reopens(t, o)
          <6>1. CASE req[o].target # req[r].target
            BY <3>3, <5>1, <5>3, <6>1
          <6>2. CASE req[o].target = req[r].target /\ req[r].subject # None
            BY <3>3, <5>1, <6>2
          <6>3. CASE req[o].target = req[r].target /\ req[r].subject = None
            <7>1. o \notin past[r]
              BY <3>0, <3>3, <4>1, <4>3, <5>1, <5>3, <6>3 DEF FulfillInv
            <7> QED
              BY <3>3, <4>1, <5>1, <6>3, <7>1 DEF Reopens
          <6> QED
            BY <6>1, <6>2, <6>3
        <5> QED
          BY <4>3, <5>2, <5>3 DEF FulfillInv
      <4>4. ASSUME NEW o \in Done("fulfill_dsr"), req[o].subject # None, NEW s \in Requests,
                   s # o, req'[s].kind = "fulfill_dsr", req'[s].pc \notin {"idle", "admitted"},
                   req'[s].target = req'[o].target, o \in past'[s]
            PROVE  \E t \in Requests : Reopens(t, o)'
        <5>1. o \in Requests /\ o # r /\ req'[o] = req[o]
          BY <2>0, <2>1, <2>3
        <5>2. req[s].kind = "fulfill_dsr" /\ req[s].pc \notin {"idle", "admitted"}
              /\ req[s].target = req[o].target /\ o \in past[s]
          BY <2>1, <3>0, <3>3, <4>1, <4>4, <5>1
        <5> QED
          BY <2>2, <4>4, <5>1, <5>2 DEF FulfillInv
      <4>5. req'[r].subject # None => dsrs'[req'[r].target].status = "fulfilled"
        BY <3>3
      <4>6. \A o \in Done("fulfill_dsr") : req'[o] = req[o] /\ o # r
        BY <2>0, <2>1, <2>3
      <4> QED
        BY <2>1, <4>1, <4>2, <4>3, <4>4, <4>5, <4>6 DEF FulfillInv
    <3> QED
      BY <1>1, <2>5, <3>1, <3>2, <3>3, FulfillRow
  <2> QED
    BY <2>4, <2>5
<1>2. CASE Aged
  <2>1. \A t, s \in Requests : Reopens(t, s)' <=> Reopens(t, s)
    BY <1>2 DEF Aged, Reopens, Done
  <2>2. Done("fulfill_dsr")' = Done("fulfill_dsr") /\ Done("fulfill_dsr") \subseteq Requests
    BY <1>2 DEF Aged, Done, Base, TypeOK
  <2> QED
    BY <1>2, <2>1, <2>2 DEF Aged, FulfillInv
<1> QED
  BY <1>1, <1>2, NextEffect

(* fulfill_dsr: whoever takes up a fulfilled request did not see that, or   *)
(* found it reopened by one who had not seen it either.                     *)
THEOREM FulfilmentsAreFinal == Spec => []FulfilledOnce
<1>1. Init => FulfillInv
  BY DEF Init, FulfillInv, Idle, Done
<1>2. Base /\ FulfillInv => FulfilledOnce
  <2> SUFFICES ASSUME Base, FulfillInv,
                      NEW r \in Done("fulfill_dsr"), NEW s \in Done("fulfill_dsr"),
                      r # s, req[r].target = req[s].target, req[r].subject # None, r \in past[s]
               PROVE  \E t \in Done("fulfill_dsr") :
                         /\ req[t].target = req[r].target /\ req[t].subject = None
                         /\ r \notin past[t]
    BY DEF FulfilledOnce
  <2>1. s \in Requests /\ req[s].kind = "fulfill_dsr" /\ req[s].pc = "done"
    BY DEF Base, TypeOK, Timeline, Done
  <2>2. PICK t \in Requests : Reopens(t, r)
    BY <2>1 DEF FulfillInv
  <2> QED
    BY <2>2 DEF Reopens
<1> QED
  BY AccountsBase, FulfillInvNext, <1>1, <1>2, PTL DEF Spec

----------------------------------------------------------------------------
(* Erasures *)

(* An erasure, once done, stays one; a new one is the request's own.        *)
LEMMA ErasuresStep ==
    ASSUME Base, NEW r \in Requests, Moved(r), Effect(r)
    PROVE  /\ \A s \in Erasures : s \in Requests /\ s # r /\ s \in done
           /\ Erasures' = Erasures \/ (Erasures' = Erasures \cup {r} /\ FulfillErases(r)
                                       /\ req[r].kind = "fulfill_dsr")
<1>1. /\ r \notin done /\ (done' = done \/ (done' = done \cup {r} /\ Committed(r)))
      /\ \A s \in Requests : s # r => req'[s] = req[s]
      /\ req'[r].kind = req[r].kind /\ done \subseteq Requests
  BY OthersStand DEF Base, TypeOK
<1>2. CASE ~FulfillEffect(r)
  <2>1. req[r].kind # "fulfill_dsr"
    BY <1>2 DEF Effect, QuietEffect, AskEffect, WebhookEffect, ForgotEffect, ResetEffect,
                NewDsrEffect, UsersEffect, NewInviteEffect, LinkEffect, AcceptEffect
  <2> QED
    BY <1>1, <2>1 DEF Erasures, Done
<1>3. CASE FulfillErases(r) /\ FulfillEffect(r)
  <2>1. done' = done \cup {r} /\ req[r].kind = "fulfill_dsr"
    BY <1>1, <1>3 DEF FulfillErases, FulfillCommits, Committed, FulfillEffect
  <2> QED
    BY <1>1, <1>3, <2>1 DEF Erasures, Done
<1>4. CASE FulfillRejects(r) \/ FulfillExports(r)
  <2>1. /\ done' = done \cup {r} /\ req'[r].saw = req[r].saw /\ req'[r].subject = req[r].subject
        /\ req[r].subject = None \/ ~req[r].saw.erasure
    BY <1>4 DEF FulfillRejects, FulfillExports, FulfillCommits, Committed, KeepsAll
  <2> QED
    BY <1>1, <2>1 DEF Erasures, Done
<1>5. CASE FulfillBegins(r) \/ FulfillLoads(r) \/ FulfillResolves(r) \/ FulfillFinds(r)
  <2>1. done' = done
    BY <1>5 DEF FulfillBegins, FulfillLoads, FulfillResolves, FulfillFinds, FulfillGoes,
                Begun, Continued
  <2> QED
    BY <1>1, <2>1 DEF Erasures, Done
<1> QED
  BY <1>2, <1>3, <1>4, <1>5 DEF FulfillEffect

(* The row of an erased user.                                               *)
Erased(u) == users[u].email = Redacted /\ users[u].deleted

(* No step brings an erased user back.                                      *)
LEMMA ErasedStays ==
    ASSUME Base, NEW r \in Requests, Moved(r), Effect(r), NEW u \in Users, Erased(u)
    PROVE  Erased(u)'
<1>0. users[u] # NoUser /\ users \in [Users -> UserRow]
  BY RowsAssumption DEF Erased, NoUser, Base, TypeOK
<1>1. CASE UNCHANGED users
  BY <1>1 DEF Erased
<1>2. CASE Shrinks
  BY <1>2 DEF Shrinks, Erased
<1>3. ASSUME NEW e, Joins(e) PROVE Erased(u)'
  BY <1>0, <1>3 DEF Joins, Erased
<1>4. CASE FulfillErases(r)
  <2> DEFINE row == [users[req[r].subject] EXCEPT
          !.active = Column(FALSE, req[r].user.active, users[req[r].subject].active),
          !.deleted = TRUE, !.email = Redacted]
  <2>1. req[r].subject \notin Users \/ (row.deleted /\ row.email = Redacted)
    BY <1>0 DEF UserRow
  <2>2. users' = [users EXCEPT ![req[r].subject] = row]
    BY <1>4 DEF FulfillErases
  <2> HIDE DEF row
  <2> QED
    BY <1>0, <2>1, <2>2 DEF Erased
<1> QED
  BY <1>1, <1>2, <1>3, <1>4
     DEF Effect, QuietEffect, AskEffect, WebhookEffect, ForgotEffect, ResetEffect, NewDsrEffect,
         UsersEffect, NewInviteEffect, LinkEffect, AcceptEffect, FulfillEffect, FulfillBegins,
         FulfillLoads, FulfillResolves, FulfillFinds, FulfillGoes, FulfillRejects, FulfillExports,
         Continued, tables

(* Request s acts for user u, or changes its password.                      *)
ActsFor(s, u) ==
    \/ req[s].actor = u
    \/ /\ req[s].subject = u
       /\ \/ req[s].kind = "reset_password" /\ req[s].pc \in {"ready", "done"}
          \/ req[s].kind = "forgot_password" /\ req[s].pc # "idle"

(* The rows of erased users stay, and nobody who began later acts for them. *)
EraseInv ==
    /\ \A r \in Requests : req[r].kind = "fulfill_dsr" /\ req[r].pc = "ready" =>
          req[r].subject \in Users /\ req[r].saw.erasure
    /\ \A r \in Erasures : /\ req[r].subject \in Users /\ Erased(req[r].subject)
                           /\ \A s \in Requests : r \in past[s] => ~ActsFor(s, req[r].subject)

(* Whoever a step newly acts for was a live user.                           *)
LEMMA ActsForLive ==
    ASSUME Base, NEW r \in Requests, Moved(r), Effect(r), NEW u \in Users,
           ActsFor(r, u)', ~ActsFor(r, u)
    PROVE  Live(u)
<1>1. CASE req'[r].actor = u
  <2>1. CASE Begun(r)
    <3>1. req[r].actor = None
      BY <2>1 DEF Base, Timeline, Begun
    <3>2. u # None
      BY RowsAssumption
    <3> QED
      BY <1>1, <2>1, <3>1, <3>2 DEF Begun, ValidUser
  <2>2. CASE Continued(r) \/ Committed(r)
    BY <1>1, <2>2 DEF Continued, Committed, Keeps, KeepsAll, ActsFor
  <2> QED
    BY <2>1, <2>2, EffectPhase
<1>2. CASE req'[r].actor # u /\ req[r].kind = "reset_password"
  <2>1. ResetEffect(r)
    BY <1>2 DEF Effect, QuietEffect, AskEffect, WebhookEffect, ForgotEffect, NewDsrEffect,
                UsersEffect, NewInviteEffect, LinkEffect, AcceptEffect, FulfillEffect
  <2> QED
    BY <1>2, <2>1 DEF ResetEffect, ActsFor, Moved, Working, Begun, Continued, Committed
<1>3. CASE req'[r].actor # u /\ req[r].kind = "forgot_password"
  <2>1. ForgotEffect(r)
    BY <1>3 DEF Effect, QuietEffect, AskEffect, WebhookEffect, ResetEffect, NewDsrEffect,
                UsersEffect, NewInviteEffect, LinkEffect, AcceptEffect, FulfillEffect
  <2> QED
    BY <1>3, <2>1 DEF ForgotEffect, ActsFor, Moved, Working, Begun, Committed, ValidUser
<1> QED
  BY <1>1, <1>2, <1>3 DEF ActsFor, Moved

(* EraseInv is inductive.                                                   *)
LEMMA EraseInvNext == Base /\ EraseInv /\ [Next]_vars => EraseInv'
<1> SUFFICES ASSUME Base, EraseInv, [Next]_vars PROVE EraseInv'
  OBVIOUS
<1>1. ASSUME NEW r \in Requests, Moved(r), Effect(r) PROVE EraseInv'
  <2>1. /\ r \notin done /\ (done' = done \/ (done' = done \cup {r} /\ Committed(r)))
        /\ \A s \in Requests : r \notin past'[s] /\ past'[s] \subseteq done
        /\ \A s \in Requests : s # r => req'[s] = req[s] /\ past'[s] = past[s]
        /\ req'[r].kind = req[r].kind
    BY <1>1, OthersStand
  <2>2. /\ \A s \in Erasures : s \in Requests /\ s # r /\ s \in done
        /\ Erasures' = Erasures \/ (Erasures' = Erasures \cup {r} /\ FulfillErases(r)
                                    /\ req[r].kind = "fulfill_dsr")
    BY <1>1, ErasuresStep
  <2>3. ASSUME NEW s \in Requests, req'[s].kind = "fulfill_dsr", req'[s].pc = "ready"
        PROVE  req'[s].subject \in Users /\ req'[s].saw.erasure
    <3>1. CASE s # r
      BY <2>1, <2>3, <3>1 DEF EraseInv
    <3>2. CASE s = r
      <4>1. FulfillEffect(r)
        BY <1>1, <2>1, <2>3, <3>2
           DEF Effect, QuietEffect, AskEffect, WebhookEffect, ForgotEffect, ResetEffect,
               NewDsrEffect, UsersEffect, NewInviteEffect, LinkEffect, AcceptEffect
      <4>2. FulfillFinds(r)
        BY <2>3, <3>2, <4>1
           DEF FulfillEffect, FulfillBegins, FulfillLoads, FulfillResolves, FulfillGoes,
               FulfillRejects, FulfillExports, FulfillErases, FulfillCommits, Committed
      <4>3. req[r].subject \in Users \cup {None}
        BY DEF Base, TypeOK, Request
      <4> QED
        BY <3>2, <4>2, <4>3 DEF FulfillFinds
    <3> QED
      BY <3>1, <3>2
  <2>4. ASSUME NEW o \in Erasures'
        PROVE  /\ o \in Requests /\ (req[o].subject \in Users)' /\ Erased(req[o].subject)'
               /\ \A s \in Requests : o \in past'[s] => ~ActsFor(s, req[o].subject)'
    <3>1. CASE o \in Erasures
      <4> DEFINE u == req[o].subject
      <4>1. o \in Requests /\ o # r /\ req'[o] = req[o] /\ u \in Users /\ Erased(u)
        BY <2>1, <2>2, <3>1 DEF EraseInv
      <4>2. users'[u].email = Redacted /\ users'[u].deleted
        BY <1>1, <4>1, ErasedStays DEF Erased
      <4>3. ASSUME NEW s \in Requests, o \in past'[s], ActsFor(s, u)' PROVE FALSE
        <5>1. CASE s # r
          <6>1. ActsFor(s, u)
            BY <2>1, <4>1, <4>3, <5>1 DEF ActsFor
          <6> QED
            BY <2>1, <3>1, <4>3, <5>1, <6>1 DEF EraseInv
        <5>2. CASE s = r
          <6>1. ~ActsFor(r, u)
            <7>1. CASE Begun(r)
              <8>1. req[r].pc = "idle" /\ req[r].actor = None
                BY <7>1 DEF Begun, Base, Timeline
              <8> QED
                BY <4>1, <8>1, RowsAssumption DEF ActsFor
            <7>2. CASE Continued(r) \/ Committed(r)
              BY <3>1, <4>3, <5>2, <7>2 DEF Continued, Committed, EraseInv
            <7> QED
              BY <1>1, <7>1, <7>2, EffectPhase
          <6>2. Live(u)
            BY <1>1, <4>1, <4>3, <5>2, <6>1, ActsForLive
          <6> QED
            BY <4>1, <6>2 DEF Live, Erased
        <5> QED
          BY <5>1, <5>2
      <4>4. (req[o].subject)' = u
        BY <4>1
      <4>5. \A s \in Requests : o \in past'[s] => ~ActsFor(s, req[o].subject)'
        BY <4>3, <4>4 DEF ActsFor
      <4> HIDE DEF u
      <4> QED
        BY <4>1, <4>2, <4>4, <4>5 DEF Erased
    <3>2. CASE o = r /\ FulfillErases(r) /\ req[r].kind = "fulfill_dsr"
      <4> DEFINE u == req[r].subject
                 row == [users[u] EXCEPT
                            !.active = Column(FALSE, req[r].user.active, users[u].active),
                            !.deleted = TRUE, !.email = Redacted]
      <4>1. req'[r].subject = u /\ u \in Users /\ users[u] \in UserRow
        BY <3>2 DEF FulfillErases, FulfillCommits, EraseInv, Base, TypeOK
      <4>2. row.deleted /\ row.email = Redacted
        BY <4>1 DEF UserRow
      <4>3. users' = [users EXCEPT ![u] = row]
        BY <3>2 DEF FulfillErases
      <4> HIDE DEF row
      <4>4. users'[u].email = Redacted /\ users'[u].deleted
        BY <4>1, <4>2, <4>3 DEF Base, TypeOK
      <4> QED
        BY <2>1, <3>2, <4>1, <4>4 DEF Erased
    <3> QED
      BY <2>2, <2>4, <3>1, <3>2
  <2> QED
    BY <2>3, <2>4 DEF EraseInv
<1>2. CASE Aged
  BY <1>2 DEF Aged, EraseInv, Erasures, Done, Erased, ActsFor
<1> QED
  BY <1>1, <1>2, NextEffect

(* Nobody is erased at first.                                               *)
LEMMA EraseInvInit == Init => EraseInv
  BY DEF Init, EraseInv, Idle, Erasures, Done

(* erase_subject: no other request, whatever it loaded before, undoes an    *)
(* erasure.                                                                *)
THEOREM ErasuresStick == Spec => []ErasureSticks
<1>1. EraseInv => ErasureSticks
  BY DEF EraseInv, ErasureSticks, Erased
<1> QED
  BY AccountsBase, EraseInvInit, EraseInvNext, <1>1, PTL DEF Spec

(* get_current_user, api_key_service.authenticate, complete_reset: nothing  *)
(* passes as an erased user, nor sets a password for one.                   *)
THEOREM ErasedUsersCannotAct == Spec => []ErasedCannotAct
<1>1. Base /\ EraseInv => ErasedCannotAct
  <2> SUFFICES ASSUME Base, EraseInv, NEW r \in Erasures, NEW s \in done, r \in past[s]
               PROVE  /\ req[s].actor # req[r].subject
                      /\ req[s].kind \in {"reset_password", "forgot_password"} =>
                            req[s].subject # req[r].subject
    BY DEF ErasedCannotAct
  <2>1. s \in Requests /\ req[s].pc = "done"
    BY DEF Base, TypeOK, Timeline
  <2>2. ~ActsFor(s, req[r].subject)
    BY <2>1 DEF EraseInv
  <2> QED
    BY <2>1, <2>2 DEF ActsFor
<1> QED
  BY AccountsBase, EraseInvInit, EraseInvNext, <1>1, PTL DEF Spec

(* Before it erases, a request has found all that the subject had asked,    *)
(* but for what it could not see; afterwards none of that is left.          *)
DataInv ==
    /\ queries \subseteq done
    /\ \A r \in Requests, k \in queries :
          /\ req[r].kind = "fulfill_dsr" /\ req[r].pc = "ready"
          /\ k \in past[r] /\ req[k].actor = req[r].subject
          => k \in req[r].found
    /\ \A r \in Erasures, k \in queries : req[k].actor = req[r].subject => k \notin past[r]

(* Queries are added by the request that asked, and erasures take theirs.   *)
LEMMA QueriesStep ==
    ASSUME Base, NEW r \in Requests, Moved(r), Effect(r)
    PROVE  \/ queries' \subseteq queries
           \/ queries' = queries \cup {r} /\ done' = done \cup {r} /\ req[r].kind = "ask"
  BY DEF Effect, QuietEffect, AskEffect, WebhookEffect, ForgotEffect, ResetEffect, NewDsrEffect,
         UsersEffect, NewInviteEffect, LinkEffect, AcceptEffect, FulfillEffect, FulfillBegins,
         FulfillLoads, FulfillResolves, FulfillFinds, FulfillGoes, FulfillRejects, FulfillExports,
         FulfillErases, Committed

(* DataInv is inductive.                                                    *)
LEMMA DataInvNext == Base /\ DataInv /\ [Next]_vars => DataInv'
<1> SUFFICES ASSUME Base, DataInv, [Next]_vars PROVE DataInv'
  OBVIOUS
<1>1. ASSUME NEW r \in Requests, Moved(r), Effect(r) PROVE DataInv'
  <2>1. /\ r \notin done /\ (done' = done \/ (done' = done \cup {r} /\ Committed(r)))
        /\ \A s \in Requests : r \notin past'[s] /\ past'[s] \subseteq done
        /\ \A s \in Requests : s # r => req'[s] = req[s] /\ past'[s] = past[s]
        /\ req'[r].kind = req[r].kind /\ done \subseteq Requests
    BY <1>1, OthersStand DEF Base, TypeOK
  <2>2. /\ \A s \in Erasures : s \in Requests /\ s # r /\ s \in done
        /\ Erasures' = Erasures \/ (Erasures' = Erasures \cup {r} /\ FulfillErases(r)
                                    /\ req[r].kind = "fulfill_dsr")
    BY <1>1, ErasuresStep
  <2>3. \/ queries' \subseteq queries
        \/ queries' = queries \cup {r} /\ done' = done \cup {r} /\ req[r].kind = "ask"
    BY <1>1, QueriesStep
  <2>4. queries' \subseteq done'
    BY <2>1, <2>3 DEF DataInv
  <2>5. \A k \in queries' : k \in done => k \in queries /\ k \in Requests /\ k # r /\ req'[k] = req[k]
    BY <2>1, <2>3
  <2>6. ASSUME NEW s \in Requests, NEW k \in queries',
               req'[s].kind = "fulfill_dsr", req'[s].pc = "ready",
               k \in past'[s], req'[k].actor = req'[s].subject
        PROVE  k \in req'[s].found
    <3>1. k \in queries /\ req'[k] = req[k]
      BY <2>1, <2>5, <2>6
    <3>2. CASE s # r
      BY <2>1, <2>6, <3>1, <3>2 DEF DataInv
    <3>3. CASE s = r
      <4>1. FulfillEffect(r)
        BY <1>1, <2>1, <2>6, <3>3
           DEF Effect, QuietEffect, AskEffect, WebhookEffect, ForgotEffect, ResetEffect,
               NewDsrEffect, UsersEffect, NewInviteEffect, LinkEffect, AcceptEffect
      <4>2. FulfillFinds(r)
        BY <2>6, <3>3, <4>1
           DEF FulfillEffect, FulfillBegins, FulfillLoads, FulfillResolves, FulfillGoes,
               FulfillRejects, FulfillExports, FulfillErases, FulfillCommits, Committed
      <4> QED
        BY <2>6, <3>1, <3>3, <4>2 DEF FulfillFinds
    <3> QED
      BY <3>2, <3>3
  <2>7. ASSUME NEW o \in Erasures', NEW k \in queries', req'[k].actor = req'[o].subject
        PROVE  k \notin past'[o]
    <3>1. CASE o \in Erasures
      <4>1. req'[o] = req[o] /\ past'[o] = past[o] /\ o \in Requests
        BY <2>1, <2>2, <3>1
      <4>2. CASE k \in done
        BY <2>5, <2>7, <3>1, <4>1, <4>2 DEF DataInv
      <4>3. CASE k \notin done
        BY <2>1, <4>1, <4>3
      <4> QED
        BY <4>2, <4>3
    <3>2. CASE o = r /\ FulfillErases(r) /\ req[r].kind = "fulfill_dsr"
      <4>1. /\ req'[r].subject = req[r].subject /\ past'[r] = past[r] /\ req[r].pc = "ready"
            /\ queries' = queries \ req[r].found
        BY <3>2 DEF FulfillErases, FulfillCommits, Committed
      <4>2. CASE k \in done
        BY <2>5, <2>7, <3>2, <4>1, <4>2 DEF DataInv
      <4>3. CASE k \notin done
        BY <2>1, <3>2, <4>3
      <4> QED
        BY <4>2, <4>3
    <3> QED
      BY <2>2, <2>7, <3>1, <3>2
  <2> QED
    BY <2>4, <2>6, <2>7 DEF DataInv
<1>2. CASE Aged
  BY <1>2 DEF Aged, DataInv, Erasures, Done
<1> QED
  BY <1>1, <1>2, NextEffect

(* erase_subject: a query of an erased user that is left comes from a       *)
(* question that neither saw the erasure nor was seen by it.                *)
THEOREM ErasedDataGoes == Spec => []ErasedDataIsGone
<1>1. Init => DataInv
  BY DEF Init, RowsInit, DataInv, Erasures, Done, Idle
<1>2. Base /\ EraseInv /\ DataInv => ErasedDataIsGone
  <2> SUFFICES ASSUME Base, EraseInv, DataInv, NEW r \in Erasures, NEW k \in queries,
                      req[k].actor = req[r].subject
               PROVE  Overlapped(k, r)
    BY DEF ErasedDataIsGone
  <2>1. k \in Requests /\ r \in Requests
    BY DEF Base, TypeOK, DataInv, Erasures, Done
  <2>2. r \notin past[k]
    BY <2>1 DEF EraseInv, ActsFor
  <2>3. k \notin past[r]
    BY DEF DataInv
  <2> QED
    BY <2>2, <2>3 DEF Overlapped
<1> QED
  BY AccountsBase, EraseInvInit, EraseInvNext, DataInvNext, <1>1, <1>2, PTL DEF Spec

----------------------------------------------------------------------------
(* Invitations *)

(* While an acceptance works, its invitation is as it was verified, or one  *)
(* that the acceptance missed worked on it.                                 *)
AcceptInv ==
    \A r \in Requests : req[r].kind = "accept_invite" /\ Working(req[r]) =>
        LET i == req[r].target IN
        /\ invites[i].email # None
        /\ \/ invites[i].status = "pending" /\ invites[i].key = req[r].saw.key
           \/ \E s \in Missed(r) : req[s].target = i

(* A step changes status or key of an invitation only if it then becomes    *)
(* done, with that invitation as its target.                                *)
LEMMA InvitesStep ==
    ASSUME Base, NEW r \in Requests, Moved(r), Effect(r), NEW i \in Invites,
           invites[i].email # None
    PROVE  /\ invites'[i].email = invites[i].email
           /\ invites'[i].status = "pending" => invites[i].status = "pending"
           /\ \/ invites'[i].status = invites[i].status /\ invites'[i].key = invites[i].key
              \/ done' = done \cup {r} /\ req'[r].target = i
<1>0. invites \in [Invites -> InviteRow] /\ Fits(req[r])
  BY DEF Base, TypeOK, AllFit
<1>1. CASE UNCHANGED invites
  BY <1>1
<1>2. CASE AcceptEffect(r) /\ ~UNCHANGED invites
  <2> DEFINE t == req[r].target
             row == [invites[t] EXCEPT !.status = "accepted"]
  <2>1. /\ Committed(r) /\ req'[r].target = t /\ invites' = [invites EXCEPT ![t] = row]
        /\ t \in Invites
    BY <1>0, <1>2 DEF AcceptEffect, Fits, Argued, Committed, Working
  <2>2. row.email = invites[t].email /\ row.status = "accepted"
    BY <1>0, <2>1 DEF InviteRow
  <2> HIDE DEF row
  <2> QED
    BY <1>0, <2>1, <2>2 DEF Committed
<1>3. CASE LinkEffect(r) /\ ~UNCHANGED invites
  BY <1>3 DEF LinkEffect, OnlyLinkOf, Committed
<1>4. ASSUME NEW j \in Invites, NewInviteCommits(r, j)
      PROVE  invites'[i] = invites[i]
  BY <1>4, RowsAssumption DEF NewInviteCommits, InviteAppears, NoInvite
<1> QED
  BY <1>1, <1>2, <1>3, <1>4
     DEF Effect, QuietEffect, AskEffect, WebhookEffect, ForgotEffect, ResetEffect, NewDsrEffect,
         UsersEffect, NewInviteEffect, FulfillEffect

(* AcceptInv is inductive.                                                  *)
LEMMA AcceptInvNext == Base /\ AcceptInv /\ [Next]_vars => AcceptInv'
<1> SUFFICES ASSUME Base, AcceptInv, [Next]_vars PROVE AcceptInv'
  OBVIOUS
<1>0. \A s \in Requests : req[s].kind = "accept_invite" /\ Working(req[s]) => req[s].target \in Invites
  BY DEF Base, AllFit, Fits, Argued, Working
<1>1. ASSUME NEW r \in Requests, Moved(r), Effect(r) PROVE AcceptInv'
  <2>1. /\ r \notin done /\ (done' = done \/ (done' = done \cup {r} /\ Committed(r)))
        /\ \A s \in Requests : r \notin past'[s] /\ past'[s] \subseteq done
        /\ \A s \in Requests : s # r => req'[s] = req[s] /\ past'[s] = past[s]
        /\ req'[r].kind = req[r].kind /\ done \subseteq Requests
    BY <1>1, OthersStand DEF Base, TypeOK
  <2>2. SUFFICES ASSUME NEW s \in Requests, req'[s].kind = "accept_invite", Working(req[s])'
                 PROVE  LET i == req'[s].target IN
                        /\ invites'[i].email # None
                        /\ \/ invites'[i].status = "pending" /\ invites'[i].key = req'[s].saw.key
                           \/ \E o \in Missed(s)' : req'[o].target = i
    BY DEF AcceptInv
  <2> DEFINE i == req[s].target
  <2>3. ASSUME req[s].kind = "accept_invite", Working(req[s]), req'[s].target = i,
               req'[s].saw = req[s].saw, past'[s] = past[s], s \notin done
        PROVE  /\ invites'[i].email # None
               /\ \/ invites'[i].status = "pending" /\ invites'[i].key = req'[s].saw.key
                  \/ \E o \in Missed(s)' : req'[o].target = i
    <3>1. i \in Invites /\ invites[i].email # None
      BY <1>0, <2>3 DEF AcceptInv
    <3>2. /\ invites'[i].email = invites[i].email
          /\ \/ invites'[i].status = invites[i].status /\ invites'[i].key = invites[i].key
             \/ done' = done \cup {r} /\ req'[r].target = i
      BY <1>1, <3>1, InvitesStep
    <3>3. CASE r # s /\ done' = done \cup {r} /\ req'[r].target = i
      <4>1. r \in Missed(s)'
        BY <2>1, <2>3, <3>3 DEF Missed
      <4> QED
        BY <3>1, <3>2, <3>3, <4>1
    <3>4. CASE invites'[i].status = invites[i].status /\ invites'[i].key = invites[i].key
      <4>1. ASSUME NEW o \in Missed(s), req[o].target = i
            PROVE  o \in Missed(s)' /\ req'[o].target = i
        BY <2>1, <2>3, <4>1 DEF Missed
      <4> QED
        BY <2>3, <3>1, <3>2, <3>4, <4>1 DEF AcceptInv
    <3>5. r # s \/ done' = done
      BY <2>1, <2>2 DEF Committed, Working
    <3> QED
      BY <3>2, <3>3, <3>4, <3>5, <2>1
  <2>4. CASE s # r
    <3>1. s \notin done
      BY <2>1, <2>2, <2>4 DEF Base, Timeline, Working
    <3> QED
      BY <2>1, <2>2, <2>3, <2>4, <3>1 DEF Working
  <2>5. CASE s = r
    <3>1. AcceptEffect(r)
      BY <1>1, <2>1, <2>2, <2>5
         DEF Effect, QuietEffect, AskEffect, WebhookEffect, ForgotEffect, ResetEffect,
             NewDsrEffect, UsersEffect, NewInviteEffect, LinkEffect, FulfillEffect
    <3>2. CASE Begun(r) /\ UNCHANGED invites /\ req'[r].target \in PendingInvites
               /\ req'[r].saw = invites[req'[r].target]
      BY <2>5, <3>2 DEF PendingInvites
    <3>3. CASE Continued(r) /\ req'[r].target = req[r].target /\ req'[r].saw = req[r].saw
      BY <2>1, <2>2, <2>3, <2>5, <3>3 DEF Continued
    <3>4. CASE Committed(r)
      BY <2>2, <2>5, <3>4 DEF Committed, Working
    <3> QED
      BY <3>1, <3>2, <3>3, <3>4 DEF AcceptEffect
  <2> QED
    BY <2>4, <2>5
<1>2. CASE Aged
  BY <1>0, <1>2 DEF Aged, AcceptInv, Missed, Working
<1> QED
  BY <1>1, <1>2, NextEffect

(* accept_invitation: only what the acceptance missed can have changed the  *)
(* invitation between its verification and its commit.                      *)
THEOREM AcceptancesAreVerified == Spec => AcceptedAsVerified
<1>1. Init => AcceptInv
  BY DEF Init, AcceptInv, Idle, Working
<1>2. Base /\ AcceptInv /\ [Next]_vars => [\A r \in Requests : AcceptsWhatItSaw(r)]_vars
  <2> SUFFICES ASSUME Base, AcceptInv, [Next]_vars, NEW r \in Requests,
                      req[r].kind = "accept_invite", r \in done' \ done
               PROVE  LET i == req[r].target IN
                      \/ invites[i].status = "pending" /\ invites[i].key = req[r].saw.key
                      \/ \E s \in Missed(r) : req[s].target = i
    BY DEF AcceptsWhatItSaw
  <2>1. PICK s \in Requests : Moved(s) /\ Effect(s)
    BY NextEffect DEF Aged
  <2>2. s = r /\ Working(req[r])
    BY <2>1, OthersStand DEF Committed
  <2> QED
    BY <2>2 DEF AcceptInv
<1> QED
  BY AccountsBase, AcceptInvNext, <1>1, <1>2, PTL DEF Spec, AcceptedAsVerified

(* A pending invitation was pending before the step, or was just created.   *)
LEMMA PendingStep ==
    ASSUME Base, NEW r \in Requests, Moved(r), Effect(r), NEW i \in PendingInvites'
    PROVE  /\ i \in Invites
           /\ \/ i \in PendingInvites /\ invites'[i].email = invites[i].email
              \/ NewInviteCommits(r, i) /\ req[r].kind = "create_invitation"
                 /\ invites'[i].email = req[r].email
<1>1. i \in Invites /\ invites'[i].email # None /\ invites'[i].status = "pending"
  BY DEF PendingInvites
<1>2. CASE invites[i].email # None
  BY <1>1, <1>2, InvitesStep DEF PendingInvites
<1>3. CASE invites[i].email = None
  <2>1. CASE AcceptEffect(r) /\ ~UNCHANGED invites
    <3> DEFINE t == req[r].target
               row == [invites[t] EXCEPT !.status = "accepted"]
    <3>1. invites' = [invites EXCEPT ![t] = row] /\ invites \in [Invites -> InviteRow]
      BY <2>1 DEF AcceptEffect, Base, TypeOK
    <3>2. t \in Invites => row.status = "accepted"
      BY <3>1 DEF InviteRow
    <3> HIDE DEF row
    <3> QED
      BY <1>1, <1>3, <3>1, <3>2
  <2>2. CASE LinkEffect(r) /\ ~UNCHANGED invites
    BY <1>1, <1>3, <2>2 DEF LinkEffect, OnlyLinkOf
  <2>3. ASSUME NEW j \in Invites, NewInviteCommits(r, j), req[r].kind = "create_invitation"
        PROVE  NewInviteCommits(r, i) /\ invites'[i].email = req[r].email
    BY <1>1, <1>3, <2>3 DEF NewInviteCommits, InviteAppears
  <2>4. CASE UNCHANGED invites
    BY <1>1, <1>3, <2>4
  <2> QED
    BY <1>1, <2>1, <2>2, <2>3, <2>4
       DEF Effect, QuietEffect, AskEffect, WebhookEffect, ForgotEffect, ResetEffect, NewDsrEffect,
           UsersEffect, NewInviteEffect, FulfillEffect
<1> QED
  BY <1>2, <1>3

Created(r, i) ==
    r \in Done("create_invitation") /\ req[r].target = i /\ req[r].email = invites[i].email

(* A request about to create an invitation could not see those who created  *)
(* the pending ones of its address.                                         *)
PairInv ==
    /\ OneLiveInvite
    /\ \A i \in PendingInvites, s \in Requests :
          /\ req[s].kind = "create_invitation" /\ req[s].pc = "ready"
          /\ req[s].email = invites[i].email
          => \E r \in Requests : Created(r, i) /\ r \notin past[s]

(* PairInv is inductive.                                                    *)
LEMMA PairInvNext == Base /\ PairInv /\ [Next]_vars => PairInv'
<1> SUFFICES ASSUME Base, PairInv, [Next]_vars PROVE PairInv'
  OBVIOUS
<1>1. ASSUME NEW r \in Requests, Moved(r), Effect(r) PROVE PairInv'
  <2>1. /\ r \notin done /\ (done' = done \/ (done' = done \cup {r} /\ Committed(r)))
        /\ \A s \in Requests : r \notin past'[s] /\ past'[s] \subseteq done
        /\ \A s \in Requests : s # r => req'[s] = req[s] /\ past'[s] = past[s]
        /\ req'[r].kind = req[r].kind /\ done \subseteq Requests
    BY <1>1, OthersStand DEF Base, TypeOK
  <2>2. \A s \in Done("create_invitation") :
           s # r /\ s \in Requests /\ s \in Done("create_invitation")' /\ req'[s] = req[s]
           /\ past'[s] = past[s]
    BY <2>1 DEF Done
  <2>3. ASSUME NEW i, NewInviteCommits(r, i), req[r].kind = "create_invitation"
        PROVE  r \in Done("create_invitation")' /\ req'[r].target = i /\ req'[r].email = req[r].email
               /\ past'[r] = past[r] /\ req[r].pc = "ready" /\ invites'[i].email = req[r].email
               /\ req'[r].pc = "done" /\ done' = done \cup {r}
    BY <2>1, <2>3 DEF NewInviteCommits, InviteAppears, Committed, KeepsAll, Keeps, Done
  <2>4. ASSUME NEW i \in PendingInvites', NEW s \in Requests,
               req'[s].kind = "create_invitation", req'[s].pc = "ready",
               req'[s].email = invites'[i].email
        PROVE  \E o \in Requests : Created(o, i)' /\ o \notin past'[s]
    <3>1. CASE NewInviteCommits(r, i) /\ req[r].kind = "create_invitation"
      BY <2>1, <2>3, <3>1 DEF Created
    <3>2. CASE i \in PendingInvites /\ invites'[i].email = invites[i].email
      <4>1. CASE req[s].pc = "ready" /\ req[s].email = req'[s].email /\ past'[s] = past[s]
                 /\ req[s].kind = req'[s].kind
        <5>1. PICK o \in Requests : Created(o, i) /\ o \notin past[s]
          BY <2>4, <3>2, <4>1 DEF PairInv
        <5> QED
          BY <2>2, <3>2, <4>1, <5>1 DEF Created
      <4>2. CASE s # r
        BY <2>1, <2>4, <4>1, <4>2
      <4>3. CASE s = r /\ Continued(r)
        <5>1. NewInviteEffect(r)
          BY <1>1, <2>1, <2>4, <4>3
             DEF Effect, QuietEffect, AskEffect, WebhookEffect, ForgotEffect, ResetEffect,
                 NewDsrEffect, UsersEffect, LinkEffect, AcceptEffect, FulfillEffect
        <5>2. \A k \in PendingInvites : invites[k].email # req[r].email
          BY <2>4, <4>3, <5>1
             DEF NewInviteEffect, NewInviteCommits, Continued, Begun, Committed, Working
        <5> QED
          BY <2>4, <3>2, <4>3, <5>2 DEF Continued, Keeps
      <4>4. CASE s = r /\ Begun(r)
        <5>1. NewInviteEffect(r)
          BY <1>1, <2>1, <2>4, <4>4
             DEF Effect, QuietEffect, AskEffect, WebhookEffect, ForgotEffect, ResetEffect,
                 NewDsrEffect, UsersEffect, LinkEffect, AcceptEffect, FulfillEffect
        <5> QED
          BY <2>4, <4>4, <5>1
             DEF NewInviteEffect, NewInviteCommits, Continued, Begun, Committed, Working
      <4>5. CASE s = r /\ Committed(r)
        BY <2>4, <4>5 DEF Committed
      <4> QED
        BY <1>1, <4>2, <4>3, <4>4, <4>5, EffectPhase
    <3> QED
      BY <1>1, <2>4, <3>1, <3>2, PendingStep
  <2>5. ASSUME NEW i \in PendingInvites', NEW j \in PendingInvites', i # j,
               invites'[i].email = invites'[j].email,
               i \in PendingInvites, invites'[i].email = invites[i].email,
               NewInviteCommits(r, j), req[r].kind = "create_invitation"
        PROVE  \E o \in Done("create_invitation")' :
                  o # r /\ Overlapped(o, r)' /\ req'[o].email = invites'[i].email
                        /\ req'[r].email = invites'[i].email
    <3>1. PICK o \in Requests : Created(o, i) /\ o \notin past[r]
      BY <2>3, <2>5 DEF PairInv
    <3> QED
      BY <2>1, <2>2, <2>3, <2>5, <3>1 DEF Created, Overlapped
  <2>6. ASSUME NEW i \in PendingInvites', NEW j \in PendingInvites', i # j,
               invites'[i].email = invites'[j].email
        PROVE  \E o, s \in Done("create_invitation")' :
                  o # s /\ Overlapped(o, s)' /\ {req'[o].email, req'[s].email} = {invites'[i].email}
    <3>1. CASE /\ i \in PendingInvites /\ invites'[i].email = invites[i].email
               /\ j \in PendingInvites /\ invites'[j].email = invites[j].email
      <4>1. PICK o \in Done("create_invitation"), s \in Done("create_invitation") :
               o # s /\ Overlapped(o, s) /\ {req[o].email, req[s].email} = {invites[i].email}
        BY <2>6, <3>1 DEF PairInv, OneLiveInvite
      <4> QED
        BY <2>2, <3>1, <4>1 DEF Overlapped
    <3>2. CASE /\ i \in PendingInvites /\ invites'[i].email = invites[i].email
               /\ NewInviteCommits(r, j) /\ req[r].kind = "create_invitation"
      <4>1. PICK o \in Done("create_invitation")' :
               o # r /\ Overlapped(o, r)' /\ req'[o].email = invites'[i].email
                     /\ req'[r].email = invites'[i].email
        BY <2>5, <2>6, <3>2
      <4>2. r \in Done("create_invitation")'
        BY <2>3, <3>2
      <4>3. {req'[o].email, req'[r].email} = {invites'[i].email}
        BY <4>1
      <4> QED
        BY <4>1, <4>2, <4>3
    <3>3. CASE /\ j \in PendingInvites /\ invites'[j].email = invites[j].email
               /\ NewInviteCommits(r, i) /\ req[r].kind = "create_invitation"
      <4>1. PICK o \in Done("create_invitation")' :
               o # r /\ Overlapped(o, r)' /\ req'[o].email = invites'[i].email
                     /\ req'[r].email = invites'[i].email
        BY <2>5, <2>6, <3>3
      <4>2. r \in Done("create_invitation")'
        BY <2>3, <3>3
      <4>3. {req'[o].email, req'[r].email} = {invites'[i].email}
        BY <4>1
      <4> QED
        BY <4>1, <4>2, <4>3
    <3>4. CASE NewInviteCommits(r, i) /\ NewInviteCommits(r, j)
      BY <2>6, <3>4 DEF NewInviteCommits
    <3> QED
      BY <1>1, <2>6, <3>1, <3>2, <3>3, <3>4, PendingStep
  <2> QED
    BY <2>4, <2>6 DEF PairInv, OneLiveInvite
<1>2. CASE Aged
  <2>1. PendingInvites' = PendingInvites
    BY <1>2 DEF Aged, PendingInvites
  <2>2. \A i \in PendingInvites : i \in Invites /\ invites'[i].email = invites[i].email
    BY <1>2 DEF Aged, PendingInvites
  <2>3. Done("create_invitation")' = Done("create_invitation") /\ req' = req /\ past' = past
    BY <1>2 DEF Aged, Done
  <2>4. OneLiveInvite'
    BY <2>1, <2>2, <2>3 DEF PairInv, OneLiveInvite, Overlapped
  <2> QED
    BY <2>1, <2>2, <2>3, <2>4 DEF PairInv, Created
<1> QED
  BY <1>1, <1>2, NextEffect

(* create_invitation: only requests that overlapped leave two pending       *)
(* invitations of one address.                                             *)
THEOREM InvitationsAreSingle == Spec => []OneLiveInvite
<1>1. Init => PairInv
  BY DEF Init, RowsInit, PairInv, OneLiveInvite, Idle
<1>2. PairInv => OneLiveInvite
  BY DEF PairInv
<1> QED
  BY AccountsBase, PairInvNext, <1>1, <1>2, PTL DEF Spec

(* Someone has joined with address e, and not by invitation i.              *)
Joined(e, i) ==
    \/ \E r \in Done("create_user") : req[r].email = e
    \/ \E r \in Done("accept_invite") : req[r].target # i /\ req[r].saw.email = e

(* Someone has joined with address e.                                       *)
HasJoined(e) ==
    \/ \E r \in Done("create_user") : req[r].email = e
    \/ \E r \in Done("accept_invite") : req[r].saw.email = e

(* The members are accounted for, also while an invitation is being made;   *)
(* an invitation that is accepted is a row of its own.                      *)
MemberInv ==
    /\ MembersAreNotInvited
    /\ \A r \in Requests : req[r].kind = "accept_invite" /\ req[r].pc # "idle" =>
          invites[req[r].target].email # None
    /\ \A s \in Requests :
          /\ req[s].kind = "create_invitation" /\ req[s].pc \in {"loaded", "ready"}
          /\ HasLiveUser(req[s].email)
          => HasJoined(req[s].email)

(* Whoever has an address that was free joined with it in this step.        *)
LEMMA JoinStep ==
    ASSUME Base, NEW r \in Requests, Moved(r), Effect(r), NEW e \in Emails,
           HasLiveUser(e)', ~HasLiveUser(e)
    PROVE  /\ done' = done \cup {r}
           /\ \/ req[r].kind = "create_user" /\ req'[r].email = e
              \/ req[r].kind = "accept_invite" /\ req'[r].saw.email = e
                 /\ AcceptEffect(r) /\ ~UNCHANGED users
<1>0. users \in [Users -> UserRow] /\ e # None
  BY RowsAssumption DEF Base, TypeOK
<1>1. ~UNCHANGED users
  BY DEF HasLiveUser, Live, Exists
<1>2. ~Shrinks
  BY <1>0 DEF Shrinks, HasLiveUser, Live, Exists
<1>3. ASSUME NEW x, Joins(x) PROVE x = e
  BY <1>3 DEF Joins, HasLiveUser, Live, Exists
<1>4. CASE FulfillErases(r)
  <2> DEFINE u == req[r].subject
             row == [users[u] EXCEPT
                        !.active = Column(FALSE, req[r].user.active, users[u].active),
                        !.deleted = TRUE, !.email = Redacted]
  <2>1. users' = [users EXCEPT ![u] = row]
    BY <1>4 DEF FulfillErases
  <2>2. u \in Users => row.deleted
    BY <1>0 DEF UserRow
  <2> HIDE DEF row
  <2> QED
    BY <1>0, <2>1, <2>2 DEF HasLiveUser, Live, Exists
<1>5. CASE UsersEffect(r)
  BY <1>1, <1>2, <1>3, <1>5 DEF UsersEffect, Committed, KeepsAll, Keeps
<1>6. CASE AcceptEffect(r)
  BY <1>1, <1>3, <1>6 DEF AcceptEffect, Committed, KeepsAll
<1> QED
  BY <1>1, <1>4, <1>5, <1>6
     DEF Effect, QuietEffect, AskEffect, WebhookEffect, ForgotEffect, ResetEffect, NewDsrEffect,
         NewInviteEffect, LinkEffect, FulfillEffect, FulfillBegins, FulfillLoads, FulfillResolves,
         FulfillFinds, FulfillGoes, FulfillRejects, FulfillExports

(* MemberInv is inductive.                                                  *)
LEMMA MemberInvNext == Base /\ MemberInv /\ [Next]_vars => MemberInv'
<1> SUFFICES ASSUME Base, MemberInv, [Next]_vars PROVE MemberInv'
  OBVIOUS
<1>0. /\ \A s \in Requests : req[s].kind = "accept_invite" /\ req[s].pc # "idle" =>
                                req[s].target \in Invites
      /\ \A s \in Requests : req[s].kind = "create_invitation" /\ req[s].pc # "idle" =>
                                req[s].email \in Emails
      /\ \A i \in PendingInvites : i \in Invites /\ invites[i].email \in Emails
  BY DEF Base, TypeOK, AllFit, Fits, Argued, PendingInvites, InviteRow
<1>1. ASSUME NEW r \in Requests, Moved(r), Effect(r) PROVE MemberInv'
  <2>1. /\ r \notin done /\ (done' = done \/ (done' = done \cup {r} /\ Committed(r)))
        /\ \A s \in Requests : s # r => req'[s] = req[s] /\ past'[s] = past[s]
        /\ req'[r].kind = req[r].kind /\ done \subseteq Requests
    BY <1>1, OthersStand DEF Base, TypeOK
  <2>2. /\ \A e, i : Joined(e, i) => Joined(e, i)'
        /\ \A e : HasJoined(e) => HasJoined(e)'
    BY <2>1 DEF Joined, HasJoined, Done
  <2>3. ASSUME NEW e \in Emails, HasLiveUser(e)', ~HasLiveUser(e)
        PROVE  /\ HasJoined(e)'
               /\ \/ \A i \in Invites : Joined(e, i)'
                  \/ /\ req[r].kind = "accept_invite" /\ req'[r].pc = "done"
                     /\ req'[r].target \notin PendingInvites' /\ req'[r].target \in Invites
                     /\ \A i \in Invites : i # req'[r].target => Joined(e, i)'
    <3>1. /\ done' = done \cup {r}
          /\ \/ req[r].kind = "create_user" /\ req'[r].email = e
             \/ req[r].kind = "accept_invite" /\ req'[r].saw.email = e
                /\ AcceptEffect(r) /\ ~UNCHANGED users
      BY <1>1, <2>3, JoinStep
    <3>2. CASE req[r].kind = "create_user" /\ req'[r].email = e
      BY <2>1, <3>1, <3>2 DEF Joined, HasJoined, Done
    <3>3. CASE req[r].kind = "accept_invite" /\ req'[r].saw.email = e
               /\ AcceptEffect(r) /\ ~UNCHANGED users
      <4> DEFINE t == req[r].target
                 row == [invites[t] EXCEPT !.status = "accepted"]
      <4>1. /\ Committed(r) /\ req'[r].target = t /\ t \in Invites
            /\ invites' = [invites EXCEPT ![t] = row] /\ invites[t].email # None
            /\ req'[r].pc = "done"
        BY <1>0, <3>3 DEF AcceptEffect, Committed, Working, MemberInv
      <4>2. row.status = "accepted" /\ invites \in [Invites -> InviteRow]
        BY <4>1 DEF Base, TypeOK, InviteRow
      <4> HIDE DEF row
      <4>3. t \notin PendingInvites'
        BY <4>1, <4>2 DEF PendingInvites
      <4>4. r \in Done("accept_invite")'
        BY <2>1, <3>1, <3>3 DEF Done
      <4>5. \A i \in Invites : i # t => Joined(e, i)'
        BY <3>3, <4>1, <4>4 DEF Joined
      <4>6. HasJoined(e)'
        BY <3>3, <4>4 DEF HasJoined
      <4> QED
        BY <3>3, <4>1, <4>3, <4>5, <4>6
    <3> QED
      BY <3>1, <3>2, <3>3
  <2>4. ASSUME NEW s \in Requests, req'[s].kind = "accept_invite", req'[s].pc # "idle"
        PROVE  invites'[req'[s].target].email # None
    <3>1. CASE req[s].pc # "idle" /\ req[s].kind = "accept_invite" /\ req'[s].target = req[s].target
      <4>1. req[s].target \in Invites /\ invites[req[s].target].email # None
        BY <1>0, <3>1 DEF MemberInv
      <4> QED
        BY <1>1, <3>1, <4>1, InvitesStep
    <3>2. CASE s # r
      BY <2>1, <2>4, <3>1, <3>2
    <3>3. CASE s = r
      <4>1. AcceptEffect(r)
        BY <1>1, <2>1, <2>4, <3>3
           DEF Effect, QuietEffect, AskEffect, WebhookEffect, ForgotEffect, ResetEffect,
               NewDsrEffect, UsersEffect, NewInviteEffect, LinkEffect, FulfillEffect
      <4>2. CASE Begun(r) /\ req'[r].target \in PendingInvites /\ UNCHANGED invites
        BY <3>3, <4>2 DEF PendingInvites
      <4>3. CASE (Continued(r) \/ Committed(r)) /\ req'[r].target = req[r].target
        BY <2>1, <2>4, <3>1, <3>3, <4>3 DEF Continued, Committed, Working
      <4> QED
        BY <4>1, <4>2, <4>3 DEF AcceptEffect
    <3> QED
      BY <3>2, <3>3
  <2>5. ASSUME NEW s \in Requests, NEW e, e = req'[s].email, HasLiveUser(e)',
               req'[s].kind = "create_invitation",
               req'[s].pc \in {"loaded", "ready"}
        PROVE  HasJoined(e)'
    <3>0. e \in Emails
      BY <1>1, <2>1, <2>5, <1>0 DEF Moved, Fits, Argued
    <3>1. CASE ~HasLiveUser(e)
      BY <2>3, <2>5, <3>0, <3>1
    <3>2. CASE HasLiveUser(e) /\ req'[s] = req[s]
      BY <2>2, <2>5, <3>2 DEF MemberInv
    <3>3. CASE HasLiveUser(e) /\ s = r
      <4>1. NewInviteEffect(r)
        BY <1>1, <2>1, <2>5, <3>3
           DEF Effect, QuietEffect, AskEffect, WebhookEffect, ForgotEffect, ResetEffect,
               NewDsrEffect, UsersEffect, LinkEffect, AcceptEffect, FulfillEffect
      <4>2. CASE Begun(r) /\ req'[r].pc = "admitted"
        BY <2>5, <3>3, <4>2
      <4>3. CASE Continued(r) /\ req'[r].pc \notin {"loaded", "ready"}
        BY <2>5, <3>3, <4>3
      <4>4. CASE Continued(r) /\ req'[r].pc = "loaded" /\ ~HasLiveUser(req[r].email)
        BY <2>5, <3>3, <4>4 DEF Continued, Keeps
      <4>5. CASE Continued(r) /\ req[r].pc = "loaded" /\ req'[r].pc = "ready"
        BY <2>1, <2>2, <2>5, <3>3, <4>5 DEF Continued, Keeps, MemberInv
      <4>6. CASE Committed(r)
        BY <2>5, <3>3, <4>6 DEF Committed
      <4> QED
        BY <4>1, <4>2, <4>3, <4>4, <4>5, <4>6 DEF NewInviteEffect, NewInviteCommits
    <3> QED
      BY <2>1, <3>1, <3>2, <3>3
  <2>6. ASSUME NEW i \in PendingInvites', NEW e, e = invites'[i].email, HasLiveUser(e)'
        PROVE  Joined(e, i)'
    <3>0. i \in Invites /\ e \in Emails
      BY <1>1, <2>6, TablesTyped DEF PendingInvites, InviteRow
    <3>1. CASE ~HasLiveUser(e)
      BY <2>3, <2>6, <3>0, <3>1
    <3>2. CASE HasLiveUser(e) /\ i \in PendingInvites /\ e = invites[i].email
      <4>1. Joined(e, i)
        BY <3>2 DEF MemberInv, MembersAreNotInvited, Joined
      <4> QED
        BY <2>2, <4>1
    <3>3. CASE /\ HasLiveUser(e) /\ NewInviteCommits(r, i)
               /\ req[r].kind = "create_invitation" /\ e = req[r].email
      <4>1. HasJoined(e) /\ invites[i].email = None
        BY <3>3 DEF MemberInv, NewInviteCommits, InviteAppears, NoInvite
      <4>2. ASSUME NEW s \in Done("accept_invite") PROVE req[s].target # i
        BY <4>1, <4>2 DEF Base, TypeOK, Timeline, MemberInv, Done
      <4> QED
        BY <2>2, <4>1, <4>2 DEF HasJoined, Joined
    <3> QED
      BY <1>1, <2>6, <3>1, <3>2, <3>3, PendingStep
  <2>7. MembersAreNotInvited'
    BY <2>6 DEF MembersAreNotInvited, Joined
  <2> QED
    BY <2>4, <2>5, <2>7 DEF MemberInv
<1>2. CASE Aged
  <2>1. PendingInvites' = PendingInvites /\ users' = users /\ req' = req /\ done' = done
    BY <1>2 DEF Aged, PendingInvites
  <2>2. \A e : HasLiveUser(e)' = HasLiveUser(e) /\ HasJoined(e)' = HasJoined(e)
    BY <2>1 DEF HasLiveUser, Live, Exists, HasJoined, Done
  <2>3. \A i \in PendingInvites : invites'[i].email = invites[i].email
    BY <1>2 DEF Aged, PendingInvites
  <2>4. MembersAreNotInvited'
    BY <2>1, <2>2, <2>3 DEF MemberInv, MembersAreNotInvited, Done
  <2>5. \A s \in Requests : req'[s].kind = "accept_invite" /\ req'[s].pc # "idle" =>
           invites'[req'[s].target].email # None
    BY <1>0, <1>2, <2>1 DEF Aged, MemberInv
  <2> QED
    BY <2>1, <2>2, <2>4, <2>5 DEF MemberInv
<1> QED
  BY <1>1, <1>2, NextEffect

(* create_user, create_invitation, accept_invitation: a member with a       *)
(* pending invitation was created directly or joined by another one, in     *)
(* whatever order the requests overlap.                                    *)
THEOREM MembersAccountedFor == Spec => []MembersAreNotInvited
<1>1. Init => MemberInv
  BY DEF Init, RowsInit, MemberInv, MembersAreNotInvited, Idle
<1>2. MemberInv => MembersAreNotInvited
  BY DEF MemberInv
<1> QED
  BY AccountsBase, MemberInvNext, <1>1, <1>2, PTL DEF Spec

----------------------------------------------------------------------------
(* Seats and managers *)

(* A step of request r. *)
StepOf(r) == Moved(r) /\ Effect(r) /\ (MembershipStep(r) \/ PrivacyStep(r))

(* Every step of the specification is a step of one request or time.        *)
LEMMA NextStep ==
    ASSUME Base, [Next]_vars
    PROVE  (\E r \in Requests : StepOf(r)) \/ Aged
<1>1. ASSUME NEW r \in Requests, MembershipStep(r) \/ PrivacyStep(r) PROVE StepOf(r)
  BY <1>1, StepEffect DEF Base, AllFit, StepOf
<1>2. ASSUME TimePasses PROVE Aged
  BY <1>2, TimeEffect DEF Base
<1>3. ASSUME UNCHANGED vars PROVE Aged
  BY <1>3 DEF Base, TypeOK, Aged, vars
<1> QED
  BY <1>1, <1>2, <1>3 DEF Next

(* Users' rows change in five actions only.                                 *)
LEMMA UsersStep ==
    ASSUME NEW r \in Requests, MembershipStep(r) \/ PrivacyStep(r), ~UNCHANGED users
    PROVE  \/ CreateUser(r) \/ UpdateUser(r) \/ DeactivateUser(r) \/ AcceptInvitation(r)
           \/ EraseSubject(r)
<1>1. ~BeginsHere(r)
  BY DEF BeginsHere, AdmitCreateUser, AdmitCreateInvitation, AdmitUpdateUser,
         AdmitDeactivateUser, AdmitRegenerate, AdmitRevoke, LoadForAcceptance,
         LoadSubscription, tables
<1>2. ~BeginsThere(r)
  BY DEF BeginsThere, Login, RefreshTokens, LoadAccount, AdmitAsk, LoadToken, AdmitApiKey,
         AdmitRevokeKey, AdmitToolCall, AdmitCreateDsr, AdmitFulfillDsr, tables
<1>3. ContinuesHere(r) =>
         CreateUser(r) \/ UpdateUser(r) \/ DeactivateUser(r) \/ AcceptInvitation(r)
  BY DEF ContinuesHere, ReadPlan, CountActive, EnforceQuota, LoadUser, CheckNoUser,
         CheckNoInvite, CreateInvitation, LoadInvitation, RegenerateToken, Revoke,
         CheckAddressFree, ApplyWebhookEvent, tables
<1>4. ContinuesThere(r) => EraseSubject(r)
  BY DEF ContinuesThere, IssueTokens, RequestReset, LoadTokenUser, CompleteReset, LoadKeyUser,
         IssueApiKey, LoadKey, RevokeApiKey, FinishToolCall, StoreQuery, ResolveNewSubject,
         ResolveSubject, CreateDsr, LoadDsr, RejectDsr, FulfillExport, FindQueries, tables
<1> QED
  BY <1>1, <1>2, <1>3, <1>4 DEF MembershipStep, PrivacyStep

(* What the five do to the row of user u.                                   *)
RowUpdated(r, u) ==
    /\ req[r].kind = "update_user" /\ req[r].pc = "ready" /\ req[r].target = u
    /\ req'[r] = [req[r] EXCEPT !.pc = "done"]
    /\ users'[u].email = users[u].email /\ users'[u].deleted = users[u].deleted
    /\ users'[u].role # users[u].role => req[r].role # None
    /\ users'[u].active /\ ~users[u].active => req[r].active = TRUE
    /\ users[u].active /\ ~users'[u].active => req[r].active = FALSE

(* Deactivation, ...                                                        *)
RowDeactivated(r, u) ==
    /\ req[r].kind = "deactivate_user" /\ req[r].pc = "ready" /\ req[r].target = u
    /\ req'[r] = [req[r] EXCEPT !.pc = "done"]
    /\ users'[u].deleted

(* ... erasure, ...                                                         *)
RowErased(r, u) ==
    /\ req[r].kind = "fulfill_dsr" /\ req[r].pc = "ready" /\ req[r].subject = u
    /\ req'[r] = [req[r] EXCEPT !.pc = "done"]
    /\ users'[u].deleted

(* ... and a new row in a free place.                                       *)
RowTaken(r, u) ==
    /\ users[u] = NoUser
    /\ \/ req[r].kind = "create_user" /\ req[r].pc = "cleared"
       \/ req[r].kind = "accept_invite" /\ req[r].pc = "ready"
    /\ req'[r].pc = "done"

(* Whose row changes, by which request, and how.                            *)
LEMMA UserRowStep ==
    ASSUME Base, NEW r \in Requests, StepOf(r), NEW u \in Users, users'[u] # users[u]
    PROVE  /\ done' = done \cup {r}
           /\ \A v \in Users : v # u => users'[v] = users[v]
           /\ RowUpdated(r, u) \/ RowDeactivated(r, u) \/ RowErased(r, u) \/ RowTaken(r, u)
<1>0. /\ users \in [Users -> UserRow] /\ req \in [Requests -> Request] /\ req[r] \in Request
      /\ Fits(req[r])
  BY DEF Base, TypeOK, AllFit
<1>1. CASE CreateUser(r)
  <2>1. PICK v \in Users :
          /\ users[v] = NoUser
          /\ users' = [users EXCEPT ![v] = [email |-> req[r].email, role |-> req[r].role,
                                            active |-> TRUE, deleted |-> FALSE]]
          /\ Commits(r, [req[r] EXCEPT !.target = v])
    BY <1>1 DEF CreateUser
  <2>2. req[r].kind = "create_user" /\ req[r].pc = "cleared"
    BY <1>1 DEF CreateUser, Is
  <2>3. done' = done \cup {r} /\ req'[r].pc = "done"
    BY <1>0, <2>1 DEF Commits, Request
  <2>4. u = v /\ \A w \in Users : w # v => users'[w] = users[w]
    BY <1>0, <2>1
  <2> QED
    BY <2>1, <2>2, <2>3, <2>4 DEF RowTaken
<1>2. CASE AcceptInvitation(r)
  <2>1. PICK v \in Users :
          /\ users[v] = NoUser
          /\ users' = [users EXCEPT ![v] = [email |-> req[r].saw.email, role |-> req[r].saw.role,
                                            active |-> TRUE, deleted |-> FALSE]]
          /\ Commits(r, [req[r] EXCEPT !.subject = v])
    BY <1>2 DEF AcceptInvitation
  <2>2. req[r].kind = "accept_invite" /\ req[r].pc = "ready"
    BY <1>2 DEF AcceptInvitation, Is
  <2>3. done' = done \cup {r} /\ req'[r].pc = "done"
    BY <1>0, <2>1 DEF Commits, Request
  <2>4. u = v /\ \A w \in Users : w # v => users'[w] = users[w]
    BY <1>0, <2>1
  <2> QED
    BY <2>1, <2>2, <2>3, <2>4 DEF RowTaken
<1>3. CASE UpdateUser(r)
  <2> DEFINE t == req[r].target
             row == [users[t] EXCEPT
                        !.role = IF req[r].role = None THEN users[t].role
                                 ELSE Column(req[r].role, req[r].user.role, users[t].role),
                        !.active = IF req[r].active = None THEN users[t].active
                                   ELSE Column(req[r].active, req[r].user.active, users[t].active)]
  <2>1. users' = [users EXCEPT ![t] = row]
    BY <1>3 DEF UpdateUser
  <2>2. /\ Commits(r, req[r]) /\ req[r].kind = "update_user" /\ req[r].pc = "ready"
        /\ t \in Users
    BY <1>0, <1>3 DEF UpdateUser, Is, Fits, Argued
  <2>3. users[t] \in UserRow /\ req[r].active \in BOOLEAN \cup {None}
    BY <1>0, <2>2 DEF Request
  <2>4. /\ row.email = users[t].email /\ row.deleted = users[t].deleted
        /\ row.role # users[t].role => req[r].role # None
        /\ row.active # users[t].active =>
              req[r].active # None /\ row.active = req[r].active /\ req[r].active \in BOOLEAN
    BY <2>3 DEF UserRow, Column
  <2> HIDE DEF row
  <2>5. u = t /\ users'[t] = row /\ \A w \in Users : w # u => users'[w] = users[w]
    BY <1>0, <2>1, <2>2
  <2>6. done' = done \cup {r} /\ req'[r] = [req[r] EXCEPT !.pc = "done"]
    BY <1>0, <2>2 DEF Commits
  <2>7. /\ row.active /\ ~users[t].active => req[r].active = TRUE
        /\ users[t].active /\ ~row.active => req[r].active = FALSE
    BY <2>4
  <2> QED
    BY <2>2, <2>4, <2>5, <2>6, <2>7 DEF RowUpdated
<1>4. CASE DeactivateUser(r)
  <2> DEFINE t == req[r].target
             row == [users[t] EXCEPT !.active = Column(FALSE, req[r].user.active, users[t].active),
                                     !.deleted = TRUE]
  <2>1. users' = [users EXCEPT ![t] = row]
    BY <1>4 DEF DeactivateUser
  <2>2. /\ Commits(r, req[r]) /\ req[r].kind = "deactivate_user" /\ req[r].pc = "ready"
        /\ t \in Users
    BY <1>0, <1>4 DEF DeactivateUser, Is, Fits, Argued
  <2>3. row.deleted
    BY <1>0, <2>2 DEF UserRow
  <2> HIDE DEF row
  <2>4. u = t /\ users'[t] = row /\ \A w \in Users : w # u => users'[w] = users[w]
    BY <1>0, <2>1, <2>2
  <2>5. done' = done \cup {r} /\ req'[r] = [req[r] EXCEPT !.pc = "done"]
    BY <1>0, <2>2 DEF Commits
  <2> QED
    BY <2>2, <2>3, <2>4, <2>5 DEF RowDeactivated
<1>5. CASE EraseSubject(r)
  <2> DEFINE t == req[r].subject
             row == [users[t] EXCEPT !.active = Column(FALSE, req[r].user.active, users[t].active),
                                     !.deleted = TRUE, !.email = Redacted]
  <2>1. users' = [users EXCEPT ![t] = row]
    BY <1>5 DEF EraseSubject
  <2>2. Commits(r, req[r]) /\ req[r].kind = "fulfill_dsr" /\ req[r].pc = "ready"
    BY <1>5 DEF EraseSubject, Is
  <2>3. t \in Users => row.deleted
    BY <1>0 DEF UserRow
  <2> HIDE DEF row
  <2>4. u = t /\ users'[t] = row /\ \A w \in Users : w # u => users'[w] = users[w]
    BY <1>0, <2>1
  <2>5. done' = done \cup {r} /\ req'[r] = [req[r] EXCEPT !.pc = "done"]
    BY <1>0, <2>2 DEF Commits
  <2> QED
    BY <2>2, <2>3, <2>4, <2>5 DEF RowErased
<1> QED
  BY <1>1, <1>2, <1>3, <1>4, <1>5, UsersStep DEF StepOf

----------------------------------------------------------------------------
(* The seats *)

(* What request r has read of the plan, of the seats, is still so unless    *)
(* somebody it missed has committed since.                                 *)
PlanSame(r) == Missed(r) \cap Done("webhook") = {}
(* ... and here of the seats.                                               *)
SeatsSame(r) == Missed(r) \cap SeatTakers = {}

(* The endpoints with a seat check.                                         *)
TakesSeat(r) == req[r].kind \in {"create_user", "create_invitation"}

(* How far the seat check of r has got, and what that is still worth.       *)
SeatsRead(r) ==
    LET q == req[r] IN
    /\ q.pc \in {"planned", "counted", "cleared", "loaded", "ready"} =>
          /\ q.plan \in Plans
          /\ PlanSame(r) => q.plan = PlanFor(sub.plan)
    /\ q.pc = "counted" =>
          /\ SeatLimit[q.plan] # None
          /\ SeatsSame(r) => ActiveUsers \subseteq q.counted
    /\ q.pc \in {"cleared", "loaded", "ready"} =>
          \/ SeatLimit[q.plan] = None
          \/ /\ Cardinality(q.counted) < SeatLimit[q.plan]
             /\ SeatsSame(r) => ActiveUsers \cup PendingInvites \subseteq q.counted

(* The invariant behind SeatsFitUnlessMissed.                               *)
SeatInv == \A r \in Requests : TakesSeat(r) => SeatsRead(r)

(* Nobody takes a seat but by a request that counts as a seat taker.        *)
LEMMA SeatsStep ==
    ASSUME Base, NEW r \in Requests, StepOf(r)
    PROVE  \/ done' = done \cup {r} /\ r \in SeatTakers'
           \/ ActiveUsers' \subseteq ActiveUsers /\ PendingInvites' \subseteq PendingInvites
<1>0. /\ r \notin done /\ (done' = done \/ (done' = done \cup {r} /\ Committed(r)))
      /\ req'[r].kind = req[r].kind
  BY OthersStand DEF StepOf
<1>1. ASSUME NEW u \in ActiveUsers', u \notin ActiveUsers
      PROVE  done' = done \cup {r} /\ r \in SeatTakers'
  <2>1. u \in Users /\ users'[u] # users[u]
    BY <1>1 DEF ActiveUsers, Live, Exists
  <2>2. /\ done' = done \cup {r}
        /\ RowUpdated(r, u) \/ RowDeactivated(r, u) \/ RowErased(r, u) \/ RowTaken(r, u)
    BY <2>1, UserRowStep
  <2>3. CASE RowUpdated(r, u)
    <3>1. users[u] \in UserRow /\ users'[u].active /\ ~users[u].active
      BY <1>1, <2>1, <2>3 DEF ActiveUsers, Live, Exists, RowUpdated, Base, TypeOK
    <3>2. req'[r].active = TRUE
      BY <2>3, <3>1 DEF RowUpdated, Base, TypeOK, Request
    <3> QED
      BY <1>0, <2>2, <2>3, <3>2 DEF SeatTakers, RowUpdated, Done
  <2>4. CASE RowDeactivated(r, u) \/ RowErased(r, u)
    BY <1>1, <2>4 DEF ActiveUsers, Live, RowDeactivated, RowErased
  <2>5. CASE RowTaken(r, u)
    BY <1>0, <2>2, <2>5 DEF RowTaken, SeatTakers, Done
  <2> QED
    BY <2>2, <2>3, <2>4, <2>5
<1>2. ASSUME NEW i \in PendingInvites', i \notin PendingInvites
      PROVE  done' = done \cup {r} /\ r \in SeatTakers'
  <2>1. NewInviteCommits(r, i) /\ req[r].kind = "create_invitation"
    BY <1>2, PendingStep DEF StepOf
  <2> QED
    BY <1>0, <2>1 DEF NewInviteCommits, Committed, SeatTakers, Done
<1> QED
  BY <1>1, <1>2

(* What was missed before is missed after.                                  *)
LEMMA MissedGrows ==
    ASSUME Base, NEW r \in Requests, StepOf(r), NEW s \in Requests, s # r
    PROVE  /\ SeatsSame(s)' => SeatsSame(s) /\ r \notin SeatTakers'
           /\ PlanSame(s)' => PlanSame(s) /\ r \notin Done("webhook")'
<1>1. /\ r \notin done /\ (done' = done \/ done' = done \cup {r})
      /\ \A t \in Requests : r \notin past'[t]
      /\ \A t \in Requests : t # r => req'[t] = req[t] /\ past'[t] = past[t]
      /\ done \subseteq Requests
  BY OthersStand DEF StepOf, Base, TypeOK
<1>2. Missed(s) \subseteq Missed(s)' /\ (r \in done' => r \in Missed(s)')
  BY <1>1 DEF Missed
<1>3. SeatTakers \subseteq SeatTakers' /\ Done("webhook") \subseteq Done("webhook")'
  BY <1>1 DEF SeatTakers, Done
<1>4. SeatTakers' \subseteq done' /\ Done("webhook")' \subseteq done'
  BY DEF SeatTakers, Done
<1> QED
  BY <1>2, <1>3, <1>4 DEF SeatsSame, PlanSame

(* The statements of the seat check, and those after it.                    *)
LEMMA SeatCheckStep ==
    ASSUME Base, NEW r \in Requests, StepOf(r), TakesSeat(r), req'[r].pc # "done"
    PROVE  /\ UNCHANGED tables /\ done' = done
           /\ \/ req'[r].pc = "admitted"
              \/ /\ past'[r] = past[r]
                 /\ \/ ReadPlan(r) \/ CountActive(r) \/ EnforceQuota(r)
                    \/ CheckNoUser(r) \/ CheckNoInvite(r)
<1>0. req \in [Requests -> Request] /\ req[r] \in Request
  BY DEF Base, TypeOK
<1>1. Begun(r) \/ Continued(r)
  BY EffectPhase DEF StepOf, Committed
<1>2. ~BeginsThere(r)
  BY DEF BeginsThere, Login, RefreshTokens, LoadAccount, AdmitAsk, LoadToken, AdmitApiKey,
         AdmitRevokeKey, AdmitToolCall, AdmitCreateDsr, AdmitFulfillDsr, Admits, Begins, Is,
         TakesSeat
<1>3. ~ContinuesThere(r)
  BY DEF ContinuesThere, IssueTokens, RequestReset, LoadTokenUser, CompleteReset, LoadKeyUser,
         IssueApiKey, LoadKey, RevokeApiKey, FinishToolCall, StoreQuery, ResolveNewSubject,
         ResolveSubject, CreateDsr, LoadDsr, RejectDsr, FulfillExport, FindQueries, EraseSubject,
         Is, TakesSeat
<1>4. CASE req[r].pc = "idle"
  <2>1. BeginsHere(r)
    BY <1>2, <1>4 DEF StepOf, MembershipStep, PrivacyStep
  <2>2. \E a \in Managers, e \in Emails, role \in Roles :
           AdmitCreateUser(r, a, e, role) \/ AdmitCreateInvitation(r, a, e, role)
    BY <2>1 DEF BeginsHere, AdmitUpdateUser, AdmitDeactivateUser, AdmitRegenerate, AdmitRevoke,
                LoadForAcceptance, LoadSubscription, Admits, Begins, Is, TakesSeat
  <2>3. PICK a \in Managers, e \in Emails, role \in Roles :
           AdmitCreateUser(r, a, e, role) \/ AdmitCreateInvitation(r, a, e, role)
    BY <2>2
  <2> DEFINE f == [req[r] EXCEPT !.email = e, !.role = role]
             g == [f EXCEPT !.pc = "admitted", !.actor = a, !.user = users[a]]
  <2>5. \E kind : Begins(r, kind, g)
    BY <2>3 DEF AdmitCreateUser, AdmitCreateInvitation, Admits
  <2>6. f \in Request
    BY <1>0 DEF Request
  <2> HIDE DEF f
  <2>7. g.pc = "admitted"
    BY <2>6 DEF Request
  <2> HIDE DEF g
  <2>4. req'[r].pc = "admitted"
    BY <1>0, <2>5, <2>7 DEF Begins
  <2> QED
    BY <1>1, <2>4 DEF Begun, Continued
<1>5. CASE req[r].pc # "idle"
  <2>1. ContinuesHere(r)
    BY <1>3, <1>5 DEF StepOf, MembershipStep, PrivacyStep
  <2> DEFINE f(x) == [req[r] EXCEPT !.target = x]
             g(x) == [f(x) EXCEPT !.pc = "done"]
  <2>4. \A x : g(x).pc = "done"
    BY <1>0 DEF Request
  <2> HIDE DEF g
  <2>5. ASSUME NEW x PROVE ~Commits(r, f(x))
    <3>1. Commits(r, f(x)) => req'[r] = g(x)
      BY <1>0 DEF Commits, g
    <3> QED
      BY <2>4, <3>1
  <2>2. ~CreateUser(r) /\ ~CreateInvitation(r)
    BY <2>5 DEF CreateUser, CreateInvitation
  <2>3. \/ ReadPlan(r) \/ CountActive(r) \/ EnforceQuota(r)
        \/ CheckNoUser(r) \/ CheckNoInvite(r)
    BY <2>1, <2>2 DEF ContinuesHere, LoadUser, UpdateUser, DeactivateUser, LoadInvitation,
                      RegenerateToken, Revoke, CheckAddressFree, AcceptInvitation,
                      ApplyWebhookEvent, Is, TakesSeat
  <2> QED
    BY <1>1, <1>5, <2>3 DEF Begun, Continued
<1> QED
  BY <1>4, <1>5

(* The commits of the two endpoints with a seat check.                      *)
LEMMA SeatCommitStep ==
    ASSUME Base, NEW r \in Requests, StepOf(r), TakesSeat(r), req'[r].pc = "done"
    PROVE  CreateUser(r) \/ CreateInvitation(r)
<1>0. req \in [Requests -> Request] /\ req[r] \in Request
  BY DEF Base, TypeOK
<1>1. Committed(r)
  BY EffectPhase DEF StepOf, Begun, Continued, Working
<1>2. ~ContinuesThere(r)
  BY DEF ContinuesThere, IssueTokens, RequestReset, LoadTokenUser, CompleteReset, LoadKeyUser,
         IssueApiKey, LoadKey, RevokeApiKey, FinishToolCall, StoreQuery, ResolveNewSubject,
         ResolveSubject, CreateDsr, LoadDsr, RejectDsr, FulfillExport, FindQueries, EraseSubject,
         Is, TakesSeat
<1>3. ContinuesHere(r)
  BY <1>1, <1>2 DEF StepOf, MembershipStep, PrivacyStep, Committed, Working
<1>4. ~ReadPlan(r) /\ ~CountActive(r) /\ ~EnforceQuota(r) /\ ~CheckNoUser(r) /\ ~CheckNoInvite(r)
  BY <1>0 DEF ReadPlan, CountActive, EnforceQuota, CheckNoUser, CheckNoInvite, Continues, Request
<1> QED
  BY <1>3, <1>4 DEF ContinuesHere, LoadUser, UpdateUser, DeactivateUser, LoadInvitation,
                    RegenerateToken, Revoke, CheckAddressFree, AcceptInvitation,
                    ApplyWebhookEvent, Is, TakesSeat

(* SeatInv is inductive: a statement of the check reads what is so then ... *)
LEMMA SeatInvOwn ==
    ASSUME Base, SeatInv, NEW r \in Requests, StepOf(r), TakesSeat(r)
    PROVE  SeatsRead(r)'
<1>0. req \in [Requests -> Request] /\ req[r] \in Request /\ sub.plan \in PlanKeys
  BY DEF Base, TypeOK, SubRow
<1>1. CASE req'[r].pc = "admitted" \/ req'[r].pc = "done"
  BY <1>1 DEF SeatsRead
<1>2. CASE /\ UNCHANGED tables /\ done' = done /\ past'[r] = past[r]
           /\ \/ ReadPlan(r) \/ CountActive(r) \/ EnforceQuota(r)
              \/ CheckNoUser(r) \/ CheckNoInvite(r)
  <2>1. /\ SeatsSame(r)' = SeatsSame(r) /\ PlanSame(r)' = PlanSame(r)
    <3>1. r \notin done /\ \A s \in done : req'[s] = req[s] /\ done \subseteq Requests
      BY OthersStand DEF StepOf, Base, TypeOK
    <3>2. SeatTakers' = SeatTakers /\ Done("webhook")' = Done("webhook")
      BY <1>2, <3>1 DEF SeatTakers, Done
    <3> QED
      BY <1>2, <3>2 DEF SeatsSame, PlanSame, Missed
  <2>2. /\ sub' = sub /\ ActiveUsers' = ActiveUsers /\ PendingInvites' = PendingInvites
    BY <1>2 DEF tables, ActiveUsers, Live, Exists, PendingInvites
  <2>3. SeatsRead(r)
    BY DEF SeatInv
  <2>4. CASE ReadPlan(r)
    <3>1. req'[r] = [req[r] EXCEPT !.pc = "planned", !.plan = PlanFor(sub.plan)]
      BY <1>0, <2>4 DEF ReadPlan, Continues
    <3>2. req'[r].pc = "planned" /\ req'[r].plan = PlanFor(sub.plan)
      BY <1>0, <3>1 DEF Request
    <3>3. PlanFor(sub.plan) \in Plans
      BY <1>0, PlansAssumption DEF PlanFor
    <3>4. PlanFor(sub'.plan) = PlanFor(sub.plan)
      BY <2>2
    <3> QED
      BY <3>2, <3>3, <3>4 DEF SeatsRead
  <2>5. CASE CountActive(r)
    <3>1. /\ req'[r] = [req[r] EXCEPT !.pc = "counted", !.counted = ActiveUsers]
          /\ req[r].pc = "planned" /\ SeatLimit[req[r].plan] # None
      BY <1>0, <2>5 DEF CountActive, Continues
    <3>2. /\ req'[r].pc = "counted" /\ req'[r].plan = req[r].plan
          /\ req'[r].counted = ActiveUsers
      BY <1>0, <3>1 DEF Request
    <3> QED
      BY <2>1, <2>2, <2>3, <3>1, <3>2 DEF SeatsRead, PlanFor
  <2>6. CASE EnforceQuota(r)
    <3> DEFINE all == req[r].counted \cup PendingInvites
    <3>1. /\ req'[r] = [req[r] EXCEPT !.pc = "cleared", !.counted = all]
          /\ \/ req[r].pc = "planned" /\ SeatLimit[req[r].plan] = None
             \/ req[r].pc = "counted" /\ Cardinality(all) < SeatLimit[req[r].plan]
      BY <1>0, <2>6 DEF EnforceQuota, Continues
    <3>2. req'[r].pc = "cleared" /\ req'[r].plan = req[r].plan /\ req'[r].counted = all
      BY <1>0, <3>1 DEF Request
    <3> HIDE DEF all
    <3>3. SeatsSame(r) /\ req[r].pc = "counted" => ActiveUsers \cup PendingInvites \subseteq all
      BY <2>3 DEF SeatsRead, all
    <3> QED
      BY <2>1, <2>2, <2>3, <3>1, <3>2, <3>3 DEF SeatsRead, PlanFor
  <2>7. CASE CheckNoUser(r) \/ CheckNoInvite(r)
    <3>1. /\ req[r].pc \in {"cleared", "loaded"}
          /\ \/ req'[r] = [req[r] EXCEPT !.pc = "loaded"]
             \/ req'[r] = [req[r] EXCEPT !.pc = "ready"]
      BY <1>0, <2>7 DEF CheckNoUser, CheckNoInvite, Continues, Is
    <3>2. /\ req'[r].pc \in {"loaded", "ready"} /\ req'[r].plan = req[r].plan
          /\ req'[r].counted = req[r].counted
      BY <1>0, <3>1 DEF Request
    <3> QED
      BY <2>1, <2>2, <2>3, <3>1, <3>2 DEF SeatsRead, PlanFor
  <2> QED
    BY <1>2, <2>4, <2>5, <2>6, <2>7
<1> QED
  BY <1>1, <1>2, SeatCheckStep

(* ... and what others do leaves that so, or is missed.                     *)
LEMMA SeatInvOthers ==
    ASSUME Base, SeatInv, NEW r \in Requests, StepOf(r), NEW s \in Requests, s # r, TakesSeat(s)
    PROVE  SeatsRead(s)'
<1>1. req'[s] = req[s]
  BY OthersStand DEF StepOf
<1>2. SeatsRead(s)
  BY DEF SeatInv
<1>3. SeatsSame(s)' =>
         /\ SeatsSame(s) /\ ActiveUsers' \subseteq ActiveUsers
         /\ PendingInvites' \subseteq PendingInvites
  BY MissedGrows, SeatsStep
<1>4. PlanSame(s)' => PlanSame(s) /\ sub' = sub
  <2>1. CASE r \in Done("webhook")'
    BY <2>1, MissedGrows
  <2>2. CASE r \notin Done("webhook")'
    <3>1. sub' = sub
      BY <2>2, EffectPhase
         DEF StepOf, Effect, QuietEffect, AskEffect, WebhookEffect, ForgotEffect, ResetEffect,
             NewDsrEffect, UsersEffect, NewInviteEffect, LinkEffect, AcceptEffect, FulfillEffect,
             Done, Committed, Moved
    <3> QED
      BY <3>1, MissedGrows
  <2> QED
    BY <2>1, <2>2
<1> QED
  BY <1>1, <1>2, <1>3, <1>4 DEF SeatsRead, PlanFor

(* SeatInv is inductive.                                                    *)
LEMMA SeatInvNext == Base /\ SeatInv /\ [Next]_vars => SeatInv'
<1> SUFFICES ASSUME Base, SeatInv, [Next]_vars PROVE SeatInv'
  OBVIOUS
<1>1. ASSUME NEW r \in Requests, StepOf(r) PROVE SeatInv'
  <2>1. ASSUME NEW s \in Requests, TakesSeat(s)' PROVE SeatsRead(s)'
    <3>1. TakesSeat(s)
      BY <1>1, <2>1, OthersStand DEF TakesSeat, StepOf
    <3> QED
      BY <1>1, <3>1, SeatInvOwn, SeatInvOthers
  <2> QED
    BY <2>1 DEF SeatInv
<1>2. CASE Aged
  <2>1. /\ sub' = sub /\ req' = req /\ past' = past /\ done' = done /\ users' = users
    BY <1>2 DEF Aged
  <2>2. PendingInvites' = PendingInvites
    BY <1>2 DEF Aged, PendingInvites
  <2>3. ActiveUsers' = ActiveUsers
    BY <2>1 DEF ActiveUsers, Live, Exists
  <2>4. \A s \in Requests : SeatsSame(s)' = SeatsSame(s) /\ PlanSame(s)' = PlanSame(s)
                            /\ TakesSeat(s)' = TakesSeat(s)
    BY <2>1 DEF SeatsSame, PlanSame, Missed, SeatTakers, Done, TakesSeat
  <2> QED
    BY <2>1, <2>2, <2>3, <2>4 DEF SeatInv, SeatsRead, PlanFor
<1> QED
  BY <1>1, <1>2, NextStep

(* One seat more than were counted, when fewer were than the limit.         *)
LEMMA OneSeatMore ==
    ASSUME NEW C \in SUBSET (Users \cup Invites), NEW x, NEW S \in SUBSET (C \cup {x}),
           NEW n \in Nat, Cardinality(C) < n
    PROVE  Cardinality(S) <= n
<1>1. IsFiniteSet(Users \cup Invites)
  BY RowsAssumption, FS_Union
<1>2. IsFiniteSet(C) /\ Cardinality(C) \in Nat
  BY <1>1, FS_Subset, FS_CardinalityType
<1>3. IsFiniteSet(C \cup {x}) /\ Cardinality(C \cup {x}) <= Cardinality(C) + 1
  BY <1>2, FS_AddElement
<1>4. IsFiniteSet(S) /\ Cardinality(S) <= Cardinality(C \cup {x})
  BY <1>3, FS_Subset
<1>5. Cardinality(S) \in Nat /\ Cardinality(C \cup {x}) \in Nat
  BY <1>3, <1>4, FS_CardinalityType
<1> QED
  BY <1>2, <1>3, <1>4, <1>5

(* A commit under SeatInv fits the plan.                                    *)
LEMMA SeatInvFits == Base /\ SeatInv /\ [Next]_vars => [\A r \in Requests : FitsPlan(r)]_vars
<1> SUFFICES ASSUME Base, SeatInv, [Next]_vars, NEW r \in Requests, TakesSeat(r),
                    r \in done' \ done, Missed(r) \cap (SeatTakers \cup Done("webhook")) = {},
                    SeatLimit[PlanFor(sub'.plan)] # None
             PROVE  Seats' <= SeatLimit[PlanFor(sub'.plan)]
  BY DEF FitsPlan, TakesSeat
<1>1. StepOf(r) /\ req'[r].pc = "done"
  <2>1. ~Aged
    BY DEF Aged
  <2>2. PICK s \in Requests : StepOf(s)
    BY <2>1, NextStep
  <2>3. s = r /\ Committed(r)
    BY <2>2, OthersStand DEF StepOf
  <2> QED
    BY <2>2, <2>3 DEF Committed
<1>2. CreateUser(r) \/ CreateInvitation(r)
  BY <1>1, SeatCommitStep
<1>3. SeatsSame(r) /\ PlanSame(r) /\ SeatsRead(r)
  BY DEF SeatsSame, PlanSame, SeatInv
<1>4. req[r].pc \in {"cleared", "ready"} /\ sub' = sub
  BY <1>2 DEF CreateUser, CreateInvitation, Is
<1>5. /\ req[r].plan = PlanFor(sub.plan) /\ req[r].plan \in Plans
      /\ Cardinality(req[r].counted) < SeatLimit[req[r].plan]
      /\ ActiveUsers \cup PendingInvites \subseteq req[r].counted
  BY <1>3, <1>4 DEF SeatsRead
<1>6. PlanFor(sub'.plan) = req[r].plan
  BY <1>4, <1>5
<1>7. SeatLimit[req[r].plan] \in Nat /\ req[r].counted \in SUBSET (Users \cup Invites)
  BY <1>5, <1>6, PlansAssumption DEF Base, TypeOK, Request
<1>8. \E x : (ActiveUsers \cup PendingInvites)' \subseteq req[r].counted \cup {x}
  <2>1. CASE CreateUser(r)
    <3>1. PICK u \in Users : \A v \in Users : v # u => users'[v] = users[v]
      BY <2>1 DEF CreateUser, Base, TypeOK
    <3>2. invites' = invites
      BY <2>1 DEF CreateUser
    <3>3. ActiveUsers' \subseteq ActiveUsers \cup {u} /\ PendingInvites' = PendingInvites
      BY <3>1, <3>2 DEF ActiveUsers, Live, Exists, PendingInvites
    <3> QED
      BY <1>5, <3>3
  <2>2. CASE CreateInvitation(r)
    <3>1. PICK i \in Invites : \A j \in Invites : j # i => invites'[j] = invites[j]
      BY <2>2 DEF CreateInvitation, Base, TypeOK
    <3>2. users' = users
      BY <2>2 DEF CreateInvitation
    <3>3. PendingInvites' \subseteq PendingInvites \cup {i} /\ ActiveUsers' = ActiveUsers
      BY <3>1, <3>2 DEF ActiveUsers, Live, Exists, PendingInvites
    <3> QED
      BY <1>5, <3>3
  <2> QED
    BY <1>2, <2>1, <2>2
<1> QED
  BY <1>5, <1>6, <1>7, <1>8, OneSeatMore DEF Seats

(* enforce_quota: whoever passes the seat check fits the plan of the moment *)
(* it commits, unless it missed a seat taker or a webhook - for any number  *)
(* of users, invitations, plans and overlapping requests.                  *)
THEOREM SeatsFit == Spec => SeatsFitUnlessMissed
<1>1. Init => SeatInv
  BY DEF Init, SeatInv, SeatsRead, Idle
<1> QED
  BY AccountsBase, SeatInvNext, SeatInvFits, <1>1, PTL DEF Spec, SeatsFitUnlessMissed

----------------------------------------------------------------------------
(* The managers *)

(* The admin endpoints that can take a manager away.                        *)
AdminKinds == {"update_user", "deactivate_user", "fulfill_dsr"}

(* Request r switches user u off. *)
SwitchesOff(r, u) ==
    /\ req[r].kind \in {"update_user", "deactivate_user"} /\ req[r].pc = "ready"
    /\ req[r].kind = "deactivate_user" \/ req[r].active = FALSE
    /\ req[r].target = u

(* A manager who asked for something was one when they asked: by now they   *)
(* still are, or the request missed who took that from them.  Nobody is     *)
(* about to switch themselves off.                                         *)
ManagerInv ==
    /\ ManagerLeft
    /\ \A r \in Requests : req[r].kind \in AdminKinds /\ Working(req[r]) =>
          /\ req[r].actor \in Users
          /\ Manager(req[r].actor) \/ \E s \in Missed(r) : Removes(s, req[r].actor)
    /\ \A r \in Requests : ~SwitchesOff(r, req[r].actor)

(* A manager is lost to a demotion, an erasure or a deactivation.           *)
LEMMA ManagerLost ==
    ASSUME Base, EraseInv, NEW r \in Requests, StepOf(r), NEW u \in Managers, u \notin Managers'
    PROVE  /\ done' = done \cup {r} /\ req[r].kind \in AdminKinds /\ Working(req[r])
           /\ req'[r].actor = req[r].actor
           /\ Removes(r, u)'
           /\ Demotes(r, u)' \/ Erases(r, u)' \/ SwitchesOff(r, u)
<1>0. /\ users[u] \in UserRow /\ users[u].email # None /\ ~users[u].deleted /\ users[u].active
      /\ users[u].role \in ManagerRoles /\ u \in Users /\ req[r] \in Request
  BY DEF Managers, Manager, ValidUser, Live, Exists, Base, TypeOK
<1>1. \/ users'[u].email # users[u].email \/ users'[u].deleted \/ ~users'[u].active
      \/ users'[u].role # users[u].role
  BY <1>0 DEF Managers, Manager, ValidUser, Live, Exists
<1>2. /\ done' = done \cup {r}
      /\ RowUpdated(r, u) \/ RowDeactivated(r, u) \/ RowErased(r, u) \/ RowTaken(r, u)
  BY <1>0, <1>1, UserRowStep DEF UserRow
<1>3. CASE RowUpdated(r, u)
  <2>1. req[r].role # None \/ req[r].active = FALSE
    BY <1>0, <1>1, <1>3 DEF RowUpdated
  <2>2. /\ req'[r].kind = "update_user" /\ req'[r].target = u /\ req'[r].role = req[r].role
        /\ req'[r].actor = req[r].actor
    BY <1>0, <1>3 DEF RowUpdated, Request
  <2>3. req[r].kind = "update_user" /\ req[r].pc = "ready" /\ req[r].target = u
    BY <1>3 DEF RowUpdated
  <2> QED
    BY <1>2, <2>1, <2>2, <2>3 DEF Demotes, SwitchesOff, Removes, AdminKinds, Working
<1>4. CASE RowDeactivated(r, u)
  <2>1. /\ req'[r].kind = "deactivate_user" /\ req'[r].target = u
        /\ req'[r].actor = req[r].actor
    BY <1>0, <1>4 DEF RowDeactivated, Request
  <2> QED
    BY <1>2, <1>4, <2>1 DEF RowDeactivated, SwitchesOff, Removes, AdminKinds, Working
<1>5. CASE RowErased(r, u)
  <2>1. /\ req'[r].kind = "fulfill_dsr" /\ req'[r].subject = u /\ req'[r].saw = req[r].saw
        /\ req'[r].actor = req[r].actor
    BY <1>0, <1>5 DEF RowErased, Request
  <2>2. req[r].saw.erasure
    BY <1>5 DEF RowErased, EraseInv
  <2> QED
    BY <1>2, <1>5, <2>1, <2>2 DEF RowErased, Erases, Removes, AdminKinds, Working
<1>6. CASE RowTaken(r, u)
  BY <1>0, <1>6 DEF RowTaken, NoUser
<1> QED
  BY <1>2, <1>3, <1>4, <1>5, <1>6

(* Admin endpoints begin with the gate, which lets managers in.             *)
LEMMA AdminBegins ==
    ASSUME Base, NEW r \in Requests, StepOf(r), req[r].kind \in AdminKinds, req[r].pc = "idle"
    PROVE  req'[r].actor \in Managers /\ req'[r].pc = "admitted"
<1>0. req \in [Requests -> Request] /\ req[r] \in Request /\ Managers \subseteq Users
  BY DEF Base, TypeOK, Managers
<1>1. \/ \E a \in Managers, u \in Users, p \in Patches : AdmitUpdateUser(r, a, u, p[1], p[2])
      \/ \E a \in Managers, u \in Users : AdmitDeactivateUser(r, a, u)
      \/ \E a \in Managers, d \in Dsrs : AdmitFulfillDsr(r, a, d)
  <2>1. BeginsHere(r) =>
           \/ \E a \in Managers, u \in Users, p \in Patches :
                 AdmitUpdateUser(r, a, u, p[1], p[2])
           \/ \E a \in Managers, u \in Users : AdmitDeactivateUser(r, a, u)
    BY DEF BeginsHere, AdmitCreateUser, AdmitCreateInvitation, AdmitRegenerate, AdmitRevoke,
           LoadForAcceptance, LoadSubscription, Admits, Begins, Is, AdminKinds
  <2>2. BeginsThere(r) => \E a \in Managers, d \in Dsrs : AdmitFulfillDsr(r, a, d)
    BY DEF BeginsThere, Login, RefreshTokens, LoadAccount, AdmitAsk, LoadToken, AdmitApiKey,
           AdmitRevokeKey, AdmitToolCall, AdmitCreateDsr, Admits, Begins, Is, AdminKinds
  <2> QED
    BY <2>1, <2>2 DEF StepOf, MembershipStep, PrivacyStep
<1>2. ASSUME NEW a \in Managers, NEW f, NEW kind, f \in Request, Admits(r, kind, a, f)
      PROVE  req'[r].actor = a /\ req'[r].pc = "admitted"
  <2> DEFINE g == [f EXCEPT !.pc = "admitted", !.actor = a, !.user = users[a]]
  <2>1. g.actor = a /\ g.pc = "admitted"
    BY <1>2 DEF Request
  <2>2. Begins(r, kind, g)
    BY <1>2 DEF Admits
  <2> HIDE DEF g
  <2> QED
    BY <1>0, <2>1, <2>2 DEF Begins
<1>3. ASSUME NEW a \in Managers, NEW u \in Users, NEW p \in Patches,
             AdmitUpdateUser(r, a, u, p[1], p[2])
      PROVE  req'[r].actor = a /\ req'[r].pc = "admitted"
  <2> DEFINE f == [req[r] EXCEPT !.target = u, !.role = p[1], !.active = p[2]]
  <2>1. p[1] \in Roles \cup {None} /\ p[2] \in BOOLEAN \cup {None} /\ u \in Ids
    BY RowsAssumption DEF Ids
  <2>2. f \in Request
    BY <1>0, <2>1 DEF Request
  <2>3. Admits(r, "update_user", a, f)
    BY <1>3 DEF AdmitUpdateUser
  <2> QED
    BY <1>2, <2>2, <2>3
<1>4. ASSUME NEW a \in Managers, NEW u \in Users, AdmitDeactivateUser(r, a, u)
      PROVE  req'[r].actor = a /\ req'[r].pc = "admitted"
  <2> DEFINE f == [req[r] EXCEPT !.target = u]
  <2>1. f \in Request
    BY <1>0 DEF Request, Ids
  <2>2. Admits(r, "deactivate_user", a, f)
    BY <1>4 DEF AdmitDeactivateUser
  <2> QED
    BY <1>2, <2>1, <2>2
<1>5. ASSUME NEW a \in Managers, NEW d \in Dsrs, AdmitFulfillDsr(r, a, d)
      PROVE  req'[r].actor = a /\ req'[r].pc = "admitted"
  <2> DEFINE f == [req[r] EXCEPT !.target = d]
  <2>1. f \in Request
    BY <1>0 DEF Request, Ids
  <2>2. Admits(r, "fulfill_dsr", a, f)
    BY <1>5 DEF AdmitFulfillDsr
  <2> QED
    BY <1>2, <2>1, <2>2
<1> QED
  BY <1>1, <1>3, <1>4, <1>5

(* ... and two of them go on by loading the row, with a check of whose it is. *)
LEMMA AdminLoads ==
    ASSUME Base, NEW r \in Requests, StepOf(r), Continued(r),
           req[r].kind \in {"update_user", "deactivate_user"}
    PROVE  ~SwitchesOff(r, req[r].actor)'
<1>0. req \in [Requests -> Request] /\ req[r] \in Request
  BY DEF Base, TypeOK
<1>1. ~ContinuesThere(r)
  BY DEF ContinuesThere, IssueTokens, RequestReset, LoadTokenUser, CompleteReset, LoadKeyUser,
         IssueApiKey, LoadKey, RevokeApiKey, FinishToolCall, StoreQuery, ResolveNewSubject,
         ResolveSubject, CreateDsr, LoadDsr, RejectDsr, FulfillExport, FindQueries, EraseSubject,
         Is
<1>2. ContinuesHere(r) /\ req[r].pc \notin {"planned", "counted"}
  BY <1>1 DEF StepOf, MembershipStep, PrivacyStep, Continued, Working, Base, AllFit, Fits
<1>3. ~UpdateUser(r) /\ ~DeactivateUser(r)
  <2>1. [req[r] EXCEPT !.pc = "done"].pc = "done"
    BY <1>0 DEF Request
  <2>2. ~Commits(r, req[r])
    BY <1>0, <2>1 DEF Commits, Continued, Working
  <2> QED
    BY <2>2 DEF UpdateUser, DeactivateUser
<1>4. LoadUser(r)
  BY <1>2, <1>3 DEF ContinuesHere, ReadPlan, CountActive, EnforceQuota, CreateUser, CheckNoUser,
                    CheckNoInvite, CreateInvitation, LoadInvitation, RegenerateToken, Revoke,
                    CheckAddressFree, AcceptInvitation, ApplyWebhookEvent, Is
<1>5. req'[r] = [req[r] EXCEPT !.pc = "ready", !.user = users[req[r].target]]
  BY <1>0, <1>4 DEF LoadUser, Continues
<1>6. /\ req'[r].kind = req[r].kind /\ req'[r].target = req[r].target
      /\ req'[r].actor = req[r].actor /\ req'[r].active = req[r].active
  BY <1>0, <1>5 DEF Request
<1> QED
  BY <1>4, <1>6 DEF LoadUser, SwitchesOff

(* What was done, and missed, stays so.                                     *)
LEMMA DoneStays ==
    ASSUME Base, NEW r \in Requests, StepOf(r), NEW s \in done, NEW u
    PROVE  /\ s # r /\ s \in Requests /\ s \in done' /\ req'[s] = req[s]
           /\ Removes(s, u)' = Removes(s, u)
           /\ Demotes(s, u)' = Demotes(s, u) /\ Erases(s, u)' = Erases(s, u)
<1>1. s # r /\ s \in Requests /\ s \in done' /\ req'[s] = req[s]
  BY OthersStand DEF StepOf, Base, TypeOK
<1> QED
  BY <1>1 DEF Removes, Demotes, Erases

(* ManagerInv is inductive.                                                 *)
LEMMA ManagerInvNext == Base /\ EraseInv /\ ManagerInv /\ [Next]_vars => ManagerInv'
<1> SUFFICES ASSUME Base, EraseInv, ManagerInv, [Next]_vars PROVE ManagerInv'
  OBVIOUS
<1>1. ASSUME NEW r \in Requests, StepOf(r) PROVE ManagerInv'
  <2>1. /\ r \notin done /\ (done' = done \/ (done' = done \cup {r} /\ Committed(r)))
        /\ \A s \in Requests : r \notin past'[s]
        /\ \A s \in Requests : s # r => req'[s] = req[s] /\ past'[s] = past[s]
        /\ req'[r].kind = req[r].kind /\ done \subseteq Requests
    BY <1>1, OthersStand DEF StepOf, Base, TypeOK
  <2>2. ASSUME NEW s \in Requests, past'[s] = past[s]
        PROVE  Missed(s) \subseteq Missed(s)' /\ Missed(s) \subseteq done
                /\ (s # r /\ r \in done' => r \in Missed(s)')
    BY <2>1, <2>2 DEF Missed
  <2>3. ASSUME NEW s \in Requests, past'[s] = past[s], NEW a \in Users,
               Manager(a) \/ \E t \in Missed(s) : Removes(t, a), s # r \/ users' = users
        PROVE  Manager(a)' \/ \E t \in Missed(s)' : Removes(t, a)'
    <3>1. CASE Manager(a) /\ ~Manager(a)'
      <4>1. a \in Managers /\ a \notin Managers'
        BY <3>1 DEF Managers
      <4>2. done' = done \cup {r} /\ Removes(r, a)'
        BY <1>1, <4>1, ManagerLost
      <4>3. s # r
        BY <2>3, <3>1 DEF Manager, ValidUser, Live, Exists
      <4> QED
        BY <2>2, <2>3, <4>2, <4>3
    <3>2. CASE \E t \in Missed(s) : Removes(t, a)
      <4>1. PICK t \in Missed(s) : Removes(t, a)
        BY <3>2
      <4>2. t \in done /\ t \in Missed(s)'
        BY <2>2, <2>3
      <4>3. Removes(t, a)'
        BY <1>1, <4>1, <4>2, DoneStays
      <4> QED
        BY <4>2, <4>3
    <3> QED
      BY <2>3, <3>1, <3>2
  <2>4. ASSUME NEW s \in Requests, req'[s].kind \in AdminKinds, Working(req'[s]),
               NEW a, a = req'[s].actor
        PROVE  a \in Users /\ (Manager(a)' \/ \E t \in Missed(s)' : Removes(t, a)')
    <3>1. CASE s # r
      BY <2>1, <2>3, <2>4, <3>1 DEF ManagerInv
    <3>2. CASE s = r /\ Begun(r)
      <4>1. a \in Managers /\ users' = users
        BY <1>1, <2>1, <2>4, <3>2, AdminBegins DEF Begun, tables
      <4> QED
        BY <4>1 DEF Managers, Manager, ValidUser, Live, Exists
    <3>3. CASE s = r /\ Continued(r)
      <4>1. users' = users /\ past'[s] = past[s] /\ a = req[s].actor /\ Working(req[s])
        BY <2>4, <3>3 DEF Continued, Keeps, tables
      <4> QED
        BY <2>1, <2>3, <2>4, <3>3, <4>1 DEF ManagerInv
    <3> QED
      BY <1>1, <2>4, <3>1, <3>2, <3>3, EffectPhase DEF StepOf, Committed, Working
  <2>5. ASSUME NEW s \in Requests PROVE ~SwitchesOff(s, req[s].actor)'
    <3>1. CASE s # r
      BY <2>1, <3>1 DEF ManagerInv, SwitchesOff
    <3>2. CASE s = r /\ Begun(r)
      BY <1>1, <2>1, <3>2, AdminBegins DEF Begun, SwitchesOff, AdminKinds
    <3>3. CASE s = r /\ Continued(r)
      BY <1>1, <2>1, <3>3, AdminLoads DEF SwitchesOff
    <3>4. CASE s = r /\ Committed(r)
      BY <3>4 DEF Committed, SwitchesOff
    <3> QED
      BY <1>1, <3>1, <3>2, <3>3, <3>4, EffectPhase DEF StepOf
  <2>6. ASSUME Managers' = {}
        PROVE  \E s \in done' :
                  \/ Demotes(s, req[s].actor)' \/ Erases(s, req[s].actor)'
                  \/ \E t \in Missed(s)', u \in Users :
                        Removes(s, u)' /\ Removes(t, req[s].actor)'
    <3>1. CASE Managers = {}
      <4>1. PICK s \in done :
               \/ Demotes(s, req[s].actor) \/ Erases(s, req[s].actor)
               \/ \E t \in Missed(s), u \in Users : Removes(s, u) /\ Removes(t, req[s].actor)
        BY <3>1 DEF ManagerInv, ManagerLeft
      <4>2. /\ s # r /\ s \in Requests /\ s \in done' /\ req'[s] = req[s]
            /\ past'[s] = past[s]
        BY <1>1, <2>1, DoneStays
      <4>3. CASE Demotes(s, req[s].actor) \/ Erases(s, req[s].actor)
        BY <4>2, <4>3 DEF Demotes, Erases
      <4>4. ASSUME NEW t \in Missed(s), NEW u \in Users, Removes(s, u), Removes(t, req[s].actor)
            PROVE  t \in Missed(s)' /\ Removes(s, u)' /\ Removes(t, req[s].actor)'
        <5>1. t \in done /\ t \in Missed(s)'
          BY <2>2, <4>2
        <5>2. req'[t] = req[t]
          BY <1>1, <5>1, DoneStays
        <5> QED
          BY <4>2, <4>4, <5>1, <5>2 DEF Removes, Demotes, Erases
      <4> QED
        BY <4>1, <4>2, <4>3, <4>4
    <3>2. CASE Managers # {}
      <4>1. PICK u \in Managers : u \notin Managers'
        BY <2>6, <3>2
      <4> DEFINE a == req[r].actor
      <4>2. /\ done' = done \cup {r} /\ req[r].kind \in AdminKinds /\ Working(req[r])
            /\ req'[r].actor = a /\ Removes(r, u)'
        BY <1>1, <4>1, ManagerLost
      <4>3. a \in Users /\ u \in Users
        BY <4>1, <4>2 DEF ManagerInv, Managers
      <4>4. CASE Manager(a)
        <5>1. a \in Managers /\ a \notin Managers'
          BY <2>6, <4>3, <4>4 DEF Managers
        <5>2. Demotes(r, a)' \/ Erases(r, a)' \/ SwitchesOff(r, a)
          BY <1>1, <5>1, ManagerLost
        <5>3. Demotes(r, req[r].actor)' \/ Erases(r, req[r].actor)'
          BY <4>2, <5>2 DEF ManagerInv, Demotes, Erases
        <5> QED
          BY <4>2, <5>3
      <4>5. CASE \E t \in Missed(r) : Removes(t, a)
        <5>1. PICK t \in Missed(r) : Removes(t, a)
          BY <4>5
        <5>2. past'[r] = past[r]
          BY <1>1, <2>1, <4>2 DEF Committed
        <5>3. t \in done /\ t \in Missed(r)'
          BY <2>2, <5>2
        <5>4. req'[t] = req[t]
          BY <1>1, <5>3, DoneStays
        <5>5. Removes(t, req[r].actor)'
          BY <4>2, <5>1, <5>4 DEF Removes, Demotes, Erases
        <5> QED
          BY <4>2, <4>3, <5>3, <5>5
      <4> QED
        BY <4>2, <4>4, <4>5 DEF ManagerInv
    <3> QED
      BY <3>1, <3>2
  <2> QED
    BY <2>4, <2>5, <2>6 DEF ManagerInv, ManagerLeft
<1>2. CASE Aged
  <2>1. users' = users /\ req' = req /\ past' = past /\ done' = done
    BY <1>2 DEF Aged
  <2> QED
    BY <2>1 DEF ManagerInv, ManagerLeft, Missed, Removes, Demotes, Erases, SwitchesOff,
                Managers, Manager, ValidUser, Live, Exists
<1> QED
  BY <1>1, <1>2, NextStep

(* update_user, deactivate_user, fulfill_dsr: a tenant is left without a    *)
(* manager only by that manager's own demotion or erasure, or by requests   *)
(* that overlapped.                                                        *)
THEOREM ManagersStay == Spec => []ManagerLeft
<1>1. Init => ManagerInv
  BY DEF Init, RowsInit, ManagerInv, ManagerLeft, SwitchesOff, Working, Idle
<1>2. ManagerInv => ManagerLeft
  BY DEF ManagerInv
<1> QED
  BY AccountsBase, EraseInvInit, EraseInvNext, ManagerInvNext, <1>1, <1>2, PTL DEF Spec
============================================================================
