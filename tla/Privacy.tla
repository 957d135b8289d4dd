------------------------------ MODULE Privacy ------------------------------
(***************************************************************************)
(* What a user can act with, and what is kept of it: sessions              *)
(* (auth_service.py), password reset tokens (password_reset_service.py),   *)
(* API keys (api_key_service.py), stored queries, and the data subject     *)
(* requests that export or erase what is held about a user                 *)
(* (compliance_service.py).                                                *)
(***************************************************************************)
EXTENDS AccountState

notPrivacy == <<invites, sub>>

----------------------------------------------------------------------------
(* Sessions: tokens that no row stands for, so nothing revokes them; but    *)
(* their user is read again.                                               *)

(* authenticate: whoever has the address, with the right password; a        *)
(* refusal is recorded in a session of its own.                            *)
Login(r, u) ==
    /\ ValidUser(u)
    /\ Begins(r, "login", [req[r] EXCEPT !.pc = "ready", !.actor = u])
    /\ UNCHANGED tables

(* refresh_tokens: whoever the token names, however often it was used.      *)
RefreshTokens(r, u) ==
    /\ ValidUser(u)
    /\ Begins(r, "refresh", [req[r] EXCEPT !.pc = "ready", !.actor = u])
    /\ UNCHANGED tables

(* The audit row; the new tokens are in the response only.                  *)
IssueTokens(r) ==
    /\ Is(r, "login", "ready") \/ Is(r, "refresh", "ready")
    /\ Commits(r, req[r])
    /\ UNCHANGED tables

----------------------------------------------------------------------------
(* Password reset *)

(* request_reset does nothing for anyone but an active user.                *)
LoadAccount(r, u) ==
    /\ ValidUser(u)
    /\ Begins(r, "forgot_password", [req[r] EXCEPT !.pc = "ready", !.subject = u])
    /\ UNCHANGED tables

RequestReset(r) ==
    /\ Is(r, "forgot_password", "ready")
    /\ \E t \in Tokens :
          /\ tokens[t].user = None
          /\ tokens' = [tokens EXCEPT ![t] = [user |-> req[r].subject,
                                              used |-> FALSE, expired |-> FALSE]]
          /\ Commits(r, [req[r] EXCEPT !.target = t])
    /\ UNCHANGED <<users, keys, dsrs, queries, notPrivacy>>

TokenExpires(t) ==
    /\ tokens[t].user # None /\ ~tokens[t].expired
    /\ tokens' = [tokens EXCEPT ![t] = [@ EXCEPT !.expired = TRUE]]
    /\ UNCHANGED <<users, keys, dsrs, queries, notPrivacy, req, past, done>>

(* Variant: used_at is not looked at. *)
LoadTokenAgain(r, t) ==
    /\ tokens[t].user # None /\ ~tokens[t].expired
    /\ Begins(r, "reset_password", [req[r] EXCEPT !.pc = "loaded", !.target = t,
                                    !.saw = tokens[t], !.subject = tokens[t].user])
    /\ UNCHANGED tables

LoadToken(r, t) ==
    /\ tokens[t].user # None /\ ~tokens[t].used /\ ~tokens[t].expired
    /\ Begins(r, "reset_password", [req[r] EXCEPT !.pc = "loaded", !.target = t,
                                    !.saw = tokens[t], !.subject = tokens[t].user])
    /\ UNCHANGED tables

(* Variant: deleted_at is not looked at. *)
LoadTokenOwner(r) ==
    /\ Is(r, "reset_password", "loaded")
    /\ Exists(req[r].subject)
    /\ Continues(r, [req[r] EXCEPT !.pc = "ready"])
    /\ UNCHANGED tables

(* The user may have been switched off, but not deleted.                    *)
LoadTokenUser(r) ==
    /\ Is(r, "reset_password", "loaded")
    /\ Live(req[r].subject)
    /\ Continues(r, [req[r] EXCEPT !.pc = "ready"])
    /\ UNCHANGED tables

(* The new password, and this token is used; other tokens are left alone.   *)
CompleteReset(r) ==
    /\ Is(r, "reset_password", "ready")
    /\ tokens' = [tokens EXCEPT ![req[r].target] = [@ EXCEPT !.used = TRUE]]
    /\ Commits(r, req[r])
    /\ UNCHANGED <<users, keys, dsrs, queries, notPrivacy>>

----------------------------------------------------------------------------
(* API keys *)

(* The key acts for any live user of the tenant, or for the actor.          *)
AdmitApiKey(r, a, u) ==
    /\ Exists(u)
    /\ Admits(r, "create_api_key", a, [req[r] EXCEPT !.subject = u])
    /\ UNCHANGED tables

LoadKeyUser(r) ==
    /\ Is(r, "create_api_key", "admitted")
    /\ req[r].subject # req[r].actor => Live(req[r].subject)
    /\ Continues(r, [req[r] EXCEPT !.pc = "ready"])
    /\ UNCHANGED tables

IssueApiKey(r) ==
    /\ Is(r, "create_api_key", "ready")
    /\ \E k \in Keys :
          /\ keys[k].user = None
          /\ keys' = [keys EXCEPT ![k] = [user |-> req[r].subject,
                                          revoked |-> FALSE, expired |-> FALSE]]
          /\ Commits(r, [req[r] EXCEPT !.target = k])
    /\ UNCHANGED <<users, tokens, dsrs, queries, notPrivacy>>

AdmitRevokeKey(r, a, k) ==
    /\ keys[k].user # None
    /\ Admits(r, "revoke_api_key", a, [req[r] EXCEPT !.target = k])
    /\ UNCHANGED tables

LoadKey(r) ==
    /\ Is(r, "revoke_api_key", "admitted")
    /\ Continues(r, [req[r] EXCEPT !.pc = "ready"])
    /\ UNCHANGED tables

RevokeApiKey(r) ==
    /\ Is(r, "revoke_api_key", "ready")
    /\ keys' = [keys EXCEPT ![req[r].target] = [@ EXCEPT !.revoked = TRUE]]
    /\ Commits(r, req[r])
    /\ UNCHANGED <<users, tokens, dsrs, queries, notPrivacy>>

(* api_key_service.authenticate: the key, then the user it acts for.        *)
Authenticates(k) ==
    /\ keys[k].user # None /\ ~keys[k].revoked /\ ~keys[k].expired
    /\ ValidUser(keys[k].user)

----------------------------------------------------------------------------
(* Questions and tool calls *)

AdmitAsk(r, u) ==
    /\ ValidUser(u)
    /\ Begins(r, "ask", [req[r] EXCEPT !.pc = "ready", !.actor = u])
    /\ UNCHANGED tables

(* Every MCP tool call authenticates its key anew.                          *)
AdmitToolCall(r, k) ==
    /\ Authenticates(k)
    /\ Begins(r, "mcp_tool", [req[r] EXCEPT !.pc = "ready", !.actor = keys[k].user,
                               !.target = k])
    /\ UNCHANGED tables

(* The tools read documents and leave audit rows; even query_documents      *)
(* stores no query.                                                        *)
FinishToolCall(r) ==
    /\ Is(r, "mcp_tool", "ready")
    /\ Commits(r, req[r])
    /\ UNCHANGED tables

(* The agents' run, then the queries row of this user (see QueryReview).    *)
StoreQuery(r) ==
    /\ Is(r, "ask", "ready")
    /\ queries' = queries \cup {r}
    /\ Commits(r, req[r])
    /\ UNCHANGED <<users, tokens, keys, dsrs, notPrivacy>>

----------------------------------------------------------------------------
(* Data subject requests *)

(* resolve_subject: the id that was recorded, or else whoever has the       *)
(* address now, deleted or not.                                            *)
Resolves(u, id, e) ==
    \/ id # None /\ u = id
    \/ id = None /\ u # None /\ users[u].email = e
    \/ id = None /\ u = None /\ ~Taken(e)

AdmitCreateDsr(r, a, id, e, erasure) ==
    /\ id # None => Exists(id)
    /\ Admits(r, "create_dsr", a, [req[r] EXCEPT !.subject = id, !.email = e,
                                                 !.erasure = erasure])
    /\ UNCHANGED tables

ResolveNewSubject(r, u) ==
    /\ Is(r, "create_dsr", "admitted")
    /\ Resolves(u, req[r].subject, req[r].email)
    /\ Continues(r, [req[r] EXCEPT !.pc = "ready", !.subject = u])
    /\ UNCHANGED tables

CreateDsr(r) ==
    /\ Is(r, "create_dsr", "ready")
    /\ \E d \in Dsrs :
          /\ dsrs[d].status = "absent"
          /\ dsrs' = [dsrs EXCEPT ![d] = [status |-> "received", erasure |-> req[r].erasure,
                                          subject |-> req[r].subject, email |-> req[r].email]]
          /\ Commits(r, [req[r] EXCEPT !.target = d])
    /\ UNCHANGED <<users, tokens, keys, queries, notPrivacy>>

AdmitFulfillDsr(r, a, d) ==
    /\ dsrs[d].status # "absent"
    /\ Admits(r, "fulfill_dsr", a, [req[r] EXCEPT !.target = d])
    /\ UNCHANGED tables

(* Variant: a fulfilled request may be fulfilled again. *)
LoadDsrAgain(r) ==
    LET d == dsrs[req[r].target] IN
    /\ Is(r, "fulfill_dsr", "admitted")
    /\ Continues(r, [req[r] EXCEPT !.pc = "loaded", !.saw = d])
    /\ UNCHANGED tables

(* A rejected request may be tried again, a fulfilled one may not.          *)
LoadDsr(r) ==
    LET d == dsrs[req[r].target] IN
    /\ Is(r, "fulfill_dsr", "admitted")
    /\ d.status # "fulfilled"
    /\ Continues(r, [req[r] EXCEPT !.pc = "loaded", !.saw = d])
    /\ UNCHANGED tables

(* The actor's own row is the one the gate loaded. *)
ResolveSubject(r, u) ==
    /\ Is(r, "fulfill_dsr", "loaded")
    /\ Resolves(u, req[r].saw.subject, req[r].saw.email)
    /\ Continues(r, [req[r] EXCEPT !.pc = "resolved", !.subject = u,
                        !.user = IF u \in Users \ {req[r].actor} THEN users[u]
                                 ELSE req[r].user])
    /\ UNCHANGED tables

RejectDsr(r) ==
    LET q == req[r]
        row == dsrs[q.target] IN
    /\ Is(r, "fulfill_dsr", "resolved") /\ q.subject = None
    /\ dsrs' = [dsrs EXCEPT ![q.target] =
                   [row EXCEPT !.status = Column("rejected", q.saw.status, row.status)]]
    /\ Commits(r, q)
    /\ UNCHANGED <<users, tokens, keys, queries, notPrivacy>>

(* build_export_bundle only reads. *)
FulfillExport(r) ==
    LET q == req[r] IN
    /\ Is(r, "fulfill_dsr", "resolved") /\ q.subject # None /\ ~q.saw.erasure
    /\ dsrs' = [dsrs EXCEPT ![q.target] = [@ EXCEPT !.status = "fulfilled"]]
    /\ Commits(r, q)
    /\ UNCHANGED <<users, tokens, keys, queries, notPrivacy>>

(* erase_subject: the ids of the subject's queries ...                      *)
FindQueries(r) ==
    LET q == req[r] IN
    /\ Is(r, "fulfill_dsr", "resolved") /\ q.subject # None /\ q.saw.erasure
    /\ Continues(r, [q EXCEPT !.pc = "ready",
                              !.found = {k \in queries : req[k].actor = q.subject}])
    /\ UNCHANGED tables

(* Variant: the queries are left where they are. *)
EraseSubjectOnly(r) ==
    LET q == req[r] IN
    /\ Is(r, "fulfill_dsr", "ready")
    /\ queries' = queries
    /\ users' = [users EXCEPT ![q.subject] = [@ EXCEPT
                    !.active = Column(FALSE, q.user.active, @),
                    !.deleted = TRUE, !.email = Redacted]]
    /\ dsrs' = [dsrs EXCEPT ![q.target] = [@ EXCEPT !.status = "fulfilled"]]
    /\ Commits(r, q)
    /\ UNCHANGED <<tokens, keys, notPrivacy>>

(* ... whose rows go with the user's name.  No one is exempt: not the       *)
(* actor, not the last manager.                                            *)
EraseSubject(r) ==
    LET q == req[r]
        row == users[q.subject] IN
    /\ Is(r, "fulfill_dsr", "ready")
    /\ queries' = queries \ q.found
    /\ users' = [users EXCEPT ![q.subject] = [row EXCEPT
                    !.active = Column(FALSE, q.user.active, row.active),
                    !.deleted = TRUE, !.email = Redacted]]
    /\ dsrs' = [dsrs EXCEPT ![q.target] = [@ EXCEPT !.status = "fulfilled"]]
    /\ Commits(r, q)
    /\ UNCHANGED <<tokens, keys, notPrivacy>>

----------------------------------------------------------------------------
(* The first statement of a request ... *)
BeginsThere(r) ==
    \/ \E u \in Users : Login(r, u) \/ RefreshTokens(r, u) \/ LoadAccount(r, u) \/ AdmitAsk(r, u)
    \/ \E t \in Tokens : LoadToken(r, t)
    \/ \E a \in Managers, u \in Users : AdmitApiKey(r, a, u)
    \/ \E a \in Managers, k \in Keys : AdmitRevokeKey(r, a, k)
    \/ \E k \in Keys : AdmitToolCall(r, k)
    \/ \E a \in Managers, id \in Users \cup {None}, e \in Emails, erasure \in BOOLEAN :
          AdmitCreateDsr(r, a, id, e, erasure)
    \/ \E a \in Managers, d \in Dsrs : AdmitFulfillDsr(r, a, d)

(* ... and the others. *)
ContinuesThere(r) ==
    \/ IssueTokens(r)
    \/ RequestReset(r)
    \/ LoadTokenUser(r)
    \/ CompleteReset(r)
    \/ LoadKeyUser(r)
    \/ IssueApiKey(r)
    \/ LoadKey(r)
    \/ RevokeApiKey(r)
    \/ FinishToolCall(r)
    \/ StoreQuery(r)
    \/ \E u \in Users \cup {None} : ResolveNewSubject(r, u) \/ ResolveSubject(r, u)
    \/ CreateDsr(r)
    \/ LoadDsr(r)
    \/ RejectDsr(r)
    \/ FulfillExport(r)
    \/ FindQueries(r)
    \/ EraseSubject(r)

PrivacyStep(r) == IF req[r].pc = "idle" THEN BeginsThere(r) ELSE ContinuesThere(r)
=============================================================================
