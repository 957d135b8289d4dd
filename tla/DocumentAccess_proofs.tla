----------------------- MODULE DocumentAccess_proofs -----------------------
(***************************************************************************)
(* Proofs about DocumentAccess for every tenant: any users, groups,        *)
(* documents, grants and permission lists, and any number of requests.     *)
(***************************************************************************)
EXTENDS DocumentAccess, TLAPS

(* What the caller can use now was recorded. *)
UsableIsSeen(r) == req[r].pc # "idle" => Usable(r) \subseteq seen[r].could

(* A caller who entered as a manager could use every document, unless it is *)
(* deleted or came after the role was lost.                                *)
PrivilegedSawAll(r) ==
    req[r].pc # "idle" /\ req[r].privileged =>
        \A d \in Docs : Exists(d) => d \in seen[r].could \cup seen[r].late \/ gone[d]

(* The groups read are still the caller's, or one was left. *)
GroupsAreCurrent(r) ==
    req[r].pc = "grouped" /\ ~seen[r].left => req[r].groups \subseteq GroupsOf(req[r].user)

(* The computed set holds documents the caller could use or deleted ones. *)
ScopeWasUsable(r) ==
    ~seen[r].left => \A d \in req[r].allowed : d \in seen[r].could \/ gone[d]

(* Nothing is in the set before it is computed, or found before the search. *)
FoundInScope(r) ==
    /\ req[r].pc \in {"idle", "entered"} => req[r].allowed = {}
    /\ req[r].pc \notin {"scoped", "done"} => req[r].found = {}
    /\ req[r].permission = "view" /\ req[r].pc # "done" => req[r].found = {}

FoundWasUsable(r) ==
    ~seen[r].left => req[r].found \subseteq seen[r].could \cup seen[r].late \cup Residue

ListWasUsable(r) ==
    req[r].permission = "view" /\ ~seen[r].left =>
        req[r].found \subseteq seen[r].could \cup seen[r].late

HistoryOf(r) ==
    /\ UsableIsSeen(r)
    /\ PrivilegedSawAll(r)
    /\ GroupsAreCurrent(r)
    /\ ScopeWasUsable(r)
    /\ FoundInScope(r)
    /\ FoundWasUsable(r)
    /\ ListWasUsable(r)

(* The foreign key of document_access_control, and the check of a request   *)
(* that is about to insert a row.                                          *)
ReferencesExist ==
    /\ \A i \in GrantIds : grants[i] # NoGrant => Exists(grants[i].doc)
    /\ \A c \in Changes : change[c] # NoDoc => Exists(change[c])

IInv == TypeOK /\ ReferencesExist /\ \A r \in Requests : HistoryOf(r)

USE ConstantsAssumption DEF accessVars, vars

----------------------------------------------------------------------------
(* The two renderings of the access rule in authz.py agree on live          *)
(* documents, whatever the tables hold.                                     *)
LEMMA OneRule == SetAgreesWithCheck
  BY DEF SetAgreesWithCheck, AccessibleDocs, MayUse, CanAccess, OwnedOrVisible, GrantedDocs,
         Live

(* Grants matched against groups the user is in make live documents usable. *)
LEMMA GrantsAreUsable ==
    ASSUME NEW u \in Users, NEW p \in VisibilityPermissions,
           NEW gs \in SUBSET GroupsOf(u),
           NEW d \in GrantedDocs(u, gs, p), Live(d)
    PROVE  MayUse(u, d, p)
  BY DEF GrantedDocs, GrantMatches, MayUse, CanAccess

LEMMA OwnedIsUsable ==
    ASSUME NEW u \in Users, NEW p \in VisibilityPermissions,
           NEW d \in OwnedOrVisible(u, p)
    PROVE  MayUse(u, d, p)
  BY DEF OwnedOrVisible, MayUse, CanAccess

----------------------------------------------------------------------------
USE DEF RequestPcs, Request, Seen

LEMMA InitIInv == Init => IInv
  BY DEF Init, IInv, TypeOK, Stages, Exists, ReferencesExist, IdleRequest, VisibilityPermissions, HistoryOf, UsableIsSeen,
         PrivilegedSawAll, GroupsAreCurrent, ScopeWasUsable, FoundInScope,
         FoundWasUsable, ListWasUsable

LEMMA WatchType == ASSUME TypeOK, req' \in [Requests -> Request], Watch
                   PROVE  seen' \in [Requests -> Seen]
  BY DEF TypeOK, Watch, Usable

LEMMA TypeStep == TypeOK /\ [Next]_vars => TypeOK'
<1> SUFFICES ASSUME TypeOK, [Next]_vars PROVE TypeOK'
  OBVIOUS
<1> USE DEF TypeOK, Stages
<1>1. ASSUME NEW u \in Users, UpdateRole(u) PROVE TypeOK'
  BY <1>1, WatchType DEF UpdateRole
<1>2. ASSUME NEW u \in Users, NEW g \in Groups, AddGroupMember(u, g) PROVE TypeOK'
  BY <1>2, WatchType DEF AddGroupMember
<1>3. ASSUME NEW u \in Users, NEW g \in Groups, RemoveGroupMember(u, g) PROVE TypeOK'
  BY <1>3, WatchType DEF RemoveGroupMember
<1>4. ASSUME NEW g \in Groups, DeleteGroup(g) PROVE TypeOK'
  BY <1>4, WatchType DEF DeleteGroup
<1>5. ASSUME NEW u \in Users, NEW d \in Docs, DeleteDocument(u, d) PROVE TypeOK'
  BY <1>5, WatchType DEF DeleteDocument
<1>6. ASSUME NEW d \in Docs, StorePassages(d) \/ StartUpload(d) PROVE TypeOK'
  BY <1>6, WatchType DEF StorePassages, StartUpload
<1>20. ASSUME NEW D \in SUBSET Docs, CommitUpload(D) PROVE TypeOK'
  BY <1>20, WatchType DEF CommitUpload
<1>7. ASSUME NEW c \in Changes, NEW u \in Users, NEW d \in Docs, CheckManage(c, u, d)
      PROVE  TypeOK'
  BY <1>7, WatchType DEF CheckManage
<1>8. ASSUME NEW c \in Changes, NEW i \in GrantIds, NEW q \in Principals,
             NEW P \in PermissionSets, GrantAcl(c, i, q, P)
      PROVE  TypeOK'
  BY <1>8, WatchType DEF GrantAcl, Grant
<1>9. ASSUME NEW c \in Changes, NEW i \in GrantIds, RevokeAcl(c, i) PROVE TypeOK'
  BY <1>9, WatchType DEF RevokeAcl
<1>10. ASSUME NEW c \in Changes, ChangeFails(c) PROVE TypeOK'
  BY <1>10, WatchType DEF ChangeFails
<1>11. ASSUME NEW r \in Requests, NEW u \in Users, NEW p \in VisibilityPermissions,
              Enter(r, u, p)
       PROVE  TypeOK'
  BY <1>11, WatchType DEF Enter, IdleRequest
<1>12. ASSUME NEW r \in Requests, ReadDocuments(r) PROVE TypeOK'
  <2>1. req[r] \in Request
    OBVIOUS
  <2>2. req' \in [Requests -> Request]
    <3>1. CASE req[r].privileged
      <4>1. [req[r] EXCEPT !.pc = "scoped"] \in Request
        BY <2>1
      <4>2. req' = [req EXCEPT ![r] = [req[r] EXCEPT !.pc = "scoped"]]
        BY <1>12, <3>1 DEF ReadDocuments
      <4>3. QED
        BY <4>1, <4>2
    <3>2. CASE ~req[r].privileged
      <4>1. OwnedOrVisible(req[r].user, req[r].permission) \in SUBSET Docs
        BY DEF OwnedOrVisible
      <4>2. [req[r] EXCEPT !.pc = "owned",
                           !.allowed = OwnedOrVisible(req[r].user, req[r].permission)] \in Request
        BY <2>1, <4>1
      <4>3. req' = [req EXCEPT ![r] = [req[r] EXCEPT
              !.pc = "owned", !.allowed = OwnedOrVisible(req[r].user, req[r].permission)]]
        BY <1>12, <3>2 DEF ReadDocuments
      <4>4. QED
        BY <4>2, <4>3
    <3>3. QED
      BY <3>1, <3>2
  <2>3. QED
    BY <1>12, <2>2, WatchType DEF ReadDocuments
<1>13. ASSUME NEW r \in Requests, ReadGroups(r) PROVE TypeOK'
  <2>1. req[r] \in Request
    OBVIOUS
  <2>2. req' \in [Requests -> Request]
    BY <1>13, <2>1 DEF ReadGroups, GroupsOf
  <2>3. QED
    BY <1>13, <2>2, WatchType DEF ReadGroups
<1>14. ASSUME NEW r \in Requests, ReadGrants(r) PROVE TypeOK'
  <2>1. req[r] \in Request
    OBVIOUS
  <2>2. req' \in [Requests -> Request]
    BY <1>14, <2>1 DEF ReadGrants, GrantedDocs
  <2>3. QED
    BY <1>14, <2>2, WatchType DEF ReadGrants
<1>15. ASSUME NEW r \in Requests, NEW S \in SUBSET Docs, Search(r, S) PROVE TypeOK'
  <2>1. req[r] \in Request
    OBVIOUS
  <2>2. req' \in [Requests -> Request]
    BY <1>15, <2>1 DEF Search
  <2>3. QED
    BY <1>15, <2>2, WatchType DEF Search
<1>16. ASSUME NEW r \in Requests, Answer(r) PROVE TypeOK'
  <2>1. req[r] \in Request
    OBVIOUS
  <2>2. req' \in [Requests -> Request]
    BY <1>16, <2>1 DEF Answer
  <2>3. QED
    BY <1>16, <2>2, WatchType DEF Answer
<1>17. ASSUME NEW r \in Requests, ListDocuments(r) PROVE TypeOK'
  <2>1. req[r] \in Request
    OBVIOUS
  <2>2. req' \in [Requests -> Request]
    <3>1. {d \in Scope(r) : ~gone[d]} \in SUBSET Docs
      BY <2>1 DEF Scope
    <3>2. QED
      BY <1>17, <2>1, <3>1 DEF ListDocuments
  <2>3. QED
    BY <1>17, <2>2, WatchType DEF ListDocuments
<1>18. CASE UNCHANGED vars
  BY <1>18
<1>19. QED
  BY <1>1, <1>2, <1>3, <1>4, <1>5, <1>6, <1>7, <1>8, <1>9, <1>10, <1>11, <1>12, <1>13,
     <1>14, <1>15, <1>16, <1>17, <1>18, <1>20
     DEF Next, AdminStep, DocumentStep, ChangeStep, RequestStep

(* Every variable keeps the shape Init gives it. *)
THEOREM TypeCorrect == Spec => []TypeOK
<1>1. Init => TypeOK
  BY InitIInv DEF IInv
<1>2. QED
  BY <1>1, TypeStep, PTL DEF Spec

----------------------------------------------------------------------------
(* What Watch records about a request in progress. *)
LEMMA WatchRecords ==
    ASSUME TypeOK, Watch, NEW r \in Requests, req'[r].pc # "idle"
    PROVE  /\ seen'[r].could = seen[r].could \cup Usable(r)'
           /\ seen[r].late \subseteq seen'[r].late
           /\ \A d \in Docs : ~Exists(d) /\ Exists(d)' /\ req[r].privileged
                             /\ ~privileged'[req[r].user] => d \in seen'[r].late
           /\ seen[r].left => seen'[r].left
           /\ req[r].pc # "grouped" => seen'[r].left = seen[r].left
           /\ req[r].pc = "grouped" /\ ~seen'[r].left =>
                 req[r].groups \subseteq GroupsOf(req[r].user)'
  BY DEF Watch, TypeOK

(* Rows stay, deleted ones stay deleted, and what they were left with stays. *)
Deletions ==
    /\ \A d \in Docs : gone[d] => gone'[d]
    /\ \A d \in Docs : Exists(d) => Exists(d)'
    /\ Residue \subseteq Residue'

(* A request that takes no step keeps its part of the invariant. *)
LEMMA HistoryOfOthers ==
    ASSUME IInv, TypeOK', Watch, Deletions, NEW r \in Requests, req'[r] = req[r]
    PROVE  HistoryOf(r)'
<1> USE DEF IInv, HistoryOf, TypeOK
<1>1. CASE req[r].pc = "idle"
  <2>1. seen'[r] = seen[r]
    BY <1>1 DEF Watch
  <2>2. QED
    BY <1>1, <2>1 DEF UsableIsSeen, PrivilegedSawAll, GroupsAreCurrent, ScopeWasUsable,
                      FoundInScope, FoundWasUsable, ListWasUsable, Deletions
<1>2. CASE req[r].pc # "idle"
  <2>1. /\ seen'[r].could = seen[r].could \cup Usable(r)'
        /\ seen[r].late \subseteq seen'[r].late
        /\ seen[r].left => seen'[r].left
    BY <1>2, WatchRecords
  <2>2. UsableIsSeen(r)'
    BY <2>1 DEF UsableIsSeen
  <2>3. PrivilegedSawAll(r)'
    <3> SUFFICES ASSUME req[r].privileged, NEW d \in Docs, Exists(d)', ~gone'[d]
                 PROVE  d \in seen'[r].could \cup seen'[r].late
      BY DEF PrivilegedSawAll
    <3>1. CASE Exists(d)
      BY <1>2, <2>1, <3>1 DEF PrivilegedSawAll, Deletions
    <3>2. CASE ~Exists(d) /\ privileged'[req[r].user]
      <4>1. d \in Usable(r)'
        BY <3>2 DEF Usable, MayUse, CanAccess, Live
      <4>2. QED
        BY <2>1, <4>1
    <3>3. CASE ~Exists(d) /\ ~privileged'[req[r].user]
      BY <1>2, <3>3, WatchRecords
    <3>4. QED
      BY <3>1, <3>2, <3>3
  <2>4. GroupsAreCurrent(r)'
    BY <1>2, WatchRecords DEF GroupsAreCurrent
  <2>5. ScopeWasUsable(r)'
    BY <2>1 DEF ScopeWasUsable, Deletions
  <2>6. FoundInScope(r)'
    BY DEF FoundInScope
  <2>7. FoundWasUsable(r)' /\ ListWasUsable(r)'
    BY <2>1 DEF FoundWasUsable, ListWasUsable, Deletions
  <2>8. QED
    BY <2>2, <2>3, <2>4, <2>5, <2>6, <2>7
<1>3. QED
  BY <1>1, <1>2

(* Whatever the administration does, it disturbs no request. *)
LEMMA AdministrationStep ==
    ASSUME IInv, TypeOK', AdminStep \/ DocumentStep \/ (\E c \in Changes : ChangeStep(c))
    PROVE  \A r \in Requests : HistoryOf(r)'
<1> USE DEF IInv, TypeOK
<1>1. UNCHANGED req /\ Watch
  BY DEF AdminStep, DocumentStep, ChangeStep, UpdateRole, AddGroupMember, RemoveGroupMember,
         DeleteGroup, StartUpload, CommitUpload, DeleteDocument, StorePassages, CheckManage, GrantAcl, RevokeAcl,
         ChangeFails
<1>2. Deletions
  <2>1. ASSUME NEW u \in Users, NEW d \in Docs, DeleteDocument(u, d) PROVE Deletions
    BY <2>1 DEF DeleteDocument, MayUse, Live, Deletions, Residue, Exists, Stages
  <2>2. ASSUME NEW d \in Docs, StorePassages(d) \/ StartUpload(d) PROVE Deletions
    BY <2>2 DEF StorePassages, StartUpload, Deletions, Residue, Exists, Stages
  <2>6. ASSUME NEW D \in SUBSET Docs, CommitUpload(D) PROVE Deletions
    BY <2>6 DEF CommitUpload, Deletions, Residue, Exists, Stages
  <2>3. ASSUME UNCHANGED <<gone, passages>> PROVE Deletions
    BY <2>3 DEF Deletions, Residue, Exists
  <2>4. ASSUME AdminStep \/ (\E c \in Changes : ChangeStep(c)) PROVE UNCHANGED <<gone, passages>>
    BY <2>4 DEF AdminStep, ChangeStep, UpdateRole, AddGroupMember, RemoveGroupMember,
         DeleteGroup, CheckManage, GrantAcl, RevokeAcl, ChangeFails
  <2>5. QED
    BY <2>1, <2>2, <2>3, <2>4, <2>6 DEF DocumentStep
<1>3. QED
  BY <1>1, <1>2, HistoryOfOthers

(* The rows that refer to a document are of one that exists. *)
LEMMA ReferencesStep == IInv /\ TypeOK' /\ Next => ReferencesExist'
<1> SUFFICES ASSUME IInv, TypeOK', Next PROVE ReferencesExist'
  OBVIOUS
<1> USE DEF IInv, TypeOK, ReferencesExist
<1>1. ASSUME \A d \in Docs : Exists(d) => Exists(d)',
             \A i \in GrantIds : grants'[i] \in {grants[i], NoGrant}
                                 \/ (\E c \in Changes : change[c] # NoDoc /\ grants'[i].doc = change[c]),
             \A c \in Changes : change'[c] \in {change[c], NoDoc} \/ Exists(change'[c])
      PROVE  ReferencesExist'
  <2>1. ASSUME NEW i \in GrantIds, grants'[i] # NoGrant PROVE Exists(grants[i].doc)'
    <3>1. CASE grants'[i] = grants[i]
      BY <1>1, <2>1, <3>1 DEF Grant
    <3>2. CASE \E c \in Changes : change[c] # NoDoc /\ grants'[i].doc = change[c]
      BY <1>1, <3>2
    <3>3. QED
      BY <1>1, <2>1, <3>1, <3>2
  <2>2. ASSUME NEW c \in Changes, change'[c] # NoDoc PROVE Exists(change[c])'
    BY <1>1, <2>2
  <2>3. QED
    BY <2>1, <2>2
<1>2. ASSUME DocumentStep PROVE ReferencesExist'
  <2>1. UNCHANGED <<grants, change>>
    BY <1>2 DEF DocumentStep, StartUpload, CommitUpload, DeleteDocument, StorePassages
  <2>2. \A d \in Docs : Exists(d) => Exists(d)'
    BY <1>2 DEF DocumentStep, StartUpload, CommitUpload, DeleteDocument, StorePassages,
                Exists, Stages
  <2>3. QED
    BY <1>1, <2>1, <2>2
<1>3. ASSUME AdminStep \/ \E r \in Requests : RequestStep(r) PROVE ReferencesExist'
  <2>1. UNCHANGED <<grants, change, passages>>
    BY <1>3 DEF AdminStep, UpdateRole, AddGroupMember, RemoveGroupMember, DeleteGroup,
           RequestStep, Enter, ReadDocuments, ReadGroups, ReadGrants, Search, Answer,
           ListDocuments
  <2>2. QED
    BY <1>1, <2>1 DEF Exists
<1>4. ASSUME NEW c \in Changes, ChangeStep(c) PROVE ReferencesExist'
  <2>1. UNCHANGED passages
    BY <1>4 DEF ChangeStep, CheckManage, GrantAcl, RevokeAcl, ChangeFails
  <2>2. ASSUME NEW u \in Users, NEW d \in Docs, CheckManage(c, u, d) PROVE ReferencesExist'
    <3>1. Exists(d)'
      BY <2>1, <2>2 DEF CheckManage, MayUse, Live, Exists
    <3>2. QED
      BY <1>1, <2>1, <2>2, <3>1 DEF CheckManage, Exists
  <2>3. ASSUME NEW i \in GrantIds, NEW q \in Principals, NEW P \in PermissionSets,
               GrantAcl(c, i, q, P)
        PROVE  ReferencesExist'
    BY <1>1, <2>1, <2>3 DEF GrantAcl, Exists
  <2>4. ASSUME NEW i \in GrantIds, RevokeAcl(c, i) PROVE ReferencesExist'
    BY <1>1, <2>1, <2>4 DEF RevokeAcl, Exists
  <2>5. CASE ChangeFails(c)
    BY <1>1, <2>1, <2>5 DEF ChangeFails, Exists
  <2>6. QED
    BY <1>4, <2>2, <2>3, <2>4, <2>5 DEF ChangeStep
<1>5. QED
  BY <1>2, <1>3, <1>4 DEF Next

(* A step of a request. *)
LEMMA ReadingStep ==
    ASSUME IInv, TypeOK', NEW r \in Requests, RequestStep(r)
    PROVE  HistoryOf(r)'
<1> USE DEF IInv, HistoryOf, TypeOK
<1>1. Watch /\ UNCHANGED accessVars /\ req'[r].pc # "idle"
  <2>1. ASSUME NEW u \in Users, NEW p \in VisibilityPermissions, Enter(r, u, p)
        PROVE  req'[r].pc # "idle"
    BY <2>1 DEF Enter, IdleRequest
  <2>2. ASSUME ReadDocuments(r) PROVE req'[r].pc # "idle"
    BY <2>2 DEF ReadDocuments
  <2>3. ASSUME ReadGroups(r) \/ ReadGrants(r) PROVE req'[r].pc # "idle"
    BY <2>3 DEF ReadGroups, ReadGrants
  <2>4. ASSUME NEW S \in SUBSET Docs, Search(r, S) PROVE req'[r].pc # "idle"
    BY <2>4 DEF Search
  <2>5. ASSUME Answer(r) \/ ListDocuments(r) PROVE req'[r].pc # "idle"
    BY <2>5 DEF Answer, ListDocuments
  <2>6. Watch /\ UNCHANGED accessVars
    BY DEF RequestStep, Enter, ReadDocuments, ReadGroups, ReadGrants, Search, Answer,
           ListDocuments
  <2>7. QED
    BY <2>1, <2>2, <2>3, <2>4, <2>5, <2>6 DEF RequestStep
<1>2. /\ seen'[r].could = seen[r].could \cup Usable(r)'
      /\ seen[r].late \subseteq seen'[r].late
      /\ seen[r].left => seen'[r].left
      /\ Residue' = Residue
  BY <1>1, WatchRecords DEF Residue
<1>3. UsableIsSeen(r)'
  BY <1>2 DEF UsableIsSeen
<1>12. ASSUME req[r].pc # "idle", req'[r].privileged = req[r].privileged
       PROVE  PrivilegedSawAll(r)'
  BY <1>1, <1>2, <1>12 DEF PrivilegedSawAll, Exists
<1>4. ASSUME NEW u \in Users, NEW p \in VisibilityPermissions, Enter(r, u, p)
      PROVE  HistoryOf(r)'
  <2>1. PrivilegedSawAll(r)'
    BY <1>1, <1>2, <1>4 DEF Enter, PrivilegedSawAll, Usable, MayUse, CanAccess, Live
  <2>2. GroupsAreCurrent(r)' /\ ScopeWasUsable(r)' /\ FoundInScope(r)'
        /\ FoundWasUsable(r)' /\ ListWasUsable(r)'
    BY <1>4 DEF Enter, IdleRequest, GroupsAreCurrent, ScopeWasUsable, FoundInScope,
                FoundWasUsable, ListWasUsable
  <2>3. QED
    BY <1>3, <2>1, <2>2
<1>5. ASSUME ReadDocuments(r) PROVE HistoryOf(r)'
  <2>1. ScopeWasUsable(r)'
    <3>1. CASE req[r].privileged
      <4>1. req[r].allowed = {}
        BY <1>5 DEF ReadDocuments, FoundInScope
      <4>2. req'[r].allowed = req[r].allowed
        BY <1>5, <3>1 DEF ReadDocuments
      <4>3. QED
        BY <4>1, <4>2 DEF ScopeWasUsable
    <3>2. CASE ~req[r].privileged
      <4>1. OwnedOrVisible(req[r].user, req[r].permission) \subseteq Usable(r)
        BY OwnedIsUsable DEF Usable, OwnedOrVisible
      <4>2. req'[r].allowed = OwnedOrVisible(req[r].user, req[r].permission)
        BY <1>5, <3>2 DEF ReadDocuments
      <4>3. Usable(r) \subseteq seen[r].could
        BY <1>5 DEF ReadDocuments, UsableIsSeen
      <4>4. QED
        BY <1>2, <4>1, <4>2, <4>3 DEF ScopeWasUsable
    <3>3. QED
      BY <3>1, <3>2
  <2>2. /\ req[r].pc = "entered"
        /\ req'[r].pc \in {"owned", "scoped"}
        /\ req'[r].found = req[r].found
        /\ req'[r].privileged = req[r].privileged
        /\ UNCHANGED gone
    BY <1>1, <1>5 DEF ReadDocuments
  <2>3. GroupsAreCurrent(r)' /\ FoundInScope(r)' /\ FoundWasUsable(r)' /\ ListWasUsable(r)'
    BY <1>2, <2>2 DEF GroupsAreCurrent, FoundInScope, FoundWasUsable, ListWasUsable
  <2>4. PrivilegedSawAll(r)'
    BY <1>12, <2>2
  <2>5. QED
    BY <1>3, <2>1, <2>3, <2>4
<1>6. ASSUME ReadGroups(r) PROVE HistoryOf(r)'
  <2>1. /\ req[r].pc = "owned"
        /\ req'[r] = [req[r] EXCEPT !.pc = "grouped", !.groups = GroupsOf(req[r].user)]
    BY <1>6 DEF ReadGroups
  <2>2. req'[r].groups = GroupsOf(req[r].user)' /\ req'[r].user = req[r].user
    BY <1>1, <2>1 DEF GroupsOf
  <2>3. GroupsAreCurrent(r)'
    BY <1>1, <2>2 DEF GroupsAreCurrent, GroupsOf
  <2>7. ScopeWasUsable(r)'
    BY <1>1, <1>2, <2>1 DEF ScopeWasUsable
  <2>8. FoundInScope(r)'
    BY <2>1 DEF FoundInScope
  <2>9. req'[r].found = {}
    BY <2>1 DEF FoundInScope
  <2>4. FoundWasUsable(r)' /\ ListWasUsable(r)'
    BY <2>9 DEF FoundWasUsable, ListWasUsable
  <2>5. PrivilegedSawAll(r)'
    BY <1>12, <2>1
  <2>6. QED
    BY <1>3, <2>3, <2>4, <2>5, <2>7, <2>8
<1>7. ASSUME ReadGrants(r) PROVE HistoryOf(r)'
  <2>1. ScopeWasUsable(r)'
    <3> SUFFICES ASSUME ~seen'[r].left, NEW d \in req'[r].allowed, ~gone[d]
                 PROVE  d \in seen'[r].could
      BY <1>1 DEF ScopeWasUsable
    <3>1. CASE d \in req[r].allowed
      BY <1>2, <3>1 DEF ScopeWasUsable
    <3>2. CASE d \in GrantedDocs(req[r].user, req[r].groups, req[r].permission)
      <4>1. req[r].groups \subseteq GroupsOf(req[r].user)
        BY <1>2, <1>7 DEF ReadGrants, GroupsAreCurrent
      <4>2. MayUse(req[r].user, d, req[r].permission)
        <5>1. Live(d)
          BY <3>2 DEF GrantedDocs, ReferencesExist, Live
        <5>2. QED
          BY <3>2, <4>1, <5>1, GrantsAreUsable
      <4>3. d \in Usable(r)
        BY <3>2, <4>2 DEF Usable, GrantedDocs
      <4>4. QED
        BY <1>2, <1>7, <4>3 DEF ReadGrants, UsableIsSeen
    <3>3. QED
      BY <1>7, <3>1, <3>2 DEF ReadGrants
  <2>2. GroupsAreCurrent(r)' /\ FoundInScope(r)' /\ FoundWasUsable(r)' /\ ListWasUsable(r)'
    BY <1>2, <1>7 DEF ReadGrants, GroupsAreCurrent, FoundInScope, FoundWasUsable, ListWasUsable
  <2>3. PrivilegedSawAll(r)'
    BY <1>7, <1>12 DEF ReadGrants
  <2>4. QED
    BY <1>3, <2>1, <2>2, <2>3
<1>8. ASSUME NEW S \in SUBSET Docs, Search(r, S) PROVE HistoryOf(r)'
  <2>1. FoundWasUsable(r)'
    <3>1. \A d \in S : ~seen[r].left =>
             d \in seen[r].could \cup seen[r].late \cup Residue
      BY <1>8 DEF Search, Scope, ScopeWasUsable, PrivilegedSawAll, Residue
    <3>2. QED
      BY <1>2, <1>8, <3>1 DEF Search, FoundWasUsable
  <2>2. GroupsAreCurrent(r)' /\ FoundInScope(r)' /\ ScopeWasUsable(r)' /\ ListWasUsable(r)'
    BY <1>1, <1>2, <1>8 DEF Search, GroupsAreCurrent, FoundInScope, ScopeWasUsable, ListWasUsable
  <2>3. PrivilegedSawAll(r)'
    BY <1>8, <1>12 DEF Search
  <2>4. QED
    BY <1>3, <2>1, <2>2, <2>3
<1>9. ASSUME Answer(r) PROVE HistoryOf(r)'
  <2>1. GroupsAreCurrent(r)' /\ FoundInScope(r)' /\ ScopeWasUsable(r)' /\ FoundWasUsable(r)'
        /\ ListWasUsable(r)'
    BY <1>1, <1>2, <1>9 DEF Answer, GroupsAreCurrent, FoundInScope, ScopeWasUsable,
                FoundWasUsable, ListWasUsable
  <2>2. PrivilegedSawAll(r)'
    BY <1>9, <1>12 DEF Answer
  <2>3. QED
    BY <1>3, <2>1, <2>2
<1>10. ASSUME ListDocuments(r) PROVE HistoryOf(r)'
  <2>1. req'[r] = [req[r] EXCEPT !.pc = "done", !.found = {d \in Scope(r) : ~gone[d]}]
    BY <1>10 DEF ListDocuments
  <2>5. \A d \in Scope(r) : ~gone[d] /\ ~seen[r].left => d \in seen[r].could \cup seen[r].late
    BY <1>10 DEF ListDocuments, Scope, ScopeWasUsable, PrivilegedSawAll
  <2>2. FoundWasUsable(r)' /\ ListWasUsable(r)'
    BY <1>2, <2>1, <2>5 DEF FoundWasUsable, ListWasUsable
  <2>3. GroupsAreCurrent(r)' /\ FoundInScope(r)'
    BY <2>1 DEF GroupsAreCurrent, FoundInScope
  <2>7. ScopeWasUsable(r)'
    BY <1>1, <1>2, <2>1 DEF ScopeWasUsable
  <2>4. PrivilegedSawAll(r)'
    <3>1. req[r].pc # "idle"
      BY <1>10 DEF ListDocuments
    <3>2. req[r] \in Request
      OBVIOUS
    <3>3. req'[r].privileged = req[r].privileged
      BY <2>1, <3>2
    <3>4. QED
      BY <1>12, <3>1, <3>3
  <2>6. QED
    BY <1>3, <2>2, <2>3, <2>4, <2>7
<1>11. QED
  BY <1>4, <1>5, <1>6, <1>7, <1>8, <1>9, <1>10 DEF RequestStep

LEMMA InductiveStep == IInv /\ [Next]_vars => IInv'
<1> SUFFICES ASSUME IInv, [Next]_vars PROVE IInv'
  OBVIOUS
<1>1. TypeOK'
  BY TypeStep DEF IInv
<1>2. ASSUME NEW r \in Requests, RequestStep(r) PROVE \A q \in Requests : HistoryOf(q)'
  <2>1. Deletions
    BY <1>2 DEF Deletions, Residue, Exists, RequestStep, Enter, ReadDocuments, ReadGroups, ReadGrants,
                Search, Answer, ListDocuments
  <2>2. Watch /\ \A q \in Requests : q # r => req'[q] = req[q]
    BY <1>2 DEF IInv, TypeOK, RequestStep, Enter, ReadDocuments, ReadGroups, ReadGrants,
                Search, Answer, ListDocuments
  <2>3. QED
    BY <1>1, <1>2, <2>1, <2>2, HistoryOfOthers, ReadingStep
<1>3. CASE UNCHANGED vars
  <2>1. \A r \in Requests : Usable(r)' = Usable(r)
    BY <1>3 DEF Usable, MayUse, CanAccess, Live, Exists, GrantMatches, GroupsOf
  <2>5. ReferencesExist'
    BY <1>3 DEF IInv, ReferencesExist, Exists
  <2>2. Residue' = Residue /\ (\A d \in Docs : Exists(d)' = Exists(d)) /\ \A u \in Users : GroupsOf(u)' = GroupsOf(u)
    BY <1>3 DEF Residue, GroupsOf, Exists
  <2>3. ASSUME NEW r \in Requests PROVE HistoryOf(r)'
    BY <1>3, <2>1, <2>2 DEF IInv, HistoryOf, TypeOK, UsableIsSeen, PrivilegedSawAll,
              GroupsAreCurrent, ScopeWasUsable, FoundInScope, FoundWasUsable, ListWasUsable
  <2>4. QED
    BY <1>1, <2>3, <2>5 DEF IInv
<1>4. ASSUME Next PROVE ReferencesExist'
  BY <1>1, <1>4, ReferencesStep
<1>5. QED
  BY <1>1, <1>2, <1>3, <1>4, AdministrationStep DEF IInv, Next

(* Every reachable state satisfies the inductive invariant. *)
THEOREM Invariance == Spec => []IInv
<1>1. QED
  BY InitIInv, InductiveStep, PTL DEF Spec

----------------------------------------------------------------------------
(* The list and the single-document endpoints apply one rule. *)
THEOREM ListMatchesCheck == Spec => []SetAgreesWithCheck
<1>1. QED
  BY OneRule, PTL

(* What a request finds its caller could use while it ran, unless the       *)
(* caller left a group in between, the document came after the role was     *)
(* lost, or a deleted document kept passages.                              *)
THEOREM ReadsAreAllowed == Spec => []ReadsWereAllowed
<1>1. IInv => ReadsWereAllowed
  BY DEF IInv, HistoryOf, FoundWasUsable, ReadsWereAllowed
<1>2. QED
  BY <1>1, Invariance, PTL

(* Lists hold no leftovers of deleted documents, and nothing else that was  *)
(* not the caller's to see, but what came after a manager's role was lost.  *)
THEOREM ListsAreLive == Spec => []ListsShowNoResidue
<1>1. IInv => ListsShowNoResidue
  BY DEF IInv, HistoryOf, ListWasUsable, ListsShowNoResidue
<1>2. QED
  BY <1>1, Invariance, PTL
=============================================================================
