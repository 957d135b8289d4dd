--------------------------- MODULE DocumentAccess ---------------------------
(***************************************************************************)
(* Who may do what with a document of a tenant (services/authz.py), the    *)
(* administration that changes it (api/v1/documents.py, api/v1/admin.py),  *)
(* the uploads that add to it, and the requests that read it: the          *)
(* retriever of a question, a search, and the document list.               *)
(*                                                                         *)
(* Such a request computes the caller's set of documents with one SELECT   *)
(* after another and then searches within that set.  The database runs at  *)
(* READ COMMITTED, so every SELECT may see a different state; each is an   *)
(* action here, and administration and uploads commit in between.          *)
(***************************************************************************)
EXTENDS Naturals, FiniteSets

CONSTANTS
    Users, Groups, Docs,
    GrantIds,       \* bound: document_access_control rows at a time
    Requests,       \* questions, searches and list requests
    Changes,        \* requests to the ACL endpoints
    NoGrant,        \* no such document_access_control row
    NoDoc,          \* the document of an idle ACL request
    Founder,        \* the user who signed the tenant up, its first OWNER
    Owner,          \* documents.owner_user_id
    RepVisible,     \* documents with visibility REP_VISIBLE
    PermissionSets  \* bound: the permission lists that are granted

Permissions == {"view", "query", "delete", "review", "manage"}

(* Permissions an AE has on rep-visible content without a grant. *)
VisibilityPermissions == {"view", "query"}

Principals == ({"user"} \X Users) \cup ({"group"} \X Groups)

Grant == [doc : Docs, principal : Principals, permissions : PermissionSets]

ASSUME ConstantsAssumption ==
    /\ NoGrant \notin Grant
    /\ NoDoc \notin Docs
    /\ Founder \in Users
    /\ Owner \in [Docs -> Users]
    /\ RepVisible \subseteq Docs
    /\ PermissionSets \subseteq SUBSET Permissions

VARIABLES
    privileged,     \* users.role is OWNER or ADMIN
    groups,         \* the groups rows
    member,         \* the group_memberships rows
    grants,         \* the document_access_control rows
    gone,           \* documents.deleted_at IS NOT NULL
    passages,       \* a document's row and its document_chunks: see Exists
    change,         \* document an ACL request was let through to
    req,            \* local state of a reading request
    seen            \* history: see Watch

accessVars == <<privileged, groups, member, grants, gone, passages>>
vars == <<accessVars, change, req, seen>>

----------------------------------------------------------------------------
(* A document is absent, then uploaded by a request that has not committed; *)
(* from the commit on its row exists and its passages are not stored yet,   *)
(* stored, or purged.                                                      *)
Stages == {"absent", "uploading", "pending", "stored", "purged"}

Exists(d) == passages[d] \notin {"absent", "uploading"}

Live(d) == Exists(d) /\ ~gone[d]

----------------------------------------------------------------------------
(* services/authz.py *)

GroupsOf(u) == {g \in Groups : <<u, g>> \in member}

(* _grant_matches *)
GrantMatches(g, u, gs, p) ==
    /\ p \in g.permissions
    /\ \/ g.principal = <<"user", u>>
       \/ \E h \in gs : g.principal = <<"group", h>>

(* Variant: the permission list of the grant is not looked at. *)
GrantedDocsAnyPermission(u, gs, p) ==
    {d \in Docs : \E i \in GrantIds : \E q \in Permissions :
        grants[i] # NoGrant /\ grants[i].doc = d /\ GrantMatches(grants[i], u, gs, q)}

(* Variant: grants to groups are forgotten. *)
GrantedDocsToUser(u, gs, p) ==
    {d \in Docs : \E i \in GrantIds :
        grants[i] # NoGrant /\ grants[i].doc = d /\ GrantMatches(grants[i], u, {}, p)}

GrantedDocs(u, gs, p) ==
    {d \in Docs : \E i \in GrantIds :
        grants[i] # NoGrant /\ grants[i].doc = d /\ GrantMatches(grants[i], u, gs, p)}

OwnedOrVisible(u, p) ==
    {d \in Docs : /\ Live(d)
                  /\ \/ Owner[d] = u
                     \/ p \in VisibilityPermissions /\ d \in RepVisible}

(* accessible_document_ids, its statements taken at one moment. *)
AccessibleDocs(u, p) ==
    IF privileged[u] THEN {d \in Docs : Exists(d)}
    ELSE OwnedOrVisible(u, p) \cup GrantedDocs(u, GroupsOf(u), p)

(* can_access_document *)
CanAccess(u, d, p) ==
    \/ privileged[u]
    \/ /\ Live(d)
       /\ \/ Owner[d] = u
          \/ p \in VisibilityPermissions /\ d \in RepVisible
          \/ \E i \in GrantIds :
                grants[i] # NoGrant /\ grants[i].doc = d
                /\ GrantMatches(grants[i], u, GroupsOf(u), p)

(* The endpoints on one document look for its row and deleted_at first. *)
MayUse(u, d, p) == Live(d) /\ CanAccess(u, d, p)

----------------------------------------------------------------------------
RequestPcs == {"idle", "entered", "owned", "grouped", "scoped", "done"}

Request == [pc : RequestPcs, user : Users, permission : VisibilityPermissions,
            privileged : BOOLEAN, allowed : SUBSET Docs, groups : SUBSET Groups,
            found : SUBSET Docs]

IdleRequest == [pc |-> "idle", user |-> Founder, permission |-> "view",
                privileged |-> FALSE, allowed |-> {}, groups |-> {}, found |-> {}]

Seen == [could : SUBSET Docs, late : SUBSET Docs, left : BOOLEAN]

TypeOK ==
    /\ privileged \in [Users -> BOOLEAN]
    /\ groups \subseteq Groups
    /\ member \subseteq Users \X groups
    /\ grants \in [GrantIds -> Grant \cup {NoGrant}]
    /\ gone \in [Docs -> BOOLEAN]
    /\ passages \in [Docs -> Stages]
    /\ change \in [Changes -> Docs \cup {NoDoc}]
    /\ req \in [Requests -> Request]
    /\ seen \in [Requests -> Seen]

Init ==
    /\ privileged = [u \in Users |-> u = Founder]
    /\ groups = Groups
    /\ member = {}
    /\ grants = [i \in GrantIds |-> NoGrant]
    /\ gone = [d \in Docs |-> FALSE]
    /\ passages = [d \in Docs |-> "absent"]
    /\ change = [c \in Changes |-> NoDoc]
    /\ req = [r \in Requests |-> IdleRequest]
    /\ seen = [r \in Requests |-> [could |-> {}, late |-> {}, left |-> FALSE]]

----------------------------------------------------------------------------
(* History of a request in progress: the documents its caller could use at  *)
(* some moment since it entered; the documents committed after its caller,  *)
(* who entered as a manager, lost that role; and whether the caller left a  *)
(* group between the request's reading of the memberships and of the        *)
(* grants.  Every action ends with it.                                      *)
Usable(r) == {d \in Docs : MayUse(req[r].user, d, req[r].permission)}

Watch ==
    seen' = [r \in Requests |->
        IF req'[r].pc = "idle" THEN seen[r]
        ELSE [could |-> seen[r].could \cup Usable(r)',
              late |-> seen[r].late \cup
                       {d \in Docs : /\ ~Exists(d) /\ Exists(d)'
                                     /\ req[r].privileged /\ ~privileged'[req[r].user]},
              left |-> \/ seen[r].left
                       \/ req[r].pc = "grouped"
                          /\ ~(req[r].groups \subseteq GroupsOf(req[r].user)')]]

----------------------------------------------------------------------------
(* Administration *)

AdminPresent == \E a \in Users : privileged[a]

(* update_user: anyone's role, the administrator's own and the last one's too. *)
UpdateRole(u) ==
    /\ AdminPresent
    /\ privileged' = [privileged EXCEPT ![u] = ~privileged[u]]
    /\ UNCHANGED <<groups, member, grants, gone, passages, change, req>>
    /\ Watch

AddGroupMember(u, g) ==
    /\ AdminPresent
    /\ g \in groups
    /\ <<u, g>> \notin member
    /\ member' = member \cup {<<u, g>>}
    /\ UNCHANGED <<privileged, groups, grants, gone, passages, change, req>>
    /\ Watch

RemoveGroupMember(u, g) ==
    /\ AdminPresent
    /\ <<u, g>> \in member
    /\ member' = member \ {<<u, g>>}
    /\ UNCHANGED <<privileged, groups, grants, gone, passages, change, req>>
    /\ Watch

(* Variant: no cascade. *)
DeleteGroupKeepingMembers(g) ==
    /\ AdminPresent
    /\ g \in groups
    /\ groups' = groups \ {g}
    /\ UNCHANGED <<privileged, member, grants, gone, passages, change, req>>
    /\ Watch

(* Memberships go with the group (ON DELETE CASCADE); grants to it, whose   *)
(* principal_id is no foreign key, stay.                                   *)
DeleteGroup(g) ==
    /\ AdminPresent
    /\ g \in groups
    /\ groups' = groups \ {g}
    /\ member' = {m \in member : m[2] # g}
    /\ UNCHANGED <<privileged, grants, gone, passages, change, req>>
    /\ Watch

(* _manageable_document, the check of an ACL request. *)
CheckManage(c, u, d) ==
    /\ change[c] = NoDoc
    /\ MayUse(u, d, "view")
    /\ MayUse(u, d, "manage")
    /\ change' = [change EXCEPT ![c] = d]
    /\ UNCHANGED <<accessVars, req>>
    /\ Watch

(* grant_document_acl after the check; nothing keeps the document alive or  *)
(* two rows for one principal apart.                                       *)
GrantAcl(c, i, q, P) ==
    /\ change[c] # NoDoc
    /\ grants[i] = NoGrant
    /\ q[1] = "group" => q[2] \in groups
    /\ grants' = [grants EXCEPT ![i] = [doc |-> change[c], principal |-> q,
                                       permissions |-> P]]
    /\ change' = [change EXCEPT ![c] = NoDoc]
    /\ UNCHANGED <<privileged, groups, member, gone, passages, req>>
    /\ Watch

(* revoke_document_acl after the check. *)
RevokeAcl(c, i) ==
    /\ change[c] # NoDoc
    /\ grants[i] # NoGrant
    /\ grants[i].doc = change[c]
    /\ grants' = [grants EXCEPT ![i] = NoGrant]
    /\ change' = [change EXCEPT ![c] = NoDoc]
    /\ UNCHANGED <<privileged, groups, member, gone, passages, req>>
    /\ Watch

(* Unknown principal or grant, or a database error: rollback. *)
ChangeFails(c) ==
    /\ change[c] # NoDoc
    /\ change' = [change EXCEPT ![c] = NoDoc]
    /\ UNCHANGED <<accessVars, req>>
    /\ Watch

(* An upload, a batch, a URL import or a sync begins: its caller is a       *)
(* manager at the gate.                                                    *)
StartUpload(d) ==
    /\ privileged[Owner[d]]
    /\ passages[d] = "absent"
    /\ passages' = [passages EXCEPT ![d] = "uploading"]
    /\ UNCHANGED <<privileged, groups, member, grants, gone, change, req>>
    /\ Watch

(* Its commit, one for all documents of the request, whatever became of the *)
(* caller's role since.  An upload that fails commits nothing: it stays.    *)
CommitUpload(D) ==
    /\ D # {}
    /\ \A d \in D : passages[d] = "uploading"
    /\ passages' = [d \in Docs |-> IF d \in D THEN "pending" ELSE passages[d]]
    /\ UNCHANGED <<privileged, groups, member, grants, gone, change, req>>
    /\ Watch

(* delete_document, with the effect its commit has: passages that are not   *)
(* stored yet escape it (module DocumentLifecycle).                        *)
DeleteDocument(u, d) ==
    /\ MayUse(u, d, "view")
    /\ MayUse(u, d, "delete")
    /\ gone' = [gone EXCEPT ![d] = TRUE]
    /\ passages' = [passages EXCEPT ![d] = IF passages[d] = "stored" THEN "purged"
                                           ELSE passages[d]]
    /\ UNCHANGED <<privileged, groups, member, grants, change, req>>
    /\ Watch

(* process_document completes, whether or not the document was deleted. *)
StorePassages(d) ==
    /\ passages[d] = "pending"
    /\ passages' = [passages EXCEPT ![d] = "stored"]
    /\ UNCHANGED <<privileged, groups, member, grants, gone, change, req>>
    /\ Watch

----------------------------------------------------------------------------
(* A reading request *)

(* get_current_user: the role is read once and used for the whole request. *)
Enter(r, u, p) ==
    /\ req[r].pc = "idle"
    /\ req' = [req EXCEPT ![r] = [IdleRequest EXCEPT !.pc = "entered", !.user = u,
                                  !.permission = p, !.privileged = privileged[u]]]
    /\ UNCHANGED <<accessVars, change>>
    /\ Watch

(* accessible_document_ids: None (no restriction) for a privileged role,    *)
(* otherwise the owned and the rep-visible documents first.                *)
ReadDocuments(r) ==
    /\ req[r].pc = "entered"
    /\ IF req[r].privileged
       THEN req' = [req EXCEPT ![r].pc = "scoped"]
       ELSE req' = [req EXCEPT ![r].pc = "owned",
                               ![r].allowed = OwnedOrVisible(req[r].user, req[r].permission)]
    /\ UNCHANGED <<accessVars, change>>
    /\ Watch

(* user_group_ids *)
ReadGroups(r) ==
    /\ req[r].pc = "owned"
    /\ req' = [req EXCEPT ![r].pc = "grouped", ![r].groups = GroupsOf(req[r].user)]
    /\ UNCHANGED <<accessVars, change>>
    /\ Watch

(* The grants, matched against the groups read before; deleted documents    *)
(* are not left out here.                                                  *)
ReadGrants(r) ==
    /\ req[r].pc = "grouped"
    /\ req' = [req EXCEPT ![r].pc = "scoped",
                  ![r].allowed = @ \cup GrantedDocs(req[r].user, req[r].groups,
                                                    req[r].permission)]
    /\ UNCHANGED <<accessVars, change>>
    /\ Watch

(* The documents a statement of the request is restricted to.  None is no   *)
(* restriction: every row there is at the time of that statement.          *)
Scope(r) == IF req[r].privileged THEN {d \in Docs : Exists(d)} ELSE req[r].allowed

(* One hybrid_search: the best passages within the set, whichever they are. *)
(* A question searches once for each of its sub-queries.                   *)
Search(r, S) ==
    /\ req[r].pc = "scoped"
    /\ req[r].permission = "query"
    /\ S # {}
    /\ \A d \in S : d \in Scope(r) /\ passages[d] = "stored"
    /\ req' = [req EXCEPT ![r].found = @ \cup S]
    /\ UNCHANGED <<accessVars, change>>
    /\ Watch

Answer(r) ==
    /\ req[r].pc = "scoped"
    /\ req[r].permission = "query"
    /\ req' = [req EXCEPT ![r].pc = "done"]
    /\ UNCHANGED <<accessVars, change>>
    /\ Watch

(* Variant: the list trusts the computed set and skips deleted_at. *)
ListDocumentsUnfiltered(r) ==
    /\ req[r].pc = "scoped"
    /\ req[r].permission = "view"
    /\ req' = [req EXCEPT ![r].pc = "done", ![r].found = Scope(r)]
    /\ UNCHANGED <<accessVars, change>>
    /\ Watch

(* list_documents *)
ListDocuments(r) ==
    /\ req[r].pc = "scoped"
    /\ req[r].permission = "view"
    /\ req' = [req EXCEPT ![r].pc = "done",
                          ![r].found = {d \in Scope(r) : ~gone[d]}]
    /\ UNCHANGED <<accessVars, change>>
    /\ Watch

----------------------------------------------------------------------------
AdminStep ==
    \/ \E u \in Users : UpdateRole(u)
    \/ \E u \in Users, g \in Groups : AddGroupMember(u, g) \/ RemoveGroupMember(u, g)
    \/ \E g \in Groups : DeleteGroup(g)

DocumentStep ==
    \/ \E d \in Docs : StartUpload(d)
    \/ \E D \in SUBSET Docs : CommitUpload(D)
    \/ \E u \in Users, d \in Docs : DeleteDocument(u, d)
    \/ \E d \in Docs : StorePassages(d)

ChangeStep(c) ==
    \/ \E u \in Users, d \in Docs : CheckManage(c, u, d)
    \/ \E i \in GrantIds, q \in Principals, P \in PermissionSets : GrantAcl(c, i, q, P)
    \/ \E i \in GrantIds : RevokeAcl(c, i)
    \/ ChangeFails(c)

RequestStep(r) ==
    \/ \E u \in Users, p \in VisibilityPermissions : Enter(r, u, p)
    \/ ReadDocuments(r)
    \/ ReadGroups(r)
    \/ ReadGrants(r)
    \/ \E S \in SUBSET Docs : Search(r, S)
    \/ Answer(r)
    \/ ListDocuments(r)

Next ==
    \/ AdminStep
    \/ DocumentStep
    \/ \E c \in Changes : ChangeStep(c)
    \/ \E r \in Requests : RequestStep(r)

Spec == Init /\ [][Next]_vars

----------------------------------------------------------------------------
(* Properties *)

(* The list and the single-document endpoints apply one rule, written twice *)
(* in authz.py: at any moment the live documents of the computed set are    *)
(* those the check on a document lets through.                             *)
SetAgreesWithCheck ==
    \A u \in Users, p \in VisibilityPermissions :
        {d \in AccessibleDocs(u, p) : Live(d)} = {d \in Docs : MayUse(u, d, p)}

(* Passages a deleted document still has: see PurgeOfSettledDocument and    *)
(* DeletedNeverResurfaces in DocumentLifecycle.                            *)
Residue == {d \in Docs : gone[d] /\ passages[d] = "stored"}

(* A request returns only documents its caller could use at some moment     *)
(* between its start and its answer, although its statements see different  *)
(* states and the role is read once.  The exceptions: the caller left a     *)
(* group between two of the statements; the document was uploaded after the *)
(* caller, let in as a manager, lost the role; passages a delete left.      *)
ReadsWereAllowed ==
    \A r \in Requests : ~seen[r].left =>
        req[r].found \subseteq seen[r].could \cup seen[r].late \cup Residue

(* What backend/README.md says: "A user can never retrieve, cite, or stream *)
(* a chunk from a document they can't QUERY" (a role lost during the        *)
(* request and leftover passages aside).                                   *)
NeverReadsUnusable ==
    \A r \in Requests : req[r].found \subseteq seen[r].could \cup seen[r].late \cup Residue

(* A list shows no document that was deleted before the request began, and  *)
(* an access taken away before it began is not used: what could not be used *)
(* at any moment since then is not in the list, unless it was uploaded      *)
(* after the caller, let in as a manager, lost the role.                    *)
ListsShowNoResidue ==
    \A r \in Requests : req[r].permission = "view" /\ ~seen[r].left =>
        req[r].found \subseteq seen[r].could \cup seen[r].late
=============================================================================
