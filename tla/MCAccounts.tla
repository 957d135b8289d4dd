----------------------------- MODULE MCAccounts -----------------------------
(* An instance of Accounts for TLC: a tenant with an owner and a second     *)
(* user, and requests of either family on every row they can meet.         *)
EXTENDS Accounts, TLC

CONSTANTS u1, u2, u3, e1, e2, e3, owner, member, trial, business, legacy, active, canceled

MCSeatLimit == (trial :> 3) @@ (business :> None)

MCPatches == (Roles \X {None}) \cup ({None} \X BOOLEAN)

User(e, role, on) == [email |-> e, role |-> role, active |-> on, deleted |-> FALSE]

(* The requests of a run: three of the given kinds, or two and one that     *)
(* finds no row to work on.                                                *)
Three(kinds) == [Requests -> {Idle(k) : k \in kinds \cap Kinds}]
Two(kinds, other) == {f \in Three(kinds \cup {other}) : \E r \in Requests : f[r].kind = other}

Held(rows, none, one) == [x \in rows |-> IF x = CHOOSE y \in rows : TRUE THEN one ELSE none]

Token(u) == [user |-> u, used |-> FALSE, expired |-> FALSE]
Key(u) == [user |-> u, revoked |-> FALSE, expired |-> FALSE]
Dsr(status, subject, e) == [status |-> status, erasure |-> TRUE, subject |-> subject, email |-> e]
NoDsr == Dsr("absent", None, None)

TheUsers(second) ==
    users \in {(u1 :> User(e1, owner, TRUE)) @@ (u2 :> u) @@ (u3 :> NoUser) : u \in second}

NoInvites == invites = [i \in Invites |-> NoInvite]

MembershipInit ==
    /\ TheUsers({User(e2, owner, TRUE), User(e2, member, FALSE)})
    /\ invites = Held(Invites, NoInvite, [email |-> e3, role |-> member, key |-> None,
                                         status |-> "pending", expired |-> FALSE])
    /\ dsrs = [d \in Dsrs |-> NoDsr]
    /\ req \in Two({"create_user", "update_user", "deactivate_user", "create_invitation",
                    "regenerate_link", "revoke_invitation", "accept_invite", "webhook"},
                   "fulfill_dsr")
              \cup Three({"regenerate_link", "revoke_invitation", "accept_invite"})

(* Both invitation rows are free. *)
InvitationsInit ==
    /\ TheUsers({User(e2, member, FALSE)})
    /\ NoInvites
    /\ dsrs = [d \in Dsrs |-> NoDsr]
    /\ req \in Three({"create_user", "create_invitation", "accept_invite"})

PrivacyInit ==
    /\ TheUsers({User(e2, owner, TRUE), User(e2, member, FALSE)})
    /\ NoInvites
    /\ dsrs \in {Held(Dsrs, NoDsr, Dsr("received", u2, e2)),
                 Held(Dsrs, NoDsr, Dsr("received", None, e3))}
    /\ req \in Two({"create_user", "update_user", "deactivate_user", "forgot_password",
                    "reset_password", "create_api_key", "revoke_api_key", "create_dsr",
                    "fulfill_dsr", "ask", "mcp_tool"}, "accept_invite")

ErasureInit ==
    /\ TheUsers({User(e2, member, FALSE)})
    /\ NoInvites
    /\ dsrs \in {Held(Dsrs, NoDsr, Dsr("received", u2, e2)),
                 Held(Dsrs, NoDsr, Dsr("received", None, e2)),
                 Held(Dsrs, NoDsr, Dsr("received", None, e3))}
    /\ req \in Three({"create_user", "fulfill_dsr"})
              \cup {f \in Three({"update_user", "fulfill_dsr", "ask", "mcp_tool", "login", "refresh"}) :
                       Cardinality({r \in Requests : f[r].kind = "update_user"}) <= 1}

MCInit ==
    /\ sub = [plan |-> trial, status |-> active]
    /\ tokens = Held(Tokens, Token(None), Token(u2))
    /\ keys = Held(Keys, Key(None), Key(u2))
    /\ queries = {}
    /\ MembershipInit \/ InvitationsInit \/ PrivacyInit \/ ErasureInit
    /\ RowsInit
    /\ past = [r \in Requests |-> {}]
    /\ done = {}

MCSpec == MCInit /\ [][Next]_vars

Symmetry == Permutations(Requests)
=============================================================================
