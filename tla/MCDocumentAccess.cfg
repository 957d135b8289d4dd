\* A manager and a rep, one group, one restricted document, two grants at a time, one
\* reading request and one ACL request.  Deadlock: the request and the roles can run out.
SPECIFICATION Spec
CONSTANTS
    Users = {founder, rep}
    Groups = {g1}
    Docs = {d1}
    GrantIds = {i1, i2}
    Requests = {r1}
    Changes = {c1}
    NoGrant = NoGrant
    NoDoc = NoDoc
    Founder = founder
    Owner <- MCOwner
    RepVisible = {}
    PermissionSets <- MCPermissionSets
SYMMETRY Symmetry
CHECK_DEADLOCK FALSE
INVARIANTS
    TypeOK
    SetAgreesWithCheck
    ReadsWereAllowed
    ListsShowNoResidue
