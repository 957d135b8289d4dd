SPECIFICATION Spec
CONSTANTS
    Users = {founder, rep}
    Groups = {g1}
    Docs = {d1}
    GrantIds = {i1}
    Requests = {r1}
    Changes = {c1}
    NoGrant = NoGrant
    NoDoc = NoDoc
    Founder = founder
    Owner <- MCOwner
    RepVisible = {}
    PermissionSets <- MCPermissionSets
SYMMETRY Symmetry
CHECK_DEADLOCK FALSE
INVARIANT
    NeverReadsUnusable
