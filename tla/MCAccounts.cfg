\* Overlapping requests of three kinds on one tenant's rows.
\* Deadlock: each request id is used once.
SPECIFICATION MCSpec
CONSTANTS
    u1 = u1
    u2 = u2
    u3 = u3
    e1 = e1
    e2 = e2
    e3 = e3
    owner = owner
    member = member
    trial = trial
    business = business
    legacy = legacy
    active = active
    canceled = canceled
    Users = {u1, u2, u3}
    Invites = {i1, i2}
    Tokens = {t1, t2}
    Keys = {k1, k2}
    Dsrs = {d1, d2}
    Requests = {r1, r2, r3}
    Kinds <- AllKinds
    Emails = {e1, e2, e3}
    Roles = {owner, member}
    ManagerRoles = {owner}
    Patches <- MCPatches
    Redacted = Redacted
    None = None
    Plans = {trial, business}
    PlanKeys = {trial, business, legacy}
    SeatLimit <- MCSeatLimit
    DefaultPlan = trial
    Statuses = {active, canceled}
SYMMETRY Symmetry
CHECK_DEADLOCK FALSE
INVARIANTS
    TypeOK
    ManagerLeft
    OneLiveInvite
    MembersAreNotInvited
    SubscriptionIsLastEvent
    TokenUsedOnce
    ErasureSticks
    ErasedDataIsGone
    ErasedCannotAct
    FulfilledOnce
PROPERTIES
    SeatsFitUnlessMissed
    AcceptedAsVerified
