\* Overlapping requests of three kinds on what one tenant curates.
\* Deadlock: each request id is used once.
SPECIFICATION MCSpec
CONSTANTS
    enterprise = enterprise
    smb = smb
    price = price
    delay = delay
    basics = basics
    deck = deck
    days30 = days30
    days60 = days60
    chunks = chunks
    Requests = {r1, r2, r3}
    Kinds <- AllKinds
    Names = {enterprise, smb}
    Labels = {price, delay}
    Titles = {basics}
    Docs = {deck}
    Types = {chunks}
    Days = {days30, days60}
    Templates <- MCTemplates
    None = None
SYMMETRY Symmetry
CHECK_DEADLOCK FALSE
INVARIANTS
    TypeOK
    TagsAreLastRetag
    TemplateAddsOnlyMissing
    FailsOnlyByRace
    RetentionIsLastUpsert
