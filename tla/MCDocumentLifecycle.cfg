\* Two requests of up to three documents in all, two overlapping deletes, one crash.
SPECIFICATION Spec
CONSTANTS
    Docs = {d1, d2, d3}
    Uploads = {u1, u2}
    Deletes = {x1, x2}
    NoDoc = NoDoc
    NoUpload = NoUpload
    MaxChunks = 2
    MaxCrashes = 1
SYMMETRY Symmetry
CHECK_DEADLOCK FALSE
INVARIANTS
    TypeOK
    LiveRowMatchesPassages
    BatchAllOrNothing
    PurgeOfSettledDocument
    BlobLostOnlyToDelete
    VerdictEndsTask
PROPERTY
    ImplementsContract
