\* No symmetry: a liveness property is checked.
SPECIFICATION FairSpec
CONSTANTS
    Docs = {d1, d2, d3}
    Uploads = {u1, u2}
    Deletes = {x1}
    NoDoc = NoDoc
    NoUpload = NoUpload
    MaxChunks = 1
    MaxCrashes = 1
CHECK_DEADLOCK FALSE
PROPERTY
    UploadSettlesUnlessDropped
