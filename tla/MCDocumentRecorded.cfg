SPECIFICATION FairSpec
CONSTANTS
    Docs = {d1, d2}
    Uploads = {u1}
    Deletes = {x1}
    NoDoc = NoDoc
    NoUpload = NoUpload
    MaxChunks = 1
    MaxCrashes = 0
CHECK_DEADLOCK FALSE
PROPERTY
    FailuresAreRecorded
