SPECIFICATION Spec
CONSTANTS
    Docs = {d1}
    Uploads = {u1}
    Deletes = {x1}
    NoDoc = NoDoc
    NoUpload = NoUpload
    MaxChunks = 2
    MaxCrashes = 0
CHECK_DEADLOCK FALSE
INVARIANT
    DeletedNeverResurfaces
