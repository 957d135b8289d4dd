\* One manager retags one document, with nobody else around.
SPECIFICATION MCSpec
CONSTANTS
    enterprise = enterprise
    smb = smb
    price = price
    delay = delay
    basics = basics
    deck = deck
    days30 = days30
    days60 = days60
    chunks = chunks
    Requests = {r1}
    Kinds = {"set_document_segments"}
    Names = {enterprise, smb}
    Labels = {price}
    Titles = {basics}
    Docs = {deck}
    Types = {chunks}
    Days = {days30}
    Templates <- MCTemplates
    None = None
CHECK_DEADLOCK FALSE
INVARIANT RetagReplaces
