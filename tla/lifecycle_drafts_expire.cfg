SPECIFICATION FairSpec
CONSTANTS
    NoCharge = NoCharge
    NoRequest = NoRequest
    Charges = {c1}
    Workers = {w1}
    Requests = {r1, r2}
    Ops = {"create", "update", "delete", "cleanup"}
    Patches <- DraftSubmit
    MaxCalls = 4
    MaxNotices = 1
PROPERTIES
    StaleDraftsAreRemoved
CHECK_DEADLOCK FALSE
