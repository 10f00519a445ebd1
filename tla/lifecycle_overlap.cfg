SPECIFICATION Spec
CONSTANTS
    NoCharge = NoCharge
    NoRequest = NoRequest
    Charges = {c1}
    Workers = {w1, w2}
    Requests = {r1}
    Ops = {"create", "update", "wizUpdate", "approve", "reject", "deal", "import"}
    Patches <- OnwardPatches
    MaxCalls = 4
    MaxNotices = 1
INVARIANTS
    ProcessedIsLinked
    ReceivedIsAnnounced
CHECK_DEADLOCK FALSE
