SPECIFICATION Spec
CONSTANTS
    NoCharge = NoCharge
    NoRequest = NoRequest
    Charges = {c1, c2}
    Workers = {w1}
    Requests = {r1}
    Ops = {"create", "update"}
    Patches <- PaySwitch
    MaxCalls = 4
    MaxNotices = 1
INVARIANTS
    NoSecondCharge
CHECK_DEADLOCK FALSE
