SPECIFICATION Spec
CONSTANTS
    NoCharge = NoCharge
    NoRequest = NoRequest
    Charges = {c1, c2}
    Workers = {w1}
    Requests = {r1}
    Ops = {"create", "update", "wizCreate", "wizUpdate", "manual", "approve", "reject", "delete", "deal", "import", "crash", "timeout"}
    Patches <- AllPatches
    MaxCalls = 4
    MaxNotices = 1
INVARIANTS
    TypeOK
    WizardChargeSettled
PROPERTIES
    KeepsPromise
    ChargeStaysOnRow
CHECK_DEADLOCK FALSE
