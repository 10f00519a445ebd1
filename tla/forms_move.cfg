SPECIFICATION Spec
CONSTANTS
    Workers = {w1, w2}
    Ana = Ana
    Luis = Luis
    People = {Ana, Luis}
    Modes <- MCModes
    Types = {"apertura-llc"}
    Payloads <- MCPayloads
    Accounts = {}
    MaxCalls = 3
INVARIANTS
    ReplacedStayGone
CHECK_DEADLOCK FALSE
