SPECIFICATION Spec
CONSTANTS
    Workers = {w1, w2}
    Ana = Ana
    Luis = Luis
    People = {Ana, Luis}
    Modes <- MCModes
    Types = {"apertura-llc", "renovacion-llc", "cuenta-bancaria"}
    Payloads <- MCPayloads
    Accounts <- MCAccounts
    MaxCalls = 3
INVARIANTS
    OneList
    CheckedAddsUp
PROPERTIES
    LateKept
    HandlersEnd
CHECK_DEADLOCK FALSE
