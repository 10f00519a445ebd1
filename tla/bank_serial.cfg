SPECIFICATION FairSpec
CONSTANTS
    Workers = {w1}
    Items = {i1, i2}
    Movements = {m1, m2}
    Renamed = {m2}
    Line <- MCLine
    Look <- MCLook
    Stamps = {s1}
    Ops = {"exchange", "sync", "disconnect", "webhook", "cron", "csv", "login", "fail", "crash"}
    MaxCalls = 4
INVARIANTS
    ImportedOnce
PROPERTIES
    RevokedStaysRevoked
    PostedIsImported
CHECK_DEADLOCK FALSE
