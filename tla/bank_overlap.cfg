SPECIFICATION Spec
CONSTANTS
    Workers = {w1, w2}
    Items = {i1}
    Movements = {m1, m2}
    Renamed = {m2}
    Line <- MCLine
    Look <- MCLook
    Stamps = {s1}
    Ops = {"exchange", "sync", "disconnect", "webhook", "cron", "csv", "login", "fail", "crash"}
    MaxCalls = 4
INVARIANTS
    SyncedIsStored
CHECK_DEADLOCK FALSE
