SPECIFICATION FairSpec
CONSTANTS
    Workers = {w1}
    Customers = {c1, c2}
    NoCustomer = NoCustomer
    Kinds = {"client", "partner-client", "staff"}
    Ops = {"access", "checkout", "portal", "grant", "webhook", "cron", "reschedule", "fail", "crash"}
    ListLimit = 2
    MaxSubs = 3
    MaxEvents = 3
    MaxCalls = 5
INVARIANTS
    TypeOK
    AccessFollowsStatus
    PayerIsKnown
    RecordedIsApplied
PROPERTIES
    PaidIsSeen
    EndedIsCut
CHECK_DEADLOCK FALSE
