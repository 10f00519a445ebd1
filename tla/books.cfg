SPECIFICATION BooksSpec
CONSTANTS
    NoInvoice = NoInvoice
    Handlers = {h1, h2}
    Modes = {"serial", "overlap"}
    Invoices = {i1}
    Ops <- MCOps
    Amounts = {1, 2}
    Subtotals = {1, 2}
    Rates = {0, 5000}
    Bare = {"serial"}
    BodyStatus <- MCBodyStatus
    MaxCalls = 5
    Workers = {w1, w2}
    Worlds = {"serial", "overlap"}
    Txs <- MCTxs
    Codes <- MCCodes
    Locked <- MCLocked
    Type <- MCType
    Numeric4 = {}
    Modern <- MCModern
    Payees <- MCPayees
    Movement <- MCMovement
    Calls <- MCCalls
    Earlier = {"t2"}
    MaxAi = 2
SYMMETRY MCSymmetry
INVARIANTS
    PaidIsSum
    TotalIsSum
    PaidIsCovered
    NothingLeftBehind
    ReviewIsOpen
    BooksAgree
PROPERTIES
    BulkFollowsRules
CHECK_DEADLOCK FALSE
