SPECIFICATION MCSpec
CONSTANTS
    a = a
    b = b
    c1 = c1
    c2 = c2
    None = None
    Clients = {c1, c2}
    Records = {a, b}
    Transactions <- MCTransactions
    Messages = {1, 2}
    Workers = {w1, w2}
    MaxCalls = 2
    MaxClaims = 2
CONSTRAINT Scenario
INVARIANTS
    TypesOK
    RepliesExact
    HistoryStands
PROPERTIES
    ImplementsStore
    NothingStuck
CHECK_DEADLOCK FALSE
