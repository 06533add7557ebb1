SPECIFICATION MCSpec
CONSTANTS
    None = None
    Tabs = {t1, t2}
    Main = t1
    Reads = {r1, r2}
    Forms = {"login", "signOut", "changePassword"}
    MaxExpiries = 1
    MaxRevokes = 1
    MaxLost = 1
    MaxCalls = 3
    Requests = {q1, q2}
    MaxId = 2
    MaxActs = 2
    MaxLosses = 1
INVARIANTS
    TypeOK
    NobodyWaitsInVain
    ExpiryIsInvisible
    AgreeAtRest
    SelectionIsListed
PROPERTIES
    CallsSettle
    ListConverges
CHECK_DEADLOCK FALSE
