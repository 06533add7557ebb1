SPECIFICATION MCSpec
CONSTANTS
    None = None
    Domains = {d1, d2}
    Threads = {t1, t2}
    TTL = 1
    StaleFactor = 3
    MaxEntries = 2
    MaxQuery = 1
    MaxTime = 4
    Providers = {p1, p2}
    Spamhaus = p1
    Checks = {c1}
    Dashboards = {v1}
    TooMany = 2
    TestTTL = 1
    MaxTest = 1
    TestTime = 2
    MaxChanges = 1
    Clients = {a1, a2}
    Limit = 2
    CheckWindow = 4
    Keys = {k1, k2}
    MaxFailures = 2
    LoginWindow = 4
    LockTime = 4
    MaxTracked = 1
    MaxWait = 1
    Processes = {q1, q2}
    MaxStarts = 3
INVARIANTS
    AnswersAreRecent
    ResultsAreTrue
    AtMostLimitInWindow
    FailuresAreBounded
    ServesCurrentSchema
    FileOpensAccount
PROPERTIES
    RefusalsAreCovered
    KeyIsKept
CHECK_DEADLOCK FALSE
