\* Background re-checks of two assets, one with no check to run and one that may be deleted.
SPECIFICATION Spec
CONSTANTS
    MaxAssets = 2
    MaxChecks = 2
    Cycle = cycle
    Workers = {w1}
    Requests = {r1}
    Outcomes = {"listed"}
    NoToggles = {2}
    Deletable = {1}
    MayFail = FALSE
    MayCrash = FALSE
INVARIANTS
    TypeOK
    QueueMatchesPool
PROPERTIES
    ImplementsLedger
