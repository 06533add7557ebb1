\* Users queue re-checks of an asset that may be deleted, and the cycle runs beside
\* them; or the settings are changed one at a time, with cycles shorter than the join
\* or of any length.
SPECIFICATION MCFairSpec
CONSTANTS
    MaxAssets = 1
    MaxChecks = 3
    Cycle = cycle
    Workers = {w1}
    Requests = {r1}
    Outcomes = {"listed"}
    NoToggles = {}
    Deletable = {1}
    MayFail = FALSE
    MayCrash = FALSE
    None = None
    Threads = {t1, t2}
    Savers = {s1}
    Manual = {m1}
    LongCycles = {TRUE, FALSE}
INVARIANTS
    EnabledIsRunning
    OnePollThread
PROPERTIES
    RecheckFinishes
    DueIsChecked
    EnabledRunsCycles
    DisabledComesToRest
