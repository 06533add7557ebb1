\* Two assets, checked by the cycle alone, with saves that may fail; or two requests
\* that save the settings, a manual run and cycles of any length.
SPECIFICATION MCSpec
CONSTANTS
    MaxAssets = 2
    MaxChecks = 3
    Cycle = cycle
    Workers = {}
    Requests = {}
    Outcomes = {"listed", "clean", "error"}
    NoToggles = {}
    Deletable = {}
    MayFail = TRUE
    MayCrash = FALSE
    None = None
    Threads = {t1, t2, t3}
    Savers = {r1, r2}
    Manual = {m1}
    LongCycles = {TRUE}
INVARIANTS
    FlagIsLastConclusive
    ToldMatchesFlag
    CyclesNeverOverlap
PROPERTIES
    OnlyTransitions
    CycleKeepsResults
