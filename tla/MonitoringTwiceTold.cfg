\* Overlapping checks report one listing twice.
SPECIFICATION Spec
CONSTANTS
    MaxAssets = 1
    MaxChecks = 3
    Cycle = cycle
    Workers = {}
    Requests = {r1, r2}
    Outcomes = {"listed", "clean"}
    NoToggles = {}
    Deletable = {}
    MayFail = FALSE
    MayCrash = FALSE
PROPERTY
    OnlyTransitions
