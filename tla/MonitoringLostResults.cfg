\* A deleted asset costs the other assets of the cycle their results.
SPECIFICATION Spec
CONSTANTS
    MaxAssets = 2
    MaxChecks = 2
    Cycle = cycle
    Workers = {}
    Requests = {r1}
    Outcomes = {"listed"}
    NoToggles = {}
    Deletable = {1}
    MayFail = FALSE
    MayCrash = FALSE
PROPERTY
    CycleKeepsResults
