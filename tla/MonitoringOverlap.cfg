\* One asset, checked by everyone who can check it at the same time.
SPECIFICATION Spec
SYMMETRY ThreadSymmetry
CONSTANTS
    MaxAssets = 1
    MaxChecks = 4
    Cycle = cycle
    Workers = {w1}
    Requests = {r1, r2}
    Outcomes = {"listed"}
    NoToggles = {}
    Deletable = {}
    MayFail = FALSE
    MayCrash = TRUE
INVARIANT
    CurrentIsTheNewest
PROPERTIES
    CurrentIsKept
    CreatedIsNotDue
