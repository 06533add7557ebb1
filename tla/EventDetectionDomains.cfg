\* A registration comes closer to its expiry from one check to the next.
SPECIFICATION Spec
CONSTANTS
    None = None
    Lists = {l1}
    TooMany = 1
    Days = {7}
    Dates = {8}
    LastDay = 2
    Warnings = {7}
    Watched = {"domain"}
    Missing = {}
    MayAdjust = FALSE
    MayUpgrade = FALSE
INVARIANT
    DomainsAreReported
