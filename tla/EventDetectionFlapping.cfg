\* An inconclusive run between two conclusive ones repeats a listing.
SPECIFICATION Spec
CONSTANTS
    None = None
    Lists = {l1, l2}
    TooMany = 2
    Days = {7}
    Dates = {7}
    LastDay = 0
    Warnings = {0}
    Watched = {"blacklist"}
    Missing = {"inconclusive"}
    MayAdjust = FALSE
    MayUpgrade = FALSE
PROPERTY
    OnlyNewListingsAreReported
