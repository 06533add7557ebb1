\* Three lists that come and go with releases, or all parts of a check.
SPECIFICATION MCSpec
CONSTANTS
    None = None
    Lists = {l1, l2, l3}
    TooMany = 2
    Days <- DaysToExpiry
    Dates <- ExpiryDates
    LastDay = 1
    Warnings = {0, 7}
    Watched = {"blacklist", "server", "ssl", "domain"}
    Missing = {"blacklist"}
    MayAdjust = TRUE
    MayUpgrade = TRUE
INVARIANTS
    ListingsAreReported
    OutagesAreReported
    CertificatesAreReported
PROPERTIES
    DelistingsAreReal
    OnlyNewListingsAreReported
    ReportedOnce
