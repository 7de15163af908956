SPECIFICATION FairSpec
CONSTANTS
    Grants <- OneGrant
    GrantSpecs <- MCGrantSpecs
    CatalogSpecs <- MCCatalogSpecs
    DefaultTokenBudget = 5
    costDecimalPlaces = 2
    MaxInt = 255
    MaxEdits = 1
    MaxMishaps = 1
    Faults = {"write", "ratelimit", "unavailable", "unready", "crash"}
    Lag = {"registration", "row"}
    NoCatalog = NoCatalog
    NoEntry = NoEntry
INVARIANT TypeOK
INVARIANT EnforcedAsDeclared
INVARIANT SharedCeilingCurrent
INVARIANT ExactCeiling
INVARIANT ReportHonest
PROPERTY LoweredMaximumBinds
CHECK_DEADLOCK FALSE
