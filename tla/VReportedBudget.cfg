SPECIFICATION Spec
CONSTANTS
    Grants <- OneGrant
    GrantSpecs <- MCGrantSpecs
    CatalogSpecs <- MCCatalogSpecs
    DefaultTokenBudget = 5
    costDecimalPlaces = 2
    MaxInt = 255
    MaxEdits = 1
    MaxMishaps = 0
    Faults = {}
    Lag = {}
    NoCatalog = NoCatalog
    NoEntry = NoEntry
CHECK_DEADLOCK FALSE
INVARIANT ReportedIsEnforced
