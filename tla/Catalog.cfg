SPECIFICATION FairSpec
CONSTANTS
    Namespaces = {n1, n2}
    CatalogNames <- TwoModels
    HandNames <- Unrelated
    Contents = {c1, c2}
    MaxEdits = 2
    MaxMoves = 2
    MaxMishaps = 1
    Faults = {"read", "write", "crash"}
    NoCatalog = NoCatalog
    NoPlatform = NoPlatform
    NoModel = NoModel
INVARIANT TypeOK
INVARIANT RenderedExactly
INVARIANT AliasServed
INVARIANT HandWrittenKept
PROPERTY EntryTakesEffect
CHECK_DEADLOCK FALSE
