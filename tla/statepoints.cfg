SPECIFICATION FairSpec
CONSTANTS
    Programs <- BodiesAndGraphs
    Budgets = {2, 20}
    Capacity = 10
CHECK_DEADLOCK FALSE
INVARIANTS
    UsesReadCurrent
    RestoredOnFailure
    OnlyDerivedRefused
    LivenessByPaths
    TreeIsDominance
PROPERTIES
    InsertReturns
