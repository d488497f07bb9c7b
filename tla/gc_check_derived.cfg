SPECIFICATION RunSpec
CONSTANTS
    Programs <- Checked
    Budgets = {2, 20}
    Capacity = 10
CHECK_DEADLOCK FALSE
INVARIANTS
    UsesReadCurrent
