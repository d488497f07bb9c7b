SPECIFICATION Spec
CONSTANTS
    Block = {0, 1, 2, 3}
    Entry = 0
    Var = {1, 2}
    Inputs = 1
    Capacity = 4
    Programs <- LoopsKept
    MaxReplace = 1
INVARIANTS
    RewritesKept
