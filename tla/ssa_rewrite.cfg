SPECIFICATION FairSpec
CONSTANTS
    Block = {0, 1, 2, 3}
    Entry = 0
    Var = {1, 2}
    Inputs = 1
    Capacity = 3
    Programs <- Rewrites
    MaxReplace = 1
INVARIANTS
    ForwardingAcyclic
PROPERTIES
    RewritesKeptOutsideElimination
    CallReturns
