SPECIFICATION Spec
CONSTANTS
    Block = {0, 1, 2, 3}
    Entry = 0
    Var = {1, 2}
    Inputs = 1
    Capacity = 5
    Programs <- Builds
    MaxReplace = 0
INVARIANTS
    PredsCurrent
    SealedEdgesComplete
    EntryValuesAgree
    EdgesPassFinalValues
    ReadsDominated
PROPERTIES
    EqualitiesKept
    ReadsKeepAssignments
    NoTrivialCandidateLeft
