SPECIFICATION Spec
CONSTANTS
    MaxBlocks = 3
    MaxInsts = 3
    MaxValues = 3
    Sizes <- LongLists
    MaxEdges = 1
    Careful = TRUE
INVARIANTS
    LayoutAccepted
    DefinitionsAgree
    EdgesPairUp
    PositionValid
PROPERTIES
    ImplementsLayout
