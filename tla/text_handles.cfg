CONSTANTS
    MaxAggregateSize = 64
    MaxEntities = 9
    MaxAlign = 4
    PtrBytes = 2
    MaxLines = 29
    MaxId = 6
    IdsPerLine = 1
    IdSlack = 0
    Texts <- PrintedTexts
CHECK_DEADLOCK FALSE
SPECIFICATION Spec
INVARIANT HandlesKept
