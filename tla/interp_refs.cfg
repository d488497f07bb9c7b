CONSTANTS
    r1 = r1
    r2 = r2
    Reg <- TwoRegs
    IdxRange = 3
    EpochRange = 2
    MemSize = 2
    FrameSize = {0}
    Words = {2}
    MaxDepth = 2
    FuelLimit = 3
    SiteNogc = {TRUE, FALSE}
    HostKeeps = FALSE
SPECIFICATION Spec
SYMMETRY Symmetry
INVARIANTS TypeOK FreshRefsName NoStaleUse
PROPERTIES NogcKeepsEpochUnlessClaimed
