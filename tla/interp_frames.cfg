CONSTANTS
    r1 = r1
    r2 = r2
    Reg <- OneReg
    IdxRange = 3
    EpochRange = 3
    MemSize = 2
    FrameSize = {0, 1}
    Words = {}
    MaxDepth = 3
    FuelLimit = 4
    SiteNogc = {FALSE}
    HostKeeps = TRUE
SPECIFICATION FairSpec
INVARIANTS ResultsAreAwaited StackNests StaleRefused
PROPERTIES CallEnds SafepointRefreshes
