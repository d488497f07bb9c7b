SPECIFICATION Spec
CONSTANTS
    Size = 12
    Guard = 2
    StackAlign = 2
    ByteRange = 2
    Globals <- TwoGlobals
    FrameSlots <- Frames
    Asks <- SomeAsks
    Ptrs <- SomePtrs
    Lens = {3}
    Aligns = {1}
    MaxDepth = 2
    MaxInsts = 3
INVARIANTS
    BytesFlat
    AreasApart
