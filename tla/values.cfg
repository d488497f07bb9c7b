CONSTANTS
    Widths = {2, 4}
    Word = 4
    Wide = 8
    Mags <- Magnitudes
    MaxMag = 32
    TinyMag = 4
    SignBit = 64
    MaxChar = 13
    Surrogates <- NoScalars
CHECK_DEADLOCK FALSE
SPECIFICATION Spec
INVARIANTS
    ResultsExact
    ErrorsOnlyInCheck
    EdgesReadFirst
