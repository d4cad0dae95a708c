CONSTANTS
    v1 = v1
    zero = zero
    Values <- MCValues
    ZeroByte = zero
    Lens <- MCLens
    MaxBlocks = 4

SPECIFICATION Spec

INVARIANT GetDataReadsNothing
