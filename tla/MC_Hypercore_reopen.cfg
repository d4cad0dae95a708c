CONSTANTS
    v1 = v1
    v2 = v2
    zero = zero
    Values <- MCValues
    ZeroByte = zero
    Lens <- MCLens
    MaxBatch = 1
    MaxEntries = 3
    MaxStarts = 3

SPECIFICATION Spec
SYMMETRY MCSymmetry

CHECK_DEADLOCK FALSE
INVARIANT ReopenAfterCommit
