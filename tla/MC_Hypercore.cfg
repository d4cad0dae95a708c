CONSTANTS
    v1 = v1
    v2 = v2
    zero = zero
    Values <- MCValues
    ZeroByte = zero
    Lens <- MCLens
    MaxBatch = 1
    MaxEntries = 3
    MaxStarts = 3

SPECIFICATION Spec
SYMMETRY MCSymmetry

INVARIANT TypeOK
INVARIANT DataBeforeOplog
INVARIANT AckedDurable
CHECK_DEADLOCK FALSE
