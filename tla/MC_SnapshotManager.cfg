CONSTANTS
    r1 = r1
    r2 = r2
    s1 = s1
    s2 = s2
    s3 = s3
    Readers <- MCReaders
    SegIds <- MCSegIds
    MaxGen = 3

SPECIFICATION Spec
SYMMETRY MCSymmetry

INVARIANT TypeOK
INVARIANT RefCountIsPinCount
INVARIANT ReclaimSafety

PROPERTY IsolationRefined
