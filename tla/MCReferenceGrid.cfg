CONSTANTS
    b1 = b1
    b2 = b2
    b3 = b3
    b4 = b4
    NULL = NULL
    None = None
    Blocks <- MCBlocks
    DimVecs <- MCDimVecs
    Values <- MCValues
    MaxFail = 1

SYMMETRY BlockSymmetry

SPECIFICATION Spec

\* A client program may stop after any call.
CHECK_DEADLOCK FALSE

INVARIANTS
    TypeOK
    DoubleBufferDistinct
    ReduceMatchesSerial

PROPERTIES
    NoDoubleFree
    AbsSpec
