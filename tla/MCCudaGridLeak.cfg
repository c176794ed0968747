CONSTANTS
    h1 = h1
    h2 = h2
    d1 = d1
    d2 = d2
    d3 = d3
    NULL = NULL
    Garbage = Garbage
    Handles <- MCHandles
    DevBlocks <- MCDevBlocks
    DimVecs <- MCDimVecs
    Values <- MCValues
    Builds <- MCBuilds
    MaxFail = 1

SYMMETRY MCSymmetry

SPECIFICATION Spec

\* A client program may stop after any call, and CUDA_SAFE_CALL may end it.
CHECK_DEADLOCK FALSE

INVARIANTS
    NoLeak

