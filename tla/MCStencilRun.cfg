CONSTANTS
    A = A
    B = B
    None = None
    Grids <- MCGrids
    GridOrder <- MCGridOrder
    Regions <- MCRegions
    Programs <- SafePrograms
    NoCount = NoCount
    Counts <- MCCounts

SPECIFICATION Spec

\* The run function returns after its last iteration.
CHECK_DEADLOCK FALSE

INVARIANTS
    TypeOK
    HaloFresh
    RemoteFresh
    KernelSeesOwnBuffers
