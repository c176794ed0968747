CONSTANTS
    r1 = r1
    r2 = r2
    r3 = r3
    Procs <- MCProcs
    NCalls = 2
    Owners <- MCOwners
    RequestCarriesId = FALSE

SPECIFICATION Spec

\* The processes stop once every load has returned.
CHECK_DEADLOCK FALSE

INVARIANT
    FetchedFromRequestedGrid
