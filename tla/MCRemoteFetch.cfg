CONSTANTS
    r1 = r1
    r2 = r2
    r3 = r3
    Procs <- MCProcs
    NCalls = 2
    Owners <- MCOwners
    RequestCarriesId = TRUE

SPECIFICATION Spec

\* The processes stop once every load has returned.
CHECK_DEADLOCK FALSE

INVARIANTS
    TypeOK
    FetchedFromRequestedGrid

PROPERTIES
    AbsSpec
    AllFinish
