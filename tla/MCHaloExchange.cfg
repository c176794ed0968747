CONSTANTS
    GlobalSize <- MCGlobalSize
    ProcSize <- MCProcSize
    Width <- MCWidth
    Stale = Stale
    DiagSeqs <- MCDiagSeqs
    Periodics = {FALSE, TRUE}

SPECIFICATION Spec

\* The processes stop once their calls are over; AllExchanged says they all get there.
CHECK_DEADLOCK FALSE

INVARIANTS
    HaloFresh

PROPERTIES
    AllExchanged
