---------------------------- MODULE MCStencilRun ----------------------------
(* Two grids A and B, two subregions, runs of one or two stencil maps and *)
(* one or two iterations.                                                   *)
EXTENDS StencilRun

CONSTANTS A, B

MCGrids == {A, B}
MCGridOrder == <<A, B>>
MCRegions == {"r1", "r2"}

(* A call without a count runs once; a count of 2 makes the second        *)
(* iteration the first with reuse set.                                     *)
MCCounts == {NoCount, 2}

MCStencilMaps == [access : [MCGrids -> {NotRead, Self, Nbr} \cup MCRegions],
                  writes : SUBSET MCGrids]

AllPrograms ==
    {<<s>> : s \in MCStencilMaps} \cup {<<s, t>> : s, t \in MCStencilMaps}

(* Runs in which no grid that one kernel loads as read-only (and so with  *)
(* reuse set from the second iteration on) is written by another kernel   *)
(* of the same run.                                                        *)
ReuseSafe(p) ==
    \A s, t \in 1..Len(p) : \A g \in MCGrids :
        (p[s].access[g] \notin {NotRead, Self} /\ g \notin p[s].writes)
            => g \notin p[t].writes

SafePrograms == {p \in AllPrograms : ReuseSafe(p)}
=============================================================================
