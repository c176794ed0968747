----------------------------- MODULE StencilRun -----------------------------
(***************************************************************************)
(* The run function the MPI translator generates for one PSStencilRun     *)
(* (MPITranslator::BuildRunBody, ProcessStencilMap,                        *)
(* GenerateLoadRemoteGridRegion, DeactivateRemoteGrids), executed against *)
(* the runtime's two caches of other processes' data: the halo buffers    *)
(* filled by __PSLoadNeighbor and the remote grid filled by               *)
(* __PSLoadSubgrid.                                                        *)
(*                                                                         *)
(* For i in 0..iter-1 and each stencil map in order, the generated code   *)
(* visits the stencil's grid parameters in order and, for each grid the   *)
(* kernel reads,                                                           *)
(*   - skips it when the kernel reads only its own point,                 *)
(*   - calls __PSLoadNeighbor for a neighbour access,                     *)
(*   - calls __PSLoadSubgrid for any other access, remembering the grid;  *)
(* each load carries reuse = (i > 0) when this kernel does not write the  *)
(* grid and 0 otherwise.  It then calls the kernel, swaps the written     *)
(* grids and deactivates the remote grids it loaded.                      *)
(*                                                                         *)
(* All processes run this code in lock step (SPMD), so one process's view *)
(* is modelled.  Grid contents are abstracted to a version number that    *)
(* each kernel writing the grid increments; a cache holds the version it  *)
(* was filled from.                                                        *)
(***************************************************************************)
EXTENDS Integers, Sequences, FiniteSets

CONSTANTS
    Grids,          \* the grids of the program
    GridOrder,      \* the order of a stencil map's grid parameters
    Regions,        \* subregions a kernel may read through LoadSubgrid
    Programs,       \* candidate runs: sequences of stencil maps
    Counts,         \* iteration counts a PSStencilRun call may give
    NoCount,        \* a PSStencilRun call without an iteration count
    None            \* an empty cache

Self == "self"      \* the kernel reads only its own point (sr.IsZero)
Nbr  == "nbr"       \* a neighbour access over every dimension
NotRead == "none"   \* the kernel does not read the grid
Access == {NotRead, Self, Nbr} \cup Regions

(* A stencil map: how its kernel reads each grid, and what it writes.     *)
StencilMap == [access : [Grids -> Access], writes : SUBSET Grids]

ASSUME /\ Counts \subseteq (Nat \ {0}) \cup {NoCount}
       /\ GridOrder \in Seq(Grids) /\ Len(GridOrder) = Cardinality(Grids)
       /\ Programs \subseteq Seq(StencilMap)
       /\ Regions \cap {NotRead, Self, Nbr} = {}

VARIABLES
    prog,       \* the stencil maps of this run
    iter,       \* the iteration count the run function was called with
    i,          \* the loop counter of the generated for loop
    st,         \* the stencil map being processed
    k,          \* the grid parameter being loaded
    pc,         \* "load" (parameters, then the kernel), "deactivate", "done"
    version,    \* version of each grid's current buffer p0
    halo,       \* version the halo buffers of a grid were exchanged from
    remote,     \* the remote grid: [region, version] it was fetched with
    active      \* remote_grid_active_

vars == <<prog, iter, i, st, k, pc, version, halo, remote, active>>

NParams == Len(GridOrder)

(* s<st> = stencils[st]: the stencil map the generated statements use.    *)
Stencil == prog[st]
Param == GridOrder[k]

-----------------------------------------------------------------------------
(* The generated code's decisions for one grid parameter.                 *)

IsRead(s, g) == s.access[g] # NotRead

(* A kernel that reads a grid it also writes.                            *)
ReadOnlyIgnoresWrites(s, g) == TRUE

ReadOnly(s, g) == g \notin s.writes

(* Reuse decided without asking whether this kernel writes the grid.     *)
ReuseAlways(s, g) == i > 0

(* reuse = read_only ? (i > 0) : 0                                         *)
Reuse(s, g) == ReadOnly(s, g) /\ i > 0

IsNeighborLoad(s, g) == s.access[g] = Nbr

IsSubgridLoad(s, g) == s.access[g] \in Regions

(* The remote grids of a stencil map never collected for deactivation.  *)
RemoteGridsOfNone(s) == {}

(* The grids whose remote grid the stencil map loaded (remote_grids).     *)
RemoteGridsOf(s) == {g \in Grids : IsSubgridLoad(s, g)}

(* The loop test i < iter written as i <= iter.                           *)
LoopContinuesLE(n) == n <= iter

(* The generated loop's test, for (i = 0; i < iter; ++i).                  *)
LoopContinues(n) == n < iter

(* translateRun: the iteration count of the call, 1 when it has none.     *)
IterCount(c) == IF c = NoCount THEN 1 ELSE c

(* The generated calls, with the arguments the runtime's behaviour        *)
(* depends on.  The overlap flag of every neighbour load is set when the  *)
(* stencil map makes no subgrid load; offsets, widths, diag and periodic  *)
(* are left out (GridAddress covers the halo layout).                     *)
LoadNeighborCall(s, g) ==
    [grid |-> g, reuse |-> Reuse(s, g), overlap |-> RemoteGridsOf(s) = {}]

LoadSubgridCall(s, g) ==
    [grid |-> g, region |-> s.access[g], reuse |-> Reuse(s, g)]

-----------------------------------------------------------------------------
(* The runtime's side of the two loads, from spec sections 4.3-4.4 and the *)
(* GridMPI::remote_grid_active_ comment: a reused halo is left as it is;   *)
(* a reused remote grid of the same subgrid is activated again without a   *)
(* fetch; otherwise the data is fetched from the owners and the remote    *)
(* grid is activated.                                                      *)

ExchangeHalo(call) ==
    halo' = IF call.reuse THEN halo
            ELSE [halo EXCEPT ![call.grid] = version[call.grid]]

FetchSubgrid(call) ==
    LET g == call.grid
        cached == remote[g] # None /\ remote[g].region = call.region
    IN
    /\ remote' = IF call.reuse /\ cached THEN remote
                 ELSE [remote EXCEPT ![g] = [region |-> call.region,
                                             version |-> version[g]]]
    /\ active' = [active EXCEPT ![g] = TRUE]

-----------------------------------------------------------------------------
(* The __PSStencilRun call translateRun puts in place of PSStencilRun: the *)
(* run's stencil maps in order and its iteration count; the run function  *)
(* then enters its loop at i = 0.                                          *)
Init ==
    /\ prog \in Programs
    /\ \E c \in Counts : iter = IterCount(c)
    /\ i = 0
    /\ st = 1
    /\ k = 1
    /\ pc = "load"
    /\ version = [g \in Grids |-> 0]
    /\ halo = [g \in Grids |-> None]
    /\ remote = [g \in Grids |-> None]
    /\ active = [g \in Grids |-> FALSE]

(* A parameter the kernel does not read, or reads only at its own point.  *)
SkipParam ==
    /\ pc = "load" /\ k <= NParams
    /\ ~IsRead(Stencil, Param) \/ Stencil.access[Param] = Self
    /\ k' = k + 1
    /\ UNCHANGED <<prog, iter, i, st, pc, version, halo, remote, active>>

(* __PSLoadNeighbor(g, offset_min, offset_max, diag, reuse, overlap, periodic) *)
LoadNeighbor ==
    /\ pc = "load" /\ k <= NParams
    /\ IsNeighborLoad(Stencil, Param)
    /\ ExchangeHalo(LoadNeighborCall(Stencil, Param))
    /\ k' = k + 1
    /\ UNCHANGED <<prog, iter, i, st, pc, version, remote, active>>

(* __PSLoadSubgrid(g, &gr, reuse) or __PSLoadSubgrid2D/3D(...)             *)
LoadSubgrid ==
    /\ pc = "load" /\ k <= NParams
    /\ IsSubgridLoad(Stencil, Param)
    /\ FetchSubgrid(LoadSubgridCall(Stencil, Param))
    /\ k' = k + 1
    /\ UNCHANGED <<prog, iter, i, st, pc, version, halo>>

(* The kernel call followed by the swap of the grids it emitted to: the   *)
(* written grids' current buffers now hold a new version.                 *)
RunKernel ==
    /\ pc = "load" /\ k > NParams
    /\ version' = [g \in Grids |->
                     IF g \in Stencil.writes THEN version[g] + 1 ELSE version[g]]
    /\ pc' = "deactivate"
    /\ UNCHANGED <<prog, iter, i, st, k, halo, remote, active>>

(* __PSActivateRemoteGrid(g, 0) for every loaded remote grid, then the    *)
(* next stencil map, or the loop increment and test.                      *)
DeactivateRemoteGrids ==
    /\ pc = "deactivate"
    /\ active' = [g \in Grids |->
                    IF g \in RemoteGridsOf(Stencil) THEN FALSE ELSE active[g]]
    /\ k' = 1
    /\ IF st < Len(prog)
       THEN /\ st' = st + 1 /\ pc' = "load" /\ UNCHANGED i
       ELSE /\ st' = 1 /\ i' = i + 1
            /\ pc' = IF LoopContinues(i + 1) THEN "load" ELSE "done"
    /\ UNCHANGED <<prog, iter, version, halo, remote>>

Next ==
    \/ SkipParam
    \/ LoadNeighbor
    \/ LoadSubgrid
    \/ RunKernel
    \/ DeactivateRemoteGrids

Spec == Init /\ [][Next]_vars

-----------------------------------------------------------------------------
(* Each kernel of the run writes a grid at most once per iteration.      *)
MaxVersion == iter * Len(prog)

TypeOK ==
    /\ prog \in Seq(StencilMap)
    /\ iter \in Nat \ {0} /\ i \in 0..iter /\ st \in 1..Len(prog) /\ k \in 1..(NParams + 1)
    /\ pc \in {"load", "deactivate", "done"}
    /\ version \in [Grids -> 0..MaxVersion]
    /\ halo \in [Grids -> 0..MaxVersion \cup {None}]
    /\ remote \in [Grids -> [region : Regions, version : 0..MaxVersion] \cup {None}]
    /\ active \in [Grids -> BOOLEAN]

(* The kernel is about to run: every load of its stencil map is done.     *)
KernelReady == pc = "load" /\ k > NParams

(* When a kernel runs, the halo of every grid it reads across neighbours  *)
(* holds that grid's current contents: a load with reuse set skipped the  *)
(* exchange only if nothing wrote the grid since the last one.            *)
HaloFresh ==
    KernelReady =>
        \A g \in Grids : IsNeighborLoad(Stencil, g) => halo[g] = version[g]

(* When a kernel runs, every grid it reads through a subgrid load has its *)
(* remote grid active and holding the requested region at the grid's      *)
(* current contents.                                                       *)
RemoteFresh ==
    KernelReady =>
        \A g \in Grids : IsSubgridLoad(Stencil, g) =>
            /\ active[g]
            /\ remote[g] = [region |-> Stencil.access[g], version |-> version[g]]

(* A kernel that reads a grid through its own buffers (own point or       *)
(* halo) never finds that grid's remote grid active, which would redirect *)
(* its reads to data another stencil map fetched.                          *)
KernelSeesOwnBuffers ==
    KernelReady =>
        \A g \in Grids : Stencil.access[g] \in {Self, Nbr} => ~active[g]

=============================================================================
