------------------------------- MODULE CudaGrid -------------------------------
(***************************************************************************)
(* The grid operations of the CUDA runtime (runtime/cuda_runtime.cc),     *)
(* driven by a client as in ReferenceGrid.  Device memory is a set of     *)
(* blocks; a grid is a host descriptor holding p0, p1 and dev, the        *)
(* host-side copy of the device descriptor (__PSGridDevND) that kernels   *)
(* are launched with.                                                      *)
(*                                                                         *)
(* Every cudaMalloc and cudaFree is wrapped in CUDA_SAFE_CALL, which ends *)
(* the program on an error: a failed device allocation stops the program  *)
(* rather than returning INVALID_GRID.  cudaMalloc of zero bytes may      *)
(* succeed with a NULL pointer, which the code turns into INVALID_GRID.   *)
(* Whether the build defines AUTO_DOUBLE_BUFFERING is the variable adb,   *)
(* chosen from Builds at the start and fixed for the whole behaviour.     *)
(***************************************************************************)
EXTENDS Integers, SequencesExt, FiniteSets

CONSTANTS
    Handles,              \* host descriptors malloc may return (taken to succeed)
    DevBlocks,            \* device memory blocks cudaMalloc may return
    NULL,                 \* the null pointer, and INVALID_GRID
    Garbage,              \* an uninitialised pointer field
    DimVecs,              \* dim vectors of 1, 2 or 3 dimensions
    Values,               \* contents a client stores
    Builds,               \* the values of AUTO_DOUBLE_BUFFERING checked
    MaxFail               \* bound on failed device allocations

ASSUME /\ {NULL, Garbage} \cap (Handles \cup DevBlocks) = {}
       /\ Builds \subseteq BOOLEAN /\ Builds # {}
       /\ \A d \in DimVecs : \E n \in 1..3 : DOMAIN d = 1..n

VARIABLES
    grid,       \* descriptor of each handle malloc returned: p0, p1, dim, num_elms, dev
    live,       \* device blocks allocated
    mem,        \* contents of each device block, one value per element
    held,       \* handles the client holds
    given,      \* every valid handle __PSGridNew returned
    dbuf,       \* history: the double_buffering argument of each handle
    lastFree,   \* history: the device blocks passed to cudaFree by the last step
    host,       \* the client's host array: PSGridCopyin's src, PSGridCopyout's dst
    fails,      \* device allocations that have failed
    exited,     \* the program was ended by CUDA_SAFE_CALL, PSAssert or PSAbort
    adb         \* the build defines AUTO_DOUBLE_BUFFERING

vars == <<grid, live, mem, held, given, dbuf, lastFree, host, fails, exited, adb>>

-----------------------------------------------------------------------------
NumElms(dim) == FoldLeft(LAMBDA a, b : a * b, 1, dim)

(* The device memory left as cudaMalloc returned it: no cudaMemset.       *)
ZeroFillSkipped(m, bs, n) == m

(* CUDA_SAFE_CALL(cudaMemset(p, 0, num_elms * elm_size)) for each p in bs. *)
ZeroFill(m, bs, n) == [b \in DOMAIN m |-> IF b \in bs THEN [j \in 1..n |-> 0] ELSE m[b]]

(* The index vectors a client may pass for a grid of size dim.            *)
Indices(dim) ==
    {x \in [DOMAIN dim -> 0..Max(Range(dim))] : \A d \in DOMAIN dim : x[d] < dim[d]}

(* __PSGridSet: offset += idx[i] * base_offset; base_offset *= dim[i] for  *)
(* i < num_dims, with C's dimension i at index i + 1.                      *)
RECURSIVE SetOffset(_, _, _, _)
SetOffset(idx, dim, i, base) ==
    IF i > Len(dim) THEN 0
    ELSE idx[i] * base + SetOffset(idx, dim, i + 1, base * dim[i])

(* cudaMalloc(&p, size) under CUDA_SAFE_CALL: the outcomes for a request  *)
(* of n elements with the blocks in `free` unused.  "exit" is the error   *)
(* path; a zero-byte request may succeed with NULL.                        *)
CudaMalloc(n, free) ==
    free
    \cup (IF n = 0 THEN {NULL} ELSE {})
    \cup (IF fails < MaxFail \/ free = {} THEN {"exit"} ELSE {})

(* The swap written as two assignments without a temporary.               *)
SwapPtrsNoTemp(r) ==
    [r EXCEPT !.p0 = r.p1, !.dev = [p0 |-> r.dev.p1, p1 |-> r.dev.p1]]

(* Swap the host pointers only.                                            *)
SwapPtrsHostOnly(r) == [r EXCEPT !.p0 = r.p1, !.p1 = r.p0]

(* std::swap(g->p0, g->p1); std::swap(dev->p0, dev->p1)                    *)
SwapPtrs(r) ==
    [r EXCEPT !.p0 = r.p1, !.p1 = r.p0,
              !.dev = [p0 |-> r.dev.p1, p1 |-> r.dev.p0]]

(* cudaFree of p1 without asking whether it is p0.                        *)
FreedBlocksNoAliasCheck(r) ==
    (IF r.p0 # NULL THEN <<r.p0>> ELSE <<>>) \o
    (IF adb /\ r.p1 # NULL THEN <<r.p1>> ELSE <<>>)

(* The device blocks PSGridFree passes to cudaFree, in order.             *)
FreedBlocks(r) ==
    (IF r.p0 # NULL THEN <<r.p0>> ELSE <<>>) \o
    (IF adb /\ r.p1 # NULL /\ r.p0 # r.p1
     THEN <<r.p1>> ELSE <<>>)

(* The pointers left dangling after the blocks are freed.                 *)
ResetPtrsKept(r) == r

(* g->p0 = g->p1 = NULL, or only g->p0 = NULL without double buffering.   *)
ResetPtrs(r) ==
    IF adb THEN [r EXCEPT !.p0 = NULL, !.p1 = NULL]
    ELSE [r EXCEPT !.p0 = NULL]

-----------------------------------------------------------------------------
Running == ~exited

Init ==
    /\ grid = <<>>
    /\ live = {}
    /\ mem = [b \in DevBlocks |-> <<>>]
    /\ held = {} /\ given = {}
    /\ dbuf = <<>>
    /\ lastFree = <<>>
    /\ host = <<>>
    /\ fails = 0
    /\ exited = FALSE
    /\ adb \in Builds

(* __PSGridNew(elm_size, num_dims, dim, double_buffering)                  *)
GridNew ==
    \E dim \in DimVecs, db \in BOOLEAN, g \in Handles \ DOMAIN grid :
      LET n == NumElms(dim)
          desc(p0, p1) == [p0 |-> p0, p1 |-> p1, dim |-> dim, num_elms |-> n,
                           dev |-> [p0 |-> p0, p1 |-> p1]]
          unused == DevBlocks \ live
          \* a CUDA_SAFE_CALL or PSAssert ends the program
          exit == /\ exited' = TRUE
                  /\ fails' = fails + 1
                  /\ UNCHANGED <<grid, live, mem, held, given, dbuf, adb>>
          \* the handle is dropped: INVALID_GRID is returned
          invalid(p0) == /\ grid' = (g :> desc(p0, NULL)) @@ grid
                         /\ live' = live \cup ({p0} \ {NULL})
                         /\ mem' = ZeroFill(mem, {p0}, n)
                         /\ UNCHANGED <<held, given, dbuf, fails, exited, adb>>
          valid(p0, p1) == /\ grid' = (g :> desc(p0, p1)) @@ grid
                           /\ live' = live \cup ({p0, p1} \ {Garbage})
                           /\ mem' = ZeroFill(mem, {p0, p1}, n)
                           /\ held' = held \cup {g} /\ given' = given \cup {g}
                           /\ dbuf' = (g :> db) @@ dbuf
                           /\ UNCHANGED <<fails, exited, adb>>
      IN
      /\ Running
      /\ lastFree' = <<>> /\ UNCHANGED host
      /\ \E p0 \in CudaMalloc(n, unused) :
           \/ p0 = "exit" /\ exit
           \/ p0 = NULL /\ invalid(NULL)
           \/ /\ p0 \in DevBlocks
              /\ \/ ~adb /\ db /\ exit
                 \/ ~adb /\ ~db /\ valid(p0, Garbage)
                 \/ adb /\ ~db /\ valid(p0, p0)
                 \/ /\ adb /\ db
                    /\ \E p1 \in CudaMalloc(n, unused \ {p0}) :
                         \/ p1 = "exit" /\ exit
                         \/ p1 = NULL /\ invalid(p0)
                         \/ p1 \in DevBlocks /\ valid(p0, p1)

(* PSGridFree(g)                                                           *)
PSGridFree ==
    \E g \in given :
      /\ Running
      /\ lastFree' = FreedBlocks(grid[g])
      /\ live' = live \ Range(FreedBlocks(grid[g]))
      /\ grid' = [grid EXCEPT ![g] = ResetPtrs(@)]
      /\ held' = held \ {g}
      /\ UNCHANGED <<mem, given, dbuf, host, fails, exited, adb>>

(* The client fills its host array with a grid's worth of values.        *)
ClientFill ==
    \E dim \in DimVecs :
      \E data \in [1..NumElms(dim) -> Values] :
        /\ Running
        /\ host' = data
        /\ lastFree' = <<>>
        /\ UNCHANGED <<grid, live, mem, held, given, dbuf, fails, exited, adb>>

(* PSGridCopyin(g, src): cudaMemcpy of num_elms elements of src into p0;  *)
(* the client passes an array of at least that many.                       *)
PSGridCopyin ==
    \E g \in held :
      /\ Running
      /\ Len(host) = grid[g].num_elms
      /\ mem' = [mem EXCEPT ![grid[g].p0] = host]
      /\ lastFree' = <<>>
      /\ UNCHANGED <<grid, live, held, given, dbuf, host, fails, exited, adb>>

(* __PSGridSet(g, buf, idx...): cudaMemcpy of one element into p0.        *)
GridSet ==
    \E g \in held, v \in Values :
      \E idx \in Indices(grid[g].dim) :
        /\ Running
        /\ mem' = [mem EXCEPT ![grid[g].p0][SetOffset(idx, grid[g].dim, 1, 1) + 1] = v]
        /\ lastFree' = <<>>
        /\ UNCHANGED <<grid, live, held, given, dbuf, host, fails, exited, adb>>

(* PSGridCopyout(g, dst)                                                   *)
PSGridCopyout ==
    \E g \in held :
      /\ Running
      /\ host' = mem[grid[g].p0]
      /\ lastFree' = <<>>
      /\ UNCHANGED <<grid, live, mem, held, given, dbuf, fails, exited, adb>>

(* __PSGridSwap(g): a no-op unless AUTO_DOUBLE_BUFFERING is defined.       *)
GridSwap ==
    \E g \in held :
      /\ Running
      /\ adb
      /\ grid' = [grid EXCEPT ![g] = SwapPtrs(@)]
      /\ lastFree' = <<>>
      /\ UNCHANGED <<live, mem, held, given, dbuf, host, fails, exited, adb>>

Next ==
    \/ GridNew
    \/ PSGridFree
    \/ ClientFill
    \/ PSGridCopyin
    \/ GridSet
    \/ PSGridCopyout
    \/ GridSwap

Spec == Init /\ [][Next]_vars

-----------------------------------------------------------------------------
TypeOK ==
    /\ DOMAIN grid \subseteq Handles
    /\ held \subseteq given /\ given \subseteq DOMAIN grid
    /\ live \subseteq DevBlocks
    /\ \A g \in given :
         {grid[g].p0, grid[g].p1} \subseteq live \cup {NULL, Garbage}
    /\ mem \in [DevBlocks -> Seq(Values \cup {0})]
    /\ lastFree \in Seq(DevBlocks)
    /\ fails \in 0..(MaxFail + Cardinality(DevBlocks) + 1)
    /\ exited \in BOOLEAN
    /\ adb \in Builds

(* The device descriptor a kernel is launched with names the same current *)
(* and next buffers as the host descriptor the host-side calls use, after *)
(* any sequence of swaps: a kernel never reads the buffer PSGridCopyin did *)
(* not write or writes the one PSGridCopyout will not read.                *)
HostDevAgree ==
    \A g \in held :
        /\ grid[g].dev.p0 = grid[g].p0
        /\ adb => grid[g].dev.p1 = grid[g].p1

(* A grid created double-buffered in an AUTO_DOUBLE_BUFFERING build keeps  *)
(* two distinct live device buffers through swaps; any other grid has one. *)
DoubleBufferDistinct ==
    \A g \in held :
        /\ grid[g].p0 \in live
        /\ (adb /\ dbuf[g]) <=> grid[g].p1 \in live \ {grid[g].p0}

(* PSGridFree never passes cudaFree a block twice or a block that is not  *)
(* allocated, for single- and double-buffered grids, after swaps, and on  *)
(* a second free of the same handle.                                       *)
NoDoubleFree ==
    [][IsInjective(lastFree') /\ Range(lastFree') \subseteq live]_vars

(* Every host descriptor __PSGridNew malloc'd (with the device descriptor *)
(* g->dev it points to) and every device block cudaMalloc returned        *)
(* belongs to a grid the client still holds: neither an INVALID_GRID      *)
(* return nor PSGridFree leaves memory no pointer reaches.                *)
NoLeak ==
    /\ DOMAIN grid \subseteq held
    /\ live \subseteq UNION {{grid[g].p0, grid[g].p1} : g \in held}


(* The CUDA runtime implements the same value-level grid as the reference *)
(* runtime (GridSpec): a held grid is its dim and the device contents of   *)
(* p0, and of p1 when double-buffered, in either build.  A created grid    *)
(* reads as zeros even on a device block a freed grid used before.        *)
Abs == INSTANCE GridSpec WITH
    grids <- [g \in held |->
                [dim |-> grid[g].dim,
                 bufs |-> IF dbuf[g] THEN <<mem[grid[g].p0], mem[grid[g].p1]>>
                                     ELSE <<mem[grid[g].p0]>>]]

AbsSpec == Abs!Spec

=============================================================================
