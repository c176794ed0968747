---------------------------- MODULE ReferenceGrid ----------------------------
(***************************************************************************)
(* The grid operations of the single-process reference runtime            *)
(* (runtime/reference_runtime.cc), driven by a client that calls them in  *)
(* any order the API allows: operations other than PSGridFree only on     *)
(* grids it holds, PSGridFree on any grid it was ever given.              *)
(*                                                                         *)
(* The C heap is a set of blocks.  A grid handle is the block malloc      *)
(* returned for its __PSGrid descriptor; the descriptor's fields are a    *)
(* record in `grid`, and each data block's contents a sequence in `mem`.  *)
(* calloc may fail (return NULL): at most MaxFail times in a behaviour,   *)
(* and always when every block is in use.  Element values are small       *)
(* integers; the reduction operators are taken over them exactly.         *)
(***************************************************************************)
EXTENDS Integers, SequencesExt, FiniteSets

CONSTANTS
    Blocks,         \* the heap: blocks malloc and calloc may return
    NULL,           \* the null pointer, and INVALID_GRID
    DimVecs,        \* the dim vectors a client passes to __PSGridNew (3-D)
    Values,         \* element values a client stores
    MaxFail,        \* bound on failed allocations in one behaviour
    None            \* no reduction result yet

Ops == {"PS_MAX", "PS_MIN", "PS_SUM", "PS_PROD"}

(* The identities spec section 4.5 prescribes: the type's minimum for MAX *)
(* and its maximum for MIN, here one below and one above every value.     *)
Lowest  == Min(Values) - 1
Highest == Max(Values) + 1

ASSUME /\ NULL \notin Blocks
       /\ DimVecs \subseteq [1..3 -> Nat]
       /\ Values \subseteq Nat /\ Values # {}
       /\ MaxFail \in Nat

VARIABLES
    live,       \* blocks currently allocated
    grid,       \* descriptor of each handle malloc returned: p0, p1, dim, num_elms
    mem,        \* contents of each data block
    held,       \* handles the client holds (returned valid, not yet freed)
    given,      \* every valid handle __PSGridNew returned
    dbuf,       \* history: the double_buffering argument of each handle
    lastFree,   \* history: the blocks passed to free() by the last step
    host,       \* the client's host array: PSGridCopyin's src, PSGridCopyout's dst
    out,        \* the last reduction: [op, val, data reduced]
    fails       \* allocations that have failed so far

vars == <<live, grid, mem, held, given, dbuf, lastFree, host, out, fails>>

-----------------------------------------------------------------------------
(* Data-level helpers, each a piece of one C function.                    *)

(* g->num_elms = 1; for (i < num_dims) g->num_elms *= dim[i]             *)
NumElms(dim) == dim[1] * dim[2] * dim[3]

Zeros(n) == [j \in 1..n |-> 0]

(* The operator chosen by the switch of __PSReduceGridTemplate.           *)
ApplyOp(op, x, y) ==
    CASE op = "PS_MAX"  -> IF x > y THEN x ELSE y
      [] op = "PS_MIN"  -> IF x < y THEN x ELSE y
      [] op = "PS_SUM"  -> x + y
      [] op = "PS_PROD" -> x * y

(* A loop started at index 0 instead of 1: d[0] is combined twice.        *)
ReduceSeqFrom0(op, d0, d) ==
    FoldLeft(LAMBDA v, x : ApplyOp(op, v, x), d0, d)

(* v = d[0]; for (i = 1; i < num_elms; ++i) v = func(v, d[i]).  d[0] is  *)
(* passed separately: on an empty grid it is whatever the read past the   *)
(* calloc(0, ...) block yields.                                            *)
ReduceSeq(op, d0, d) ==
    FoldLeft(LAMBDA v, x : ApplyOp(op, v, x), d0, SubSeq(d, 2, Len(d)))

(* __PSGridSet: offset += idx[i] * base_offset; base_offset *= dim[i],    *)
(* with C's dimension i at index i + 1.                                    *)
RECURSIVE SetOffset(_, _, _, _)
SetOffset(idx, dim, i, base) ==
    IF i > 3 THEN 0
    ELSE idx[i] * base + SetOffset(idx, dim, i + 1, base * dim[i])

Indices(dim) == {x \in [1..3 -> 0..2] : \A d \in 1..3 : x[d] < dim[d]}

(* free() only for a block that differs from p0.                          *)
FreedBlocksNoAliasCheck(r) ==
    (IF r.p0 # NULL THEN <<r.p0>> ELSE <<>>) \o
    (IF r.p1 # NULL THEN <<r.p1>> ELSE <<>>)

(* The blocks PSGridFree passes to free(), in order.                      *)
FreedBlocks(r) ==
    (IF r.p0 # NULL THEN <<r.p0>> ELSE <<>>) \o
    (IF r.p0 # r.p1 /\ r.p1 # NULL THEN <<r.p1>> ELSE <<>>)

(* The pointers left as they were after the blocks are freed.            *)
ResetPtrsKept(r) == r

(* g->p0 = g->p1 = NULL                                                    *)
ResetPtrs(r) == [r EXCEPT !.p0 = NULL, !.p1 = NULL]

(* Swap without the temporary: g->p1 = g->p0; g->p0 = g->p1.             *)
SwapPtrsNoTemp(r) == [r EXCEPT !.p1 = r.p0, !.p0 = r.p0]

(* void *t = g->p1; g->p1 = g->p0; g->p0 = t                               *)
SwapPtrs(r) == [r EXCEPT !.p0 = r.p1, !.p1 = r.p0]

(* memcpy(g->p0, g->p1, ...): the mirror copied the wrong way.           *)
MirrorBufsBackward(m, r) == [m EXCEPT ![r.p0] = m[r.p1]]

(* memcpy(g->p1, g->p0, g->elm_size * g->num_elms)                         *)
MirrorBufs(m, r) == [m EXCEPT ![r.p1] = m[r.p0]]

-----------------------------------------------------------------------------
Unallocated == Blocks \ live

(* calloc returns NULL: always when no block is left (rest is what       *)
(* remains free), and otherwise at most MaxFail times.                    *)
CallocFails(rest) ==
    \/ rest = {} /\ UNCHANGED fails
    \/ fails < MaxFail /\ fails' = fails + 1

Init ==
    /\ live = {}
    /\ grid = <<>>
    /\ mem = [b \in Blocks |-> <<>>]
    /\ held = {}
    /\ given = {}
    /\ dbuf = <<>>
    /\ lastFree = <<>>
    /\ host = <<>>
    /\ out = None
    /\ fails = 0

(* __PSGridNew(elm_size, 3, dim, double_buffering).  The descriptor's     *)
(* malloc is taken to succeed; each calloc either returns a zeroed free   *)
(* block or fails, and a failure returns INVALID_GRID at once.            *)
GridNew ==
    \E dim \in DimVecs, db \in BOOLEAN, g \in Unallocated :
      LET n == NumElms(dim)
          desc(p0, p1) == [p0 |-> p0, p1 |-> p1, dim |-> dim, num_elms |-> n]
          \* calloc of p0 failed: p1 is never assigned
          failP0 == /\ CallocFails(Unallocated \ {g})
                    /\ live' = live \cup {g}
                    /\ grid' = (g :> desc(NULL, NULL)) @@ grid
                    /\ UNCHANGED <<mem, held, given, dbuf>>
      IN
      /\ lastFree' = <<>>
      /\ UNCHANGED <<host, out>>
      /\ \/ failP0
         \/ \E b0 \in Unallocated \ {g} :
              LET got0 == live \cup {g, b0} IN
              \/ /\ ~db
                 /\ live' = got0
                 /\ grid' = (g :> desc(b0, b0)) @@ grid
                 /\ mem' = [mem EXCEPT ![b0] = Zeros(n)]
                 /\ held' = held \cup {g} /\ given' = given \cup {g}
                 /\ dbuf' = (g :> db) @@ dbuf
                 /\ UNCHANGED fails
              \/ /\ db
                 /\ CallocFails(Unallocated \ {g, b0})
                 /\ live' = got0
                 /\ grid' = (g :> desc(b0, NULL)) @@ grid
                 /\ mem' = [mem EXCEPT ![b0] = Zeros(n)]
                 /\ UNCHANGED <<held, given, dbuf>>
              \/ \E b1 \in Unallocated \ {g, b0} :
                 /\ db
                 /\ live' = got0 \cup {b1}
                 /\ grid' = (g :> desc(b0, b1)) @@ grid
                 /\ mem' = [mem EXCEPT ![b0] = Zeros(n), ![b1] = Zeros(n)]
                 /\ held' = held \cup {g} /\ given' = given \cup {g}
                 /\ dbuf' = (g :> db) @@ dbuf
                 /\ UNCHANGED fails

(* PSGridFree(g): frees p0, and p1 when it is another non-null block,     *)
(* then nulls both pointers.  The descriptor itself stays allocated.      *)
PSGridFree ==
    \E g \in given :
      /\ lastFree' = FreedBlocks(grid[g])
      /\ live' = live \ Range(FreedBlocks(grid[g]))
      /\ grid' = [grid EXCEPT ![g] = ResetPtrs(@)]
      /\ held' = held \ {g}
      \* a freed block's contents are unobservable: calloc zeroes it again
      /\ mem' = [b \in Blocks |-> IF b \in live' THEN mem[b] ELSE <<>>]
      /\ UNCHANGED <<given, dbuf, host, out, fails>>

(* The client fills its host array with a grid's worth of values, as the *)
(* test programs do before PSGridCopyin.                                   *)
ClientFill ==
    \E dim \in DimVecs :
      \E data \in [1..NumElms(dim) -> Values] :
        /\ host' = data
        /\ lastFree' = <<>>
        /\ UNCHANGED <<live, grid, mem, held, given, dbuf, out, fails>>

(* PSGridCopyin(g, src): memcpy into p0 of num_elms elements of src; the   *)
(* client passes an array of at least that many.                           *)
PSGridCopyin ==
    \E g \in held :
      /\ Len(host) = grid[g].num_elms
      /\ mem' = [mem EXCEPT ![grid[g].p0] = host]
      /\ lastFree' = <<>>
      /\ UNCHANGED <<live, grid, held, given, dbuf, host, out, fails>>

(* PSGridCopyout(g, dst): memcpy from p0.                                  *)
PSGridCopyout ==
    \E g \in held :
      /\ host' = mem[grid[g].p0]
      /\ lastFree' = <<>>
      /\ UNCHANGED <<live, grid, mem, held, given, dbuf, out, fails>>

(* __PSGridSwap(g)                                                         *)
GridSwap ==
    \E g \in held :
      /\ grid' = [grid EXCEPT ![g] = SwapPtrs(@)]
      /\ lastFree' = <<>>
      /\ UNCHANGED <<live, mem, held, given, dbuf, host, out, fails>>

(* __PSGridMirror(g): copy p0 to p1 when they differ.                      *)
GridMirror ==
    \E g \in held :
      /\ grid[g].p0 # grid[g].p1
      /\ mem' = MirrorBufs(mem, grid[g])
      /\ lastFree' = <<>>
      /\ UNCHANGED <<live, grid, held, given, dbuf, host, out, fails>>

(* __PSGridSet(g, buf, x, y, z): store one element of p0.                  *)
GridSet ==
    \E g \in held :
      \E idx \in Indices(grid[g].dim), v \in Values :
        /\ mem' = [mem EXCEPT ![grid[g].p0][SetOffset(idx, grid[g].dim, 1, 1) + 1] = v]
        /\ lastFree' = <<>>
        /\ UNCHANGED <<live, grid, held, given, dbuf, host, out, fails>>

(* __PSReduceGridFloat/Double(buf, op, g).  On a grid of no elements d[0] *)
(* reads beyond the block: any value the heap happens to hold.            *)
ReduceGrid ==
    \E g \in held, op \in Ops :
      LET d == mem[grid[g].p0] IN
      \E d0 \in (IF d = <<>> THEN Values ELSE {Head(d)}) :
        /\ out' = [op |-> op, val |-> ReduceSeq(op, d0, d), data |-> d]
        /\ lastFree' = <<>>
        /\ UNCHANGED <<live, grid, mem, held, given, dbuf, host, fails>>

Next ==
    \/ GridNew
    \/ PSGridFree
    \/ ClientFill
    \/ PSGridCopyin
    \/ PSGridCopyout
    \/ GridSwap
    \/ GridMirror
    \/ GridSet
    \/ ReduceGrid

Spec == Init /\ [][Next]_vars

-----------------------------------------------------------------------------
TypeOK ==
    /\ live \subseteq Blocks
    /\ held \subseteq given /\ given \subseteq DOMAIN grid
    /\ \A g \in DOMAIN grid :
         grid[g] \in [p0 : Blocks \cup {NULL}, p1 : Blocks \cup {NULL},
                      dim : DimVecs, num_elms : Nat]
    /\ \A g \in given : {grid[g].p0, grid[g].p1} \subseteq live \cup {NULL}
    /\ mem \in [Blocks -> Seq(Values)]
    /\ lastFree \in Seq(Blocks)
    /\ fails \in 0..MaxFail

(* A grid the client holds keeps two distinct live buffers when it was    *)
(* created double-buffered and one shared live buffer otherwise, whatever *)
(* sequence of swaps, mirrors and other grids' frees came before.         *)
DoubleBufferDistinct ==
    \A g \in held :
        /\ {grid[g].p0, grid[g].p1} \subseteq live
        /\ (grid[g].p0 # grid[g].p1) = dbuf[g]

(* PSGridFree never passes free() a block twice or a block that is not    *)
(* allocated: not for a single-buffered grid whose p0 and p1 alias, not   *)
(* after swaps, not when the same handle is freed again.                  *)
NoDoubleFree ==
    [][IsInjective(lastFree') /\ Range(lastFree') \subseteq live]_vars

(* The serial reduction of test_11.c (v = 0; v += g[i]) for every         *)
(* operator, seeded with the operator's identity as spec section 4.5      *)
(* prescribes.                                                             *)
Identity(op) ==
    CASE op = "PS_MAX" -> Lowest [] op = "PS_MIN" -> Highest
      [] op = "PS_SUM" -> 0      [] op = "PS_PROD" -> 1

SerialReduce(op, d) == FoldLeft(LAMBDA v, x : ApplyOp(op, v, x), Identity(op), d)

(* The reduction the runtime returns equals the serial reduction of the   *)
(* grid's data.                                                            *)
ReduceMatchesSerial ==
    out # None => out.val = SerialReduce(out.op, out.data)

(* Every allocated block belongs to a grid the client holds: its          *)
(* descriptor or one of its buffers.  An INVALID_GRID return of           *)
(* __PSGridNew and a PSGridFree both drop the client's handle, so neither *)
(* may leave a block of that grid allocated.                               *)
NoLeak ==
    live \subseteq UNION {{g, grid[g].p0, grid[g].p1} : g \in held}

(* The pointer-level runtime implements the value-level grid of         *)
(* GridSpec: the grid a handle names is its descriptor's dim and the       *)
(* contents of p0, and of p1 when it was created double-buffered.  Every *)
(* copy-in, set, swap, mirror, free and re-allocation, on any grid,       *)
(* changes only what the abstract call on that grid changes.              *)
Abs == INSTANCE GridSpec WITH
    Handles <- Blocks,
    grids <- [g \in held |->
                [dim |-> grid[g].dim,
                 bufs |-> IF dbuf[g] THEN <<mem[grid[g].p0], mem[grid[g].p1]>>
                                     ELSE <<mem[grid[g].p0]>>]]

AbsSpec == Abs!Spec

=============================================================================
