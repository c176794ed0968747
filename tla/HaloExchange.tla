----------------------------- MODULE HaloExchange -----------------------------
(***************************************************************************)
(* Consecutive halo exchanges of a distributed 3-D grid (__PSLoadNeighbor *)
(* calls: GridMPI::SetHaloSize, then GridSpaceMPI::ExchangeBoundaries)     *)
(* over a Cartesian                                                        *)
(* process grid, composed with the layout the device resolver             *)
(* __PSGridGetAddrFloat3D of include/physis/physis_mpi_cuda.h reads the   *)
(* halo buffers with (module GridAddress).                                 *)
(*                                                                         *)
(* The bodies of PartitionGrid, ExchangeBoundaries and CopyoutHalo are    *)
(* not in the repository: the partition is spec section 4.1, the exchange *)
(* section 4.3.  Per dimension of ExchangeOrder every process packs, for  *)
(* each neighbour, the slab that fills the neighbour's halo buffer on the *)
(* facing side (CopyoutHalo), reading its core and the halo strips it has *)
(* already received; it sends the slabs, receives the slabs of its own    *)
(* neighbours into halo[d][s], and waits for all of them before the next  *)
(* dimension.  A slab is a function from the cells of the receiving      *)
(* buffer, whose shape (CalcHaloSize) the sender's send buffer shares.    *)
(* Before each exchange SetHaloSize grows a halo buffer that the call's   *)
(* width and diagonal flag no longer fit (halo_*_buf_size_); a grown      *)
(* buffer is fresh memory.  Each call has its own diagonal flag; MPI      *)
(* delivers the slabs of one sender, dimension and side in order.          *)
(*                                                                         *)
(* Data is abstracted to identity: the element of global point x holds x  *)
(* (wrapped into the grid when periodic), and a halo cell that nothing    *)
(* was received into holds Stale.                                          *)
(***************************************************************************)
EXTENDS Integers, Sequences, FiniteSets, TLC

CONSTANTS
    GlobalSize,     \* GlobalSize[d]: extent of the grid along d, d \in 0..2
    ProcSize,       \* ProcSize[d]: processes along d
    Width,          \* Width[d]: halo width requested along d (both sides)
    Stale,          \* contents of a halo cell nothing was received into
    DiagSeqs,       \* sequences of the diagonal argument of consecutive calls
    Periodics       \* values of the periodic argument checked

Dims == 0..2
Sides == {0, 1}     \* 0: backward (halo[d][0]), 1: forward

ASSUME /\ \A d \in Dims : ProcSize[d] \in Nat \ {0} /\ GlobalSize[d] \in Nat \ {0}
       /\ DiagSeqs # {} /\ Periodics \subseteq BOOLEAN
       /\ \A q, r \in DiagSeqs : Len(q) = Len(r) /\ Len(q) > 0 /\ \A i \in DOMAIN q : q[i] \in BOOLEAN

NCalls == Len(CHOOSE q \in DiagSeqs : TRUE)

GA == INSTANCE GridAddress WITH
        LocalSizes <- {}, Widths <- {}, Pads <- {},
        LocalOffset <- [d \in Dims |-> 0],
        g <- {}, idx <- {}, addr <- {}

(* Process coordinates in the Cartesian topology.                          *)
Procs == {[d \in Dims |-> t[d + 1]] :
            t \in (0..(ProcSize[0] - 1)) \X (0..(ProcSize[1] - 1)) \X (0..(ProcSize[2] - 1))}

VARIABLES
    call,       \* call[c]: the __PSLoadNeighbor call c is in; NCalls + 1 when past all
    stage,      \* stage[c]: position in ExchangeOrder of the dimension exchanged; 0 before SetHaloSize
    posted,     \* posted[c]: the slabs of the current dimension are sent
    recvd,      \* recvd[c]: the sides of the current dimension received
    halo,       \* halo[c][a]: contents of halo cell a ([buf, off]) of process c
    bufsize,    \* bufsize[c][b]: elements allocated for halo buffer b of c
    msgs,       \* slabs in flight
    diags,      \* the diagonal argument of each call
    periodic    \* the periodic argument of the calls

vars == <<call, stage, posted, recvd, halo, bufsize, msgs, diags, periodic>>

-----------------------------------------------------------------------------
(* PartitionGrid, largest remainder (spec section 4.1): block i of n      *)
(* elements over P processes.                                              *)
PartSize(n, P, i) == n \div P + (IF i < n % P THEN 1 ELSE 0)

PartOffset(n, P, i) == i * (n \div P) + (IF i < n % P THEN i ELSE n % P)

LocalOffset(c) == [d \in Dims |-> PartOffset(GlobalSize[d], ProcSize[d], c[d])]
LocalSize(c) == [d \in Dims |-> PartSize(GlobalSize[d], ProcSize[d], c[d])]

(* The __PSGridDev3DFloat of process c for a call with diagonal dg.      *)
DevGridOf(c, dg) ==
    [local_size |-> LocalSize(c), local_offset |-> LocalOffset(c),
     pitch |-> LocalSize(c)[0],
     halo_width |-> [d \in Dims |-> [s \in Sides |-> Width[d]]],
     diag |-> dg]

(* The resolver's layout of every point a kernel of c may read: the      *)
(* buffer it lies in (OwnerBuf) and its address there (__PSGridGetAddr-   *)
(* Float3D).  A constant table, computed once for both diagonal values.   *)
LayoutTbl ==
    [dg \in BOOLEAN |-> [c \in Procs |->
        LET gr == DevGridOf(c, dg) IN
        [x \in GA!Accessible(gr) |->
            [buf |-> GA!OwnerBuf(gr, x), addr |-> GA!GetAddrFloat3D(gr, x)]]]]

(* The layout of c in a call with diagonal dg.                            *)
Layout(c, dg) == LayoutTbl[dg][c]

InCore(c, dg, x) == Layout(c, dg)[x].buf = GA!CoreBuf

(* The points halo[d][s] of c holds: the resolver's region of the buffer. *)
HaloRegion(c, dg, d, s) == {x \in DOMAIN Layout(c, dg) : Layout(c, dg)[x].buf = <<d, s>>}

HaloPoints(c, dg) == {x \in DOMAIN Layout(c, dg) : ~InCore(c, dg, x)}

Addr(c, dg, x) == Layout(c, dg)[x].addr

(* The point each halo cell of c stands for in a call with diagonal dg:   *)
(* the inverse of the resolver on the halo, a constant table.              *)
PointAtTbl ==
    [dg \in BOOLEAN |-> [c \in Procs |->
        LET L == LayoutTbl[dg][c]  H == {x \in DOMAIN L : L[x].buf # GA!CoreBuf} IN
        [a \in {L[x].addr : x \in H} |-> CHOOSE x \in H : L[x].addr = a]]]

(* Every halo cell either layout of c uses.                                *)
Cells(c) == DOMAIN PointAtTbl[FALSE][c] \cup DOMAIN PointAtTbl[TRUE][c]

Bufs == {<<d, s>> : d \in Dims, s \in Sides}

(* CalcHaloSize: the elements halo buffer b of c needs for diagonal dg.   *)
CalcHaloSize(c, dg, b) == GA!BufVolume(DevGridOf(c, dg), b)

(* The high-water mark of spec sections 4.2 and 9: a buffer is reallocated only    *)
(* when the requested width exceeds the largest width requested so far   *)
(* (none before the first call), whatever the diagonal flag.             *)
HaloBufSizeByWidth(c, dg, old) ==
    [b \in Bufs |-> IF old[b] = 0 /\ Width[b[1]] > 0 THEN CalcHaloSize(c, dg, b)
                   ELSE old[b]]

(* SetHaloSize: a buffer too small for the call's halo is reallocated to *)
(* the halo's size; a sufficient one is reused, never shrunk.              *)
HaloBufSize(c, dg, old) ==
    [b \in Bufs |-> IF CalcHaloSize(c, dg, b) > old[b] THEN CalcHaloSize(c, dg, b)
                   ELSE old[b]]

Diag(c) == diags[call[c]]

(* The Cartesian neighbour of c on side s of d: none at the boundary of a *)
(* non-periodic grid, the coordinate taken modulo ProcSize otherwise.      *)
NeighborOf(c, d, s) ==
    LET k == c[d] + (IF s = 1 THEN 1 ELSE -1) IN
    IF k \in 0..(ProcSize[d] - 1) THEN {[c EXCEPT ![d] = k]}
    ELSE IF periodic THEN {[c EXCEPT ![d] = k % ProcSize[d]]}
    ELSE {}

(* Waiting for both sides whether or not there is a neighbour there.     *)
ExpectedSidesBoth(c, d) == Sides

(* The sides of d whose slab the wait of c completes on.                   *)
ExpectedSides(c, d) == {s \in Sides : NeighborOf(c, d, s) # {}}

(* Lower dimensions first, as spec section 4.3 orders them.                *)
ExchangeOrderAscending ==
    SelectSeq(<<0, 1, 2>>, LAMBDA d : Width[d] > 0)

(* The dimensions with a halo, highest first: halo[d] of the resolver     *)
(* spans the halos of every later dimension, so those must be in place   *)
(* before d's slabs are packed.                                            *)
ExchangeOrder ==
    SelectSeq(<<2, 1, 0>>, LAMBDA d : Width[d] > 0)

Done(c) == call[c] > NCalls

(* c is inside ExchangeBoundaries of its current call.                     *)
Exchanging(c) == ~Done(c) /\ stage[c] >= 1

CurDim(c) == ExchangeOrder[stage[c]]

(* The element of point x as c reads it while packing: its core, or the    *)
(* halo cell the resolver maps x to.                                       *)
View(c, x) == IF InCore(c, Diag(c), x) THEN x ELSE halo[c][Addr(c, Diag(c), x)]

(* The point of the sending neighbour that point x of the receiver is,    *)
(* across the periodic wrap of dimension d.                                *)
SenderPoint(x, d) == [x EXCEPT ![d] = @ % GlobalSize[d]]

(* The packed slab for halo[d][s] of q: the element of each cell, in the  *)
(* buffer's own layout, for the diagonal flag of c's call.                 *)
Slab(c, q, d, s) ==
    LET dg == Diag(c) IN
    [a \in {Addr(q, dg, x) : x \in HaloRegion(q, dg, d, s)} |->
        View(c, SenderPoint(PointAtTbl[dg][q][a], d))]

(* The data of global point x.                                             *)
Wrap(x) == [d \in Dims |-> x[d] % GlobalSize[d]]

Owned(x) == periodic \/ \A d \in Dims : x[d] \in 0..(GlobalSize[d] - 1)

-----------------------------------------------------------------------------
(* InitBuffer: no halo buffer is allocated yet; the memory SetHaloSize   *)
(* hands out holds nothing written by the exchange.                        *)
Init ==
    /\ diags \in DiagSeqs
    /\ periodic \in Periodics
    /\ call = [c \in Procs |-> 1]
    /\ stage = [c \in Procs |-> 0]
    /\ posted = [c \in Procs |-> FALSE]
    /\ recvd = [c \in Procs |-> {}]
    /\ halo = [c \in Procs |-> [a \in Cells(c) |-> Stale]]
    /\ bufsize = [c \in Procs |-> [b \in Bufs |-> 0]]
    /\ msgs = {}

(* __PSLoadNeighbor enters a call: SetHaloSize for every halo buffer; a   *)
(* reallocated buffer is fresh memory.                                     *)
LoadNeighbor(c) ==
    LET new == HaloBufSize(c, Diag(c), bufsize[c]) IN
    /\ ~Done(c) /\ stage[c] = 0
    /\ bufsize' = [bufsize EXCEPT ![c] = new]
    /\ halo' = [halo EXCEPT ![c] =
                  [a \in DOMAIN @ |-> IF new[a.buf] # bufsize[c][a.buf] THEN Stale ELSE @[a]]]
    /\ stage' = [stage EXCEPT ![c] = 1]
    /\ UNCHANGED <<call, posted, recvd, msgs, diags, periodic>>

(* ExchangeBoundariesAsync for the current dimension: CopyoutHalo packs   *)
(* the slab of each neighbour and the sends are posted.  The neighbour on *)
(* side s of c receives into its halo on the opposite side.                *)
PostSends(c) ==
    LET d == CurDim(c) IN
    /\ Exchanging(c) /\ ~posted[c]
    /\ posted' = [posted EXCEPT ![c] = TRUE]
    /\ msgs' = msgs \cup UNION
         {{[from |-> c, to |-> q, call |-> call[c], dim |-> d, side |-> 1 - s,
            slab |-> Slab(c, q, d, 1 - s)] :
             q \in NeighborOf(c, d, s)} : s \in Sides}
    /\ UNCHANGED <<call, stage, recvd, halo, bufsize, diags, periodic>>

(* The cells of a slab that lie past the end of the receive buffer       *)
(* SetHaloSize allocated for c.                                            *)
PastEnd(c, slab) == {a \in DOMAIN slab : a.off >= bufsize[c][a.buf]}

(* The receive posted for one side of the current dimension completes     *)
(* with the oldest slab from that neighbour (MPI does not let messages    *)
(* of one sender and tag overtake), which is installed into halo[d][side].*)
(* A cell written past the end of the buffer is undefined behaviour: the  *)
(* write either survives until the kernel reads it or is overwritten by  *)
(* whatever owns that memory (Stale).                                      *)
Receive(c) ==
    \E m \in msgs :
      /\ m.to = c /\ Exchanging(c) /\ posted[c]
      /\ m.dim = CurDim(c) /\ m.side \notin recvd[c]
      /\ ~\E o \in msgs : /\ o.from = m.from /\ o.to = c /\ o.dim = m.dim
                        /\ o.side = m.side /\ o.call < m.call
      /\ \E lost \in {{}, PastEnd(c, m.slab)} :
           halo' = [halo EXCEPT ![c] = [a \in lost |-> Stale] @@ m.slab @@ @]
      /\ recvd' = [recvd EXCEPT ![c] = @ \cup {m.side}]
      /\ msgs' = msgs \ {m}
      /\ UNCHANGED <<call, stage, posted, bufsize, diags, periodic>>

(* The wait on the requests of the current dimension completes; after the *)
(* last dimension the call returns.                                        *)
WaitAll(c) ==
    LET last == stage[c] = Len(ExchangeOrder) IN
    /\ Exchanging(c) /\ posted[c]
    /\ ExpectedSides(c, CurDim(c)) \subseteq recvd[c]
    /\ stage' = [stage EXCEPT ![c] = IF last THEN 0 ELSE @ + 1]
    /\ call' = [call EXCEPT ![c] = IF last THEN @ + 1 ELSE @]
    /\ posted' = [posted EXCEPT ![c] = FALSE]
    /\ recvd' = [recvd EXCEPT ![c] = {}]
    /\ UNCHANGED <<halo, bufsize, msgs, diags, periodic>>

(* A step of process c.                                                    *)
Step(c) == LoadNeighbor(c) \/ PostSends(c) \/ Receive(c) \/ WaitAll(c)

Next == \E c \in Procs : Step(c)

(* Every process, while it can, keeps running its calls (it is an MPI     *)
(* process of its own), and MPI delivers a message to a process blocked   *)
(* in a wait on it: only c removes the slabs addressed to c, so a         *)
(* delivery stays enabled until c takes it.                                *)
Fairness == \A c \in Procs : WF_vars(Step(c))

Spec == Init /\ [][Next]_vars /\ Fairness

-----------------------------------------------------------------------------
(* After each call returns, every halo point a kernel of that call may   *)
(* read (corners only with its diagonal argument) that lies in the grid,  *)
(* or anywhere when periodic, resolves to a cell holding that point's     *)
(* data: corners assembled by the neighbour from halo strips it received  *)
(* earlier in the same exchange, and no cell left from an earlier call    *)
(* with another layout, lost to a reallocation, or written past the end  *)
(* of a buffer too small for the call's halo.                              *)
HaloFresh ==
    \A c \in Procs : stage[c] = 0 /\ call[c] > 1 =>
        LET dg == diags[call[c] - 1] IN
        LET P == PointAtTbl[dg][c] IN
        \A a \in DOMAIN P : Owned(P[a]) => halo[c][a] = Wrap(P[a])

(* Every process completes every call: no wait is left on a message that  *)
(* no neighbour sends, and no slab is left unreceived.                     *)
AllExchanged ==
    <>(/\ \A c \in Procs : Done(c)
       /\ msgs = {})

=============================================================================
