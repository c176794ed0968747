---------------------------- MODULE GridAddress ----------------------------
(***************************************************************************)
(* Address resolution of one process's share of a distributed 3-D grid:   *)
(* the device-side functions of include/physis/physis_mpi_cuda.h that turn *)
(* a global index (x, y, z) into a pointer into the core buffer p0 or into *)
(* one of the six halo buffers halo[d][s] (s = 0 backward, s = 1 forward). *)
(*                                                                         *)
(* The general resolver __PSGridGetAddrFloat3D walks the dimensions in     *)
(* order and routes to the buffer of the first dimension that is out of   *)
(* range; when diagonal halos are enabled it widens the higher dimensions *)
(* of that buffer by their halo widths.  The translator also emits six     *)
(* hand-cascaded directional variants (_0_fw ... _2_bw) that must agree   *)
(* with it on the accesses they are used for.                              *)
(*                                                                         *)
(* A state is one grid descriptor g (the __PSGridDev3DFloat fields that   *)
(* the resolvers read), the index last resolved and the address obtained. *)
(* An address is a record [buf, off]: buf is CoreBuf for p0 or <<d, s>>   *)
(* for halo[d][s], off is the element offset from the buffer's start.     *)
(***************************************************************************)
EXTENDS Integers, FiniteSets

CONSTANTS
    LocalSizes,     \* values local_size[d] may take
    Widths,         \* values halo_width[d][s] may take
    Pads,           \* pitch - local_size[0] (row padding of p0)
    LocalOffset     \* local_offset of the process, a function 0..2 -> Int

ASSUME LocalSizes \subseteq Nat \ {0} /\ Widths \subseteq Nat /\ Pads \subseteq Nat
ASSUME DOMAIN LocalOffset = 0..2

VARIABLES g, idx, addr

vars == <<g, idx, addr>>

Dims == 0..2
Sides == {0, 1}           \* halo_width[d][0]: backward, halo_width[d][1]: forward

CoreBuf == <<-1, -1>>     \* stands for g->p0

(* The fields of __PSGridDev3DFloat read by the resolvers.                 *)
DevGrid ==
    {[local_size   |-> ls,
      local_offset |-> LocalOffset,
      pitch        |-> ls[0] + pad,
      halo_width   |-> hw,
      diag         |-> dg] :
        ls \in [Dims -> LocalSizes], pad \in Pads,
        hw \in [Dims -> [Sides -> Widths]], dg \in BOOLEAN}

(* __PSGridCalcOffset3D: row-major offset with row length xs, plane ys.    *)
CalcOffset3D(x, y, z, xs, ys) == x + y * xs + z * xs * ys

(* __PSGridGetAddrNoHaloFloat3DLocal: p0 with pitched rows, local index.   *)
GetAddrNoHaloLocal(gr, i) ==
    [buf |-> CoreBuf,
     off |-> CalcOffset3D(i[0], i[1], i[2], gr.pitch, gr.local_size[1])]

(* The indices[] array every resolver starts from: global minus offset.    *)
LocalIndex(gr, p) == [d \in Dims |-> p[d] - gr.local_offset[d]]

(* __PSGridGetAddrNoHaloFloat3D.                                           *)
GetAddrNoHalo(gr, p) == GetAddrNoHaloLocal(gr, LocalIndex(gr, p))

(* __PSGridEmitAddrFloat3D: the address a kernel writes its own point to. *)
EmitAddr(gr, p) == GetAddrNoHaloLocal(gr, LocalIndex(gr, p))

OutOfRange(gr, i, d) == i[d] < 0 \/ i[d] >= gr.local_size[d]

(* Plausible slips in the cascade, used to show that the properties below  *)
(* detect them: widening the higher dimensions whether or not diag is set, *)
(* shifting them by the backward width without widening them, forgetting   *)
(* to shift a backward halo index by its width, and (further down) a       *)
(* backward y variant that takes the forward width.                        *)
GetAddrFloat3DWidenAlways(gr, p) ==
    LET ind == LocalIndex(gr, p)
        out == {d \in Dims : OutOfRange(gr, ind, d)}
        i   == CHOOSE d \in out : \A e \in out : d <= e
        s   == IF ind[i] < 0 THEN 0 ELSE 1
        hw  == gr.halo_width
        ix  == [d \in Dims |-> IF d = i THEN IF s = 0 THEN ind[d] + hw[d][0]
                                                ELSE ind[d] - gr.local_size[d]
                              ELSE IF d > i THEN ind[d] + hw[d][0] ELSE ind[d]]
        hs  == [d \in Dims |-> IF d = i THEN hw[d][s]
                              ELSE IF d > i THEN gr.local_size[d] + hw[d][0] + hw[d][1]
                              ELSE gr.local_size[d]]
    IN IF out = {} THEN GetAddrNoHalo(gr, p)
       ELSE [buf |-> <<i, s>>, off |-> CalcOffset3D(ix[0], ix[1], ix[2], hs[0], hs[1])]

GetAddrFloat3DNoBwShift(gr, p) ==
    LET ind == LocalIndex(gr, p)
        out == {d \in Dims : OutOfRange(gr, ind, d)}
        i   == CHOOSE d \in out : \A e \in out : d <= e
        s   == IF ind[i] < 0 THEN 0 ELSE 1
        hw  == gr.halo_width
        ix  == [d \in Dims |-> IF d = i /\ s = 1 THEN ind[d] - gr.local_size[d]
                              ELSE IF d > i /\ gr.diag THEN ind[d] + hw[d][0]
                              ELSE ind[d]]
        hs  == [d \in Dims |-> IF d = i THEN hw[d][s]
                              ELSE IF d > i /\ gr.diag
                                   THEN gr.local_size[d] + hw[d][0] + hw[d][1]
                              ELSE gr.local_size[d]]
    IN IF out = {} THEN GetAddrNoHalo(gr, p)
       ELSE [buf |-> <<i, s>>, off |-> CalcOffset3D(ix[0], ix[1], ix[2], hs[0], hs[1])]

(* __PSGridGetAddrFloat3D: the first out-of-range dimension i picks the    *)
(* buffer; with diag every later dimension j is shifted by its backward   *)
(* width and widened by both widths; dimensions before i keep local_size. *)
GetAddrFloat3D(gr, p) ==
    LET ind == LocalIndex(gr, p)
        hw  == gr.halo_width
        ls  == gr.local_size
        out == {d \in Dims : OutOfRange(gr, ind, d)}
    IN IF out = {} THEN GetAddrNoHalo(gr, p)
       ELSE
       LET i   == CHOOSE d \in out : \A e \in out : d <= e
           s   == IF ind[i] < 0 THEN 0 ELSE 1
           wide(d) == d > i /\ gr.diag
           ix  == [d \in Dims |->
                     IF d = i THEN IF s = 0 THEN ind[d] + hw[d][0]
                                            ELSE ind[d] - ls[d]
                     ELSE IF wide(d) THEN ind[d] + hw[d][0] ELSE ind[d]]
           hs  == [d \in Dims |->
                     IF d = i THEN hw[d][s]
                     ELSE IF wide(d) THEN ls[d] + hw[d][0] + hw[d][1]
                     ELSE ls[d]]
       IN [buf |-> <<i, s>>,
           off |-> CalcOffset3D(ix[0], ix[1], ix[2], hs[0], hs[1])]

(* __PSGridGetAddrFloat3D_2_fw.                                            *)
GetAddrFloat3D_2_fw(gr, p) ==
    LET i == LocalIndex(gr, p) IN
    IF i[2] < gr.local_size[2] THEN GetAddrNoHaloLocal(gr, i)
    ELSE [buf |-> <<2, 1>>,
          off |-> CalcOffset3D(i[0], i[1], i[2] - gr.local_size[2],
                               gr.local_size[0], gr.local_size[1])]

(* __PSGridGetAddrFloat3D_2_bw.                                            *)
GetAddrFloat3D_2_bw(gr, p) ==
    LET i == LocalIndex(gr, p) IN
    IF i[2] >= 0 THEN GetAddrNoHaloLocal(gr, i)
    ELSE [buf |-> <<2, 0>>,
          off |-> CalcOffset3D(i[0], i[1], i[2] + gr.halo_width[2][0],
                               gr.local_size[0], gr.local_size[1])]

(* The dimension-2 dispatch shared by the y and x variants when their own *)
(* dimension is in range.                                                  *)
Dispatch2(gr, p) ==
    LET i == LocalIndex(gr, p) IN
    IF i[2] < gr.local_size[2] /\ i[2] >= 0 THEN GetAddrNoHaloLocal(gr, i)
    ELSE IF i[2] >= gr.local_size[2] THEN GetAddrFloat3D_2_fw(gr, p)
    ELSE GetAddrFloat3D_2_bw(gr, p)

(* Shift of the z index into a diagonal-widened y halo.                    *)
DiagZ(gr, i) == IF gr.diag THEN i[2] + gr.halo_width[2][0] ELSE i[2]

(* __PSGridGetAddrFloat3D_1_fw.                                            *)
GetAddrFloat3D_1_fw(gr, p) ==
    LET i == LocalIndex(gr, p) IN
    IF i[1] < gr.local_size[1] THEN Dispatch2(gr, p)
    ELSE [buf |-> <<1, 1>>,
          off |-> CalcOffset3D(i[0], i[1] - gr.local_size[1], DiagZ(gr, i),
                               gr.local_size[0], gr.halo_width[1][1])]

GetAddrFloat3D_1_bwFwWidth(gr, p) ==
    LET i == LocalIndex(gr, p) IN
    IF i[1] >= 0 THEN Dispatch2(gr, p)
    ELSE [buf |-> <<1, 0>>,
          off |-> CalcOffset3D(i[0], i[1] + gr.halo_width[1][1], DiagZ(gr, i),
                               gr.local_size[0], gr.halo_width[1][1])]

(* __PSGridGetAddrFloat3D_1_bw.                                            *)
GetAddrFloat3D_1_bw(gr, p) ==
    LET i == LocalIndex(gr, p) IN
    IF i[1] >= 0 THEN Dispatch2(gr, p)
    ELSE [buf |-> <<1, 0>>,
          off |-> CalcOffset3D(i[0], i[1] + gr.halo_width[1][0], DiagZ(gr, i),
                               gr.local_size[0], gr.halo_width[1][0])]

(* The y/z dispatch shared by the x variants when x is in range.          *)
Dispatch12(gr, p) ==
    LET i == LocalIndex(gr, p) IN
    IF /\ i[1] < gr.local_size[1] /\ i[1] >= 0
       /\ i[2] < gr.local_size[2] /\ i[2] >= 0
    THEN GetAddrNoHaloLocal(gr, i)
    ELSE IF i[1] >= gr.local_size[1] THEN GetAddrFloat3D_1_fw(gr, p)
    ELSE IF i[1] < 0 THEN GetAddrFloat3D_1_bw(gr, p)
    ELSE IF i[2] >= gr.local_size[2] THEN GetAddrFloat3D_2_fw(gr, p)
    ELSE GetAddrFloat3D_2_bw(gr, p)

(* The x halo's y extent and the shifted y, z indices of an x variant.    *)
XHaloSize1(gr) ==
    IF gr.diag THEN gr.local_size[1] + gr.halo_width[1][0] + gr.halo_width[1][1]
    ELSE gr.local_size[1]
DiagYZ(gr, i) ==
    IF gr.diag THEN <<i[1] + gr.halo_width[1][0], i[2] + gr.halo_width[2][0]>>
    ELSE <<i[1], i[2]>>

(* __PSGridGetAddrFloat3D_0_fw.                                            *)
GetAddrFloat3D_0_fw(gr, p) ==
    LET i == LocalIndex(gr, p) IN
    IF i[0] < gr.local_size[0] THEN Dispatch12(gr, p)
    ELSE LET yz == DiagYZ(gr, i) IN
         [buf |-> <<0, 1>>,
          off |-> CalcOffset3D(i[0] - gr.local_size[0], yz[1], yz[2],
                               gr.halo_width[0][1], XHaloSize1(gr))]

(* __PSGridGetAddrFloat3D_0_bw.                                            *)
GetAddrFloat3D_0_bw(gr, p) ==
    LET i == LocalIndex(gr, p) IN
    IF i[0] >= 0 THEN Dispatch12(gr, p)
    ELSE LET yz == DiagYZ(gr, i) IN
         [buf |-> <<0, 0>>,
          off |-> CalcOffset3D(i[0] + gr.halo_width[0][0], yz[1], yz[2],
                               gr.halo_width[0][0], XHaloSize1(gr))]

GetAddrVariant(d, s, gr, p) ==
    CASE d = 0 /\ s = 1 -> GetAddrFloat3D_0_fw(gr, p)
      [] d = 0 /\ s = 0 -> GetAddrFloat3D_0_bw(gr, p)
      [] d = 1 /\ s = 1 -> GetAddrFloat3D_1_fw(gr, p)
      [] d = 1 /\ s = 0 -> GetAddrFloat3D_1_bw(gr, p)
      [] d = 2 /\ s = 1 -> GetAddrFloat3D_2_fw(gr, p)
      [] d = 2 /\ s = 0 -> GetAddrFloat3D_2_bw(gr, p)

-----------------------------------------------------------------------------
(* The accessible region: every dimension within its halo widths, and at   *)
(* most one dimension outside the core unless diagonal halos are enabled  *)
(* (a corner access without diag is caller error, left undefined).        *)
Accessible(gr) ==
    LET R(d) == (gr.local_offset[d] - gr.halo_width[d][0])
                  .. (gr.local_offset[d] + gr.local_size[d] + gr.halo_width[d][1] - 1)
    IN {p \in {[d \in Dims |-> t[d + 1]] : t \in R(0) \X R(1) \X R(2)} :
          \/ gr.diag
          \/ Cardinality({d \in Dims : OutOfRange(gr, LocalIndex(gr, p), d)}) <= 1}

(* GridMPI::CalcHaloSize: the halo buffer of (dim, side) spans local_size  *)
(* in the other dimensions and the width in its own; with diagonal halos  *)
(* the dimensions after dim are widened by both of their widths.  The core *)
(* buffer p0 has pitched rows.                                             *)
BufShape(gr, b) ==
    IF b = CoreBuf
    THEN [d \in Dims |-> IF d = 0 THEN gr.pitch ELSE gr.local_size[d]]
    ELSE [d \in Dims |->
            IF d = b[1] THEN gr.halo_width[d][b[2]]
            ELSE IF d > b[1] /\ gr.diag
                 THEN gr.local_size[d] + gr.halo_width[d][0] + gr.halo_width[d][1]
            ELSE gr.local_size[d]]

Init ==
    /\ g \in DevGrid
    /\ idx = g.local_offset
    /\ addr = GetAddrFloat3D(g, idx)

CorePoints(gr) ==
    {p \in Accessible(gr) : \A d \in Dims : ~OutOfRange(gr, LocalIndex(gr, p), d)}

(* translateGetKernel: a PSGridGet whose stencil offset is zero in every   *)
(* dimension (StencilIndexSelf) calls __PSGridGetAddrNoHalo, any other     *)
(* __PSGridGetAddr.                                                        *)
KernelGetAddr(gr, p, self) ==
    IF self THEN GetAddrNoHalo(gr, p) ELSE GetAddrFloat3D(gr, p)

(* A kernel at a core point reads one accessible index: its own point     *)
(* (self) or any other, core or halo.                                     *)
Resolve ==
    \E p \in Accessible(g), self \in BOOLEAN :
        /\ self => p \in CorePoints(g)
        /\ idx' = p
        /\ addr' = KernelGetAddr(g, p, self)
        /\ UNCHANGED g

(* translateEmit: PSGridEmit(g, v) in the kernel of point (x, y, z)       *)
(* becomes *__PSGridEmitAddr(g, x, y, z) = v.                              *)
Emit ==
    \E p \in CorePoints(g) :
        /\ idx' = p
        /\ addr' = EmitAddr(g, p)
        /\ UNCHANGED g

Next == Resolve \/ Emit

Spec == Init /\ [][Next]_vars

-----------------------------------------------------------------------------
(* Reference layout, written from the buffer shapes rather than from the   *)
(* resolver's cascade: an index belongs to the buffer of its first         *)
(* out-of-range dimension, and its offset is the row-major rank of its     *)
(* position inside that buffer's box.                                      *)

RECURSIVE RowMajor(_, _, _)
RowMajor(c, shape, d) ==
    IF d = 2 THEN c[2] ELSE c[d] + shape[d] * RowMajor(c, shape, d + 1)

OwnerBuf(gr, p) ==
    LET i   == LocalIndex(gr, p)
        out == {d \in Dims : OutOfRange(gr, i, d)}
        d0  == CHOOSE d \in out : \A e \in out : d <= e
    IN IF out = {} THEN CoreBuf ELSE <<d0, IF i[d0] < 0 THEN 0 ELSE 1>>

(* Lower corner of a buffer's box in local coordinates.                    *)
BoxLow(gr, b) ==
    [d \in Dims |->
        IF b = CoreBuf \/ d < b[1] THEN 0
        ELSE IF d = b[1] THEN IF b[2] = 1 THEN gr.local_size[d]
                             ELSE -gr.halo_width[d][0]
        ELSE IF gr.diag THEN -gr.halo_width[d][0] ELSE 0]

RefAddr(gr, p) ==
    LET b == OwnerBuf(gr, p)
        i == LocalIndex(gr, p)
    IN [buf |-> b,
        off |-> RowMajor([d \in Dims |-> i[d] - BoxLow(gr, b)[d]], BufShape(gr, b), 0)]

BufVolume(gr, b) == LET sh == BufShape(gr, b) IN sh[0] * sh[1] * sh[2]

(* The accesses a directional variant _d_s is meant for, as its cascade   *)
(* reads: the dimensions before d in the core, dimension d on side s or   *)
(* in the core, and later dimensions anywhere in the accessible region.   *)
(* No translator in the repository emits the variants, so this contract  *)
(* is an assumption of the model, not something a caller is shown to keep.*)
Contract(gr, d, s) ==
    {p \in Accessible(gr) :
        LET i == LocalIndex(gr, p) IN
        /\ \A e \in 0..(d - 1) : ~OutOfRange(gr, i, e)
        /\ s = 1 => i[d] >= 0
        /\ s = 0 => i[d] < gr.local_size[d]}

-----------------------------------------------------------------------------
TypeOK ==
    /\ g \in DevGrid
    /\ idx \in Accessible(g)
    /\ addr \in [buf : {CoreBuf} \cup (Dims \X Sides), off : Nat]   \* size_t offset

(* Address round trip (spec section 8): every accessible index resolves   *)
(* into the buffer the layout assigns it, at its row-major position there, *)
(* and that offset lies inside the buffer CalcHaloSize allocates.          *)
AddrRoundTrip ==
    /\ addr = RefAddr(g, idx)
    /\ 0 <= addr.off /\ addr.off < BufVolume(g, addr.buf)

(* The hand-cascaded directional resolvers agree with                      *)
(* __PSGridGetAddrFloat3D on every access of their assumed contract, and  *)
(* the emit address agrees with it on every core point.                    *)
VariantsAgree ==
    /\ \A d \in Dims, s \in Sides :
          idx \in Contract(g, d, s) => GetAddrVariant(d, s, g, idx) = addr
    /\ OwnerBuf(g, idx) = CoreBuf => EmitAddr(g, idx) = addr

=============================================================================
