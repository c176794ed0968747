------------------------------- MODULE GridSpec -------------------------------
(***************************************************************************)
(* What the grid calls promise a client, stated over element values only  *)
(* (spec sections 3, 5 and 6).  A grid is its dim vector and its buffers: *)
(* one, or two with double buffering, the first being the one copy-in,    *)
(* copy-out, set and the kernels read.  Creation gives zeroed buffers or  *)
(* the invalid-grid sentinel (no grid); a swap exchanges the two buffers; *)
(* a mirror copies the first into the second; free ends the grid.  No     *)
(* grid's buffers change through a call on another grid.                  *)
(***************************************************************************)
EXTENDS Integers, Sequences, TLC

CONSTANTS
    Handles,    \* handles a creation may return
    DimVecs,    \* dim vectors a client passes: <<x>>, <<x, y>> or <<x, y, z>>
    Values      \* element values

VARIABLES
    grids,      \* grids[g]: [dim, bufs] of each grid the client holds
    host        \* the client's host array: copy-in's source, copy-out's target

avars == <<grids, host>>

(* The offset of an index in a grid of size dim, x varying fastest:       *)
(* x + y * size[0] + z * size[0] * size[1] (GridCalcOffset3D of           *)
(* runtime/grid_util.h), for any number of dimensions.                     *)
RECURSIVE GridCalcOffset(_, _)
GridCalcOffset(index, size) ==
    IF index = <<>> THEN 0
    ELSE Head(index) + Head(size) * GridCalcOffset(Tail(index), Tail(size))

RECURSIVE Elems(_)
Elems(dim) == IF dim = <<>> THEN 1 ELSE Head(dim) * Elems(Tail(dim))

Extents == UNION {{v[d] : d \in DOMAIN v} : v \in DimVecs}

(* The indices of a grid of size dim.                                      *)
Indices(dim) ==
    {x \in [DOMAIN dim -> 0..(CHOOSE m \in Extents : \A e \in Extents : e <= m)] :
        \A d \in DOMAIN dim : x[d] < dim[d]}

Cur(g) == grids[g].bufs[1]

SetCur(g, d) == [grids EXCEPT ![g].bufs[1] = d]

Init ==
    /\ grids = <<>>
    /\ host = <<>>

(* A valid creation; an invalid one changes nothing the client sees.      *)
Create ==
    \E g \in Handles \ DOMAIN grids, dim \in DimVecs, db \in BOOLEAN :
      LET z == [j \in 1..Elems(dim) |-> 0] IN
      /\ grids' = (g :> [dim |-> dim,
                         bufs |-> IF db THEN <<z, z>> ELSE <<z>>]) @@ grids
      /\ UNCHANGED host

Free ==
    \E g \in DOMAIN grids :
      /\ grids' = [h \in DOMAIN grids \ {g} |-> grids[h]]
      /\ UNCHANGED host

Fill ==
    \E dim \in DimVecs :
      /\ host' \in [1..Elems(dim) -> Values]
      /\ UNCHANGED grids

Copyin ==
    \E g \in DOMAIN grids :
      /\ Len(host) = Len(Cur(g))
      /\ grids' = SetCur(g, host)
      /\ UNCHANGED host

Copyout ==
    \E g \in DOMAIN grids :
      /\ host' = Cur(g)
      /\ UNCHANGED grids

Set ==
    \E g \in DOMAIN grids, v \in Values :
      \E idx \in Indices(grids[g].dim) :
        /\ grids' = SetCur(g, [Cur(g) EXCEPT ![GridCalcOffset(idx, grids[g].dim) + 1] = v])
        /\ UNCHANGED host

Swap ==
    \E g \in DOMAIN grids :
      /\ grids' = [grids EXCEPT ![g].bufs = [i \in DOMAIN @ |-> @[Len(@) + 1 - i]]]
      /\ UNCHANGED host

Mirror ==
    \E g \in DOMAIN grids :
      /\ grids' = [grids EXCEPT ![g].bufs = [i \in DOMAIN @ |-> @[1]]]
      /\ UNCHANGED host

Next == Create \/ Free \/ Fill \/ Copyin \/ Copyout \/ Set \/ Swap \/ Mirror

Spec == Init /\ [][Next]_avars

=============================================================================
