--------------------------- MODULE RemoteFetchSpec ---------------------------
(***************************************************************************)
(* What a sequence of collective subgrid loads promises (spec section     *)
(* 4.4): in load c every process obtains, for its remote grid, the part   *)
(* of grid c that each owner it needs holds, and a process leaves load c  *)
(* only once no process still waits for data of load c.                   *)
(***************************************************************************)
EXTENDS Integers, FiniteSets

CONSTANTS
    Procs,      \* the MPI processes
    NCalls,     \* the number of consecutive LoadSubgrid calls
    Owners      \* Owners[c][p]: the processes whose data p needs in load c

Calls == 1..NCalls

VARIABLES
    acall,      \* the load each process is in; NCalls + 1 once it is past all
    complete,   \* the process's remote grid for its current load is complete
    agot        \* agot[p][c]: the data p's remote grid held after load c

avars == <<acall, complete, agot>>

(* Data of grid c from owner o.                                            *)
Piece(o, c) == [owner |-> o, grid |-> c]

(* The remote grid p must obtain in load c.                                *)
Expected(p, c) == {Piece(o, c) : o \in Owners[c][p] \ {p}}

Init ==
    /\ acall = [p \in Procs |-> 1]
    /\ complete = [p \in Procs |-> FALSE]
    /\ agot = [p \in Procs |-> [c \in Calls |-> {}]]

(* p's fetch of its current load completes with the expected data.        *)
Fetch(p) ==
    /\ acall[p] <= NCalls
    /\ ~complete[p]
    /\ complete' = [complete EXCEPT ![p] = TRUE]
    /\ agot' = [agot EXCEPT ![p][acall[p]] = Expected(p, acall[p])]
    /\ UNCHANGED acall

(* p leaves its load once every process has completed it.                  *)
Leave(p) ==
    /\ acall[p] <= NCalls
    /\ complete[p]
    /\ \A q \in Procs : acall[q] > acall[p] \/ (acall[q] = acall[p] /\ complete[q])
    /\ acall' = [acall EXCEPT ![p] = @ + 1]
    /\ complete' = [complete EXCEPT ![p] = FALSE]
    /\ UNCHANGED agot

Next == \E p \in Procs : Fetch(p) \/ Leave(p)

Spec ==
    /\ Init /\ [][Next]_avars
    /\ \A p \in Procs : WF_avars(Fetch(p)) /\ WF_avars(Leave(p))

=============================================================================
