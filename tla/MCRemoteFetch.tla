---------------------------- MODULE MCRemoteFetch ----------------------------
(* Three processes and two consecutive loads: with two, the FIFO channel  *)
(* between them already orders a DONE before the next load's requests.    *)
EXTENDS RemoteFetch

CONSTANTS r1, r2, r3

MCProcs == {r1, r2, r3}

(* Load 1 reads a region spanning every partition; in load 2 the region   *)
(* of r3 lies in its own partition, so r3 sends no request.               *)
MCOwners ==
    [c \in 1..2 |-> [p \in MCProcs |-> IF c = 2 /\ p = r3 THEN {r3} ELSE MCProcs]]
=============================================================================
