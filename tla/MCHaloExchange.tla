---------------------------- MODULE MCHaloExchange ----------------------------
(* A 2 x 2 process grid over a 3 x 2 x 1 grid: along x the blocks have 2  *)
(* and 1 elements, so the neighbours' boxes differ; halo width 1 in x and  *)
(* y, none in z.  With two processes along a dimension the forward and     *)
(* backward neighbours of a periodic exchange are the same process.  Two  *)
(* consecutive calls: diagonal halos turned on, and turned off.           *)
EXTENDS HaloExchange

MCGlobalSize == [d \in 0..2 |-> IF d = 0 THEN 3 ELSE IF d = 1 THEN 2 ELSE 1]
MCProcSize == [d \in 0..2 |-> IF d = 2 THEN 1 ELSE 2]
MCWidth == [d \in 0..2 |-> IF d = 2 THEN 0 ELSE 1]
MCDiagSeqs == {<<FALSE, TRUE>>, <<TRUE, FALSE>>}
=============================================================================
