--------------------------- MODULE MCGridAddress ---------------------------
(* Model of GridAddress for TLC: a process whose local box starts at        *)
(* (2, 0, 1), so the global-to-local subtraction is exercised.              *)
EXTENDS GridAddress

MCLocalOffset == [d \in 0..2 |-> IF d = 0 THEN 2 ELSE IF d = 1 THEN 0 ELSE 1]

=============================================================================
