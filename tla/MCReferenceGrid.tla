--------------------------- MODULE MCReferenceGrid ---------------------------
(* A heap of four blocks: room for a double-buffered grid and its         *)
(* descriptor, or for two single-buffered grids.                          *)
EXTENDS ReferenceGrid

CONSTANTS b1, b2, b3, b4

MCBlocks == {b1, b2, b3, b4}

(* Blocks are told apart only by identity.                                 *)
BlockSymmetry == Permutations(MCBlocks)

(* Grids of one and two elements, and a grid with a zero extent.          *)
MCDimVecs == {<<1, 1, 1>>, <<2, 1, 1>>}
MCDimVecsEmpty == {<<0, 1, 1>>, <<2, 1, 1>>}

MCValues == {0, 1}
=============================================================================
