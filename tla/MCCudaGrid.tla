----------------------------- MODULE MCCudaGrid -----------------------------
(* Two host descriptors and three device blocks: room for a              *)
(* double-buffered grid and a single-buffered one.                        *)
EXTENDS CudaGrid

CONSTANTS h1, h2, d1, d2, d3

MCHandles == {h1, h2}
MCDevBlocks == {d1, d2, d3}

(* Handles, and device blocks, are told apart only by identity.            *)
MCSymmetry == Permutations(MCHandles) \cup Permutations(MCDevBlocks)

(* A 1-D grid of two elements, a 2-D grid of one, and a 3-D grid with a   *)
(* zero extent, whose cudaMalloc asks for zero bytes.                      *)
MCDimVecs == {<<2>>, <<1, 1>>, <<1, 0, 1>>}

(* One value a client stores, told apart from the zeros cudaMemset       *)
(* writes; swaps and copies are then observable through the contents.     *)
MCValues == {1}

(* Builds with and without AUTO_DOUBLE_BUFFERING.                          *)
MCBuilds == BOOLEAN
=============================================================================
