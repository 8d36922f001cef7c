---------------------------- MODULE MCChunkClaim ----------------------------
(* Model values and symmetry for checking ChunkClaim. *)
EXTENDS ChunkClaim, TLC

CONSTANTS w1, w2, c1, c2

MCWorkers == {w1, w2}
MCChunks1 == {c1}
MCChunks2 == {c1, c2}

Symmetry1 == Permutations(MCWorkers)
Symmetry2 == Permutations(MCWorkers) \cup Permutations(MCChunks2)
=============================================================================
