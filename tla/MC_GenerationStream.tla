------------------------- MODULE MC_GenerationStream -------------------------
(* Small instances of GenerationStream for TLC.                            *)
EXTENDS GenerationStream, TLC

Symmetry == Permutations(Runs) \cup Permutations(Clients)
=============================================================================
