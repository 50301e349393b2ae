----------------------------- MODULE MC_GroupTurns -----------------------------
(* Small instances of GroupTurns for TLC.                                  *)
EXTENDS GroupTurns, TLC

CONSTANTS alice, bob, carol

ThreeActors == <<alice, bob, carol>>
TwoActors == <<alice, bob>>
Agents == [a \in Actors |-> IF a = carol THEN "narrator" ELSE "ai"]
Symmetry == Permutations(Chains)
=============================================================================
