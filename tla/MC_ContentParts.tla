-------------------------- MODULE MC_ContentParts --------------------------
(* Two places; two chats and two quests of which each unlocks the other; two *)
(* requests on messages at a time.                                          *)
EXTENDS ContentParts, TLC

CONSTANTS P1, P2, C1, C2, Q1, Q2, s1, s2
TwoPlaces == {P1, P2}
TwoChats == {C1, C2}
TwoQuests == {Q1, Q2}
EachOther == [q \in TwoQuests |-> IF q = Q1 THEN <<Q2>> ELSE <<Q1>>]
SomeAmounts == {-1, 2}
TwoCalls == {s1, s2}
Symmetry == Permutations(TwoQuests) \cup Permutations(TwoCalls)
=============================================================================
