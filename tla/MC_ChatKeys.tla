----------------------------- MODULE MC_ChatKeys -----------------------------
(* Small instances of ChatKeys for TLC.                                    *)
EXTENDS ChatKeys, TLC

CONSTANTS u1, u2, x1

\* One chat is created with a second user, or with a character.
MC_Groups == {{u1, u2}, {u1, x1}}

\* The creator has logged in before, the second user has not.
MC_FirstKeys == <<u1>>

Symmetry == Permutations(Tasks) \cup Permutations(Chats)
=============================================================================
