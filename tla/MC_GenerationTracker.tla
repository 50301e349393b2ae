------------------------ MODULE MC_GenerationTracker ------------------------
(* Two generations of one chat.                                            *)
EXTENDS TrackerRefinement

CONSTANTS a1, a2

Rank == [json |-> 1, sse |-> 2, auto |-> 3]

\* The attempts are interchangeable, so each pair of kinds is taken in one
\* order; the pair of two event streams, four fifths of all states, is left to
\* the theorems.
InitPairs ==
    /\ Init
    /\ Rank[mode[a1]] <= Rank[mode[a2]]
    /\ {mode[a1], mode[a2]} # {"sse"}

FairPairs == InitPairs /\ [][Next]_vars /\ Fairness
=============================================================================
