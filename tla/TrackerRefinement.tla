------------------------ MODULE TrackerRefinement ------------------------
(***************************************************************************)
(* GenerationTracker implements OneGeneration: the stage of a generation   *)
(* follows from the await its run is suspended at, from its controller and *)
(* from its entry in the map, and chatToAttempt is what a chat names.      *)
(***************************************************************************)
EXTENDS GenerationTracker

LifeOf(a) ==
    CASE pc[a] \in {"new", "preparing"} -> "waiting"
      [] pc[a] = "done"                 -> "over"
      [] OTHER -> IF a \in active  THEN "running"
             ELSE IF a \in aborted THEN "stopping" ELSE "ending"

One == INSTANCE OneGeneration WITH
    life    <- [a \in Attempts |-> LifeOf(a)],
    current <- slot,
    heeds   <- {a \in Attempts : mode[a] # "sse"}

\* Whatever order the handlers, their awaits, cancellations and failed writes
\* meet in, each step of the tracker (cancellation-tracker.ts and its callers)
\* is a step of OneGeneration or changes nothing it sees: only the late clean-up
\* of a replaced, uncleaned or already unseated generation takes the chat from
\* another, and every run given the tracking signal that was cancelled or
\* replaced ends.
OneGenerationPerChat == One!FairSpec

\* A generation in the map is the one its chat names, so that the next one of
\* the chat, and a cancellation of it, find it.  The comment of
\* startGenerationTracking says that detaching the old generation first
\* "prevents orphaned generations and the race where an old error handler
\* deletes the new chatToAttempt entry"; a completion (or failure) of the old
\* one whose status write is awaited meanwhile does delete it.
NoOrphan == \A a \in active : slot[chat[a]] = a
=============================================================================
