--------------------------- MODULE OneGeneration ---------------------------
(***************************************************************************)
(* What the tracker of generations gives a chat: a new generation takes    *)
(* the chat over from the one it names, which is told to stop; one that    *)
(* was told to stop is never named again; and one that listens ends.       *)
(*                                                                         *)
(* It does not give more.  The clean-up of a generation frees whatever its *)
(* chat names by then, so one that was told to stop, or ended uncleaned,   *)
(* can unseat the generation that replaced it.  That one runs on though no *)
(* chat names it, nobody tells it to stop, and it may unseat the next.     *)
(* GenerationTracker implements this, and no stronger promise.             *)
(***************************************************************************)
CONSTANTS Attempts, Chats, NoAttempt

VARIABLES
    life,       \* the stage of each generation
    current,    \* the generation each chat names
    chat,       \* the chat a generation is for
    heeds       \* the generations that notice being told to stop

vars == <<life, current, chat, heeds>>

Stages == {"waiting", "running", "stopping", "ending", "over"}

Init ==
    /\ life = [a \in Attempts |-> "waiting"]
    /\ current = [c \in Chats |-> NoAttempt]
    /\ chat \in [Attempts -> Chats]
    /\ heeds \in SUBSET Attempts

\* A generation that runs though its chat does not name it.
Unseated == {a \in Attempts : life[a] = "running" /\ current[chat[a]] # a}

\* The stages once a (if it is an attempt that runs) is told to stop.
ToldToStop(a) ==
    [b \in Attempts |-> IF b = a /\ life[b] = "running" THEN "stopping" ELSE life[b]]

Freed(c) == [current EXCEPT ![c] = NoAttempt]

\* The chat names a or nobody: freeing it takes it from nobody else.
LetsGo(a) ==
    /\ current[chat[a]] \in {a, NoAttempt}
    /\ current' = Freed(chat[a])

\* A late clean-up: whatever generation the chat names is unseated.
Unseats(a) ==
    /\ life[a] \in {"stopping", "over"} \/ a \in Unseated
    /\ current[chat[a]] \notin {a, NoAttempt}
    /\ current' = Freed(chat[a])

Start(a) ==
    /\ life[a] = "waiting"
    /\ life' = [ToldToStop(current[chat[a]]) EXCEPT ![a] = "running"]
    /\ current' = [current EXCEPT ![chat[a]] = a]

GiveUp(a) ==
    /\ life[a] = "waiting"
    /\ life' = [life EXCEPT ![a] = "over"]
    /\ current' = current

Stop(a) ==
    /\ life[a] = "running"
    /\ life' = ToldToStop(a)
    /\ LetsGo(a) \/ Unseats(a)

\* A generation that runs cleans up, and ends or has its last words to say.
Conclude(a) ==
    /\ life[a] = "running"
    /\ life' \in {[life EXCEPT ![a] = s] : s \in {"ending", "over"}}
    /\ LetsGo(a) \/ Unseats(a)

\* One that was told to stop, or is over, cleans up again.
CleanUp(a) ==
    /\ life[a] \in {"stopping", "over"}
    /\ life' = life
    /\ LetsGo(a) \/ Unseats(a)

\* One that never cleans up leaves its chat naming it.
End(a) ==
    /\ life[a] \in {"running", "stopping", "ending"}
    /\ life' = [life EXCEPT ![a] = "over"]
    /\ \/ current' = current
       \/ life[a] = "stopping" /\ (LetsGo(a) \/ Unseats(a))

Next ==
    /\ \E a \in Attempts :
          Start(a) \/ GiveUp(a) \/ Stop(a) \/ Conclude(a) \/ CleanUp(a) \/ End(a)
    /\ UNCHANGED <<chat, heeds>>

Spec == Init /\ [][Next]_vars

\* A generation that was told to stop, and listens, is over in the end.
FairSpec ==
    /\ Spec
    /\ \A a \in Attempts :
          WF_vars(a \in heeds /\ life[a] = "stopping" /\ End(a) /\ UNCHANGED <<chat, heeds>>)
=============================================================================
