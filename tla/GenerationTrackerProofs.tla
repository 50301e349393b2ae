------------------------ MODULE GenerationTrackerProofs ------------------------
(* Theorems about GenerationTracker, for every set of attempts and chats, and *)
(* that it implements the safety part of OneGeneration.                       *)
EXTENDS TrackerRefinement, TLAPS

(* Actions that write a row do so through these; SetRow keeps the type.    *)
LEMMA SetRowType ==
    ASSUME TypeOK, NEW a \in Attempts, NEW s \in GenerationStatus
    PROVE  SetRow(a, s) \in [Attempts -> GenerationStatus \cup {"absent"}]
BY DEF SetRow, TypeOK

LEMMA TryUpdateType ==
    ASSUME TypeOK, NEW a \in Attempts, NEW s \in GenerationStatus,
           TryUpdateAttemptStatus(a, s)
    PROVE  /\ row' \in [Attempts -> GenerationStatus \cup {"absent"}]
           /\ lost' \in SUBSET Attempts
BY SetRowType DEF TryUpdateAttemptStatus, UpdateAttemptStatus, LoseWrite, TypeOK

LEMMA StatusMembers ==
    /\ "pending" \in GenerationStatus /\ "processing" \in GenerationStatus
    /\ "streaming" \in GenerationStatus /\ "completed" \in GenerationStatus
    /\ "failed" \in GenerationStatus /\ "cancelled" \in GenerationStatus
BY DEF GenerationStatus

LEMMA CancelType ==
    ASSUME TypeOK, NEW a \in Attempts, CancelGeneration(a)
    PROVE  /\ active' \in SUBSET Attempts
           /\ slot' \in [Chats -> Attempts \cup {NoAttempt}]
           /\ status' \in [Attempts -> GenerationStatus]
           /\ aborted' \in SUBSET Attempts
           /\ partial' \in SUBSET Attempts
BY StatusMembers DEF CancelGeneration, TypeOK

LEMMA CancelByChatType ==
    ASSUME TypeOK, NEW c \in Chats, CancelGenerationByChat(c)
    PROVE  /\ active' \in SUBSET Attempts
           /\ slot' \in [Chats -> Attempts \cup {NoAttempt}]
           /\ status' \in [Attempts -> GenerationStatus]
           /\ aborted' \in SUBSET Attempts
           /\ partial' \in SUBSET Attempts
           /\ row' \in [Attempts -> GenerationStatus \cup {"absent"}]
           /\ lost' \in SUBSET Attempts
<1>1. CASE Cancellable(slot[c])
  <2>1. slot[c] \in Attempts
    BY <1>1 DEF Cancellable, TypeOK
  <2> QED
    BY <1>1, <2>1, CancelType, TryUpdateType, StatusMembers
       DEF CancelGenerationByChat
<1>2. CASE ~Cancellable(slot[c])
  BY <1>2 DEF CancelGenerationByChat, memory, TypeOK
<1> QED
  BY <1>1, <1>2

LEMMA TypeStep == TypeOK /\ [Next]_vars => TypeOK'
<1> SUFFICES ASSUME TypeOK, [Next]_vars PROVE TypeOK'
  OBVIOUS
<1>1. ASSUME NEW c \in Chats, UserCancel(c) PROVE TypeOK'
  BY <1>1, CancelByChatType DEF UserCancel, run, TypeOK
<1>2. ASSUME NEW a \in Attempts, Prepare(a) PROVE TypeOK'
  <2>1. chat[a] \in Chats
    BY DEF TypeOK
  <2> QED
    BY <1>2, <2>1, CancelByChatType DEF Prepare, PCs, TypeOK
<1>3. ASSUME NEW a \in Attempts, GiveUp(a) PROVE TypeOK'
  BY <1>3 DEF GiveUp, memory, PCs, TypeOK
<1>4. ASSUME NEW a \in Attempts, StartGenerationTracking(a) PROVE TypeOK'
  BY <1>4, StatusMembers
     DEF StartGenerationTracking, Register, InsertAttempt, LoseWrite, PCs, TypeOK
<1>5. ASSUME NEW a \in Attempts, Chunk(a) PROVE TypeOK'
  <2>1. PICK v \in Verdicts, p \in {FALSE, PolicyDetectors} :
           ProcessStreamingChunk(a, v, p)
    BY <1>5 DEF Chunk
  <2>2. \E s \in GenerationStatus :
           /\ s = IF status[a] = "processing" THEN "streaming" ELSE status[a]
           /\ SetRow(a, s) \in [Attempts -> GenerationStatus \cup {"absent"}]
    BY StatusMembers, SetRowType DEF TypeOK
  <2>3. /\ active' \in SUBSET Attempts
        /\ aborted' \in SUBSET Attempts
        /\ buffered' \in SUBSET Attempts
        /\ partial' \in SUBSET Attempts
        /\ checking' \in SUBSET Attempts
        /\ slot' \in [Chats -> Attempts \cup {NoAttempt}]
    BY <2>1 DEF ProcessStreamingChunk, TypeOK
  <2>4. status' \in [Attempts -> GenerationStatus]
    BY <2>1, StatusMembers DEF ProcessStreamingChunk, TypeOK
  <2>5. row' \in [Attempts -> GenerationStatus \cup {"absent"}]
    BY <2>1, <2>2, StatusMembers, SetRowType
       DEF ProcessStreamingChunk, TryUpdateAttemptStatus, UpdateAttemptStatus,
           LoseWrite, TypeOK
  <2>6. lost' \in SUBSET Attempts
    BY <2>1 DEF ProcessStreamingChunk, TryUpdateAttemptStatus,
                UpdateAttemptStatus, LoseWrite, TypeOK
  <2> QED
    BY <1>5, <2>3, <2>4, <2>5, <2>6 DEF Chunk, run, TypeOK
<1>6. ASSUME NEW a \in Attempts, PolicyVerdict(a) PROVE TypeOK'
  <2>1. /\ row' \in [Attempts -> GenerationStatus \cup {"absent"}]
        /\ lost' \in SUBSET Attempts
    BY <1>6, TryUpdateType, StatusMembers DEF PolicyVerdict, memory, TypeOK
  <2>2. /\ active' \in SUBSET Attempts
        /\ slot' \in [Chats -> Attempts \cup {NoAttempt}]
        /\ status' \in [Attempts -> GenerationStatus]
        /\ aborted' \in SUBSET Attempts
        /\ partial' \in SUBSET Attempts
    <3>1. CASE CancelGeneration(a)
      BY <3>1, CancelType
    <3>2. CASE UNCHANGED memory
      BY <3>2 DEF memory, TypeOK
    <3> QED
      BY <1>6, <3>1, <3>2 DEF PolicyVerdict
  <2> QED
    BY <1>6, <2>1, <2>2 DEF PolicyVerdict, run, TypeOK
<1>7. ASSUME NEW a \in Attempts, Disconnect(a) PROVE TypeOK'
  BY <1>7 DEF Disconnect, memory, run, TypeOK
<1>8. ASSUME NEW a \in Attempts, Answer(a) PROVE TypeOK'
  BY <1>8 DEF Answer, memory, PCs, TypeOK
<1>9. ASSUME NEW a \in Attempts, Promote(a) PROVE TypeOK'
  BY <1>9, TryUpdateType, StatusMembers DEF Promote, memory, PCs, TypeOK
<1>10. ASSUME NEW a \in Attempts, Call(a) PROVE TypeOK'
  BY <1>10 DEF Call, memory, PCs, TypeOK
<1>11. ASSUME NEW a \in Attempts, Store(a) PROVE TypeOK'
  BY <1>11 DEF Store, ReplyStatus, MessageStatus, memory, PCs, TypeOK
<1>12. ASSUME NEW a \in Attempts, Complete(a) PROVE TypeOK'
  <2>1. /\ row' \in [Attempts -> GenerationStatus \cup {"absent"}]
        /\ lost' \in SUBSET Attempts
    BY <1>12, SetRowType, StatusMembers
       DEF Complete, FinalStatus, UpdateAttemptStatus, LoseWrite, TypeOK
  <2>2. pc' \in [Attempts -> PCs] /\ partial' \in SUBSET Attempts
    BY <1>12 DEF Complete, PCs, TypeOK
  <2> QED
    BY <1>12, <2>1, <2>2 DEF Complete, TypeOK
<1>13. ASSUME NEW a \in Attempts, Finish(a) PROVE TypeOK'
  BY <1>13 DEF Finish, Forget, PCs, TypeOK
<1>14. ASSUME NEW a \in Attempts, Fail(a) PROVE TypeOK'
  <2>1. /\ row' \in [Attempts -> GenerationStatus \cup {"absent"}]
        /\ lost' \in SUBSET Attempts
    BY <1>14, SetRowType, StatusMembers
       DEF Fail, FailGeneration, UpdateAttemptStatus, LoseWrite, TypeOK
  <2>2. pc' \in [Attempts -> PCs] /\ partial' \in SUBSET Attempts
    BY <1>14 DEF Fail, FailGeneration, PCs, TypeOK
  <2> QED
    BY <1>14, <2>1, <2>2 DEF Fail, FailGeneration, TypeOK
<1>15. ASSUME NEW a \in Attempts, EndFailure(a) PROVE TypeOK'
  BY <1>15 DEF EndFailure, Forget, PCs, TypeOK
<1>16. CASE UNCHANGED vars
  BY <1>16 DEF vars, TypeOK
<1> QED
  BY <1>1, <1>2, <1>3, <1>4, <1>5, <1>6, <1>7, <1>8, <1>9, <1>10, <1>11, <1>12,
     <1>13, <1>14, <1>15, <1>16 DEF Next, Step

(* Type correctness: every map, set and row holds values of its type.      *)
THEOREM TypeCorrect == Spec => []TypeOK
<1>1. Init => TypeOK
  BY StatusMembers DEF Init, PCs, TypeOK
<1> QED
  BY <1>1, TypeStep, PTL DEF Spec

-----------------------------------------------------------------------------
(* The inductive invariant.  Each safety property needs to know how an     *)
(* attempt came to the await it is suspended at.                           *)

\* A run that is not tracked yet left no trace.
Fresh ==
    \A a \in Attempts : pc[a] \in {"new", "preparing"} =>
        /\ a \notin active /\ a \notin aborted /\ a \notin buffered
        /\ row[a] = "absent"
        /\ status[a] = "pending"

\* Only cancelGeneration changes the in-memory status, and it saves the text.
StatusCancelled ==
    \A a \in Attempts :
        /\ status[a] \in {"pending", "cancelled"}
        /\ status[a] = "cancelled" =>
              a \in aborted /\ (a \in buffered => a \in partial)

\* Before it completes or fails, a run leaves the map only by being aborted.
DetachedAborted ==
    \A a \in Attempts :
        /\ pc[a] \in {"inserting", "promoting", "calling", "storing", "stored",
                      "completing", "failing"}
           /\ a \notin active => a \in aborted
        /\ pc[a] = "rejected" /\ a \notin active =>
              a \in aborted \/ msg[a] # "absent"
        /\ pc[a] = "failingDetached" => a \notin active

\* Past the write of its final status, a run has a final row.
Settled ==
    \A a \in Attempts : pc[a] \in {"completing", "failing", "failingDetached"} =>
        row[a] \in Terminal \cup {"absent"}

\* A run that stored its reply has it, confirmed unless it was cut short.
Stored ==
    \A a \in Attempts :
        /\ pc[a] \in {"stored", "completing"} => msg[a] # "absent"
        /\ pc[a] = "stored" /\ ~stopped[a] => msg[a] = "confirmed"

\* A row is "completed" only once the reply is stored for good.
CompletedLate ==
    \A a \in Attempts : row[a] = "completed" =>
        pc[a] \in {"completing", "rejected", "failing", "failingDetached", "done"}

\* A failing run has saved its text.
FailingKept ==
    \A a \in Attempts :
        pc[a] \in {"failing", "failingDetached"} /\ a \in buffered =>
            \/ a \in partial
            \/ msg[a] # "absent"
            \/ a \in aborted /\ status[a] = "pending"

History ==
    /\ Fresh /\ StatusCancelled /\ DetachedAborted /\ Settled /\ Stored
    /\ CompletedLate /\ FailingKept

Safety ==
    /\ SlotNamesActive /\ AbortedDetached /\ CompletedHasMessage
    /\ DriftOnlyByDetach /\ LeakOnlyByLostWrite /\ PartialKept

IInv == TypeOK /\ History /\ Safety

(* A cancellation that finds its attempt keeps the invariant, whoever      *)
(* issues it.                                                              *)
LEMMA CancelKeeps ==
    ASSUME IInv, TypeOK', NEW a \in Attempts,
           Cancellable(a), CancelGeneration(a),
           TryUpdateAttemptStatus(a, "cancelled"),
           UNCHANGED <<buffered, pc, chat, stopped, msg>>
    PROVE  History' /\ Safety'
<1> USE DEF Fresh, StatusCancelled, DetachedAborted, Settled, Stored,
            CompletedLate, FailingKept, History
<1> USE DEF SlotNamesActive, AbortedDetached, CompletedHasMessage, Ended,
            DriftOnlyByDetach, LeakOnlyByLostWrite, PartialKept, Safety
<1> QED
  BY NoAttemptAssumption
     DEF IInv, TypeOK, Cancellable, CancelGeneration, TryUpdateAttemptStatus,
         UpdateAttemptStatus, SetRow, LoseWrite, Terminal

LEMMA InvStep == IInv /\ [Next]_vars => IInv'
<1> SUFFICES ASSUME IInv, [Next]_vars PROVE History' /\ Safety'
  BY TypeStep DEF IInv
<1>0. TypeOK /\ TypeOK' /\ History /\ Safety
  BY TypeStep DEF IInv
<1> USE DEF Fresh, StatusCancelled, DetachedAborted, Settled, Stored,
            CompletedLate, FailingKept, History
<1> USE DEF SlotNamesActive, AbortedDetached, CompletedHasMessage, Ended,
            DriftOnlyByDetach, LeakOnlyByLostWrite, PartialKept, Safety
<1>1. ASSUME NEW c \in Chats, UserCancel(c) PROVE History' /\ Safety'
  <2>1. CASE Cancellable(slot[c])
    BY <1>0, <1>1, <2>1, CancelKeeps
       DEF UserCancel, CancelGenerationByChat, run, TypeOK
  <2>2. CASE ~Cancellable(slot[c])
    BY <1>0, <1>1, <2>2 DEF UserCancel, CancelGenerationByChat, memory, run
  <2> QED
    BY <2>1, <2>2
<1>2. ASSUME NEW a \in Attempts, Prepare(a) PROVE History' /\ Safety'
  <2>1. CASE Cancellable(slot[chat[a]])
    <3>1. /\ slot[chat[a]] \in Attempts \ {a}
          /\ CancelGeneration(slot[chat[a]])
          /\ TryUpdateAttemptStatus(slot[chat[a]], "cancelled")
      BY <1>0, <1>2, <2>1 DEF Prepare, CancelGenerationByChat, Cancellable, TypeOK
    <3> QED
      BY <1>0, <1>2, <2>1, <3>1, NoAttemptAssumption
         DEF Prepare, CancelGeneration, TryUpdateAttemptStatus,
             UpdateAttemptStatus, SetRow, LoseWrite, Terminal, TypeOK
  <2>2. CASE ~Cancellable(slot[chat[a]])
    BY <1>0, <1>2, <2>2 DEF Prepare, CancelGenerationByChat, memory, TypeOK
  <2> QED
    BY <2>1, <2>2
<1>3. ASSUME NEW a \in Attempts, PolicyVerdict(a) PROVE History' /\ Safety'
  <2>1. CASE Cancellable(a) /\ CancelGeneration(a)
             /\ TryUpdateAttemptStatus(a, "cancelled")
    BY <1>0, <1>3, <2>1, CancelKeeps DEF PolicyVerdict, run
  <2>2. CASE UNCHANGED memory /\ TryUpdateAttemptStatus(a, "cancelled")
    BY <1>0, <1>3, <2>2
       DEF PolicyVerdict, TryUpdateAttemptStatus, UpdateAttemptStatus, SetRow,
           LoseWrite, memory, run, Terminal, TypeOK
  <2>3. CASE UNCHANGED <<memory, row, lost>>
    BY <1>0, <1>3, <2>3 DEF PolicyVerdict, memory, run
  <2> QED
    BY <1>3, <2>1, <2>2, <2>3 DEF PolicyVerdict
<1>4. ASSUME NEW a \in Attempts, GiveUp(a) PROVE History' /\ Safety'
  BY <1>0, <1>4
     DEF GiveUp, memory, Terminal, TypeOK
<1>5. ASSUME NEW a \in Attempts, StartGenerationTracking(a) PROVE History' /\ Safety'
  BY <1>0, <1>5, NoAttemptAssumption
     DEF StartGenerationTracking, Register, InsertAttempt, LoseWrite, Terminal, TypeOK
<1>6. ASSUME NEW a \in Attempts, Chunk(a) PROVE History' /\ Safety'
  BY <1>0, <1>6, NoAttemptAssumption
     DEF Chunk, ProcessStreamingChunk, TryUpdateAttemptStatus, UpdateAttemptStatus,
           SetRow, LoseWrite, run, Terminal, TypeOK
<1>7. ASSUME NEW a \in Attempts, Disconnect(a) PROVE History' /\ Safety'
  BY <1>0, <1>7
     DEF Disconnect, memory, run, TypeOK
<1>8. ASSUME NEW a \in Attempts, Answer(a) PROVE History' /\ Safety'
  BY <1>0, <1>8
     DEF Answer, memory, TypeOK
<1>9. ASSUME NEW a \in Attempts, Promote(a) PROVE History' /\ Safety'
  BY <1>0, <1>9
     DEF Promote, TryUpdateAttemptStatus, UpdateAttemptStatus, SetRow, LoseWrite,
           memory, Terminal, TypeOK
<1>10. ASSUME NEW a \in Attempts, Call(a) PROVE History' /\ Safety'
  BY <1>0, <1>10
     DEF Call, memory, TypeOK
<1>11. ASSUME NEW a \in Attempts, Store(a) PROVE History' /\ Safety'
  BY <1>0, <1>11
     DEF Store, ReplyStatus, memory, TypeOK
<1>12. ASSUME NEW a \in Attempts, Complete(a) PROVE History' /\ Safety'
  BY <1>0, <1>12
     DEF Complete, FinalStatus, UpdateAttemptStatus, SetRow, LoseWrite, Terminal, TypeOK
<1>13. ASSUME NEW a \in Attempts, Finish(a) PROVE History' /\ Safety'
  BY <1>0, <1>13, NoAttemptAssumption
     DEF Finish, Forget, Terminal, TypeOK
<1>14. ASSUME NEW a \in Attempts, Fail(a) PROVE History' /\ Safety'
  BY <1>0, <1>14
     DEF Fail, FailGeneration, UpdateAttemptStatus, SetRow, LoseWrite, Terminal, TypeOK
<1>15. ASSUME NEW a \in Attempts, EndFailure(a) PROVE History' /\ Safety'
  BY <1>0, <1>15, NoAttemptAssumption
     DEF EndFailure, Forget, Terminal, TypeOK
<1>16. CASE UNCHANGED vars
  BY <1>0, <1>16 DEF vars
<1> QED
  BY <1>1, <1>2, <1>3, <1>4, <1>5, <1>6, <1>7, <1>8, <1>9, <1>10, <1>11, <1>12,
     <1>13, <1>14, <1>15, <1>16 DEF Next, Step

LEMMA InvInit == Init => IInv
<1>1. Init => TypeOK
  BY StatusMembers DEF Init, PCs, TypeOK
<1>2. Init => History
  BY DEF Init, Fresh, StatusCancelled, DetachedAborted, Settled, Stored,
         CompletedLate, FailingKept, History
<1>3. Init => Safety
  BY DEF Init, SlotNamesActive, AbortedDetached, CompletedHasMessage, Ended,
         DriftOnlyByDetach, LeakOnlyByLostWrite, PartialKept, Safety
<1> QED
  BY <1>1, <1>2, <1>3 DEF IInv

LEMMA Inductive == Spec => []IInv
BY InvInit, InvStep, PTL DEF Spec

(* The chat's slot, which /status and /cancel act on, names a live entry of *)
(* that chat in every interleaving of the handlers.                         *)
THEOREM SlotCorrect == Spec => []SlotNamesActive
<1>1. IInv => SlotNamesActive
  BY DEF IInv, Safety
<1> QED
  BY <1>1, Inductive, PTL

(* An aborted attempt is out of the map, whichever handler aborted it.      *)
THEOREM AbortDetaches == Spec => []AbortedDetached
<1>1. IInv => AbortedDetached
  BY DEF IInv, Safety
<1> QED
  BY <1>1, Inductive, PTL

(* A row says "completed" only when the whole reply is stored.              *)
THEOREM CompletedIsStored == Spec => []CompletedHasMessage
<1>1. IInv => CompletedHasMessage
  BY DEF IInv, Safety
<1> QED
  BY <1>1, Inductive, PTL

(* The row of a run that ended is final unless the run was detached or a    *)
(* status write was refused.                                                *)
THEOREM DriftExplained == Spec => []DriftOnlyByDetach
<1>1. IInv => DriftOnlyByDetach
  BY DEF IInv, Safety
<1> QED
  BY <1>1, Inductive, PTL

(* Nothing stays in the map after its run but through a refused write.      *)
THEOREM LeakExplained == Spec => []LeakOnlyByLostWrite
<1>1. IInv => LeakOnlyByLostWrite
  BY DEF IInv, Safety
<1> QED
  BY <1>1, Inductive, PTL

(* Streamed text survives every failure and cancellation, if not the        *)
(* replacement of its run.                                                  *)
THEOREM PartialSurvives == Spec => []PartialKept
<1>1. IInv => PartialKept
  BY DEF IInv, Safety
<1> QED
  BY <1>1, Inductive, PTL

-----------------------------------------------------------------------------
(* The refinement of OneGeneration.                                        *)

LEMMA SameFunction ==
    ASSUME NEW S, NEW f, NEW g, f = [b \in S |-> f[b]], g = [b \in S |-> g[b]],
           \A b \in S : f[b] = g[b]
    PROVE  f = g
OBVIOUS

LEMMA LifeWaiting ==
    ASSUME NEW a \in Attempts, pc[a] \in {"new", "preparing"}
    PROVE  LifeOf(a) = "waiting"
BY DEF LifeOf

LEMMA LifeOver ==
    ASSUME NEW a \in Attempts, pc[a] = "done"
    PROVE  LifeOf(a) = "over"
BY DEF LifeOf

LEMMA LifeTracked ==
    ASSUME NEW a \in Attempts, pc[a] \notin {"new", "preparing", "done"}
    PROVE  LifeOf(a) = IF a \in active THEN "running"
                       ELSE IF a \in aborted THEN "stopping" ELSE "ending"
BY DEF LifeOf

\* Nothing OneGeneration sees changes.
LEMMA Unseen ==
    ASSUME UNCHANGED <<slot, chat, mode>>,
           \A a \in Attempts : LifeOf(a)' = LifeOf(a)
    PROVE  UNCHANGED One!vars
BY DEF One!vars

(* Whoever the chat names, freeing it is one of the two clean-ups.          *)
LEMMA ClearRefines ==
    ASSUME IInv, NEW a \in Attempts,
           LifeOf(a) \in {"running", "stopping", "over"},
           slot' = [slot EXCEPT ![chat[a]] = NoAttempt]
    PROVE  One!LetsGo(a) \/ One!Unseats(a)
<1>1. CASE slot[chat[a]] \in {a, NoAttempt}
  BY <1>1 DEF One!LetsGo, One!Freed
<1>2. CASE slot[chat[a]] \notin {a, NoAttempt}
  <2>1. LifeOf(a) \in {"stopping", "over"} \/ a \in One!Unseated
    BY <1>2 DEF One!Unseated
  <2> QED
    BY <1>2, <2>1 DEF One!Unseats, One!Freed
<1> QED
  BY <1>1, <1>2

(* A cancellation that finds its attempt is a Stop of it, or a clean-up when *)
(* its run has ended; the repetition detector cancels by itself.            *)
LEMMA CancelRefines ==
    ASSUME IInv, NEW a \in Attempts, Cancellable(a),
           slot' = [slot EXCEPT ![chat[a]] = NoAttempt],
           active' = active \ {a},
           aborted' = aborted \cup {a},
           UNCHANGED <<chat, mode>>,
           \A b \in Attempts : pc'[b] = pc[b]
                               \/ {pc[b], pc'[b]} \subseteq {"new", "preparing"}
    PROVE  One!Next
<1>1. a \in active /\ pc[a] \notin {"new", "preparing"} /\ pc'[a] = pc[a]
  BY DEF IInv, History, Fresh, Cancellable
<1>2. \A b \in Attempts : b # a => LifeOf(b)' = LifeOf(b)
  BY DEF LifeOf
<1>3. LifeOf(a) \in {"running", "over"}
  BY <1>1 DEF LifeOf
<1>4. One!LetsGo(a) \/ One!Unseats(a)
  BY <1>3, ClearRefines
<1>5. CASE pc[a] = "done"
  <2>1. LifeOf(a)' = LifeOf(a) /\ LifeOf(a) = "over"
    BY <1>1, <1>5 DEF LifeOf
  <2>2. One!CleanUp(a)
    BY <1>2, <1>4, <2>1 DEF One!CleanUp
  <2> QED
    BY <2>2 DEF One!Next
<1>6. CASE pc[a] # "done"
  <2>1. LifeOf(a) = "running" /\ LifeOf(a)' = "stopping"
    BY <1>1, <1>6 DEF LifeOf
  <2>2. One!Stop(a)
    BY <1>2, <1>4, <2>1 DEF One!Stop, One!ToldToStop
  <2> QED
    BY <2>2 DEF One!Next
<1> QED
  BY <1>5, <1>6

(* A run that ends and cleans nothing up.                                   *)
LEMMA EndRefines ==
    ASSUME IInv, NEW a \in Attempts, pc[a] \notin {"new", "preparing", "done"},
           pc' = [pc EXCEPT ![a] = "done"],
           UNCHANGED <<slot, chat, mode, active, aborted>>
    PROVE  One!Next
<1>1. LifeOf(a) \in {"running", "stopping", "ending"}
  BY DEF LifeOf
<1>2. LifeOf(a)' = "over" /\ \A b \in Attempts : b # a => LifeOf(b)' = LifeOf(b)
  BY DEF LifeOf, IInv, TypeOK
<1>3. One!End(a)
  BY <1>1, <1>2 DEF One!End
<1> QED
  BY <1>3 DEF One!Next

(* A run that goes on and cleans nothing up.                                *)
LEMMA GoesOn ==
    ASSUME IInv, NEW a \in Attempts, NEW next,
           pc[a] \notin {"new", "preparing", "done"},
           next \notin {"new", "preparing", "done"},
           pc' = [pc EXCEPT ![a] = next],
           UNCHANGED <<slot, chat, mode, active, aborted>>
    PROVE  UNCHANGED One!vars
<1>1. \A b \in Attempts : LifeOf(b)' = LifeOf(b)
  BY DEF LifeOf, IInv, TypeOK
<1> QED
  BY <1>1, Unseen

\* The clean-up of a run that completed or failed.
CleansUp(a, next) ==
    /\ pc[a] \in {"completing", "failing"}
    /\ pc' = [pc EXCEPT ![a] = next]
    /\ active' = active \ {a}
    /\ slot' = [slot EXCEPT ![chat[a]] = NoAttempt]
    /\ UNCHANGED <<chat, mode, aborted>>

(* It ends the run, or the run was cancelled or replaced over the write      *)
(* before it.                                                               *)
LEMMA ForgetRefines ==
    ASSUME IInv, NEW a \in Attempts, NEW next \in {"rejected", "done"},
           CleansUp(a, next)
    PROVE  One!Next
<1> USE DEF CleansUp
<1>1. \A b \in Attempts : b # a => LifeOf(b)' = LifeOf(b)
  BY DEF LifeOf, IInv, TypeOK
<1>2. pc'[a] = next
  BY DEF IInv, TypeOK
<1>3. CASE a \in active
  <2>1. a \notin aborted
    BY <1>3 DEF IInv, Safety, AbortedDetached
  <2>2. LifeOf(a) = "running" /\ LifeOf(a)' = IF next = "done" THEN "over" ELSE "ending"
    BY <1>2, <1>3, <2>1 DEF LifeOf
  <2>3. One!LetsGo(a) \/ One!Unseats(a)
    BY <2>2, ClearRefines
  <2>4. One!Conclude(a)
    BY <1>1, <2>2, <2>3 DEF One!Conclude
  <2> QED
    BY <2>4 DEF One!Next
<1>4. CASE a \notin active
  <2>1. a \in aborted
    BY <1>4 DEF IInv, History, DetachedAborted
  <2>2. LifeOf(a) = "stopping"
    BY <1>4, <2>1 DEF LifeOf
  <2>3. One!LetsGo(a) \/ One!Unseats(a)
    BY <2>2, ClearRefines
  <2>4. CASE next = "done"
    <3>1. LifeOf(a)' = "over"
      BY <1>2, <2>4 DEF LifeOf
    <3>2. One!End(a)
      BY <1>1, <2>2, <2>3, <3>1 DEF One!End
    <3> QED
      BY <3>2 DEF One!Next
  <2>5. CASE next # "done"
    <3>1. LifeOf(a)' = "stopping"
      BY <1>2, <1>4, <2>1, <2>5 DEF LifeOf
    <3>2. One!CleanUp(a)
      BY <1>1, <2>2, <2>3, <3>1 DEF One!CleanUp
    <3> QED
      BY <3>2 DEF One!Next
  <2> QED
    BY <2>4, <2>5
<1> QED
  BY <1>3, <1>4

(* A new run takes its chat over from the one its slot names.               *)
LEMMA StartRefines ==
    ASSUME IInv, NEW a \in Attempts, StartGenerationTracking(a)
    PROVE  One!Next
<1> DEFINE old == slot[chat[a]]
<1>1. /\ pc[a] \in {"new", "preparing"} /\ pc' = [pc EXCEPT ![a] = "inserting"]
      /\ aborted' = aborted \cup ({old} \cap active)
      /\ active' = (active \ {old}) \cup {a}
      /\ slot' = [slot EXCEPT ![chat[a]] = a]
      /\ UNCHANGED <<chat, mode>>
  BY DEF StartGenerationTracking, Register
<1>2. a \notin active /\ a \notin aborted /\ old # a
  BY <1>1, NoAttemptAssumption
     DEF IInv, History, Fresh, Safety, SlotNamesActive, TypeOK
<1>3. LifeOf(a) = "waiting" /\ LifeOf(a)' = "running"
  BY <1>1, <1>2 DEF LifeOf, IInv, TypeOK
<1>4. \A b \in Attempts \ {a} :
         LifeOf(b)' = IF b = old /\ LifeOf(b) = "running" THEN "stopping" ELSE LifeOf(b)
  <2>1. SUFFICES ASSUME NEW b \in Attempts \ {a}
                 PROVE  LifeOf(b)' = IF b = old /\ LifeOf(b) = "running"
                                     THEN "stopping" ELSE LifeOf(b)
    OBVIOUS
  <2>2. /\ pc'[b] = pc[b] /\ (b \in aborted' <=> b \in aborted \/ b = old)
        /\ (b \in active' <=> b \in active /\ b # old)
    BY <1>1, <2>1, NoAttemptAssumption
       DEF IInv, Safety, SlotNamesActive, TypeOK
  <2>3. b = old => pc[b] \notin {"new", "preparing"} /\ b \in active
    BY <2>1, NoAttemptAssumption
       DEF IInv, History, Fresh, Safety, SlotNamesActive, TypeOK
  <2> QED
    BY <2>2, <2>3 DEF LifeOf
<1>5. \A b \in Attempts :
         LifeOf(b)' = [One!ToldToStop(slot[chat[a]]) EXCEPT ![a] = "running"][b]
  BY <1>3, <1>4 DEF One!ToldToStop
<1>6. [b \in Attempts |-> LifeOf(b)']
         = [One!ToldToStop(slot[chat[a]]) EXCEPT ![a] = "running"]
  <2> DEFINE told  == [One!ToldToStop(slot[chat[a]]) EXCEPT ![a] = "running"]
             stage == [b \in Attempts |-> LifeOf(b)']
  <2>1. told = [b \in Attempts |-> told[b]]
    BY DEF One!ToldToStop
  <2>2. stage = [b \in Attempts |-> stage[b]] /\ \A b \in Attempts : stage[b] = told[b]
    BY <1>5
  <2> QED
    BY <2>1, <2>2, SameFunction
<1>7. One!Start(a)
  BY <1>1, <1>3, <1>6 DEF One!Start
<1> QED
  BY <1>1, <1>7 DEF One!Next

(* A run that is not tracked goes on preparing.                             *)
LEMMA PreparingUnseen ==
    ASSUME UNCHANGED <<slot, chat, mode, active, aborted>>,
           \A b \in Attempts : pc'[b] = pc[b]
                               \/ {pc[b], pc'[b]} \subseteq {"new", "preparing"}
    PROVE  UNCHANGED One!vars
<1>1. \A b \in Attempts : LifeOf(b)' = LifeOf(b)
  BY DEF LifeOf
<1> QED
  BY <1>1, Unseen

\* A run that has nothing to say ends before it is tracked.
LEMMA GiveUpRefines ==
    ASSUME IInv, NEW a \in Attempts, GiveUp(a)
    PROVE  One!Next
<1>1. /\ pc[a] = "preparing" /\ pc' = [pc EXCEPT ![a] = "done"]
      /\ UNCHANGED <<slot, active, aborted, chat, mode>>
  BY DEF GiveUp, memory
<1>2. LifeOf(a) = "waiting" /\ LifeOf(a)' = "over"
      /\ \A b \in Attempts : b # a => LifeOf(b)' = LifeOf(b)
  BY <1>1 DEF LifeOf, IInv, TypeOK
<1>3. One!GiveUp(a)
  BY <1>1, <1>2 DEF One!GiveUp
<1> QED
  BY <1>1, <1>3 DEF One!Next

LEMMA StepRefines == IInv /\ [Next]_vars => [One!Next]_(One!vars)
<1> SUFFICES ASSUME IInv, [Next]_vars PROVE One!Next \/ UNCHANGED One!vars
  OBVIOUS
<1> DEFINE Goal == One!Next \/ UNCHANGED One!vars
<1>1. ASSUME NEW c \in Chats, UserCancel(c) PROVE Goal
  <2>1. CASE Cancellable(slot[c])
    <3>1. slot[c] \in Attempts
      BY <2>1 DEF Cancellable, IInv, TypeOK
    <3> QED
      BY <1>1, <2>1, <3>1, CancelRefines
         DEF UserCancel, CancelGenerationByChat, CancelGeneration, run
  <2>2. CASE ~Cancellable(slot[c])
    BY <1>1, <2>2, PreparingUnseen DEF UserCancel, CancelGenerationByChat, memory, run
  <2> QED
    BY <2>1, <2>2
<1>2. ASSUME NEW a \in Attempts, Prepare(a) PROVE Goal
  <2>1. \A b \in Attempts : pc'[b] = pc[b]
                            \/ {pc[b], pc'[b]} \subseteq {"new", "preparing"}
    BY <1>2 DEF Prepare, IInv, TypeOK
  <2>2. CASE Cancellable(slot[chat[a]])
    <3>1. slot[chat[a]] \in Attempts
      BY <2>2 DEF Cancellable, IInv, TypeOK
    <3>2. CancelGeneration(slot[chat[a]]) /\ UNCHANGED <<chat, mode>>
      BY <1>2, <2>2 DEF Prepare, CancelGenerationByChat
    <3> QED
      BY <2>1, <2>2, <3>1, <3>2, CancelRefines DEF CancelGeneration
  <2>3. CASE ~Cancellable(slot[chat[a]])
    BY <1>2, <2>1, <2>3, PreparingUnseen DEF Prepare, CancelGenerationByChat, memory
  <2> QED
    BY <2>2, <2>3
<1>3. ASSUME NEW a \in Attempts, GiveUp(a) PROVE Goal
  BY <1>3, GiveUpRefines
<1>4. ASSUME NEW a \in Attempts, StartGenerationTracking(a) PROVE Goal
  BY <1>4, StartRefines
<1>5. ASSUME NEW a \in Attempts, Chunk(a) PROVE Goal
  <2>1. PICK v \in Verdicts, p \in {FALSE, PolicyDetectors} :
           ProcessStreamingChunk(a, v, p)
    BY <1>5 DEF Chunk
  <2>2. CASE v = "loop"
    <3>1. Cancellable(a) /\ slot' = [slot EXCEPT ![chat[a]] = NoAttempt]
          /\ active' = active \ {a} /\ aborted' = aborted \cup {a}
      BY <2>1, <2>2 DEF ProcessStreamingChunk, Cancellable
    <3> QED
      BY <1>5, <3>1, CancelRefines DEF Chunk, run
  <2>3. CASE v # "loop"
    <3>1. UNCHANGED <<slot, active, aborted>>
      BY <2>1, <2>3 DEF ProcessStreamingChunk
    <3> QED
      BY <1>5, <3>1, PreparingUnseen DEF Chunk, run
  <2> QED
    BY <2>2, <2>3
<1>6. ASSUME NEW a \in Attempts, PolicyVerdict(a) PROVE Goal
  <2>1. CASE Cancellable(a) /\ CancelGeneration(a)
    BY <1>6, <2>1, CancelRefines DEF PolicyVerdict, CancelGeneration, run
  <2>2. CASE UNCHANGED memory
    BY <1>6, <2>2, PreparingUnseen DEF PolicyVerdict, memory, run
  <2> QED
    BY <1>6, <2>1, <2>2 DEF PolicyVerdict, memory
<1>7. ASSUME NEW a \in Attempts, Disconnect(a) PROVE Goal
  BY <1>7, PreparingUnseen DEF Disconnect, memory, run
<1>8. ASSUME NEW a \in Attempts, Answer(a) PROVE Goal
  BY <1>8, GoesOn DEF Answer, memory
<1>9. ASSUME NEW a \in Attempts, Promote(a) PROVE Goal
  BY <1>9, GoesOn DEF Promote, memory
<1>10. ASSUME NEW a \in Attempts, Call(a) PROVE Goal
  BY <1>10, GoesOn DEF Call, memory
<1>11. ASSUME NEW a \in Attempts, Store(a) PROVE Goal
  BY <1>11, GoesOn DEF Store, memory
<1>12. ASSUME NEW a \in Attempts, Complete(a) PROVE Goal
  BY <1>12, GoesOn DEF Complete
<1>13. ASSUME NEW a \in Attempts, Finish(a) PROVE Goal
  <2>1. /\ UNCHANGED <<chat, mode, aborted>>
        /\ \/ pc' = [pc EXCEPT ![a] = "rejected"]
           \/ pc' = [pc EXCEPT ![a] = "done"]
    BY <1>13 DEF Finish
  <2>2. CASE pc[a] = "completing" /\ Forget(a)
    <3>1. CleansUp(a, "rejected") \/ CleansUp(a, "done")
      BY <2>1, <2>2 DEF Forget, CleansUp
    <3> QED
      BY <3>1, ForgetRefines
  <2>3. CASE pc[a] = "stored" /\ UNCHANGED <<active, slot>>
    BY <2>1, <2>3, GoesOn, EndRefines
  <2> QED
    BY <1>13, <2>2, <2>3 DEF Finish
<1>14. ASSUME NEW a \in Attempts, Fail(a) PROVE Goal
  <2>1. pc[a] = "rejected" /\ UNCHANGED <<slot, chat, mode, active, aborted>>
    BY <1>14 DEF Fail, FailGeneration
  <2>2. \/ pc' = [pc EXCEPT ![a] = "failing"]
        \/ pc' = [pc EXCEPT ![a] = "failingDetached"]
        \/ pc' = [pc EXCEPT ![a] = "done"]
    BY <1>14 DEF Fail, FailGeneration
  <2> QED
    BY <2>1, <2>2, GoesOn, EndRefines
<1>15. ASSUME NEW a \in Attempts, EndFailure(a) PROVE Goal
  <2>1. pc' = [pc EXCEPT ![a] = "done"] /\ UNCHANGED <<chat, mode, aborted>>
    BY <1>15 DEF EndFailure
  <2>2. CASE pc[a] = "failing" /\ Forget(a)
    <3>1. CleansUp(a, "done")
      BY <2>1, <2>2 DEF Forget, CleansUp
    <3> QED
      BY <3>1, ForgetRefines
  <2>3. CASE pc[a] = "failingDetached" /\ UNCHANGED <<active, slot>>
    BY <2>1, <2>3, EndRefines
  <2> QED
    BY <1>15, <2>2, <2>3 DEF EndFailure
<1>16. CASE UNCHANGED vars
  BY <1>16, PreparingUnseen DEF vars
<1> QED
  BY <1>1, <1>2, <1>3, <1>4, <1>5, <1>6, <1>7, <1>8, <1>9, <1>10, <1>11, <1>12,
     <1>13, <1>14, <1>15, <1>16 DEF Next, Step

LEMMA InitRefines == Init => One!Init
BY DEF Init, One!Init, LifeOf

(* Every behaviour of the tracker, for any attempts and chats, is one of    *)
(* OneGeneration: a new generation takes the chat over from the one it      *)
(* names, which is told to stop and never named again, and nothing but the  *)
(* late clean-up of a replaced, uncleaned or already unseated one takes the *)
(* chat from another.                                                       *)
THEOREM TrackerImplements == Spec => One!Spec
<1>1. IInv /\ [Next]_vars => [One!Next]_(One!vars)
  BY StepRefines
<1> QED
  BY <1>1, InitRefines, Inductive, PTL DEF Spec, One!Spec
=============================================================================
