--------------------------- MODULE GenerationTracker ---------------------------
(***************************************************************************)
(* The life of LLM generation attempts in one server process: the          *)
(* in-memory tracker (src/generation/cancellation-tracker.ts), its         *)
(* cancellation paths (cancellation-actions.ts), and the three kinds of    *)
(* run that drive it: POST /api/generation/generate answering JSON ("json")*)
(* or server-sent events ("sse"), and the automatic reply to a posted      *)
(* message ("auto", auto-gen.ts).                                          *)
(*                                                                         *)
(* The server is one JavaScript thread: code between two awaits is one     *)
(* step, and any other handler may run at an await.  `pc' names the await  *)
(* a run is suspended at.  The database is one SQLite connection that      *)
(* serves statements in the order they are issued, so the effect of a      *)
(* statement is applied when it is issued and the code after its await is  *)
(* a later step.                                                           *)
(***************************************************************************)
EXTENDS Naturals, FiniteSets

CONSTANTS
    Attempts,           \* attempt ids (randomUUID: never reused)
    Chats,              \* chat ids
    NoAttempt,          \* Map.get of an absent key
    MaxLostWrites,      \* bound: attempts whose status writes the database may refuse
    PolicyDetectors     \* has registerPolicyDetector installed a detector?

ASSUME NoAttemptAssumption == NoAttempt \notin Attempts
ASSUME MaxLostWritesAssumption == MaxLostWrites \in Nat
ASSUME PolicyDetectorsAssumption == PolicyDetectors \in BOOLEAN

Modes == {"json", "sse", "auto"}
GenerationStatus ==
    {"pending", "processing", "streaming", "completed", "failed", "cancelled"}
Terminal == {"completed", "failed", "cancelled"}
MessageStatus == {"confirmed", "partial"}
PCs == {"new", "preparing", "inserting", "promoting", "calling", "storing",
        "stored", "completing", "rejected", "failing", "failingDetached", "done"}

VARIABLES
    active,     \* keys of the activeGenerations map
    slot,       \* the chatToAttempt map
    status,     \* ActiveGeneration.status
    aborted,    \* attempts whose tracking AbortController was aborted
    buffered,   \* attempts whose repetition detector holds text
    partial,    \* keys of partialContentStore (continuation.ts)
    checking,   \* attempts awaiting detectPolicyMismatch
    pc,         \* the await each run is suspended at
    mode,       \* the kind of run
    chat,       \* the chat it generates for
    stopped,    \* the provider answered finishReason "cancelled"
    gone,       \* event-stream clients that disconnected
    row,        \* generation_attempts.status, "absent" without a row
    msg,        \* messages.status of the reply, "absent" without one
    lost        \* attempts with a refused status write (history variable)

memory == <<active, slot, status, aborted, partial>>
run == <<pc, mode, chat, stopped>>
vars == <<active, slot, status, aborted, buffered, partial, checking, pc, mode,
          chat, stopped, gone, row, msg, lost>>

TypeOK ==
    /\ active \in SUBSET Attempts
    /\ slot \in [Chats -> Attempts \cup {NoAttempt}]
    /\ status \in [Attempts -> GenerationStatus]
    /\ aborted \in SUBSET Attempts
    /\ buffered \in SUBSET Attempts
    /\ partial \in SUBSET Attempts
    /\ checking \in SUBSET Attempts
    /\ pc \in [Attempts -> PCs]
    /\ mode \in [Attempts -> Modes]
    /\ chat \in [Attempts -> Chats]
    /\ stopped \in [Attempts -> BOOLEAN]
    /\ gone \in SUBSET Attempts
    /\ row \in [Attempts -> GenerationStatus \cup {"absent"}]
    /\ msg \in [Attempts -> MessageStatus \cup {"absent"}]
    /\ lost \in SUBSET Attempts

Init ==
    /\ active = {}
    /\ slot = [c \in Chats |-> NoAttempt]
    /\ status = [a \in Attempts |-> "pending"]
    /\ aborted = {} /\ buffered = {} /\ partial = {} /\ checking = {}
    /\ pc = [a \in Attempts |-> "new"]
    /\ mode \in [Attempts -> Modes]
    /\ chat \in [Attempts -> Chats]
    /\ stopped = [a \in Attempts |-> FALSE]
    /\ gone = {}
    /\ row = [a \in Attempts |-> "absent"]
    /\ msg = [a \in Attempts |-> "absent"]
    /\ lost = {}

-----------------------------------------------------------------------------
(* Writes of generation_attempts.status.                                   *)

CanLose(a) == Cardinality(lost \cup {a}) <= MaxLostWrites

LoseWrite(a) ==
    /\ CanLose(a)
    /\ lost' = lost \cup {a}

\* An UPDATE ... WHERE id = a: no row, no effect.
SetRow(a, s) == IF row[a] = "absent" THEN row ELSE [row EXCEPT ![a] = s]

UpdateAttemptStatus(a, s) ==
    /\ row' = SetRow(a, s)
    /\ lost' = lost

\* An update whose failure is only logged.
TryUpdateAttemptStatus(a, s) ==
    \/ UpdateAttemptStatus(a, s)
    \/ LoseWrite(a) /\ row' = row

-----------------------------------------------------------------------------
(* Cancellation.                                                           *)

\* Mutant: the chat keeps naming the cancelled attempt.
CancelGeneration_KeepsSlot(a) ==
    /\ partial' = IF a \in buffered THEN partial \cup {a} ELSE partial
    /\ status' = [status EXCEPT ![a] = "cancelled"]
    /\ aborted' = aborted \cup {a}
    /\ active' = active \ {a}
    /\ slot' = slot

CancelGeneration(a) ==
    /\ partial' = IF a \in buffered THEN partial \cup {a} ELSE partial
    /\ status' = [status EXCEPT ![a] = "cancelled"]
    /\ aborted' = aborted \cup {a}
    /\ active' = active \ {a}
    /\ slot' = [slot EXCEPT ![chat[a]] = NoAttempt]

Cancellable(a) == a \in active /\ a \notin aborted

CancelGenerationByChat(c) ==
    \/ /\ Cancellable(slot[c])
       /\ CancelGeneration(slot[c])
       /\ TryUpdateAttemptStatus(slot[c], "cancelled")
    \/ /\ ~Cancellable(slot[c])
       /\ UNCHANGED <<memory, row, lost>>

\* POST /api/generation/cancel, /retry and /regenerate.  A request that names
\* an attempt is resolved to the chat of that attempt first, so it cancels
\* whatever the chat's slot holds.
UserCancel(c) ==
    /\ slot[c] # NoAttempt
    /\ CancelGenerationByChat(c)
    /\ UNCHANGED <<buffered, checking, run, gone, msg>>

-----------------------------------------------------------------------------
(* Starting a run.                                                         *)

\* The automatic reply first cancels what the chat is generating, then reads
\* the chat, its participants, the provider and the prompt.
Prepare(a) ==
    /\ pc[a] = "new"
    /\ mode[a] = "auto"
    /\ CancelGenerationByChat(chat[a])
    /\ pc' = [pc EXCEPT ![a] = "preparing"]
    /\ UNCHANGED <<buffered, checking, mode, chat, stopped, gone, msg>>

\* No character to speak, no provider, or a failed read: nothing is tracked yet.
GiveUp(a) ==
    /\ pc[a] = "preparing"
    /\ pc' = [pc EXCEPT ![a] = "done"]
    /\ UNCHANGED <<memory, buffered, checking, mode, chat, stopped, gone, row,
                   msg, lost>>

\* Mutant: the replaced attempt is aborted but stays in the map.
Register_KeepsOld(a, c) ==
    /\ aborted' = aborted \cup ({slot[c]} \cap active)
    /\ active' = active \cup {a}
    /\ slot' = [slot EXCEPT ![c] = a]

\* Mutant: the replaced attempt leaves the map and runs on.
Register_NotTold(a, c) ==
    /\ aborted' = aborted
    /\ active' = (active \ {slot[c]}) \cup {a}
    /\ slot' = [slot EXCEPT ![c] = a]

\* Any generation of the same chat is detached before the new one is entered.
Register(a, c) ==
    /\ aborted' = aborted \cup ({slot[c]} \cap active)
    /\ active' = (active \ {slot[c]}) \cup {a}
    /\ slot' = [slot EXCEPT ![c] = a]

InsertAttempt(a) ==
    \/ row' = [row EXCEPT ![a] = "pending"] /\ lost' = lost
    \/ LoseWrite(a) /\ row' = row

StartGenerationTracking(a) ==
    /\ pc[a] = IF mode[a] = "auto" THEN "preparing" ELSE "new"
    /\ Register(a, chat[a])
    /\ InsertAttempt(a)
    /\ pc' = [pc EXCEPT ![a] = "inserting"]
    /\ UNCHANGED <<status, buffered, partial, checking, mode, chat, stopped,
                   gone, msg>>

Promote(a) ==
    /\ pc[a] = "inserting"
    /\ TryUpdateAttemptStatus(a, "processing")
    /\ pc' = [pc EXCEPT ![a] = "promoting"]
    /\ UNCHANGED <<memory, buffered, checking, mode, chat, stopped, gone, msg>>

-----------------------------------------------------------------------------
(* Failure of a run.                                                       *)

\* Mutant: what was received is not kept for Continue.
FailGeneration_DropsPartial(a) ==
    /\ partial' = partial
    /\ \/ /\ UpdateAttemptStatus(a, "failed")
          /\ pc' = [pc EXCEPT ![a] =
                        IF a \in active THEN "failing" ELSE "failingDetached"]
       \/ /\ LoseWrite(a)
          /\ row' = row
          /\ pc' = [pc EXCEPT ![a] = "done"]
    /\ UNCHANGED <<active, slot, status, aborted>>

\* The entry is looked up before the write is awaited; a refused write throws
\* past the clean-up and the caller swallows the error.
FailGeneration(a) ==
    /\ partial' = IF a \in active \cap buffered THEN partial \cup {a} ELSE partial
    /\ \/ /\ UpdateAttemptStatus(a, "failed")
          /\ pc' = [pc EXCEPT ![a] =
                        IF a \in active THEN "failing" ELSE "failingDetached"]
       \/ /\ LoseWrite(a)
          /\ row' = row
          /\ pc' = [pc EXCEPT ![a] = "done"]
    /\ UNCHANGED <<active, slot, status, aborted>>

\* Mutant: the entry is not removed after the write.
Forget_KeepsActive(a) ==
    /\ active' = active
    /\ slot' = [slot EXCEPT ![chat[a]] = NoAttempt]

\* activeGenerations.delete(a); chatToAttempt.delete(chat of a).
Forget(a) ==
    /\ active' = active \ {a}
    /\ slot' = [slot EXCEPT ![chat[a]] = NoAttempt]

EndFailure(a) ==
    /\ \/ pc[a] = "failing" /\ Forget(a)
       \/ pc[a] = "failingDetached" /\ UNCHANGED <<active, slot>>
    /\ pc' = [pc EXCEPT ![a] = "done"]
    /\ UNCHANGED <<status, aborted, buffered, partial, checking, mode, chat,
                   stopped, gone, row, msg, lost>>

Fail(a) ==
    /\ pc[a] = "rejected"
    /\ FailGeneration(a)
    /\ UNCHANGED <<buffered, checking, mode, chat, stopped, gone, msg>>

-----------------------------------------------------------------------------
(* The provider call.                                                      *)

\* Mutant: every handler passes the signal of a controller of its own.
Signalled_Client(a) == a \in gone

\* Whether the signal the provider was given has fired.  The event-stream
\* handler passes the signal of a controller of its own, which only the
\* client's disconnection aborts; the others pass the tracking signal.
Signalled(a) == IF mode[a] = "sse" THEN a \in gone ELSE a \in aborted

\* A request issued with an aborted signal is refused at once.
Call(a) ==
    /\ pc[a] = "promoting"
    /\ pc' = [pc EXCEPT ![a] = IF Signalled(a) THEN "rejected" ELSE "calling"]
    /\ UNCHANGED <<memory, buffered, checking, mode, chat, stopped, gone, row,
                   msg, lost>>

\* What the repetition detector says of a chunk: nothing, a suspicion, or a
\* score that reaches the limit of 0.85.
Verdicts == {"none", "suspect", "loop"}

\* The branch that marks the attempt as streaming is taken when its in-memory
\* status is "processing".  A suspicion is recorded with the in-memory status;
\* a loop is recorded so first, then cancels the attempt.  The text of every fifth chunk goes to the
\* policy detector, whose answer is awaited.
ProcessStreamingChunk(a, verdict, policy) ==
    LET first == status[a] = "processing"
        now == IF first THEN "streaming" ELSE status[a]
    IN  /\ a \in active /\ a \notin aborted
        /\ buffered' = buffered \cup {a}
        /\ \/ /\ verdict = "none"
              /\ status' = [status EXCEPT ![a] = now]
              /\ IF first THEN TryUpdateAttemptStatus(a, "streaming")
                          ELSE UNCHANGED <<row, lost>>
              /\ UNCHANGED <<active, slot, aborted, partial>>
           \/ /\ verdict = "suspect"
              /\ status' = [status EXCEPT ![a] = now]
              /\ TryUpdateAttemptStatus(a, now)
              /\ UNCHANGED <<active, slot, aborted, partial>>
           \/ /\ verdict = "loop"
              /\ status' = [status EXCEPT ![a] = "cancelled"]
              /\ partial' = partial \cup {a}
              /\ aborted' = aborted \cup {a}
              /\ active' = active \ {a}
              /\ slot' = [slot EXCEPT ![chat[a]] = NoAttempt]
              /\ \/ UpdateAttemptStatus(a, "cancelled")
                 \/ LoseWrite(a) /\ row' \in {row, SetRow(a, now)}
        /\ checking' = IF policy /\ verdict # "loop" THEN checking \cup {a}
                                                    ELSE checking

Chunk(a) ==
    /\ pc[a] = "calling" /\ mode[a] = "sse" /\ a \notin gone
    /\ \E verdict \in Verdicts, policy \in {FALSE, PolicyDetectors} :
          ProcessStreamingChunk(a, verdict, policy)
    /\ UNCHANGED <<run, gone, msg>>

\* The detector's answer.  The cancellation is a no-op when the attempt has
\* left the map meanwhile; the status write is issued all the same.
PolicyVerdict(a) ==
    /\ a \in checking
    /\ checking' = checking \ {a}
    /\ \/ UNCHANGED <<memory, row, lost>>
       \/ /\ IF Cancellable(a) THEN CancelGeneration(a) ELSE UNCHANGED memory
          /\ TryUpdateAttemptStatus(a, "cancelled")
    /\ UNCHANGED <<buffered, run, gone, msg>>

Disconnect(a) ==
    /\ mode[a] = "sse" /\ a \notin gone
    /\ pc[a] \in {"calling", "storing", "stored", "completing"}
    /\ gone' = gone \cup {a}
    /\ UNCHANGED <<memory, buffered, checking, run, row, msg, lost>>

\* The provider answers in full, answers what it had when the signal fired
\* (streaming only), or throws.
Answer(a) ==
    /\ pc[a] = "calling"
    /\ \/ /\ pc' = [pc EXCEPT ![a] = "storing"]
          /\ stopped' = [stopped EXCEPT ![a] = FALSE]
       \/ /\ Signalled(a) /\ mode[a] # "json"
          /\ pc' = [pc EXCEPT ![a] = "storing"]
          /\ stopped' = [stopped EXCEPT ![a] = TRUE]
       \/ /\ pc' = [pc EXCEPT ![a] = "rejected"]
          /\ UNCHANGED stopped
    /\ UNCHANGED <<memory, buffered, checking, mode, chat, gone, row, msg, lost>>

-----------------------------------------------------------------------------
(* Storing the reply and completing the attempt.                           *)

\* The automatic reply is stored as confirmed however it ended.
ReplyStatus(a) == IF stopped[a] /\ mode[a] # "auto" THEN "partial" ELSE "confirmed"

Store(a) ==
    /\ pc[a] = "storing"
    /\ \/ /\ msg' = [msg EXCEPT ![a] = ReplyStatus(a)]
          /\ pc' = [pc EXCEPT ![a] = "stored"]
       \/ /\ msg' = msg
          /\ pc' = [pc EXCEPT ![a] = "rejected"]
    /\ UNCHANGED <<memory, buffered, checking, mode, chat, stopped, gone, row, lost>>

\* Mutant: the in-memory status is written back, as repetition analysis does.
FinalStatus_InMemory(a) == status[a]

FinalStatus(a) == IF stopped[a] THEN "cancelled" ELSE "completed"

\* completeGeneration up to its await; without an entry it returns at once.
Complete(a) ==
    /\ pc[a] = "stored"
    /\ a \in active
    /\ partial' = IF stopped[a] /\ a \in buffered THEN partial \cup {a} ELSE partial
    /\ \/ /\ UpdateAttemptStatus(a, FinalStatus(a))
          /\ pc' = [pc EXCEPT ![a] = "completing"]
       \/ /\ LoseWrite(a)
          /\ row' = row
          /\ pc' = [pc EXCEPT ![a] = "rejected"]
    /\ UNCHANGED <<active, slot, status, aborted, buffered, checking, mode, chat,
                   stopped, gone, msg>>

\* completeGeneration after its await (or its early return), then the "done"
\* event: writing it to a stream whose client is gone throws.
Finish(a) ==
    /\ \/ pc[a] = "completing" /\ Forget(a)
       \/ pc[a] = "stored" /\ a \notin active /\ UNCHANGED <<active, slot>>
    /\ pc' = [pc EXCEPT ![a] = IF a \in gone THEN "rejected" ELSE "done"]
    /\ UNCHANGED <<status, aborted, buffered, partial, checking, mode, chat,
                   stopped, gone, row, msg, lost>>

-----------------------------------------------------------------------------
Step(a) ==
    \/ Promote(a) \/ Call(a) \/ Store(a) \/ Complete(a) \/ Finish(a)
    \/ Fail(a) \/ EndFailure(a)

Next ==
    \/ \E c \in Chats : UserCancel(c)
    \/ \E a \in Attempts :
          \/ Prepare(a) \/ GiveUp(a) \/ StartGenerationTracking(a)
          \/ Chunk(a) \/ PolicyVerdict(a) \/ Disconnect(a) \/ Answer(a)
          \/ Step(a)

Spec == Init /\ [][Next]_vars

\* The event loop resumes every handler whose await has settled, and fetch
\* settles once its signal has fired.  A provider that is not told to stop may
\* take for ever: its answer has no time limit after the headers.  Users and
\* clients owe nothing.
Fairness ==
    \A a \in Attempts :
        /\ WF_vars(Step(a))
        /\ WF_vars(Signalled(a) /\ Answer(a))

FairSpec == Spec /\ Fairness

-----------------------------------------------------------------------------
(* Safety.                                                                 *)

Ended(a) == pc[a] = "done" /\ row[a] # "absent"

\* A chat's slot never names an attempt that has left the map or belongs to
\* another chat: isChatGenerating, /status and /cancel act on a live entry.
SlotNamesActive ==
    \A c \in Chats : slot[c] # NoAttempt =>
        slot[c] \in active /\ chat[slot[c]] = c

\* An aborted attempt has left the map, in whatever order cancellation,
\* replacement, completion and failure met: the "already aborted" tests of
\* cancelGeneration and processStreamingChunk never decide anything alone.
AbortedDetached == aborted \cap active = {}

\* A "completed" row always has its whole reply stored as a confirmed message.
CompletedHasMessage ==
    \A a \in Attempts : row[a] = "completed" => msg[a] = "confirmed"

\* A run that ended leaves its row in a final status unless it was detached by
\* a cancellation or replacement, or the database refused a status write.
DriftOnlyByDetach ==
    \A a \in Attempts :
        Ended(a) /\ row[a] \notin Terminal => a \in aborted \cup lost

\* A run that ended is still in the map only if the write of its "failed"
\* status was refused: failGeneration then throws before its clean-up.
LeakOnlyByLostWrite ==
    \A a \in Attempts : pc[a] = "done" /\ a \in active => a \in lost

\* The text of a streamed run is not lost: when it ends without a completed
\* row, Continue finds it in partialContentStore or in the stored message,
\* unless the run was replaced by a new one of its chat (which drops it).
PartialKept ==
    \A a \in Attempts :
        pc[a] = "done" /\ a \in buffered =>
            \/ a \in partial
            \/ msg[a] # "absent"
            \/ a \in aborted /\ status[a] = "pending"

-----------------------------------------------------------------------------
(* Liveness.                                                               *)

\* A cancelled or replaced run that was given the tracking signal stops, even
\* if the provider would never have answered.
AbortedRunEnds ==
    \A a \in Attempts :
        (a \in aborted /\ mode[a] # "sse") ~> (pc[a] = "done")
=============================================================================
