--------------------------- MODULE GenerationStream ---------------------------
(***************************************************************************)
(* The live view of a chat's automatic replies: the per-chat StreamBuffer  *)
(* and its clean-up timers (src/generation/stream-buffer.ts), the runs     *)
(* that write it (auto-gen.ts) and the event-stream clients that read it   *)
(* (handleGenerationStream, generation-routes.ts, and the EventSource of   *)
(* src/frontend/alpine/chat-generations.ts).  One chat: chats share        *)
(* nothing here.                                                           *)
(*                                                                         *)
(* Code between two awaits is one step.  A run is preparing (reading the   *)
(* chat, the provider and the prompt), tracked (its attempt is being       *)
(* written), streaming, storing its reply, completing or failing (with its *)
(* last status write on the way; "late" when the tracker had dropped it),  *)
(* or ended.  A client is connecting (waiting for a buffer to appear),     *)
(* resolved (waitForBuffer has answered), live, told (done or error) or    *)
(* gone.  Refused status writes are left to GenerationTracker.             *)
(***************************************************************************)
EXTENDS Naturals, Sequences, SequencesExt

CONSTANTS
    Runs,           \* triggerAutoGeneration calls for the chat
    Clients,        \* EventSource objects
    Buffers,        \* StreamBuffer objects
    NoBuffer,       \* Map.get of an absent key, in chatBuffers
    NoRun,          \* Map.get of an absent key, in chatToAttempt
    MaxEvents,      \* MAX_EVENTS of a buffer
    MaxBytes,       \* MAX_BYTES of a buffer
    EventSizes,     \* html lengths of the events
    MaxEmits        \* bound: events a buffer may be sent by streaming runs

ASSUME AbsentAssumption == NoBuffer \notin Buffers /\ NoRun \notin Runs
ASSUME LimitsAssumption ==
    /\ MaxEvents \in Nat \ {0} /\ MaxBytes \in Nat /\ MaxEmits \in Nat
    /\ EventSizes \subseteq Nat \ {0}

Kinds == {"reply", "greeting"}

\* The message of an error may be empty: that of a provider without a reason,
\* for one (openai-compatible.ts:391).
ErrorMessages == {"empty", "text"}
RunPCs == {"idle", "preparing", "tracked", "streaming", "storing", "completing",
           "completingLate", "failing", "failingLate", "ended"}
ClientPCs == {"idle", "connecting", "resolved", "live", "done", "error", "gone"}

VARIABLES
    store,      \* chatBuffers.get(chat)
    events,     \* StreamBuffer.events
    bytes,      \* StreamBuffer.bytesUsed
    sequence,   \* StreamBuffer.sequence
    done,       \* StreamBuffer._done
    failed,     \* StreamBuffer._error: null, "" or a text
    timers,     \* clean-up timers that have not fired
    slot,       \* chatToAttempt.get(chat): the run it names
    rpc,        \* where each run is
    kind,       \* "greeting": no parent message, hence no buffer
    buf,        \* the buffer a run took from the store
    stopped,    \* runs whose abort signal fired
    cpc,        \* where each client is
    cbuf,       \* the buffer a client reads
    next        \* 1 + the last sequence number its connection was sent

buffer == <<events, bytes, sequence, done, failed>>
run == <<slot, rpc, kind, buf, stopped>>
client == <<cpc, cbuf, next>>
vars == <<store, events, bytes, sequence, done, failed, timers, slot, rpc,
          kind, buf, stopped, cpc, cbuf, next>>

Event == [sequence : Nat, size : EventSizes]

TypeOK ==
    /\ store \in Buffers \cup {NoBuffer}
    /\ events \in [Buffers -> Seq(Event)]
    /\ bytes \in [Buffers -> Nat]
    /\ sequence \in [Buffers -> Nat]
    /\ done \in [Buffers -> BOOLEAN]
    /\ failed \in [Buffers -> {"none"} \cup ErrorMessages]
    /\ timers \in Nat
    /\ slot \in Runs \cup {NoRun}
    /\ rpc \in [Runs -> RunPCs]
    /\ kind \in [Runs -> Kinds]
    /\ buf \in [Runs -> Buffers \cup {NoBuffer}]
    /\ stopped \in SUBSET Runs
    /\ cpc \in [Clients -> ClientPCs]
    /\ cbuf \in [Clients -> Buffers \cup {NoBuffer}]
    /\ next \in [Clients -> Nat]

Init ==
    /\ store = NoBuffer
    /\ events = [b \in Buffers |-> <<>>]
    /\ bytes = [b \in Buffers |-> 0]
    /\ sequence = [b \in Buffers |-> 0]
    /\ done = [b \in Buffers |-> FALSE]
    /\ failed = [b \in Buffers |-> "none"]
    /\ timers = 0
    /\ slot = NoRun
    /\ rpc = [r \in Runs |-> "idle"]
    /\ kind \in [Runs -> Kinds]
    /\ buf = [r \in Runs |-> NoBuffer]
    /\ stopped = {}
    /\ cpc = [k \in Clients |-> "idle"]
    /\ cbuf = [k \in Clients |-> NoBuffer]
    /\ next = [k \in Clients |-> 0]

-----------------------------------------------------------------------------
(* StreamBuffer.                                                           *)

Size(s) == SumFunction([i \in DOMAIN s |-> s[i].size])

\* How many of the oldest events the trimming loop drops from s, whose
\* accounted size is total.
Drops(s, total) ==
    CHOOSE n \in 0 .. Len(s) :
        /\ Len(s) - n <= MaxEvents
        /\ total - Size(SubSeq(s, 1, n)) <= MaxBytes
        /\ \A m \in 0 .. n - 1 :
              \/ Len(s) - m > MaxEvents
              \/ total - Size(SubSeq(s, 1, m)) > MaxBytes

Listeners(b) == {k \in Clients : cpc[k] = "live" /\ cbuf[k] = b}

\* Mutant: the bytes of the dropped events stay on the account.
Push_KeepsBytes(b, size) ==
    LET s == Append(events[b], [sequence |-> sequence[b], size |-> size])
        n == Drops(s, Size(s))
    IN  /\ events' = [events EXCEPT ![b] = SubSeq(s, n + 1, Len(s))]
        /\ bytes' = [bytes EXCEPT ![b] = @ + size]
        /\ sequence' = [sequence EXCEPT ![b] = @ + 1]
        /\ next' = [k \in Clients |->
                      IF k \in Listeners(b) THEN sequence[b] + 1 ELSE next[k]]

\* StreamBuffer.append: store the event, trim the oldest, tell the listeners.
Push(b, size) ==
    LET s == Append(events[b], [sequence |-> sequence[b], size |-> size])
        total == bytes[b] + size
        n == Drops(s, total)
    IN  /\ events' = [events EXCEPT ![b] = SubSeq(s, n + 1, Len(s))]
        /\ bytes' = [bytes EXCEPT ![b] = total - Size(SubSeq(s, 1, n))]
        /\ sequence' = [sequence EXCEPT ![b] = @ + 1]
        /\ next' = [k \in Clients |->
                      IF k \in Listeners(b) THEN sequence[b] + 1 ELSE next[k]]

\* Mutant: the error is recorded but the error listeners are not called.
SignalError_Silent(b, message) ==
    /\ failed' = [failed EXCEPT ![b] = message]
    /\ done' = done
    /\ cpc' = cpc

\* The message replaces that of an earlier error.
SignalError(b, message) ==
    /\ failed' = [failed EXCEPT ![b] = message]
    /\ done' = done
    /\ cpc' = [k \in Clients |-> IF k \in Listeners(b) THEN "error" ELSE cpc[k]]

SignalDone(b) ==
    /\ done' = [done EXCEPT ![b] = TRUE]
    /\ failed' = failed
    /\ cpc' = [k \in Clients |-> IF k \in Listeners(b) THEN "done" ELSE cpc[k]]

\* The StreamBuffer a `new' would create.
Created ==
    {b \in Buffers :
        \/ store = b
        \/ sequence[b] > 0
        \/ done[b] \/ failed[b] # "none"
        \/ \E r \in Runs : buf[r] = b
        \/ \E k \in Clients : cbuf[k] = b}
FreshBuffer == CHOOSE b \in Buffers : b \notin Created

GetOrCreateBuffer == IF store = NoBuffer THEN FreshBuffer ELSE store
CanCreate == store # NoBuffer \/ Buffers \ Created # {}

\* Mutant: a buffer is scheduled for removal when its run succeeds only.
ScheduleBufferCleanup_OnDone(ok) == timers' = timers + (IF ok THEN 1 ELSE 0)

\* Every end of a run sets a timer; none is ever cancelled.
ScheduleBufferCleanup(ok) == timers' = timers + 1

\* A timer removes whatever buffer the chat has when it fires.
RemoveBuffer ==
    /\ timers > 0
    /\ timers' = timers - 1
    /\ store' = NoBuffer
    /\ UNCHANGED <<buffer, run, client>>

-----------------------------------------------------------------------------
(* Runs.                                                                   *)

\* Runs in activeGenerations.
Active == {r \in Runs : /\ kind[r] = "reply" /\ r \notin stopped
                        /\ rpc[r] \notin {"idle", "preparing", "ended"}}

\* Abort and drop the run the slot names.
Abort == stopped' = stopped \cup ({slot} \cap Active)

\* A reply first cancels what the chat is generating; a greeting does not.
Begin(r) ==
    /\ rpc[r] = "idle"
    /\ rpc' = [rpc EXCEPT ![r] = "preparing"]
    /\ IF kind[r] = "reply" /\ slot \in Active
       THEN Abort /\ slot' = NoRun
       ELSE UNCHANGED <<stopped, slot>>
    /\ UNCHANGED <<store, buffer, timers, kind, buf, client>>

\* Nobody to speak: the run ends and no buffer hears of it.
GiveUp(r) ==
    /\ rpc[r] = "preparing"
    /\ rpc' = [rpc EXCEPT ![r] = "ended"]
    /\ UNCHANGED <<store, buffer, timers, slot, kind, buf, stopped, client>>

\* startGenerationTracking replaces the chat's generation.
Track(r) ==
    /\ rpc[r] = "preparing" /\ kind[r] = "reply"
    /\ rpc' = [rpc EXCEPT ![r] = "tracked"]
    /\ Abort
    /\ slot' = r
    /\ UNCHANGED <<store, buffer, timers, kind, buf, client>>

\* A reply takes the chat's buffer; a greeting streams to nobody.
Open(r) ==
    /\ rpc[r] = IF kind[r] = "reply" THEN "tracked" ELSE "preparing"
    /\ rpc' = [rpc EXCEPT ![r] = "streaming"]
    /\ IF kind[r] = "reply"
       THEN /\ CanCreate
            /\ store' = GetOrCreateBuffer
            /\ buf' = [buf EXCEPT ![r] = GetOrCreateBuffer]
       ELSE UNCHANGED <<store, buf>>
    /\ UNCHANGED <<buffer, timers, slot, kind, stopped, client>>

\* POST /api/generation/cancel.
Cancel ==
    /\ slot \in Active
    /\ Abort
    /\ slot' = NoRun
    /\ UNCHANGED <<store, buffer, timers, rpc, kind, buf, client>>

\* A chunk of a streaming provider, which reads no line after the abort.
Emit(r) ==
    /\ rpc[r] = "streaming" /\ r \notin stopped
    /\ buf[r] # NoBuffer /\ sequence[buf[r]] < MaxEmits
    /\ \E size \in EventSizes : Push(buf[r], size)
    /\ UNCHANGED <<store, done, failed, timers, run, cpc, cbuf>>

\* The provider's answer; one that cannot stream sends its one event now.
Answer(r) ==
    /\ rpc[r] = "streaming"
    /\ rpc' = [rpc EXCEPT ![r] = "storing"]
    /\ \/ UNCHANGED <<events, bytes, sequence, next>>
       \/ /\ buf[r] # NoBuffer /\ sequence[buf[r]] < MaxEmits
          /\ \E size \in EventSizes : Push(buf[r], size)
    /\ UNCHANGED <<store, done, failed, timers, slot, kind, buf, stopped, cpc, cbuf>>

\* The reply is stored; completeGeneration looks its entry up and awaits.
Store(r) ==
    /\ rpc[r] = "storing"
    /\ rpc' = [rpc EXCEPT ![r] =
                  IF kind[r] = "greeting" THEN "ended"
                  ELSE IF r \in Active THEN "completing"
                  ELSE "completingLate"]
    /\ UNCHANGED <<store, buffer, timers, slot, kind, buf, stopped, client>>

\* An entry that was found is forgotten, and with it whatever the slot names.
Forget(r) == slot' = IF rpc[r] \in {"completing", "failing"} THEN NoRun ELSE slot

\* Final event, done signal, clean-up timer.
End(r) ==
    /\ rpc[r] \in {"completing", "completingLate"}
    /\ rpc' = [rpc EXCEPT ![r] = "ended"]
    /\ Forget(r)
    /\ \E size \in EventSizes : Push(buf[r], size)
    /\ SignalDone(buf[r])
    /\ ScheduleBufferCleanup(TRUE)
    /\ UNCHANGED <<store, kind, buf, stopped, cbuf>>

\* A tracked run that throws first awaits failGeneration.
Throw(r) ==
    /\ rpc[r] \in {"streaming", "storing"} /\ kind[r] = "reply"
    /\ rpc' = [rpc EXCEPT ![r] = IF r \in Active THEN "failing" ELSE "failingLate"]
    /\ UNCHANGED <<store, buffer, timers, slot, kind, buf, stopped, client>>

\* The catch block takes the chat's buffer from the store again.
Fail(r) ==
    /\ \/ rpc[r] \in {"preparing", "failing", "failingLate"}
       \/ rpc[r] \in {"streaming", "storing"} /\ kind[r] = "greeting"
    /\ CanCreate
    /\ rpc' = [rpc EXCEPT ![r] = "ended"]
    /\ Forget(r)
    /\ store' = GetOrCreateBuffer
    /\ \E message \in ErrorMessages : SignalError(GetOrCreateBuffer, message)
    /\ ScheduleBufferCleanup(FALSE)
    /\ UNCHANGED <<events, bytes, sequence, kind, buf, stopped, cbuf, next>>

-----------------------------------------------------------------------------
(* Clients.                                                                *)

Connect(k) ==
    /\ cpc[k] = "idle"
    /\ cpc' = [cpc EXCEPT ![k] = "connecting"]
    /\ UNCHANGED <<store, buffer, timers, run, cbuf, next>>

\* waitForBuffer: the buffer, or nothing for 15 seconds.
WaitForBuffer(k) ==
    /\ cpc[k] = "connecting"
    /\ IF store # NoBuffer
       THEN /\ cbuf' = [cbuf EXCEPT ![k] = store]
            /\ cpc' = [cpc EXCEPT ![k] = "resolved"]
       ELSE /\ cbuf' = cbuf
            /\ cpc' = [cpc EXCEPT ![k] = "error"]
    /\ UNCHANGED <<store, buffer, timers, run, next>>

\* buffer.isDone || buffer.hasError: an empty message is no error.
Closed(b) == done[b] \/ failed[b] = "text"

\* Mutant: the handler subscribes without a look at the state of the buffer.
Replay_NoCheck(k) ==
    LET b == cbuf[k] IN
    /\ next' = [next EXCEPT ![k] = IF events[b] = <<>> THEN 0
                                   ELSE Last(events[b]).sequence + 1]
    /\ cpc' = [cpc EXCEPT ![k] = "live"]
    /\ cbuf' = cbuf

\* Mutant: the events of the replay are those after the first one.
Replay_Exclusive(k) ==
    LET b == cbuf[k] IN
    /\ next' = [next EXCEPT ![k] = IF Len(events[b]) <= 1 THEN 0
                                   ELSE Last(events[b]).sequence + 1]
    /\ cpc' = [cpc EXCEPT ![k] = IF Closed(b) THEN "connecting" ELSE "live"]
    /\ cbuf' = IF Closed(b) THEN [cbuf EXCEPT ![k] = NoBuffer] ELSE cbuf

\* Replay everything, then close a finished stream or subscribe.  A stream
\* that is closed without a word is opened again by the EventSource, which
\* has no Last-Event-ID to send.
Replay(k) ==
    LET b == cbuf[k] IN
    /\ next' = [next EXCEPT ![k] = IF events[b] = <<>> THEN 0
                                   ELSE Last(events[b]).sequence + 1]
    /\ cpc' = [cpc EXCEPT ![k] = IF Closed(b) THEN "connecting" ELSE "live"]
    /\ cbuf' = IF Closed(b) THEN [cbuf EXCEPT ![k] = NoBuffer] ELSE cbuf

Resume(k) ==
    /\ cpc[k] = "resolved"
    /\ Replay(k)
    /\ UNCHANGED <<store, buffer, timers, run>>

Disconnect(k) ==
    /\ cpc[k] \in {"connecting", "resolved", "live"}
    /\ cpc' = [cpc EXCEPT ![k] = "gone"]
    /\ UNCHANGED <<store, buffer, timers, run, cbuf, next>>

-----------------------------------------------------------------------------
Next ==
    \/ RemoveBuffer
    \/ Cancel
    \/ \E r \in Runs : \/ Begin(r) \/ GiveUp(r) \/ Track(r) \/ Open(r)
                       \/ Emit(r) \/ Answer(r) \/ Store(r) \/ End(r)
                       \/ Throw(r) \/ Fail(r)
    \/ \E k \in Clients : \/ Connect(k) \/ WaitForBuffer(k) \/ Resume(k)
                          \/ Disconnect(k)

Spec == Init /\ [][Next]_vars

\* Timers fire, handlers resume, and every provider answers or fails in the
\* end (the server itself would wait for ever).  Users owe nothing.
FairSpec ==
    /\ Spec
    /\ WF_vars(RemoveBuffer)
    /\ \A r \in Runs : /\ WF_vars(Open(r)) /\ WF_vars(Answer(r))
                       /\ WF_vars(Store(r)) /\ WF_vars(End(r))
                       /\ WF_vars((rpc[r] \in {"failing", "failingLate"}) /\ Fail(r))
    /\ \A k \in Clients : WF_vars(WaitForBuffer(k)) /\ WF_vars(Resume(k))

-----------------------------------------------------------------------------
(* Properties.                                                             *)

Finished(b) == done[b] \/ failed[b] # "none"
Pending(r) == rpc[r] \notin {"idle", "ended"}

\* The ring of every buffer is within both limits, its byte account is exact,
\* and it holds the latest events, without a gap, in the order of their
\* sequence numbers (append and its trimming loop).
RingSound ==
    \A b \in Buffers :
        /\ Len(events[b]) <= MaxEvents
        /\ bytes[b] = Size(events[b]) /\ bytes[b] <= MaxBytes
        /\ \A i \in DOMAIN events[b] :
              events[b][i].sequence = sequence[b] - Len(events[b]) + i - 1

\* A subscribed client was sent everything up to the latest event: nothing
\* falls between the replay and the subscription.  (A ring emptied by one
\* oversized event has nothing to replay.)
LiveSeesLatest ==
    \A k \in Clients :
        cpc[k] = "live" => \/ next[k] = sequence[cbuf[k]]
                           \/ events[cbuf[k]] = <<>> /\ next[k] = 0

\* Nobody listens to a buffer that has given its signal: such a client would be
\* kept alive by pings and never told.  An error without a message is no signal
\* to the handler, which then subscribes.
NoListenerOnFinished ==
    \A k \in Clients :
        cpc[k] = "live" => ~done[cbuf[k]] /\ failed[cbuf[k]] \in {"none", "empty"}

\* A listener of the buffer the chat still has is owed a signal by a run that
\* has not ended, unless the buffer failed without a message.
StoredListenersTended ==
    \A k \in Clients :
        cpc[k] = "live" /\ cbuf[k] = store /\ failed[store] # "empty" =>
            \E r \in Runs : buf[r] = store /\ Pending(r)

\* Every stored buffer will leave the store: a clean-up timer is running, or
\* a run that will set one when it ends.
StoreWillBeCleaned ==
    store # NoBuffer =>
        timers > 0 \/ \E r \in Runs : buf[r] = store /\ Pending(r)

\* A client that connects, to a finished buffer too, is in the end live,
\* refused or gone: it does not reconnect to a dead buffer for ever.
ConnectionSettles ==
    \A k \in Clients :
        cpc[k] = "connecting" ~> cpc[k] \in {"live", "done", "error", "gone"}

\* handleGenerationStream: "Subscribes to live events until generation
\* completes or errors" (generation-routes.ts:371): while a run that nobody
\* stopped writes the buffer of a client, the client is not sent away.
StreamsUntilEnd ==
    [][\A k \in Clients, r \in Runs :
          /\ cpc[k] \in {"resolved", "live"} /\ cpc'[k] \in {"done", "connecting"}
          => ~(buf[r] = cbuf[k] /\ rpc'[r] = "streaming" /\ r \notin stopped')]_vars

=============================================================================
