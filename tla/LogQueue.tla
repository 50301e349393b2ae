------------------------------- MODULE LogQueue -------------------------------
(***************************************************************************)
(* The queue between a logger and its transports (src/logger/queue-base.ts *)
(* and queue.ts), the root logger that owns it (logger.ts) with the two    *)
(* transports server.ts gives it, and the shutdown handler of server.ts    *)
(* that flushes it before process.exit.                                    *)
(*                                                                         *)
(* One JavaScript thread: a step is the code between two awaits.  The      *)
(* console transport writes at once, the database transport inserts one    *)
(* row after another on the single connection.  The n-th call of log() is  *)
(* the entry [kind |-> "log", n |-> n]; a warning carries the number of    *)
(* entries it reports as dropped.  flushSync() and stop() are never called *)
(* and are left out; a child logger has a queue of its own with a console  *)
(* transport only, and shares nothing with this one.                       *)
(***************************************************************************)
EXTENDS Naturals, Sequences, Functions, FiniteSets

CONSTANTS
    BatchSize,      \* entries a flush takes
    QueueMaxSize,   \* entries at which enqueue drops
    MaxEntries      \* bound: calls of log()

ASSUME SizesAssumption ==
    /\ BatchSize \in Nat \ {0} /\ QueueMaxSize \in Nat /\ MaxEntries \in Nat

VARIABLES
    logged,         \* calls of log() so far
    buffer,         \* AsyncLogQueueBase.buffer
    flushing,       \* AsyncLogQueueBase.flushing
    droppedCount,   \* AsyncLogQueueBase.droppedCount
    wakes,          \* queued microtasks that will call flush()
    batch,          \* inserts of the running flush that have not settled
    console,        \* what the console transport wrote
    table,          \* rows of log_entries
    refused,        \* entries whose insert failed; DBTransport swallows that
    dropped,        \* entries enqueue refused
    exit            \* "up", "waiting" for the flush of a shutdown, "ready" to
                    \* exit, "exited" (code 0), "timedOut" (code 1)

queue == <<buffer, flushing, droppedCount, wakes>>
sinks == <<batch, console, table, refused>>
queueVars == <<logged, buffer, flushing, droppedCount, wakes, batch, console,
          table, refused, dropped, exit>>

LogEntry == [kind : {"log"}, n : 1 .. MaxEntries]
Warning == [kind : {"warning"}, n : Nat \ {0}]
Entry == LogEntry \cup Warning

QueueTypeOK ==
    /\ logged \in 0 .. MaxEntries
    /\ buffer \in Seq(Entry)
    /\ flushing \in BOOLEAN
    /\ droppedCount \in Nat
    /\ wakes \in Nat
    /\ batch \in Seq(Entry)
    /\ console \in Seq(Entry)
    /\ table \in Seq(Entry)
    /\ refused \in SUBSET Entry
    /\ dropped \in SUBSET (1 .. MaxEntries)
    /\ exit \in {"up", "waiting", "ready", "exited", "timedOut"}

QueueInit ==
    /\ logged = 0
    /\ buffer = <<>>
    /\ flushing = FALSE
    /\ droppedCount = 0
    /\ wakes = 0
    /\ batch = <<>>
    /\ console = <<>>
    /\ table = <<>>
    /\ refused = {}
    /\ dropped = {}
    /\ exit = "up"

ProcessUp == exit \in {"up", "waiting", "ready"}

-----------------------------------------------------------------------------
(* enqueue                                                                 *)

Full == Len(buffer) >= QueueMaxSize

\* The warning that precedes the first entry enqueued into an empty buffer
\* after drops.
WarnFirst ==
    IF droppedCount > 0 /\ buffer = <<>>
    THEN <<[kind |-> "warning", n |-> droppedCount]>>
    ELSE <<>>

\* droppedCount is not reset by the warning.
CountAfterWarning_Kept == droppedCount

CountAfterWarning == IF buffer = <<>> THEN 0 ELSE droppedCount

\* log() into a full queue: the entry is counted and forgotten.
Drop ==
    /\ ProcessUp /\ logged < MaxEntries /\ Full
    /\ logged' = logged + 1
    /\ dropped' = dropped \cup {logged'}
    /\ droppedCount' = droppedCount + 1
    /\ UNCHANGED <<buffer, flushing, wakes, sinks, exit>>

\* log() otherwise; from the batch size on, each entry queues a flush.
Enqueue ==
    /\ ProcessUp /\ logged < MaxEntries /\ ~Full
    /\ logged' = logged + 1
    /\ buffer' = buffer \o WarnFirst \o <<[kind |-> "log", n |-> logged']>>
    /\ droppedCount' = CountAfterWarning
    /\ wakes' = IF Len(buffer') >= BatchSize THEN wakes + 1 ELSE wakes
    /\ UNCHANGED <<flushing, sinks, dropped, exit>>

-----------------------------------------------------------------------------
(* flush                                                                   *)

MayFlush == ~flushing /\ buffer # <<>>

\* The newest entries are taken first.
Taken_Newest ==
    IF Len(buffer) <= BatchSize THEN buffer
    ELSE SubSeq(buffer, Len(buffer) - BatchSize + 1, Len(buffer))

\* What splice(0, batchSize) takes and what it leaves.
Taken == IF Len(buffer) <= BatchSize THEN buffer ELSE SubSeq(buffer, 1, BatchSize)

\* The batch is copied (slice) instead of being taken out (splice).
Left_Copied == buffer

Left == IF Len(buffer) <= BatchSize THEN <<>>
        ELSE SubSeq(buffer, BatchSize + 1, Len(buffer))

\* flush() up to its await: the batch is on the console and its inserts wait
\* for the connection.
StartFlush ==
    /\ MayFlush
    /\ flushing' = TRUE
    /\ buffer' = Left
    /\ console' = console \o Taken
    /\ batch' = batch \o Taken
    /\ UNCHANGED <<logged, droppedCount, table, refused, dropped>>

\* The interval timer; it fires between tasks, when no microtask waits.
Tick ==
    /\ ProcessUp /\ wakes = 0
    /\ StartFlush
    /\ UNCHANGED <<wakes, exit>>

\* A queued microtask calls flush(), which may find nothing to do.
Wake ==
    /\ ProcessUp /\ wakes > 0
    /\ wakes' = wakes - 1
    /\ \/ StartFlush
       \/ ~MayFlush /\ UNCHANGED <<logged, buffer, flushing, droppedCount, sinks, dropped>>
    /\ UNCHANGED exit

\* The database answers the oldest insert.
Insert ==
    /\ ProcessUp /\ batch # <<>>
    /\ batch' = Tail(batch)
    /\ \/ table' = Append(table, Head(batch)) /\ UNCHANGED refused
       \/ refused' = refused \cup {Head(batch)} /\ UNCHANGED table
    /\ UNCHANGED <<logged, queue, console, dropped, exit>>

AllSettled == batch = <<>>

\* The flag does not fall when the flush ends.
FinishFlush_FlagKept ==
    /\ ProcessUp /\ flushing /\ AllSettled
    /\ wakes' = IF buffer # <<>> THEN wakes + 1 ELSE wakes
    /\ exit' = IF exit = "waiting" THEN "ready" ELSE exit
    /\ UNCHANGED <<logged, buffer, flushing, droppedCount, sinks, dropped>>

\* flush() after its await: the flag falls, the rest of the buffer gets a
\* follow-up flush, and a shutdown that awaits this flush goes on.
FinishFlush ==
    /\ ProcessUp /\ flushing /\ AllSettled
    /\ flushing' = FALSE
    /\ wakes' = IF buffer # <<>> THEN wakes + 1 ELSE wakes
    /\ exit' = IF exit = "waiting" THEN "ready" ELSE exit
    /\ UNCHANGED <<logged, buffer, droppedCount, sinks, dropped>>

-----------------------------------------------------------------------------
(* The shutdown handler; a second signal runs it again.                    *)

\* logger.flush() of a shutdown: it starts a flush and awaits it, or returns
\* at once.
FlushAtShutdown ==
    /\ exit \in {"up", "waiting"}
    /\ \/ StartFlush /\ exit' = "waiting"
       \/ /\ ~MayFlush /\ exit' = "ready"
          /\ UNCHANGED <<logged, buffer, flushing, droppedCount, sinks, dropped>>
    /\ UNCHANGED wakes

\* process.exit(0), behind the microtasks that were queued before it.
ExitProcess ==
    /\ exit = "ready" /\ wakes = 0
    /\ exit' = "exited"
    /\ UNCHANGED <<logged, queue, sinks, dropped>>

\* process.exit(1) after SHUTDOWN_TIMEOUT.
TimeOut ==
    /\ exit = "waiting"
    /\ exit' = "timedOut"
    /\ UNCHANGED <<logged, queue, sinks, dropped>>

QueueNext ==
    \/ Drop \/ Enqueue
    \/ Tick \/ Wake \/ Insert \/ FinishFlush
    \/ FlushAtShutdown \/ ExitProcess \/ TimeOut

QueueSpec == QueueInit /\ [][QueueNext]_queueVars

\* The runtime fires the timer, runs the microtasks and resumes settled awaits,
\* and the database answers.  Nothing obliges the program to log or to stop.
FairQueueSpec ==
    /\ QueueSpec
    /\ WF_queueVars(Tick) /\ WF_queueVars(Wake) /\ WF_queueVars(Insert) /\ WF_queueVars(FinishFlush)
    /\ WF_queueVars(ExitProcess)

-----------------------------------------------------------------------------
(* Properties.                                                             *)

Delivered == console \o buffer
LogsIn(s) == {s[i].n : i \in {j \in DOMAIN s : s[j].kind = "log"}}

\* The console and then the buffer hold the log entries in the order of their
\* log() calls, none twice: neither the two ways a flush starts nor the entries
\* enqueued while it runs reorder or repeat anything.
InOrder ==
    \A i, j \in DOMAIN Delivered :
        /\ i < j
        /\ Delivered[i].kind = "log" /\ Delivered[j].kind = "log"
        => Delivered[i].n < Delivered[j].n

Accounted ==
    /\ LogsIn(Delivered) \cap dropped = {}
    /\ LogsIn(Delivered) \cup dropped = 1 .. logged

\* Every entry logged was dropped at the limit, or is in the buffer or on the
\* console, and no dropped entry shows up there; what is on the console is in
\* the table, was refused by the database, or is in the running flush.
NothingLost ==
    /\ Accounted
    /\ \A i \in DOMAIN console :
           \/ console[i] \in refused
           \/ \E j \in DOMAIN table : table[j] = console[i]
           \/ \E j \in DOMAIN batch : batch[j] = console[i]

WarningsIn(s) == {i \in DOMAIN s : s[i].kind = "warning"}

DropsReported == SumFunction([i \in WarningsIn(Delivered) |-> Delivered[i].n])

\* The drops the warnings on their way report and those still counted add up
\* to the drops there were: a warning neither forgets nor repeats drops,
\* however often the queue fills.
DropsCounted ==
    droppedCount + DropsReported = Cardinality(dropped)

\* The buffer stays within queueMaxSize; only a limit of one is exceeded, by
\* the warning pushed in front of an entry without another look at the limit.
BufferBounded ==
    Len(buffer) <= IF QueueMaxSize = 1 THEN 2 ELSE QueueMaxSize

\* The timer, the microtasks and a shutdown never write two batches at a time,
\* and no batch exceeds the batch size.
OneBatchAtATime ==
    [][console' # console => batch = <<>> /\ Len(batch') <= BatchSize]_queueVars

\* Whatever enters the buffer reaches the transports, unless the process exits
\* first: the buffer, which nothing leaves in another way (NothingLost), is empty
\* again and again, so a flush that meets a running one is made up for.
EntriesWritten == []<>(buffer = <<>> \/ ~ProcessUp)
=============================================================================
