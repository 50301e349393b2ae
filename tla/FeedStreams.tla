---------------------------- MODULE FeedStreams ----------------------------
(***************************************************************************)
(* The two server-sent streams of counts: ActivityStreamer                 *)
(* (src/routes/activity-stream.ts) and NotificationStreamer                *)
(* (src/routes/notifications.ts) are the same program over different       *)
(* queries.  start() sends a first snapshot and then sets a timer; each    *)
(* tick computes a snapshot and sends it when it differs from the last one *)
(* sent; cancel() clears the timer.  Nothing keeps a tick from starting    *)
(* while an earlier one still waits for the database.                      *)
(*                                                                         *)
(* A page has one EventSource of a feed at a time and the browser connects *)
(* again when it is lost: the n-th connection is the stream n, with a      *)
(* streamer of its own.  What is computed is left to the modules that      *)
(* extend this one: a tick ends with the snapshot's signature, which is    *)
(* what is compared, and with the data the page gets.                      *)
(***************************************************************************)
EXTENDS Naturals, Sequences, FiniteSets

CONSTANTS
    Feeds,          \* what may be followed: "badges", "manager", "bell"
    NoFeed,         \* none of them
    NoSnapshot,     \* the empty lastSnapshot of a new streamer
    MaxStreams,     \* bound: connections of the page
    Overlap,        \* bound: ticks of each streamer under way at a time,
    Overlapping,    \* bound: in these feeds; in the others one
    MaxPipe,        \* bound: events on their way to the page
    MaxFailures,    \* bound: queries that fail, requests that are lost
    MaxActs,        \* bound: things users and the server do to the data
    MaxIncidents,   \* bound: those, failures and lost connections together
    Earlier         \* messages of each chat, or notifications, at the start

ASSUME FeedAssumption ==
    /\ Feeds \subseteq {"badges", "manager", "bell"}
    /\ NoFeed \notin {"badges", "manager", "bell"}
    /\ {MaxStreams, MaxPipe} \subseteq Nat \ {0}
    /\ Overlap \in [1 .. MaxStreams -> Nat \ {0}] /\ Overlapping \subseteq Feeds
    /\ {MaxFailures, MaxIncidents} \subseteq Nat /\ Earlier \in [Feeds -> Nat]
    /\ MaxActs \in [Feeds -> Nat]

VARIABLES
    watch,          \* the feed that is followed
    conn,           \* conn[s]: "unused", "starting", "open" or "ended"
    timer,          \* timer[s]: the interval of streamer s is set
    lastSnapshot,   \* lastSnapshot[s]
    pipe,           \* pipe[s]: events sent and not delivered
    ticks,          \* ticks[s][k]: queries under way
    failures,       \* failures so far
    acts,           \* changes of the data so far
    early,          \* history: streams that ended before their first snapshot
    doubt           \* history: since the latest event the page itself wrote
                    \* counts that the server did not have by then, or what is
                    \* counted changed and came back (CameBack)

streamVars == <<conn, timer, lastSnapshot, pipe, ticks, early>>
feedVars == <<watch, conn, timer, lastSnapshot, pipe, ticks, failures, acts, early, doubt>>

Streams == 1 .. MaxStreams
Ticks(s) == 1 .. Overlap[s]
Resting == [at |-> "idle"]

FeedInit ==
    /\ watch \in Feeds \cup {NoFeed}
    /\ conn = [s \in Streams |-> "unused"]
    /\ timer = [s \in Streams |-> FALSE]
    /\ lastSnapshot = [s \in Streams |-> NoSnapshot]
    /\ pipe = [s \in Streams |-> <<>>]
    /\ ticks = [s \in Streams |-> [k \in Ticks(s) |-> Resting]]
    /\ failures = 0 /\ acts = 0 /\ early = {} /\ doubt = FALSE

Room == acts + failures + Cardinality({s \in Streams : conn[s] = "ended"}) < MaxIncidents
Act == Room /\ acts < MaxActs[watch] /\ acts' = acts + 1
Failure == Room /\ failures < MaxFailures /\ failures' = failures + 1

\* What is counted changed, and is again what an open stream has sent: it is
\* compared with that and not sent, whatever the page shows by now.
CameBack(before, after) ==
    before # after /\ \E s \in Streams : conn[s] = "open" /\ lastSnapshot[s] = after

-----------------------------------------------------------------------------
\* new EventSource, or its reconnection: start() issues its first query.
Connect(query) ==
    /\ \E s \in Streams :
          /\ conn[s] = "unused"
          /\ \A r \in 1 .. s - 1 : conn[r] = "ended"
          /\ conn' = [conn EXCEPT ![s] = "starting"]
          /\ ticks' = [ticks EXCEPT ![s][1] = query]
    /\ UNCHANGED <<timer, lastSnapshot, pipe, early>>

TimerAfterCancel_Kept(s) == timer[s]

\* cancel() clears the timer there is.  There is none before start() has sent
\* its snapshot.
TimerAfterCancel(s) == FALSE

\* The connection is lost: cancel().  What was on its way is lost as well, and
\* what the streamer sends from now on meets a closed controller: its last
\* snapshot no longer matters and is forgotten here.
Lose(s) ==
    /\ s < MaxStreams /\ Room
    /\ conn[s] \in {"starting", "open"}
    /\ conn' = [conn EXCEPT ![s] = "ended"]
    /\ timer' = [timer EXCEPT ![s] = TimerAfterCancel(s)]
    /\ pipe' = [pipe EXCEPT ![s] = <<>>]
    /\ lastSnapshot' = [lastSnapshot EXCEPT ![s] = NoSnapshot]
    /\ early' = IF conn[s] = "starting" THEN early \cup {s} ELSE early
    /\ UNCHANGED ticks

\* The interval fires: a tick issues its first query, even if another waits.
Tick(s, query) ==
    /\ timer[s]
    /\ \E k \in Ticks(s) :
          /\ ticks[s][k] = Resting /\ (k = 1 \/ watch \in Overlapping)
          /\ \A j \in 1 .. k - 1 : ticks[s][j] # Resting
          /\ ticks' = [ticks EXCEPT ![s][k] = query]
    /\ UNCHANGED <<conn, timer, lastSnapshot, pipe, early>>

\* A later query of the tick k.
Query(s, k, next) ==
    /\ ticks' = [ticks EXCEPT ![s][k] = next]
    /\ UNCHANGED <<conn, timer, lastSnapshot, pipe, early>>

\* send, unless the controller is closed: it throws, and the error is swallowed.
Send(s, answer) ==
    IF conn[s] = "ended"
    THEN UNCHANGED <<lastSnapshot, pipe>>
    ELSE /\ lastSnapshot' = [lastSnapshot EXCEPT ![s] = answer.sign]
         /\ pipe' = [pipe EXCEPT ![s] = Append(@, answer.data)]

Changed_Alone(s, k) ==
    /\ ticks[s][k].sign # lastSnapshot[s]
    /\ \A j \in Ticks(s) : j # k => ticks[s][j] = Resting

Changed(s, k) == ticks[s][k].sign # lastSnapshot[s]

\* The end of start(): the snapshot is sent whatever it is and the timer is set,
\* even if the page has gone away meanwhile.
Started(s, k) ==
    /\ ticks[s][k].at = "answer" /\ ticks[s][k].first
    /\ Send(s, ticks[s][k])
    /\ timer' = [timer EXCEPT ![s] = TRUE]
    /\ conn' = [conn EXCEPT ![s] = IF @ = "ended" THEN @ ELSE "open"]
    /\ ticks' = [ticks EXCEPT ![s][k] = Resting]
    /\ UNCHANGED early

\* The end of tick().
Ticked(s, k) ==
    /\ ticks[s][k].at = "answer" /\ ~ticks[s][k].first
    /\ IF Changed(s, k)
       THEN Len(pipe[s]) < MaxPipe /\ Send(s, ticks[s][k])
       ELSE UNCHANGED <<lastSnapshot, pipe>>
    /\ ticks' = [ticks EXCEPT ![s][k] = Resting]
    /\ UNCHANGED <<conn, timer, early>>

\* A query fails: start() reports an error and sets the timer all the same, a
\* tick is skipped.
QueryFails(s, k) ==
    /\ ticks[s][k] # Resting
    /\ Failure
    /\ IF ticks[s][k].first
       THEN /\ timer' = [timer EXCEPT ![s] = TRUE]
            /\ conn' = [conn EXCEPT ![s] = IF @ = "ended" THEN @ ELSE "open"]
       ELSE UNCHANGED <<timer, conn>>
    /\ ticks' = [ticks EXCEPT ![s][k] = Resting]
    /\ UNCHANGED <<lastSnapshot, pipe, early>>

\* The page takes the next event of its connection.
Delivered(s) ==
    /\ pipe[s] # <<>>
    /\ pipe' = [pipe EXCEPT ![s] = Tail(@)]
    /\ UNCHANGED <<conn, timer, lastSnapshot, ticks, early>>

Ended(s, k) == Started(s, k) \/ Ticked(s, k)

-----------------------------------------------------------------------------
\* A stream that has ended after its first snapshot has no interval: no tick of
\* it begins any more.
TimersCleared == \A s \in Streams : conn[s] = "ended" /\ s \notin early => ~timer[s]

\* A stream whose page has gone stops asking the database: ticks under way end
\* and none follows, unless the page went before start() had its first snapshot.
StreamsRest ==
    \A s \in Streams :
        <>[](conn[s] = "ended" /\ s \notin early =>
                \A k \in Ticks(s) : ticks[s][k] = Resting)
=============================================================================
