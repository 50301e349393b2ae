---------------------------- MODULE ChatActivity ----------------------------
(***************************************************************************)
(* How many messages of each chat a user has not seen.  computeActivity    *)
(* (src/routes/activity.ts) counts them with one query after another; the  *)
(* route mark-read (src/routes/chats.ts) moves the mark they are counted   *)
(* from.  Two parts of the page show the counts, each with a stream of its *)
(* own: the badges of the chat list (src/frontend/alpine/chat-activity.ts),*)
(* which clear a count when a chat is opened, and the NotificationsManager *)
(* (src/frontend/alpine/notifications.ts), which polls as well.  Its       *)
(* markRead has no caller: no template has the attributes it looks for.    *)
(*                                                                         *)
(* Messages are numbered in the order of their creation; two messages of   *)
(* one second, which created_at cannot tell apart, are left out.           *)
(***************************************************************************)
EXTENDS FeedStreams

CONSTANTS
    UserChats,  \* chats the user takes part in
    Puts,       \* bound: mark-read requests under way
    Polls       \* bound: polls under way

VARIABLES
    posts,      \* posts[c]: "visible", "hidden" or "gone", by number
    lastRead,   \* lastRead[c]: last_read_message_id, 0 for none
    shown,      \* _unseenCounts of the badges, state.unseen of the manager
    put,        \* mark-read requests of the badges
    poll        \* polls of the manager

activityVars == <<posts, lastRead, shown, put, poll>>

Visible(c) == {i \in DOMAIN posts[c] : posts[c][i] = "visible"}
Newest(c) == IF Visible(c) = {} THEN 0 ELSE CHOOSE i \in Visible(c) : \A j \in Visible(c) : j <= i
\* A mark whose message was purged counts for nothing.
Since(c, mark) == IF mark # 0 /\ posts[c][mark] # "gone" THEN mark ELSE 0
CountAfter(c, since) == Cardinality({i \in Visible(c) : i > since})
Unseen(c) == CountAfter(c, Since(c, lastRead[c]))

Activity == [c \in UserChats |-> [count |-> Unseen(c), latest |-> Newest(c)]]

Watching == watch \in {"badges", "manager"}

\* History: the badges may have been cleared meanwhile.  The manager polls.
Recounted == doubt' = (doubt \/ (watch = "badges" /\ CameBack(Activity, Activity')))

ActivityInit ==
    /\ posts = [c \in UserChats |-> IF Watching THEN [i \in 1 .. Earlier[watch] |-> "visible"] ELSE <<>>]
    /\ lastRead = [c \in UserChats |-> 0]
    /\ shown = [c \in UserChats |-> 0]
    /\ put = [p \in 1 .. Puts |-> Resting]
    /\ poll = [p \in 1 .. Polls |-> Resting]

-----------------------------------------------------------------------------
(* computeActivity reads the participant's marks, and later the newest     *)
(* messages, the messages the marks name and one count for each chat.  The *)
(* later reads are one step here.  A mix of older and newer counts would   *)
(* be sent and compared like any other snapshot that is overtaken.         *)

FirstQuery(first) == [at |-> "marks", first |-> first, marks |-> lastRead]

Rest(query) ==
    LET data == [c \in UserChats |->
                    [count |-> CountAfter(c, Since(c, query.marks[c])), latest |-> Newest(c)]] IN
    [at |-> "answer", first |-> query.first, sign |-> data, data |-> data]

-----------------------------------------------------------------------------
(* Messages come, are hidden, shown and purged; any participant does that. *)

Post(c) ==
    /\ Act
    /\ posts' = [posts EXCEPT ![c] = Append(@, "visible")]
    /\ UNCHANGED <<lastRead, shown, put, poll, streamVars, failures>>
    /\ Recounted

SetVisibility(c, i) ==
    /\ Act
    /\ i \in DOMAIN posts[c]
    /\ \/ posts[c][i] = "visible" /\ posts' = [posts EXCEPT ![c][i] = "hidden"]
       \/ posts[c][i] = "hidden" /\ \E v \in {"visible", "gone"} : posts' = [posts EXCEPT ![c][i] = v]
    /\ UNCHANGED <<lastRead, shown, put, poll, streamVars, failures>>
    /\ Recounted

-----------------------------------------------------------------------------
(* The streams.                                                            *)

ActivityConnect ==
    /\ Watching /\ Connect(FirstQuery(TRUE))
    /\ UNCHANGED <<activityVars, failures, acts, doubt>>

ActivityTick(s) ==
    /\ Watching /\ Tick(s, FirstQuery(FALSE))
    /\ UNCHANGED <<activityVars, failures, acts, doubt>>

ActivityTickStep(s, k) ==
    /\ Watching
    /\ \/ ticks[s][k].at = "marks" /\ Query(s, k, Rest(ticks[s][k]))
       \/ Ended(s, k)
    /\ UNCHANGED <<activityVars, failures, acts, doubt>>

NewCounts_Larger(data) ==
    [c \in UserChats |-> IF data[c].count > shown[c] THEN data[c].count ELSE shown[c]]

\* Both listeners take the counts as they come.
NewCounts(data) == [c \in UserChats |-> data[c].count]

\* The listener of the event "activity".
ActivityEvent(s) ==
    /\ Watching /\ Delivered(s)
    /\ shown' = NewCounts(Head(pipe[s]))
    /\ doubt' = FALSE
    /\ UNCHANGED <<posts, lastRead, put, poll, failures, acts>>

-----------------------------------------------------------------------------
(* markChatAsRead of the chat list and the route it calls.                 *)

\* selectChat asks with the last message of its list.  The list may hold any
\* message of the chat, or by then belong to another chat: mark 0.
MarkAsRead(c, mark, p) ==
    /\ watch = "badges" /\ Act
    /\ mark \in 0 .. Len(posts[c])
    /\ put[p] = Resting
    /\ put' = [put EXCEPT ![p] = [at |-> "sent", chat |-> c, mark |-> mark]]
    /\ UNCHANGED <<posts, lastRead, shown, poll, streamVars, failures, doubt>>

\* The route refuses a message that is not in the chat; otherwise the mark is
\* set, to an older message as well.
MarkServed(p) ==
    /\ put[p].at = "sent"
    /\ LET c == put[p].chat
           mark == IF Since(c, put[p].mark) # 0 THEN put[p].mark ELSE lastRead[c] IN
       /\ lastRead' = [lastRead EXCEPT ![c] = mark]
       /\ put' = [put EXCEPT ![p] = [at |-> "served", chat |-> c]]
    /\ UNCHANGED <<posts, shown, poll, streamVars, failures, acts>>
    /\ Recounted

\* Any answer clears the badge: apiFetch throws for a lost request or a 401.
MarkAnswered(p) ==
    /\ put[p].at = "served"
    /\ shown' = [shown EXCEPT ![put[p].chat] = 0]
    /\ doubt' = (\E c \in UserChats : shown'[c] # Unseen(c))
    /\ put' = [put EXCEPT ![p] = Resting]
    /\ UNCHANGED <<posts, lastRead, poll, streamVars, failures, acts>>

MarkLost(p) ==
    /\ put[p] # Resting
    /\ Failure
    /\ put' = [put EXCEPT ![p] = Resting]
    /\ UNCHANGED <<posts, lastRead, shown, poll, streamVars, acts, doubt>>

-----------------------------------------------------------------------------
(* The polls of the manager.                                               *)

Poll ==
    /\ watch = "manager"
    /\ \E p \in 1 .. Polls :
          /\ poll[p] = Resting
          /\ \A q \in 1 .. p - 1 : poll[q] # Resting
          /\ poll' = [poll EXCEPT ![p] = FirstQuery(FALSE)]
    /\ UNCHANGED <<posts, lastRead, shown, put, streamVars, failures, acts, doubt>>

PollQuery(p) ==
    /\ poll[p].at = "marks"
    /\ poll' = [poll EXCEPT ![p] = Rest(@)]
    /\ UNCHANGED <<posts, lastRead, shown, put, streamVars, failures, acts, doubt>>

\* applySnapshot of an answer, which other answers and events may overtake.
PollAnswered(p) ==
    /\ poll[p].at = "answer"
    /\ shown' = NewCounts(poll[p].data)
    /\ poll' = [poll EXCEPT ![p] = Resting]
    /\ UNCHANGED <<posts, lastRead, put, streamVars, failures, acts, doubt>>

PollLost(p) ==
    /\ poll[p] # Resting
    /\ Failure
    /\ poll' = [poll EXCEPT ![p] = Resting]
    /\ UNCHANGED <<posts, lastRead, shown, put, streamVars, acts, doubt>>

-----------------------------------------------------------------------------
PutStep(p) == MarkServed(p) \/ MarkAnswered(p)
PollStep(p) == PollQuery(p) \/ PollAnswered(p)

ActivityNext ==
    /\ Watching /\ UNCHANGED watch
    /\ \/ \E c \in UserChats : Post(c) \/ \E i \in DOMAIN posts[c] : SetVisibility(c, i)
       \/ ActivityConnect
       \/ \E s \in Streams :
             \/ ActivityTick(s) \/ ActivityEvent(s)
             \/ Lose(s) /\ UNCHANGED <<activityVars, failures, acts, doubt>>
             \/ \E k \in Ticks(s) :
                   \/ ActivityTickStep(s, k)
                   \/ QueryFails(s, k) /\ UNCHANGED <<activityVars, acts, doubt>>
       \/ \E p \in 1 .. Puts :
             \/ PutStep(p) \/ MarkLost(p)
             \/ \E c \in UserChats : \E mark \in 0 .. Len(posts[c]) : MarkAsRead(c, mark, p)
       \/ Poll
       \/ \E p \in 1 .. Polls : PollStep(p) \/ PollLost(p)
=============================================================================
