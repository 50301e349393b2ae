-------------------------- MODULE NotificationBell --------------------------
(***************************************************************************)
(* A user's notifications (src/notifications/service.ts and                *)
(* src/routes/notifications.ts) and the bell in the page's header          *)
(* (src/frontend/alpine/user-notifications.ts).  The bell keeps a list and *)
(* a count.  Both are replaced by an event of the stream and by a refresh, *)
(* and edited in place when a request to mark or delete is answered, with  *)
(* whatever status.  A refresh lists the unread notifications up to a      *)
(* limit, an event carries the most recent ones with the full count.       *)
(*                                                                         *)
(* Preferences and the texts are left out; a notification is its number,   *)
(* in the order of creation.                                               *)
(***************************************************************************)
EXTENDS FeedStreams

CONSTANTS
    ListLimit,      \* limit(50) of list()
    Recent,         \* slice(0, 10) of an event
    Requests        \* bound: requests of the bell under way

VARIABLES
    notices,        \* "unread", "read" or "gone", by number
    items,          \* the bell's items, [id, read]
    unreadCount,    \* the bell's unreadCount
    request         \* its requests under way

bellVars == <<notices, items, unreadCount, request>>

InState(states) == {i \in DOMAIN notices : notices[i] \in states}
Unread == InState({"unread"})
\* The n newest of a set of notifications.
TopOf(ids, n) == {i \in ids : Cardinality({j \in ids : j > i}) < n}
List(ids, n) == {[id |-> i, read |-> notices[i] = "read"] : i \in TopOf(ids, n)}

BellSignature ==
    [count |-> Cardinality(Unread), newest |-> TopOf(InState({"unread", "read"}), 1)]

\* getUnreadCount and list are issued together.
BellQuery(first) ==
    [at |-> "answer", first |-> first, sign |-> BellSignature,
     data |-> [count |-> Cardinality(Unread),
               items |-> List(TopOf(InState({"unread", "read"}), ListLimit), Recent)]]

\* History: the bell may have edited its list meanwhile.
Renoticed == doubt' = (doubt \/ CameBack(BellSignature, BellSignature'))

Refresh == [op |-> "refresh", at |-> "sent"]

\* init() of the bell: a refresh, and the stream (BellConnect).
BellInit ==
    /\ notices = IF watch = "bell" THEN [i \in 1 .. Earlier[watch] |-> "unread"] ELSE <<>>
    /\ items = {} /\ unreadCount = 0
    /\ request = [r \in 1 .. Requests |->
                     IF r = 1 /\ watch = "bell" THEN Refresh ELSE Resting]

-----------------------------------------------------------------------------
\* NotificationService.create.
Notify ==
    /\ Act
    /\ notices' = Append(notices, "unread")
    /\ UNCHANGED <<items, unreadCount, request, streamVars, failures>>
    /\ Renoticed

BellConnect ==
    /\ watch = "bell" /\ Connect(BellQuery(TRUE))
    /\ UNCHANGED <<bellVars, failures, acts, doubt>>

BellTick(s) ==
    /\ watch = "bell" /\ Tick(s, BellQuery(FALSE))
    /\ UNCHANGED <<bellVars, failures, acts, doubt>>

BellTickStep(s, k) ==
    /\ watch = "bell" /\ Ended(s, k)
    /\ UNCHANGED <<bellVars, failures, acts, doubt>>

\* The listener of the event "notifications".
BellEvent(s) ==
    /\ watch = "bell" /\ Delivered(s)
    /\ items' = Head(pipe[s]).items
    /\ unreadCount' = Head(pipe[s]).count
    /\ doubt' = FALSE
    /\ UNCHANGED <<notices, request, failures, acts>>

-----------------------------------------------------------------------------
\* The user opens the bell, or marks or dismisses something it shows.
Askable ==
    {Refresh, [Refresh EXCEPT !.op = "all"]}
    \cup {[op |-> op, at |-> "sent", id |-> item.id] : op \in {"read", "dismiss"}, item \in items}

Ask(r) ==
    /\ Act
    /\ request[r] = Resting
    /\ \E ask \in Askable : request' = [request EXCEPT ![r] = ask]
    /\ UNCHANGED <<notices, items, unreadCount, streamVars, failures, doubt>>

\* The routes: list(unread), markRead, markAllRead, delete.
NoticesAfter(ask) ==
    CASE ask.op = "refresh" -> notices
      [] ask.op = "all" ->
            [i \in DOMAIN notices |-> IF notices[i] = "unread" THEN "read" ELSE notices[i]]
      [] ask.op = "read" ->
            IF notices[ask.id] = "unread" THEN [notices EXCEPT ![ask.id] = "read"] ELSE notices
      [] ask.op = "dismiss" -> [notices EXCEPT ![ask.id] = "gone"]

AskServed(r) ==
    LET ask == request[r] IN
    /\ ask.at = "sent"
    /\ notices' = NoticesAfter(ask)
    /\ request' = [request EXCEPT ![r] =
          [op |-> ask.op, id |-> IF ask.op \in {"read", "dismiss"} THEN ask.id ELSE 0,
           at |-> "served",
           list |-> IF ask.op = "refresh" THEN List(Unread, ListLimit) ELSE {}]]
    /\ UNCHANGED <<items, unreadCount, streamVars, failures, acts>>
    /\ Renoticed

\* The items an answer leaves in the bell.
ItemsAfter(ask) ==
    CASE ask.op = "refresh" -> ask.list
      [] ask.op = "all"     -> {[item EXCEPT !.read = TRUE] : item \in items}
      [] ask.op = "read"    ->
            {[item EXCEPT !.read = item.read \/ item.id = ask.id] : item \in items}
      [] ask.op = "dismiss" -> {item \in items : item.id # ask.id}

\* The list is edited as it is by now, and counted.
Edited(ask) ==
    /\ items' = ItemsAfter(ask)
    /\ unreadCount' = Cardinality({item \in items' : ~item.read})
    /\ doubt' = (unreadCount' # Cardinality(Unread))

\* The answer is handled.
AskAnswered(r) ==
    /\ request[r].at = "served"
    /\ Edited(request[r])
    /\ request' = [request EXCEPT ![r] = Resting]
    /\ UNCHANGED <<notices, streamVars, failures, acts>>

\* The request is lost, served or not: no error is caught, nothing is edited.
\* Or the server refuses it: a refresh stops, the others edit all the same.
AskFailed(r) ==
    LET ask == request[r] IN
    /\ ask # Resting
    /\ Failure
    /\ request' = [request EXCEPT ![r] = Resting]
    /\ \/ UNCHANGED <<items, unreadCount, doubt>>
       \/ ask.at = "sent" /\ ask.op # "refresh" /\ Edited(ask)
    /\ UNCHANGED <<notices, streamVars, acts>>

-----------------------------------------------------------------------------
AskStep(r) == AskServed(r) \/ AskAnswered(r)

BellNext ==
    /\ watch = "bell" /\ UNCHANGED watch
    /\ \/ Notify
       \/ BellConnect
       \/ \E s \in Streams :
             \/ BellTick(s) \/ BellEvent(s)
             \/ Lose(s) /\ UNCHANGED <<bellVars, failures, acts, doubt>>
             \/ \E k \in Ticks(s) :
                   \/ BellTickStep(s, k)
                   \/ QueryFails(s, k) /\ UNCHANGED <<bellVars, acts, doubt>>
       \/ \E r \in 1 .. Requests : Ask(r) \/ AskStep(r) \/ AskFailed(r)
=============================================================================
