----------------------------- MODULE PageParts -----------------------------
(***************************************************************************)
(* The parts of the page that keep state over an await: the open chat, the *)
(* badges of the chat list, the manager of unseen counts and the bell.     *)
(* They share no state, so a behaviour follows one of them, the one that   *)
(* watch names (NoFeed: the open chat).                                    *)
(***************************************************************************)
EXTENDS ChatPage, ChatActivity, NotificationBell

pageVars == <<vars, feedVars, activityVars, bellVars>>

PageInit == Init /\ FeedInit /\ ActivityInit /\ BellInit

PageNext ==
    \/ watch = NoFeed /\ Next /\ UNCHANGED <<feedVars, activityVars, bellVars>>
    \/ ActivityNext /\ UNCHANGED <<vars, bellVars>>
    \/ BellNext /\ UNCHANGED <<vars, activityVars>>

\* The parts' steps, as steps of the page.
Page(A, B) ==
    /\ \/ A /\ UNCHANGED bellVars
       \/ B /\ UNCHANGED activityVars
    /\ UNCHANGED <<watch, vars>>

\* The browser connects again, intervals fire, the database answers and events
\* arrive; requests are answered.  Nothing obliges the user to do anything.
FeedFairness ==
    /\ WF_pageVars(Page(ActivityConnect, BellConnect))
    /\ \A s \in Streams :
          /\ WF_pageVars(Page(ActivityTick(s), BellTick(s)))
          /\ WF_pageVars(Page(ActivityEvent(s), BellEvent(s)))
          /\ \A k \in Ticks(s) : WF_pageVars(Page(ActivityTickStep(s, k), BellTickStep(s, k)))
    /\ WF_pageVars(Page(Poll, FALSE))
    /\ \A p \in 1 .. Polls : WF_pageVars(Page(PollStep(p), FALSE))
    /\ \A p \in 1 .. Puts : WF_pageVars(Page(PutStep(p), FALSE))
    /\ \A r \in 1 .. Requests : WF_pageVars(Page(FALSE, AskStep(r)))

PageSpec == PageInit /\ [][PageNext]_pageVars /\ Fairness /\ FeedFairness

-----------------------------------------------------------------------------
Truthful(s) ==
    lastSnapshot[s] = IF watch = "bell" THEN BellSignature ELSE Activity

\* However ticks overlap and fail, a stream in the end has sent what the server
\* has: the signature that is compared is never one its page was not sent.
StreamsTell == \A s \in Streams : <>[](conn[s] = "open" => Truthful(s))

Agrees ==
    IF watch = "bell" THEN unreadCount = Cardinality(Unread)
    ELSE \A c \in UserChats : shown[c] = Unseen(c)

\* A page that has all that its stream has sent, when that is what the server
\* has, shows the server's counts, unless there is doubt.
ToldPageShows ==
    watch \in {"badges", "bell"} /\ ~doubt =>
        \A s \in Streams :
            /\ conn[s] = "open" /\ pipe[s] = <<>>
            /\ lastSnapshot[s] # NoSnapshot /\ Truthful(s)
            => Agrees

\* When the data is at rest the page shows the server's counts: the manager
\* always, since it polls; the badges and the bell unless, after the latest
\* event, they wrote counts of their own that the server did not have by then, or
\* what is counted changed and came back before a tick saw it.
ViewSettles == <>[](Agrees \/ doubt)
=============================================================================
