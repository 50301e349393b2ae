------------------------------ MODULE ChatPage ------------------------------
(***************************************************************************)
(* The chat page in the browser (src/frontend/alpine/chat.ts and its       *)
(* sub-modules): switching chats, loading and scrolling the message list,  *)
(* sending, the live stream, cancelling, regenerating and continuing.      *)
(*                                                                         *)
(* One JavaScript thread: each asynchronous method of the page is a call,  *)
(* a step is the code between two awaits, and the server answers the       *)
(* requests of different calls in any order.  The list is kept as the      *)
(* pages of fifty messages it holds, top first; a temporary entry of a     *)
(* message being sent is left out, because every use of the list filters   *)
(* it.  Gallery, character card, reactions, unseen counts and participant  *)
(* names are display data; the requests that fetch them only delay the     *)
(* calls that wait for them.                                               *)
(***************************************************************************)
EXTENDS Naturals, Sequences

CONSTANTS
    Chats,      \* chats of the user
    NoChat,     \* the page's null: no chat open, no key loaded
    NoStream,   \* no EventSource open
    Pages,      \* pages of messages each chat has on the server
    Slots,      \* bound: calls under way at a time
    MaxOps      \* bound: things the user does

ASSUME PageAssumption ==
    /\ NoChat \notin Chats /\ NoStream \notin Chats \cup {NoChat}
    /\ Pages \in Nat \ {0} /\ Slots \in Nat \ {0} /\ MaxOps \in Nat

VARIABLES
    activeChat,     \* ChatState.activeChat
    messages,       \* ChatState.messages, as a sequence of [chat, page]
    currentPage,    \* ChatState.currentPage
    hasMore,        \* ChatState.hasMoreMessages
    loadingOlder,   \* ChatState.loadingOlder
    key,            \* the chat whose key _chatKey is, or NoChat
    isGenerating,   \* ChatState.isGenerating
    isContinuing,   \* ChatState.isContinuing
    stream,         \* the chat _generationEventSource is connected to
    calls,          \* the calls under way, by slot
    ops,            \* things the user did so far
    trust,          \* history: "loading" while the only request for the list is
                    \* a reload, "whole" once it was answered, "broken" when
                    \* requests overlapped, one failed or a list was put back
    alone           \* history: no other selectChat was under way when the
                    \* latest one began

list == <<messages, currentPage, hasMore, loadingOlder>>
generation == <<isGenerating, isContinuing, stream>>
vars == <<activeChat, messages, currentPage, hasMore, loadingOlder, key,
          isGenerating, isContinuing, stream, calls, ops, trust, alone>>

Block == [chat : Chats, page : 1 .. Pages]
Idle == [op |-> "idle"]
Call ==
    {Idle}
    \cup [op : {"select"}, step : {"list", "key"}, chat : Chats]
    \cup [op : {"reload"}, chat : Chats, unlock : BOOLEAN]
    \cup [op : {"older"}, chat : Chats, page : 2 .. Pages + 1]
    \cup [op : {"send"}, step : {"encrypt", "post"}, typedIn : Chats,
          to : Chats \cup {NoChat}, key : Chats \cup {NoChat},
          saved : Seq(Block), calm : BOOLEAN, listed : BOOLEAN]
    \cup [op : {"cancel", "regenerate", "variant", "continue"}]

TypeOK ==
    /\ activeChat \in Chats \cup {NoChat}
    /\ messages \in Seq(Block)
    /\ currentPage \in 1 .. Pages
    /\ hasMore \in BOOLEAN /\ loadingOlder \in BOOLEAN
    /\ key \in Chats \cup {NoChat}
    /\ isGenerating \in BOOLEAN /\ isContinuing \in BOOLEAN
    /\ stream \in Chats \cup {NoChat, NoStream}
    /\ calls \in [1 .. Slots -> Call]
    /\ ops \in 0 .. MaxOps
    /\ trust \in {"loading", "whole", "broken"}
    /\ alone \in BOOLEAN

Init ==
    /\ activeChat = NoChat
    /\ messages = <<>> /\ currentPage = 1 /\ hasMore = TRUE /\ loadingOlder = FALSE
    /\ key = NoChat
    /\ isGenerating = FALSE /\ isContinuing = FALSE /\ stream = NoStream
    /\ calls = [s \in 1 .. Slots |-> Idle]
    /\ ops = 0
    /\ trust = "whole" /\ alone = TRUE

-----------------------------------------------------------------------------
(* Calls.                                                                  *)

Busy == {s \in 1 .. Slots : calls[s] # Idle}
Free == 1 .. Slots \ Busy
FreeSlot == CHOOSE s \in Free : TRUE

Selecting == {s \in Busy : calls[s].op = "select"}
Reloading == {s \in Busy : \/ calls[s].op = "reload"
                           \/ (calls[s].op = "select" /\ calls[s].step = "list")}
LoadingOlder == {s \in Busy : calls[s].op = "older"}

\* The user starts a call; the slots stand for the calls under way.
Begin(call) ==
    /\ Free # {} /\ ops < MaxOps
    /\ ops' = ops + 1
    /\ calls' = [calls EXCEPT ![FreeSlot] = call]

Becomes(s, call) == calls' = [calls EXCEPT ![s] = call]

-----------------------------------------------------------------------------
(* The message list.                                                       *)

\* loadMessages up to its fetch, but for the call it belongs to.
StartReload ==
    /\ currentPage' = 1
    /\ hasMore' = TRUE
    /\ trust' = IF Reloading \cup LoadingOlder = {} THEN "loading" ELSE "broken"

\* The rest of loadMessages: the page-1 messages of the chat it was called for,
\* whichever chat is open now.  A refusal has a body without data and empties
\* the list; a network error or a timeout leaves it.
Listed(chat) ==
    \/ /\ messages' = <<[chat |-> chat, page |-> 1]>>
       /\ trust' = IF trust = "loading" THEN "whole" ELSE trust
    \/ messages' \in {<<>>, messages} /\ trust' = "broken"

\* The observer of the list's top loads although a load is running.
MayLoadOlder_Unguarded == hasMore /\ activeChat # NoChat

MayLoadOlder == ~loadingOlder /\ hasMore /\ activeChat # NoChat

\* loadOlderMessages up to its fetch.
LoadOlder ==
    /\ MayLoadOlder
    /\ Begin([op |-> "older", chat |-> activeChat, page |-> currentPage + 1])
    /\ loadingOlder' = TRUE
    /\ trust' = IF Reloading # {} THEN "broken" ELSE trust
    /\ UNCHANGED <<activeChat, messages, currentPage, hasMore, key, generation, alone>>

\* loadOlderMessages after its fetch.  No messages, or a refusal, end the
\* scrolling; an error changes nothing.
OlderLoaded(s) ==
    LET c == calls[s] IN
    /\ c.op = "older"
    /\ Becomes(s, Idle)
    /\ loadingOlder' = FALSE
    /\ \/ /\ c.page <= Pages
          /\ messages' = <<[chat |-> c.chat, page |-> c.page]>> \o messages
          /\ currentPage' = c.page
          /\ hasMore' = (c.page < Pages)
       \/ hasMore' = FALSE /\ UNCHANGED <<messages, currentPage>>
       \/ UNCHANGED <<messages, currentPage, hasMore>>
    /\ UNCHANGED <<activeChat, key, generation, ops, trust, alone>>

-----------------------------------------------------------------------------
(* Switching chats.                                                        *)

\* selectChat up to Promise.all: refused while a reply is generated.
SelectChat(chat) ==
    /\ ~isGenerating
    /\ Begin([op |-> "select", step |-> "list", chat |-> chat])
    /\ activeChat' = chat
    /\ loadingOlder' = FALSE
    /\ StartReload
    /\ alone' = (Selecting = {})
    /\ UNCHANGED <<messages, key, generation>>

\* The list arrives; after it, the panels and mark-read, the key is asked for.
SelectListed(s) ==
    LET c == calls[s] IN
    /\ c.op = "select" /\ c.step = "list"
    /\ Listed(c.chat)
    /\ Becomes(s, [c EXCEPT !.step = "key"])
    /\ UNCHANGED <<activeChat, currentPage, hasMore, loadingOlder, key, generation, ops, alone>>

\* A refused key request leaves the key of the chat before.
KeyWhenRefused_Kept == key

KeyWhenRefused == NoChat

\* loadChatKey after its fetch: a chat without a key, or an error, clears it.
\* The panels that selectChat loads behind it are left out.
KeyLoaded(s) ==
    LET c == calls[s] IN
    /\ c.op = "select" /\ c.step = "key"
    /\ key' \in {c.chat, KeyWhenRefused}
    /\ Becomes(s, Idle)
    /\ UNCHANGED <<activeChat, list, generation, ops, trust, alone>>

\* deleteChat or batchDelete after its request, when it was the open chat.
DeleteOpenChat ==
    /\ activeChat # NoChat /\ ops < MaxOps
    /\ ops' = ops + 1
    /\ activeChat' = NoChat
    /\ messages' = <<>>
    /\ trust' = IF Reloading \cup LoadingOlder = {} THEN trust ELSE "broken"
    /\ UNCHANGED <<currentPage, hasMore, loadingOlder, key, generation, calls, alone>>

-----------------------------------------------------------------------------
(* Sending.                                                                *)

\* sendMessage up to its first await.  The list is remembered for a failure,
\* its last message is the new message's parent.
SendMessage ==
    /\ activeChat # NoChat
    /\ Begin([op |-> "send", step |-> IF key = NoChat THEN "post" ELSE "encrypt",
              typedIn |-> activeChat, to |-> activeChat, key |-> key, saved |-> messages,
              calm |-> alone /\ Selecting = {}, listed |-> trust = "whole"])
    /\ isGenerating' = (isGenerating \/ key = NoChat)
    /\ UNCHANGED <<activeChat, list, key, isContinuing, stream, trust, alone>>

\* The text is encrypted; the address is that of the chat open by now.
Encrypted(s) ==
    LET c == calls[s] IN
    /\ c.op = "send" /\ c.step = "encrypt"
    /\ Becomes(s, [c EXCEPT !.step = "post", !.to = activeChat])
    /\ isGenerating' = TRUE
    /\ UNCHANGED <<activeChat, list, key, isContinuing, stream, ops, trust, alone>>

\* The message was accepted: a stream of the chat open by now replaces the
\* one before, and the list is loaded again.
Posted(s) ==
    LET c == calls[s] IN
    /\ c.op = "send" /\ c.step = "post" /\ c.to # NoChat
    /\ isGenerating' = TRUE
    /\ stream' = activeChat
    /\ IF activeChat = NoChat
       THEN Becomes(s, Idle) /\ UNCHANGED <<currentPage, hasMore, trust>>
       ELSE /\ Becomes(s, [op |-> "reload", chat |-> activeChat, unlock |-> FALSE])
            /\ StartReload
    /\ UNCHANGED <<activeChat, messages, loadingOlder, key, isContinuing, ops, alone>>

\* The page stays locked after a message that was not accepted.
LockAfterRefusal_Kept == isGenerating

LockAfterRefusal == FALSE

\* The message was refused, or no answer came: the remembered list is put back.
Refused(s) ==
    LET c == calls[s] IN
    /\ c.op = "send" /\ c.step = "post"
    /\ isGenerating' = LockAfterRefusal
    /\ messages' = c.saved
    /\ trust' = IF c.saved = messages THEN trust ELSE "broken"
    /\ Becomes(s, Idle)
    /\ UNCHANGED <<activeChat, currentPage, hasMore, loadingOlder, key, isContinuing, stream, ops, alone>>

-----------------------------------------------------------------------------
(* The stream of a reply.                                                  *)

Unlock == isGenerating' = FALSE /\ stream' = NoStream

\* stream-done: the source is closed and the open chat's list loaded again.
StreamDone ==
    /\ stream \in Chats
    /\ Unlock
    /\ IF activeChat = NoChat
       THEN UNCHANGED <<calls, currentPage, hasMore, trust>>
       ELSE /\ Free # {}
            /\ calls' = [calls EXCEPT ![FreeSlot] =
                  [op |-> "reload", chat |-> activeChat, unlock |-> FALSE]]
            /\ StartReload
    /\ UNCHANGED <<activeChat, messages, loadingOlder, key, isContinuing, ops, alone>>

\* stream-error, or a source closed for good.
StreamFailed ==
    /\ stream # NoStream
    /\ Unlock
    /\ UNCHANGED <<activeChat, list, key, isContinuing, calls, ops, trust, alone>>

-----------------------------------------------------------------------------
(* Cancelling, variants, continuing.                                       *)

\* The buttons that only send a request first; regenerateVariant locks the
\* page with it.
Press(op) ==
    /\ activeChat # NoChat
    /\ op = "cancel" => isGenerating
    /\ Begin([op |-> op])
    /\ isGenerating' = (isGenerating \/ op = "regenerate")
    /\ UNCHANGED <<activeChat, list, key, isContinuing, stream, trust, alone>>

\* A cancellation that stopped something unlocks the page; the source stays.
Cancelled(s) ==
    /\ calls[s].op = "cancel"
    /\ Becomes(s, Idle)
    /\ isGenerating' \in {FALSE, isGenerating}
    /\ UNCHANGED <<activeChat, list, key, isContinuing, stream, ops, trust, alone>>

\* regenerateVariant and switchVariant load the list again; the first unlocks
\* the page at its end, or at once when its request failed.
VariantAnswered(s) ==
    LET op == calls[s].op IN
    /\ op \in {"regenerate", "variant"}
    /\ \/ /\ activeChat # NoChat
          /\ Becomes(s, [op |-> "reload", chat |-> activeChat, unlock |-> op = "regenerate"])
          /\ StartReload
          /\ UNCHANGED isGenerating
       \/ /\ Becomes(s, Idle)
          /\ isGenerating' = (isGenerating /\ op # "regenerate")
          /\ UNCHANGED <<currentPage, hasMore, trust>>
    /\ UNCHANGED <<activeChat, messages, loadingOlder, key, isContinuing, stream, ops, alone>>

\* loadMessages outside selectChat, from its fetch to the end of its caller.
Reloaded(s) ==
    LET c == calls[s] IN
    /\ c.op = "reload"
    /\ Listed(c.chat)
    /\ Becomes(s, Idle)
    /\ isGenerating' = (isGenerating /\ ~c.unlock)
    /\ UNCHANGED <<activeChat, currentPage, hasMore, loadingOlder, key, isContinuing, stream, ops, alone>>

\* continueMessage: the lock and the label are set when the server agrees;
\* nothing takes the label back.
ContinueAnswered(s) ==
    /\ calls[s].op = "continue"
    /\ Becomes(s, Idle)
    /\ \/ isGenerating' = TRUE /\ isContinuing' = TRUE
       \/ UNCHANGED <<isGenerating, isContinuing>>
    /\ UNCHANGED <<activeChat, list, key, stream, ops, trust, alone>>

-----------------------------------------------------------------------------
Answer(s) ==
    \/ OlderLoaded(s) \/ SelectListed(s) \/ KeyLoaded(s)
    \/ Encrypted(s) \/ Posted(s) \/ Refused(s)
    \/ Cancelled(s) \/ VariantAnswered(s) \/ Reloaded(s) \/ ContinueAnswered(s)

Next ==
    \/ \E chat \in Chats : SelectChat(chat)
    \/ LoadOlder \/ DeleteOpenChat \/ SendMessage
    \/ \E op \in {"cancel", "regenerate", "variant", "continue"} : Press(op)
    \/ \E s \in 1 .. Slots : Answer(s)
    \/ StreamDone \/ StreamFailed

Spec == Init /\ [][Next]_vars

\* Every request is answered or times out after 30 seconds (fe-fetch.ts:31), and
\* the server ends every stream.  Nothing obliges the user to do anything.
Fairness ==
    /\ \A s \in 1 .. Slots : WF_vars(Answer(s))
    /\ WF_vars(StreamDone \/ StreamFailed)

FairSpec == Spec /\ Fairness

-----------------------------------------------------------------------------
(* Properties.                                                             *)

\* When the requests for the list did not overlap and none failed, the list is
\* the open chat's, with the pages 1 .. currentPage once each: neither a page
\* missing nor a page twice, whatever else the user did in between.
WholeList ==
    trust = "whole" /\ activeChat # NoChat =>
        messages = [i \in 1 .. currentPage |->
                        [chat |-> activeChat, page |-> currentPage + 1 - i]]

Sent == {s \in Busy : calls[s].op = "send" /\ calls[s].step = "post"}

\* What a message says of its chat is compared with the chat it is posted to.
\* Only a message that is encrypted can be posted to another chat than the one it
\* was typed in, when that one is left meanwhile: it then carries the key and the
\* parent of the old chat.  Every other message has a parent of the chat it is
\* posted to when the list was whole, and no other chat's key unless it was typed
\* while a chat was being opened.
SentWithOwnKey ==
    \A s \in Sent : LET c == calls[s] IN
        /\ c.key = NoChat => c.to = c.typedIn
        /\ c.to = c.typedIn =>
              /\ c.calm => c.key \in {c.to, NoChat}
              /\ c.listed /\ c.saved # <<>> => c.saved[Len(c.saved)].chat = c.to

\* Calls that unlock the page when they end.
Unlocking == {s \in Busy : \/ calls[s].op = "send" /\ calls[s].step = "post"
                           \/ calls[s].op = "regenerate"
                           \/ calls[s].op = "reload" /\ calls[s].unlock}

\* A locked page has a call or a stream under way that unlocks it.
LockHeld == isGenerating => isContinuing \/ stream # NoStream \/ Unlocking # {}

\* The lock never lasts: each call and each stream that took it gives it back,
\* in whatever order they end; only continueMessage keeps it for good.
LockReleased == isGenerating ~> ~isGenerating \/ isContinuing
=============================================================================
