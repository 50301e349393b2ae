---------------------------- MODULE PagePartsProofs ----------------------------
(***************************************************************************)
(* Theorems about the parts of the page, for any chats, number of pages,   *)
(* calls under way and things the user does, and for any number of         *)
(* connections, overlapping ticks, failures and changes of the data.       *)
(*                                                                         *)
(* The parts share no state, so there are two inductive invariants: IInv   *)
(* and LockHeld of the open chat, FeedInv of the badges, the manager and   *)
(* the bell.                                                               *)
(***************************************************************************)
EXTENDS PageParts, SumProofs

-----------------------------------------------------------------------------
(* The inductive invariant of the open chat.                               *)

\* While trust is "loading", one reload of the open chat is all that is asked
\* of the list; when it is "whole", at most one load of older messages is, for
\* the next page of the open chat, and the page says that it runs.
Asked ==
    /\ trust = "loading" =>
          /\ activeChat # NoChat /\ currentPage = 1 /\ LoadingOlder = {}
          /\ \E s \in Reloading : Reloading = {s} /\ calls[s].chat = activeChat
    /\ trust = "whole" =>
          /\ Reloading = {}
          /\ \A s \in LoadingOlder :
                /\ LoadingOlder = {s} /\ loadingOlder /\ activeChat # NoChat
                /\ calls[s].chat = activeChat /\ calls[s].page = currentPage + 1

\* When calls of selectChat do not overlap, the one under way opens the open
\* chat, and after it the key is that chat's.
Keyed ==
    alone =>
        /\ Selecting = {} /\ activeChat # NoChat => key \in {activeChat, NoChat}
        /\ \A s \in Selecting :
              Selecting = {s} /\ (calls[s].chat = activeChat \/ activeChat = NoChat)

\* What a message was given when it was typed, before and after it is encrypted.
SendOk(c) ==
    /\ c.calm => c.key \in {c.typedIn, NoChat}
    /\ c.listed /\ c.saved # <<>> => c.saved[Len(c.saved)].chat = c.typedIn
    /\ c.key = NoChat => c.step = "post" /\ c.to = c.typedIn

Typed == \A s \in Busy : calls[s].op = "send" => SendOk(calls[s])

IInv == TypeOK /\ Asked /\ WholeList /\ Keyed /\ Typed

-----------------------------------------------------------------------------
(* Calls.                                                                  *)

AsksForList(c) == c.op = "reload" \/ (c.op = "select" /\ c.step = "list")

LEMMA FreeSlotIsFree ==
    ASSUME Free # {}
    PROVE  /\ FreeSlot \in 1 .. Slots /\ calls[FreeSlot].op = "idle"
           /\ ~ AsksForList(calls[FreeSlot])
<1>1. FreeSlot \in 1 .. Slots /\ calls[FreeSlot] = Idle
  BY DEF FreeSlot, Free, Busy
<1> QED
  BY <1>1 DEF Idle, AsksForList

(* One call changes: the sets of calls follow its kind.                    *)
LEMMA CallsFollow ==
    ASSUME TypeOK, NEW s \in 1 .. Slots, NEW c \in Call,
           calls' = [calls EXCEPT ![s] = c]
    PROVE  /\ calls' \in [1 .. Slots -> Call] /\ calls'[s] = c
           /\ \A t \in 1 .. Slots : t # s => calls'[t] = calls[t]
           /\ Selecting' = IF c.op = "select" THEN Selecting \cup {s} ELSE Selecting \ {s}
           /\ LoadingOlder' = IF c.op = "older" THEN LoadingOlder \cup {s}
                              ELSE LoadingOlder \ {s}
           /\ Reloading' = IF c.op = "reload" \/ (c.op = "select" /\ c.step = "list")
                           THEN Reloading \cup {s} ELSE Reloading \ {s}
<1>1. calls \in [1 .. Slots -> Call]
  BY DEF TypeOK
<1>2. /\ calls' \in [1 .. Slots -> Call] /\ calls'[s] = c
      /\ \A t \in 1 .. Slots : t # s => calls'[t] = calls[t]
  BY <1>1
<1>3. Idle.op = "idle"
  BY DEF Idle
<1>4. \A t \in 1 .. Slots :
        /\ t \in Selecting' <=> calls'[t].op = "select"
        /\ t \in Selecting <=> calls[t].op = "select"
        /\ t \in LoadingOlder' <=> calls'[t].op = "older"
        /\ t \in LoadingOlder <=> calls[t].op = "older"
  BY <1>3 DEF Selecting, LoadingOlder, Busy
<1>5. \A t \in 1 .. Slots :
        /\ t \in Reloading' <=> \/ calls'[t].op = "reload"
                                \/ (calls'[t].op = "select" /\ calls'[t].step = "list")
        /\ t \in Reloading <=> \/ calls[t].op = "reload"
                               \/ (calls[t].op = "select" /\ calls[t].step = "list")
  BY <1>3 DEF Reloading, Busy
<1>6. /\ Selecting \cup Selecting' \subseteq 1 .. Slots
      /\ LoadingOlder \cup LoadingOlder' \subseteq 1 .. Slots
      /\ Reloading \cup Reloading' \subseteq 1 .. Slots
  BY DEF Selecting, LoadingOlder, Reloading, Busy
<1> QED
  BY <1>2, <1>4, <1>5, <1>6

(* What a message carries does not change with other calls.                *)
LEMMA TypedKept ==
    ASSUME TypeOK, Typed, NEW s \in 1 .. Slots, NEW c \in Call,
           calls' = [calls EXCEPT ![s] = c], c.op = "send" => SendOk(c)
    PROVE  Typed'
<1>1. \A t \in 1 .. Slots : calls'[t] = IF t = s THEN c ELSE calls[t]
  BY DEF TypeOK
<1>2. \A t \in 1 .. Slots : calls'[t].op = "send" => SendOk(calls'[t])
  <2>1. Idle.op = "idle"
    BY DEF Idle
  <2> QED
    BY <1>1, <2>1 DEF Typed, Busy
<1> QED
  BY <1>2 DEF Typed, Busy, SendOk

(* An answer ends its call or takes it to its next request.                *)
LEMMA IdleIsCall == Idle \in Call
BY DEF Call

(* One page in front of a list.                                            *)
LEMMA Prepended ==
    ASSUME NEW b \in Block, NEW l \in Seq(Block)
    PROVE  /\ <<b>> \o l \in Seq(Block) /\ Len(<<b>> \o l) = Len(l) + 1
           /\ \A i \in 1 .. Len(l) + 1 : (<<b>> \o l)[i] = IF i = 1 THEN b ELSE l[i - 1]
<1>1. <<b>> \in Seq(Block) /\ Len(<<b>>) = 1 /\ <<b>>[1] = b
  OBVIOUS
<1> QED
  BY <1>1, ConcatProperties

-----------------------------------------------------------------------------
(* Types.                                                                  *)

LEMMA ListedTypes ==
    ASSUME TypeOK, NEW chat \in Chats, Listed(chat)
    PROVE  messages' \in Seq(Block) /\ trust' \in {"loading", "whole", "broken"}
<1> DEFINE b == [chat |-> chat, page |-> 1]
<1>1. b \in Block
  BY PageAssumption DEF Block
<1>2. messages \in Seq(Block) /\ trust \in {"loading", "whole", "broken"}
  BY DEF TypeOK
<1>3. /\ messages' \in {<<b>>, <<>>, messages}
      /\ trust' \in {trust, "whole", "broken"}
  BY DEF Listed
<1> HIDE DEF b
<1>4. <<b>> \in Seq(Block) /\ <<>> \in Seq(Block)
  BY <1>1
<1> QED
  BY <1>2, <1>3, <1>4

LEMMA StartTypes ==
    ASSUME StartReload
    PROVE  /\ currentPage' \in 1 .. Pages /\ hasMore' \in BOOLEAN
           /\ trust' \in {"loading", "whole", "broken"}
BY PageAssumption DEF StartReload

LEMMA ReloadIsCall ==
    ASSUME NEW chat \in Chats, NEW u \in BOOLEAN
    PROVE  [op |-> "reload", chat |-> chat, unlock |-> u] \in Call
BY DEF Call

LEMMA TypeInductive ==
    ASSUME TypeOK, [Next]_vars
    PROVE  TypeOK'
<1> USE PageAssumption DEF TypeOK
<1>1. ASSUME NEW chat \in Chats, SelectChat(chat)
      PROVE  TypeOK'
  <2>1. [op |-> "select", step |-> "list", chat |-> chat] \in Call
    BY DEF Call
  <2>2. calls' \in [1 .. Slots -> Call]
    BY <1>1, <2>1, FreeSlotIsFree DEF SelectChat, Begin
  <2>3. alone' \in BOOLEAN
    BY <1>1 DEF SelectChat
  <2>4. ops' \in 0 .. MaxOps
    BY <1>1 DEF SelectChat, Begin
  <2>5. /\ activeChat' = chat /\ loadingOlder' = FALSE
        /\ UNCHANGED <<messages, key, isGenerating, isContinuing, stream>>
    BY <1>1 DEF SelectChat, generation
  <2> QED
    BY <1>1, <2>2, <2>3, <2>4, <2>5, StartTypes DEF SelectChat
<1>2. ASSUME LoadOlder
      PROVE  TypeOK'
  <2>1. [op |-> "older", chat |-> activeChat, page |-> currentPage + 1] \in Call
    BY <1>2 DEF Call, LoadOlder, MayLoadOlder
  <2> QED
    BY <1>2, <2>1, FreeSlotIsFree, CallsFollow DEF LoadOlder, Begin, generation
<1>3. ASSUME DeleteOpenChat
      PROVE  TypeOK'
  BY <1>3 DEF DeleteOpenChat, generation
<1>4. ASSUME SendMessage
      PROVE  TypeOK'
  <2> DEFINE c == [op |-> "send", step |-> IF key = NoChat THEN "post" ELSE "encrypt",
              typedIn |-> activeChat, to |-> activeChat, key |-> key, saved |-> messages,
              calm |-> alone /\ Selecting = {}, listed |-> trust = "whole"]
  <2>1. c \in Call
    BY <1>4 DEF Call, SendMessage
  <2>2. calls' = [calls EXCEPT ![FreeSlot] = c] /\ Free # {}
    BY <1>4 DEF SendMessage, Begin
  <2> HIDE DEF c
  <2>3. calls' \in [1 .. Slots -> Call]
    BY <2>1, <2>2, FreeSlotIsFree, CallsFollow
  <2> QED
    BY <1>4, <2>3 DEF SendMessage, Begin, list
<1>5. ASSUME NEW op \in {"cancel", "regenerate", "variant", "continue"}, Press(op)
      PROVE  TypeOK'
  <2>1. [op |-> op] \in Call
    BY DEF Call
  <2> QED
    BY <1>5, <2>1, FreeSlotIsFree, CallsFollow DEF Press, Begin, list
<1>6. ASSUME NEW s \in 1 .. Slots, Answer(s)
      PROVE  TypeOK'
  <2>1. calls[s] \in Call
    OBVIOUS
  <2>2. CASE OlderLoaded(s)
    <3>1. calls[s].chat \in Chats /\ calls[s].page \in 2 .. Pages + 1
      BY <2>1, <2>2 DEF OlderLoaded, Call, Idle
    <3>2. calls' \in [1 .. Slots -> Call]
      BY <2>2, IdleIsCall DEF OlderLoaded, Becomes
    <3>3. messages' \in Seq(Block)
      <4>1. CASE calls[s].page <= Pages
        <5> DEFINE b == [chat |-> calls[s].chat, page |-> calls[s].page]
        <5>1. b \in Block
          BY <3>1, <4>1 DEF Block
        <5>2. messages' \in {<<b>> \o messages, messages}
          BY <2>2 DEF OlderLoaded
        <5> HIDE DEF b
        <5>3. <<b>> \o messages \in Seq(Block)
          BY <5>1, Prepended
        <5> QED
          BY <5>2, <5>3
      <4>2. CASE ~ (calls[s].page <= Pages)
        BY <2>2, <4>2 DEF OlderLoaded
      <4> QED
        BY <4>1, <4>2
    <3>4. currentPage' \in 1 .. Pages /\ hasMore' \in BOOLEAN
      <4>1. \/ currentPage' = currentPage
            \/ currentPage' = calls[s].page /\ calls[s].page <= Pages
        BY <2>2 DEF OlderLoaded
      <4>2. hasMore' \in BOOLEAN
        <5>1. \/ hasMore' = (calls[s].page < Pages)
              \/ hasMore' = FALSE \/ hasMore' = hasMore
          BY <2>2 DEF OlderLoaded
        <5>2. hasMore \in BOOLEAN
          OBVIOUS
        <5>3. CASE hasMore' = (calls[s].page < Pages)
          BY <5>3
        <5> QED
          BY <5>1, <5>2, <5>3
      <4> QED
        BY <3>1, <4>1, <4>2
    <3> QED
      BY <2>2, <3>2, <3>3, <3>4 DEF OlderLoaded, generation
  <2>3. CASE SelectListed(s)
    <3>1. calls[s] \in [op : {"select"}, step : {"list", "key"}, chat : Chats]
      BY <2>1, <2>3 DEF SelectListed, Call, Idle
    <3>2. [calls[s] EXCEPT !.step = "key"] \in Call
      BY <3>1 DEF Call
    <3>3. calls' \in [1 .. Slots -> Call]
      BY <2>3, <3>2 DEF SelectListed, Becomes
    <3>4. messages' \in Seq(Block) /\ trust' \in {"loading", "whole", "broken"}
      BY <2>3, <3>1, ListedTypes DEF SelectListed
    <3> QED
      BY <2>3, <3>3, <3>4 DEF SelectListed, generation
  <2>4. CASE KeyLoaded(s)
    <3>1. calls[s].chat \in Chats
      BY <2>1, <2>4 DEF KeyLoaded, Call, Idle
    <3> QED
      BY <2>4, <3>1, IdleIsCall DEF KeyLoaded, KeyWhenRefused, Becomes, list, generation
  <2>5. CASE Encrypted(s)
    <3>1. [calls[s] EXCEPT !.step = "post", !.to = activeChat] \in Call
      BY <2>1, <2>5 DEF Encrypted, Call, Idle
    <3> QED
      BY <2>5, <3>1 DEF Encrypted, Becomes, list
  <2>6. CASE Posted(s)
    <3>1. CASE activeChat = NoChat
      BY <2>6, <3>1, IdleIsCall DEF Posted, Becomes
    <3>2. CASE activeChat # NoChat
      <4>1. calls' = [calls EXCEPT ![s] = [op |-> "reload", chat |-> activeChat, unlock |-> FALSE]]
        BY <2>6, <3>2 DEF Posted, Becomes
      <4>2. calls' \in [1 .. Slots -> Call]
        BY <3>2, <4>1, ReloadIsCall
      <4> QED
        BY <2>6, <3>2, <4>2, StartTypes DEF Posted
    <3> QED
      BY <3>1, <3>2
  <2>7. CASE Refused(s)
    <3>1. calls[s].saved \in Seq(Block)
      BY <2>1, <2>7 DEF Refused, Call, Idle
    <3> QED
      BY <2>7, <3>1, IdleIsCall DEF Refused, Becomes, LockAfterRefusal
  <2>8. CASE Cancelled(s)
    BY <2>8, IdleIsCall DEF Cancelled, Becomes, list
  <2>9. CASE VariantAnswered(s)
    <3>1. CASE activeChat # NoChat /\ StartReload
      <4>1. calls' = [calls EXCEPT ![s] = Idle] \/
            \E u \in BOOLEAN : calls' =
               [calls EXCEPT ![s] = [op |-> "reload", chat |-> activeChat, unlock |-> u]]
        BY <2>9 DEF VariantAnswered, Becomes
      <4>2. calls' \in [1 .. Slots -> Call]
        BY <3>1, <4>1, ReloadIsCall, IdleIsCall
      <4> QED
        BY <2>9, <3>1, <4>2, StartTypes DEF VariantAnswered
    <3>2. CASE ~ (activeChat # NoChat /\ StartReload)
      BY <2>9, <3>2, IdleIsCall DEF VariantAnswered, Becomes
    <3> QED
      BY <3>1, <3>2
  <2>10. CASE Reloaded(s)
    <3>1. calls[s].chat \in Chats
      BY <2>1, <2>10 DEF Reloaded, Call, Idle
    <3>2. messages' \in Seq(Block) /\ trust' \in {"loading", "whole", "broken"}
      BY <2>10, <3>1, ListedTypes DEF Reloaded
    <3> QED
      BY <2>10, <3>2, IdleIsCall DEF Reloaded, Becomes
  <2>11. CASE ContinueAnswered(s)
    BY <2>11, IdleIsCall DEF ContinueAnswered, Becomes, list
  <2> QED
    BY <1>6, <2>2, <2>3, <2>4, <2>5, <2>6, <2>7, <2>8, <2>9, <2>10, <2>11 DEF Answer
<1>7. ASSUME StreamDone
      PROVE  TypeOK'
  <2>1. CASE activeChat = NoChat
    BY <1>7, <2>1 DEF StreamDone, Unlock
  <2>2. CASE activeChat # NoChat
    <3>1. Free # {} /\ StartReload /\ calls' = [calls EXCEPT ![FreeSlot] =
             [op |-> "reload", chat |-> activeChat, unlock |-> FALSE]]
      BY <1>7, <2>2 DEF StreamDone
    <3>2. calls' \in [1 .. Slots -> Call]
      BY <2>2, <3>1, ReloadIsCall, FreeSlotIsFree
    <3> QED
      BY <1>7, <3>1, <3>2, StartTypes DEF StreamDone, Unlock
  <2> QED
    BY <2>1, <2>2
<1>8. ASSUME StreamFailed
      PROVE  TypeOK'
  BY <1>8 DEF StreamFailed, Unlock, list
<1>9. CASE UNCHANGED vars
  BY <1>9 DEF vars
<1> QED
  BY <1>1, <1>2, <1>3, <1>4, <1>5, <1>6, <1>7, <1>8, <1>9 DEF Next

-----------------------------------------------------------------------------
(* The list.                                                               *)

(* A request for the open chat's list begins.                              *)
LEMMA ReloadStarts ==
    ASSUME TypeOK, NEW s \in 1 .. Slots, NEW c \in Call,
           calls' = [calls EXCEPT ![s] = c], AsksForList(c), StartReload,
           activeChat' # NoChat, c.chat = activeChat'
    PROVE  Asked' /\ WholeList'
<1>1. trust' # "whole"
  BY DEF StartReload
<1>2. ASSUME trust' = "loading"
      PROVE  /\ activeChat' # NoChat /\ currentPage' = 1 /\ LoadingOlder' = {}
             /\ Reloading' = {s} /\ calls'[s].chat = activeChat'
  <2>1. Reloading = {} /\ LoadingOlder = {}
    BY <1>2 DEF StartReload
  <2>2. c.op # "older"
    BY DEF AsksForList
  <2> QED
    BY <2>1, <2>2, CallsFollow DEF AsksForList, StartReload
<1> QED
  BY <1>1, <1>2 DEF Asked, WholeList

(* The list of a call arrives.                                             *)
LEMMA ListArrives ==
    ASSUME IInv, NEW s \in 1 .. Slots, NEW c \in Call,
           calls' = [calls EXCEPT ![s] = c], ~ AsksForList(c), c.op # "older",
           s \in Reloading, Listed(calls[s].chat),
           UNCHANGED <<activeChat, currentPage, loadingOlder>>
    PROVE  Asked' /\ WholeList'
<1>1. TypeOK /\ Asked
  BY DEF IInv
<1>2. calls[s].op # "older"
  BY DEF Reloading
<1>3. Reloading' = Reloading \ {s} /\ LoadingOlder' = LoadingOlder
  BY <1>1, <1>2, CallsFollow DEF AsksForList, LoadingOlder
<1>4. trust \in {"loading", "broken"}
  BY <1>1 DEF TypeOK, Asked
<1>5. CASE trust' = "broken"
  BY <1>5 DEF Asked, WholeList
<1>6. CASE trust' # "broken"
  <2>1. trust = "loading" /\ trust' = "whole"
        /\ messages' = <<[chat |-> calls[s].chat, page |-> 1]>>
    BY <1>4, <1>6 DEF Listed
  <2>2. /\ Reloading = {s} /\ calls[s].chat = activeChat
        /\ currentPage = 1 /\ LoadingOlder = {}
    BY <1>1, <2>1 DEF Asked
  <2>3. Asked'
    BY <1>3, <2>1, <2>2 DEF Asked
  <2>4. messages' = [i \in 1 .. 1 |-> [chat |-> activeChat, page |-> 1 + 1 - i]]
    BY <2>1, <2>2
  <2> QED
    BY <2>2, <2>3, <2>4 DEF WholeList
<1> QED
  BY <1>5, <1>6

(* A call that asks nothing of the list begins, goes on or ends.           *)
LEMMA ListAside ==
    ASSUME IInv, NEW s \in 1 .. Slots, NEW c \in Call,
           calls' = [calls EXCEPT ![s] = c], ~ AsksForList(c), c.op # "older",
           calls[s].op # "older", ~ AsksForList(calls[s]),
           UNCHANGED <<activeChat, messages, currentPage, loadingOlder, trust>>
    PROVE  Asked' /\ WholeList'
<1>1. TypeOK /\ Asked /\ WholeList
  BY DEF IInv
<1>2. s \notin Reloading /\ s \notin LoadingOlder
  BY DEF Reloading, LoadingOlder, AsksForList
<1>3. Reloading' = Reloading /\ LoadingOlder' = LoadingOlder
  <2>1. Reloading' = Reloading \ {s} /\ LoadingOlder' = LoadingOlder \ {s}
    BY <1>1, CallsFollow DEF AsksForList
  <2> QED
    BY <1>2, <2>1
<1>4. \A t \in Reloading \cup LoadingOlder : calls'[t] = calls[t]
  BY <1>1, <1>2, CallsFollow DEF Reloading, LoadingOlder, Busy
<1>5. Asked'
  BY <1>1, <1>3, <1>4 DEF Asked
<1> QED
  BY <1>1, <1>5 DEF WholeList

-----------------------------------------------------------------------------
(* Keys.                                                                   *)

(* A call other than selectChat, or selectChat past its list.              *)
LEMMA KeyedAside ==
    ASSUME TypeOK, Keyed, NEW s \in 1 .. Slots, NEW c \in Call,
           calls' = [calls EXCEPT ![s] = c],
           c.op = "select" <=> calls[s].op = "select",
           c.op = "select" => c.chat = calls[s].chat,
           UNCHANGED <<activeChat, key, alone>>
    PROVE  Keyed'
<1>1. s \in Selecting <=> calls[s].op = "select"
  BY DEF Selecting, Busy, Idle
<1>2. Selecting' = Selecting
  <2>1. CASE c.op = "select"
    <3>1. Selecting' = Selecting \cup {s}
      BY <2>1, CallsFollow
    <3> QED
      BY <1>1, <2>1, <3>1
  <2>2. CASE c.op # "select"
    <3>1. Selecting' = Selecting \ {s}
      BY <2>2, CallsFollow
    <3> QED
      BY <1>1, <2>2, <3>1
  <2> QED
    BY <2>1, <2>2
<1>3. \A t \in Selecting : calls'[t].chat = calls[t].chat
  BY <1>1, CallsFollow DEF Selecting, Busy
<1> QED
  BY <1>2, <1>3 DEF Keyed

-----------------------------------------------------------------------------
(* The steps.                                                              *)

Good == Asked /\ WholeList /\ Keyed /\ Typed

LEMMA SelectGood ==
    ASSUME IInv, NEW chat \in Chats, SelectChat(chat)
    PROVE  Good'
<1> DEFINE c == [op |-> "select", step |-> "list", chat |-> chat]
<1>1. c \in Call /\ AsksForList(c) /\ c.op = "select" /\ c.chat = chat
  BY DEF Call, AsksForList
<1>2. /\ FreeSlot \in 1 .. Slots /\ calls' = [calls EXCEPT ![FreeSlot] = c]
      /\ StartReload /\ activeChat' = chat /\ chat # NoChat
      /\ alone' = (Selecting = {})
  BY FreeSlotIsFree, PageAssumption DEF SelectChat, Begin
<1> HIDE DEF c
<1>3. Asked' /\ WholeList'
  BY <1>1, <1>2, ReloadStarts DEF IInv
<1>4. Keyed'
  <2>1. Selecting' = Selecting \cup {FreeSlot} /\ calls'[FreeSlot] = c
    BY <1>1, <1>2, CallsFollow DEF IInv
  <2>2. CASE Selecting = {}
    <3>1. Selecting' = {FreeSlot} /\ calls'[FreeSlot].chat = activeChat'
      BY <1>1, <1>2, <2>1, <2>2
    <3> QED
      BY <3>1 DEF Keyed
  <2>3. CASE Selecting # {}
    BY <1>2, <2>3 DEF Keyed
  <2> QED
    BY <2>2, <2>3
<1>5. Typed'
  BY <1>1, <1>2, TypedKept DEF IInv
<1> QED
  BY <1>3, <1>4, <1>5 DEF Good

LEMMA LoadOlderGood ==
    ASSUME IInv, LoadOlder
    PROVE  Good'
<1> DEFINE c == [op |-> "older", chat |-> activeChat, page |-> currentPage + 1]
<1>1. /\ c \in Call /\ ~ AsksForList(c) /\ c.op = "older"
      /\ c.chat = activeChat /\ c.page = currentPage + 1
  BY PageAssumption DEF Call, AsksForList, LoadOlder, MayLoadOlder, IInv, TypeOK
<1>2. /\ FreeSlot \in 1 .. Slots /\ calls[FreeSlot].op = "idle"
      /\ ~ AsksForList(calls[FreeSlot]) /\ calls' = [calls EXCEPT ![FreeSlot] = c]
      /\ ~ loadingOlder /\ loadingOlder' /\ activeChat # NoChat
      /\ trust' = IF Reloading # {} THEN "broken" ELSE trust
      /\ UNCHANGED <<messages, currentPage>> /\ UNCHANGED <<activeChat, key, alone>>
  BY FreeSlotIsFree DEF LoadOlder, MayLoadOlder, Begin
<1> HIDE DEF c
<1>3. TypeOK /\ Asked /\ WholeList /\ Keyed /\ Typed
  BY DEF IInv
<1>4. Asked' /\ WholeList'
  <2>1. trust' # "loading"
    BY <1>2, <1>3 DEF Asked
  <2>2. ASSUME trust' = "whole"
        PROVE  /\ trust = "whole" /\ Reloading' = {} /\ LoadingOlder' = {FreeSlot}
               /\ calls'[FreeSlot] = c
    <3>1. trust = "whole" /\ Reloading = {}
      BY <1>2, <2>2
    <3>2. LoadingOlder = {}
      BY <1>2, <1>3, <3>1 DEF Asked
    <3>3. FreeSlot \notin Reloading
      BY <3>1
    <3>4. /\ Reloading' = Reloading \ {FreeSlot} /\ calls'[FreeSlot] = c
          /\ LoadingOlder' = LoadingOlder \cup {FreeSlot}
      BY <1>1, <1>2, <1>3, CallsFollow DEF AsksForList
    <3> QED
      BY <3>1, <3>2, <3>4
  <2>3. Asked'
    BY <1>1, <1>2, <2>1, <2>2 DEF Asked
  <2>4. WholeList'
    BY <1>2, <1>3, <2>2 DEF WholeList
  <2> QED
    BY <2>3, <2>4
<1>5. Keyed'
  BY <1>1, <1>2, <1>3, KeyedAside
<1>6. Typed'
  BY <1>1, <1>2, <1>3, TypedKept
<1> QED
  BY <1>4, <1>5, <1>6 DEF Good

LEMMA DeleteGood ==
    ASSUME IInv, DeleteOpenChat
    PROVE  Good'
<1>1. /\ TypeOK /\ Asked /\ Keyed /\ Typed
      /\ activeChat' = NoChat /\ calls' = calls /\ alone' = alone /\ key' = key
      /\ trust' = IF Reloading \cup LoadingOlder = {} THEN trust ELSE "broken"
  BY DEF IInv, DeleteOpenChat
<1>2. /\ Reloading' = Reloading /\ LoadingOlder' = LoadingOlder
      /\ Selecting' = Selecting /\ Busy' = Busy
  BY <1>1 DEF Reloading, LoadingOlder, Selecting, Busy
<1>3. trust' # "loading" /\ (trust' = "whole" => Reloading = {} /\ LoadingOlder = {})
  BY <1>1 DEF Asked
<1>4. Asked' /\ WholeList'
  BY <1>1, <1>2, <1>3 DEF Asked, WholeList
<1>5. Keyed' /\ Typed'
  BY <1>1, <1>2 DEF Keyed, Typed, SendOk
<1> QED
  BY <1>4, <1>5 DEF Good

LEMMA SendGood ==
    ASSUME IInv, SendMessage
    PROVE  Good'
<1> DEFINE c == [op |-> "send", step |-> IF key = NoChat THEN "post" ELSE "encrypt",
              typedIn |-> activeChat, to |-> activeChat, key |-> key, saved |-> messages,
              calm |-> alone /\ Selecting = {}, listed |-> trust = "whole"]
<1>1. TypeOK /\ Asked /\ WholeList /\ Keyed /\ Typed /\ activeChat # NoChat
  BY DEF IInv, SendMessage
<1>2. /\ FreeSlot \in 1 .. Slots /\ calls[FreeSlot].op = "idle"
      /\ ~ AsksForList(calls[FreeSlot]) /\ calls' = [calls EXCEPT ![FreeSlot] = c]
      /\ UNCHANGED <<activeChat, messages, currentPage, loadingOlder, trust>>
      /\ UNCHANGED <<activeChat, key, alone>>
  BY FreeSlotIsFree DEF SendMessage, Begin, list
<1>3. c \in Call /\ c.op = "send" /\ ~ AsksForList(c)
  BY <1>1 DEF Call, TypeOK, AsksForList
<1>4. SendOk(c)
  <2>1. c.calm => c.key \in {c.typedIn, NoChat}
    BY <1>1 DEF Keyed
  <2>2. ASSUME c.listed, c.saved # <<>>
        PROVE  c.saved[Len(c.saved)].chat = c.typedIn
    <3>1. trust = "whole" /\ messages # <<>>
      BY <2>2
    <3>2. /\ messages = [i \in 1 .. currentPage |->
                          [chat |-> activeChat, page |-> currentPage + 1 - i]]
          /\ messages \in Seq(Block) /\ currentPage \in Nat
      BY <1>1, <3>1, PageAssumption DEF WholeList, TypeOK
    <3>3. Len(messages) \in 1 .. currentPage
      <4>1. Len(messages) = currentPage
        BY <3>2
      <4>2. Len(messages) # 0
        BY <3>1, <3>2, EmptySeq
      <4> QED
        BY <3>2, <4>1, <4>2
    <3>4. messages[Len(messages)].chat = activeChat
      BY <3>2, <3>3
    <3> QED
      BY <3>4
  <2> QED
    BY <2>1, <2>2 DEF SendOk
<1> HIDE DEF c
<1>5. Asked' /\ WholeList'
  BY <1>2, <1>3, ListAside
<1>6. Keyed'
  BY <1>1, <1>2, <1>3, KeyedAside
<1>7. Typed'
  BY <1>1, <1>2, <1>3, <1>4, TypedKept
<1> QED
  BY <1>5, <1>6, <1>7 DEF Good

LEMMA PressGood ==
    ASSUME IInv, NEW op \in {"cancel", "regenerate", "variant", "continue"}, Press(op)
    PROVE  Good'
<1> DEFINE c == [op |-> op]
<1>1. c \in Call /\ c.op \notin {"select", "older", "send"} /\ ~ AsksForList(c)
  BY DEF Call, AsksForList
<1>2. /\ FreeSlot \in 1 .. Slots /\ calls[FreeSlot].op = "idle"
      /\ ~ AsksForList(calls[FreeSlot]) /\ calls' = [calls EXCEPT ![FreeSlot] = c]
      /\ UNCHANGED <<activeChat, messages, currentPage, loadingOlder, trust>>
      /\ UNCHANGED <<activeChat, key, alone>>
  BY FreeSlotIsFree DEF Press, Begin, list
<1> HIDE DEF c
<1>3. Asked' /\ WholeList'
  BY <1>1, <1>2, ListAside
<1>4. Keyed' /\ Typed'
  BY <1>1, <1>2, KeyedAside, TypedKept DEF IInv
<1> QED
  BY <1>3, <1>4 DEF Good

LEMMA OlderGood ==
    ASSUME IInv, NEW s \in 1 .. Slots, OlderLoaded(s)
    PROVE  Good'
<1>1. /\ TypeOK /\ Asked /\ WholeList /\ Keyed /\ Typed /\ calls[s] \in Call
      /\ calls[s].op = "older" /\ calls' = [calls EXCEPT ![s] = Idle]
      /\ UNCHANGED <<activeChat, key, alone>> /\ trust' = trust
  BY DEF IInv, TypeOK, OlderLoaded, Becomes
<1>2. Idle \in Call /\ Idle.op = "idle" /\ ~ AsksForList(Idle)
  BY IdleIsCall DEF Idle, AsksForList
<1>3. s \in LoadingOlder /\ ~ AsksForList(calls[s])
  BY <1>1, <1>2 DEF LoadingOlder, Busy, AsksForList
<1>4. Reloading' = Reloading \ {s} /\ LoadingOlder' = LoadingOlder \ {s}
  BY <1>1, <1>2, CallsFollow DEF AsksForList
<1>5. trust # "loading"
  BY <1>1, <1>3 DEF Asked
<1>6. Asked'
  BY <1>1, <1>3, <1>4, <1>5 DEF Asked
<1>7. WholeList'
  <2>1. SUFFICES ASSUME trust = "whole", activeChat # NoChat
                 PROVE  messages' = [i \in 1 .. currentPage' |->
                            [chat |-> activeChat, page |-> currentPage' + 1 - i]]
    BY <1>1 DEF WholeList
  <2>2. /\ calls[s].chat = activeChat /\ calls[s].page = currentPage + 1
        /\ currentPage \in 1 .. Pages /\ activeChat \in Chats
        /\ messages \in Seq(Block)
        /\ messages = [i \in 1 .. currentPage |->
                            [chat |-> activeChat, page |-> currentPage + 1 - i]]
    BY <1>1, <1>3, <2>1 DEF Asked, TypeOK, WholeList
  <2>3. CASE UNCHANGED <<messages, currentPage>>
    BY <2>2, <2>3
  <2>4. CASE ~ UNCHANGED <<messages, currentPage>>
    <3> DEFINE b == [chat |-> activeChat, page |-> currentPage + 1]
               new == [i \in 1 .. currentPage + 1 |->
                            [chat |-> activeChat, page |-> currentPage + 1 + 1 - i]]
    <3>1. /\ currentPage + 1 <= Pages /\ messages' = <<b>> \o messages
          /\ currentPage' = currentPage + 1
      BY <2>2, <2>4 DEF OlderLoaded
    <3>2. b \in Block
      BY <2>2, <3>1, PageAssumption DEF Block
    <3>3. /\ <<b>> \o messages \in Seq(Block) /\ Len(<<b>> \o messages) = Len(messages) + 1
          /\ \A i \in 1 .. Len(messages) + 1 :
                 (<<b>> \o messages)[i] = IF i = 1 THEN b ELSE messages[i - 1]
      BY <2>2, <3>2, Prepended
    <3>4. currentPage \in Nat /\ Len(messages) = currentPage
      BY <2>2, PageAssumption
    <3>5. \A i \in 1 .. currentPage : messages[i] =
             [chat |-> activeChat, page |-> currentPage + 1 - i]
      BY <2>2
    <3>6. ASSUME NEW i \in 1 .. currentPage + 1
          PROVE  (<<b>> \o messages)[i] = new[i]
      <4>1. CASE i = 1
        BY <3>3, <3>4, <4>1
      <4>2. CASE i # 1
        <5>1. i - 1 \in 1 .. currentPage /\ currentPage + 1 - (i - 1) = currentPage + 1 + 1 - i
          BY <3>4, <4>2
        <5> QED
          BY <3>3, <3>4, <3>5, <4>2, <5>1
      <4> QED
        BY <4>1, <4>2
    <3>7. new \in Seq(Block) /\ Len(new) = currentPage + 1
      <4>1. \A i \in 1 .. currentPage + 1 :
               [chat |-> activeChat, page |-> currentPage + 1 + 1 - i] \in Block
        BY <2>2, <3>1, <3>4, PageAssumption DEF Block
      <4>2. new \in [1 .. currentPage + 1 -> Block]
        BY <4>1
      <4> HIDE DEF new
      <4>3. new \in Seq(Block)
        BY <3>4, <4>2, SeqDef
      <4> QED
        BY <3>4, <4>2, <4>3, LenProperties
    <3>8. <<b>> \o messages = new
      <4> HIDE DEF b, new
      <4> QED
        BY <3>3, <3>4, <3>6, <3>7, SeqEqual
    <3> QED
      BY <3>1, <3>8
  <2> QED
    BY <2>3, <2>4
<1>8. Keyed' /\ Typed'
  BY <1>1, <1>2, KeyedAside, TypedKept
<1> QED
  BY <1>6, <1>7, <1>8 DEF Good

LEMMA SelectListedGood ==
    ASSUME IInv, NEW s \in 1 .. Slots, SelectListed(s)
    PROVE  Good'
<1> DEFINE c == [calls[s] EXCEPT !.step = "key"]
<1>1. /\ TypeOK /\ Keyed /\ Typed /\ calls[s] \in Call
      /\ calls[s].op = "select" /\ calls[s].step = "list"
      /\ calls' = [calls EXCEPT ![s] = c] /\ Listed(calls[s].chat)
      /\ UNCHANGED <<activeChat, currentPage, loadingOlder>>
      /\ UNCHANGED <<activeChat, key, alone>>
  BY DEF IInv, TypeOK, SelectListed, Becomes
<1>2. calls[s] \in [op : {"select"}, step : {"list", "key"}, chat : Chats]
  BY <1>1 DEF Call, Idle
<1>3. c \in Call /\ c.op = "select" /\ c.chat = calls[s].chat /\ ~ AsksForList(c)
  BY <1>2 DEF Call, AsksForList
<1>4. s \in Reloading
  BY <1>1 DEF Reloading, Busy, Idle
<1> HIDE DEF c
<1>5. Asked' /\ WholeList'
  BY <1>1, <1>3, <1>4, ListArrives
<1>6. Keyed' /\ Typed'
  BY <1>1, <1>3, KeyedAside, TypedKept
<1> QED
  BY <1>5, <1>6 DEF Good

LEMMA KeyLoadedGood ==
    ASSUME IInv, NEW s \in 1 .. Slots, KeyLoaded(s)
    PROVE  Good'
<1>1. /\ TypeOK /\ Keyed /\ Typed /\ calls[s].op = "select" /\ calls[s].step = "key"
      /\ calls' = [calls EXCEPT ![s] = Idle] /\ key' \in {calls[s].chat, NoChat}
      /\ UNCHANGED <<activeChat, messages, currentPage, loadingOlder, trust>>
      /\ alone' = alone
  BY DEF IInv, KeyLoaded, KeyWhenRefused, Becomes, list
<1>2. Idle \in Call /\ Idle.op = "idle" /\ ~ AsksForList(Idle)
  BY IdleIsCall DEF Idle, AsksForList
<1>3. Asked' /\ WholeList'
  BY <1>1, <1>2, ListAside DEF AsksForList
<1>4. s \in Selecting /\ Selecting' = Selecting \ {s}
  BY <1>1, <1>2, CallsFollow DEF Selecting, Busy
<1>5. Keyed'
  <2>1. SUFFICES ASSUME alone
                 PROVE  /\ Selecting' = {}
                        /\ activeChat # NoChat => key' \in {activeChat, NoChat}
    BY <1>1 DEF Keyed
  <2> QED
    BY <1>1, <1>4, <2>1 DEF Keyed
<1>6. Typed'
  BY <1>1, <1>2, TypedKept
<1> QED
  BY <1>3, <1>5, <1>6 DEF Good

(* The calls that end, or go on, without asking for the list.              *)
LEMMA AsideGood ==
    ASSUME IInv, NEW s \in 1 .. Slots, NEW c \in Call,
           calls' = [calls EXCEPT ![s] = c],
           c.op \notin {"select", "older"}, ~ AsksForList(c), c.op = "send" => SendOk(c),
           calls[s].op \notin {"select", "older"}, ~ AsksForList(calls[s]),
           UNCHANGED <<activeChat, messages, currentPage, loadingOlder, trust>>,
           UNCHANGED <<activeChat, key, alone>>
    PROVE  Good'
<1>1. Asked' /\ WholeList'
  BY ListAside
<1>2. Keyed' /\ Typed'
  BY KeyedAside, TypedKept DEF IInv
<1> QED
  BY <1>1, <1>2 DEF Good

(* The calls outside selectChat that load the list again.                  *)
LEMMA AgainGood ==
    ASSUME IInv, NEW s \in 1 .. Slots, NEW u \in BOOLEAN,
           calls' = [calls EXCEPT ![s] = [op |-> "reload", chat |-> activeChat, unlock |-> u]],
           calls[s].op # "select", activeChat # NoChat, StartReload,
           UNCHANGED <<activeChat, key, alone>>
    PROVE  Good'
<1> DEFINE c == [op |-> "reload", chat |-> activeChat, unlock |-> u]
<1>1. TypeOK /\ Keyed /\ Typed /\ activeChat \in Chats
  BY DEF IInv, TypeOK
<1>2. /\ c \in Call /\ AsksForList(c) /\ c.chat = activeChat' /\ activeChat' # NoChat
      /\ c.op \notin {"select", "send"}
  BY <1>1, ReloadIsCall DEF AsksForList
<1>3. calls' = [calls EXCEPT ![s] = c]
  OBVIOUS
<1> HIDE DEF c
<1>4. Asked' /\ WholeList'
  BY <1>1, <1>2, <1>3, ReloadStarts
<1>5. Keyed' /\ Typed'
  BY <1>1, <1>2, <1>3, KeyedAside, TypedKept
<1> QED
  BY <1>4, <1>5 DEF Good

LEMMA AnswerGood ==
    ASSUME IInv, NEW s \in 1 .. Slots, Answer(s)
    PROVE  Good'
<1>1. calls[s] \in Call /\ Typed /\ TypeOK
  BY DEF IInv, TypeOK
<1>2. Idle \in Call /\ Idle.op = "idle" /\ ~ AsksForList(Idle)
  BY IdleIsCall DEF Idle, AsksForList
<1>3. CASE Encrypted(s)
  <2> DEFINE c == [calls[s] EXCEPT !.step = "post", !.to = activeChat]
  <2>1. /\ calls' = [calls EXCEPT ![s] = c] /\ calls[s].op = "send"
        /\ UNCHANGED <<activeChat, messages, currentPage, loadingOlder, trust>>
        /\ UNCHANGED <<activeChat, key, alone>>
    BY <1>3 DEF Encrypted, Becomes, list
  <2>2. calls[s] \in [op : {"send"}, step : {"encrypt", "post"}, typedIn : Chats,
          to : Chats \cup {NoChat}, key : Chats \cup {NoChat},
          saved : Seq(Block), calm : BOOLEAN, listed : BOOLEAN]
    BY <1>1, <2>1 DEF Call, Idle
  <2>3. SendOk(calls[s])
    BY <1>1, <2>1 DEF Typed, Busy, Idle
  <2>4. c \in Call /\ c.op = "send"
    BY <1>1, <2>2 DEF Call, TypeOK
  <2>5. SendOk(c)
    <3>1. calls[s].step = "encrypt"
      BY <1>3 DEF Encrypted
    <3> QED
      BY <2>2, <2>3, <3>1 DEF SendOk
  <2> HIDE DEF c
  <2>6. ~ AsksForList(calls[s]) /\ ~ AsksForList(c)
    BY <2>1, <2>4 DEF AsksForList
  <2> QED
    BY <2>1, <2>4, <2>5, <2>6, AsideGood
<1>4. CASE Posted(s)
  <2>1. calls[s].op = "send" /\ ~ AsksForList(calls[s])
    BY <1>4 DEF Posted, AsksForList
  <2>2. CASE activeChat = NoChat
    BY <1>2, <1>4, <2>1, <2>2, AsideGood DEF Posted, Becomes
  <2>3. CASE activeChat # NoChat
    BY <1>4, <2>1, <2>3, AgainGood DEF Posted, Becomes
  <2> QED
    BY <2>2, <2>3
<1>5. CASE Refused(s)
  <2>1. /\ calls[s].op = "send" /\ ~ AsksForList(calls[s])
        /\ calls' = [calls EXCEPT ![s] = Idle]
        /\ UNCHANGED <<activeChat, currentPage, loadingOlder>>
        /\ UNCHANGED <<activeChat, key, alone>>
    BY <1>5 DEF Refused, Becomes, AsksForList
  <2>2. CASE messages' = messages
    <3>1. trust' = trust
      BY <1>5, <2>2 DEF Refused
    <3> QED
      BY <1>2, <2>1, <2>2, <3>1, AsideGood
  <2>3. CASE messages' # messages
    <3>1. trust' = "broken"
      BY <1>5, <2>3 DEF Refused
    <3>2. Asked' /\ WholeList'
      BY <3>1 DEF Asked, WholeList
    <3>3. Keyed' /\ Typed'
      BY <1>1, <1>2, <2>1, KeyedAside, TypedKept DEF IInv
    <3> QED
      BY <3>2, <3>3 DEF Good
  <2> QED
    BY <2>2, <2>3
<1>6. CASE Cancelled(s) \/ ContinueAnswered(s)
  <2>1. /\ calls[s].op \in {"cancel", "continue"} /\ ~ AsksForList(calls[s])
        /\ calls' = [calls EXCEPT ![s] = Idle]
        /\ UNCHANGED <<activeChat, messages, currentPage, loadingOlder, trust>>
        /\ UNCHANGED <<activeChat, key, alone>>
    BY <1>6 DEF Cancelled, ContinueAnswered, Becomes, AsksForList, list
  <2> QED
    BY <1>2, <2>1, AsideGood
<1>7. CASE VariantAnswered(s)
  <2>1. /\ calls[s].op \in {"regenerate", "variant"} /\ ~ AsksForList(calls[s])
        /\ UNCHANGED <<activeChat, messages, loadingOlder>>
        /\ UNCHANGED <<activeChat, key, alone>>
    BY <1>7 DEF VariantAnswered, AsksForList
  <2>2. \/ /\ activeChat # NoChat /\ StartReload
            /\ \E u \in BOOLEAN : calls' =
                 [calls EXCEPT ![s] = [op |-> "reload", chat |-> activeChat, unlock |-> u]]
        \/ calls' = [calls EXCEPT ![s] = Idle] /\ UNCHANGED <<currentPage, trust>>
    BY <1>7 DEF VariantAnswered, Becomes
  <2>3. CASE calls' = [calls EXCEPT ![s] = Idle] /\ UNCHANGED <<currentPage, trust>>
    BY <1>2, <2>1, <2>3, AsideGood
  <2>4. CASE ~ (calls' = [calls EXCEPT ![s] = Idle] /\ UNCHANGED <<currentPage, trust>>)
    BY <2>1, <2>2, <2>4, AgainGood
  <2> QED
    BY <2>3, <2>4
<1>8. CASE Reloaded(s)
  <2>1. /\ calls[s].op = "reload" /\ Listed(calls[s].chat)
        /\ calls' = [calls EXCEPT ![s] = Idle]
        /\ UNCHANGED <<activeChat, currentPage, loadingOlder>>
        /\ UNCHANGED <<activeChat, key, alone>>
    BY <1>8 DEF Reloaded, Becomes
  <2>2. s \in Reloading
    BY <1>2, <2>1 DEF Reloading, Busy
  <2>3. Asked' /\ WholeList'
    BY <1>2, <2>1, <2>2, ListArrives
  <2>4. Keyed' /\ Typed'
    BY <1>1, <1>2, <2>1, KeyedAside, TypedKept DEF IInv
  <2> QED
    BY <2>3, <2>4 DEF Good
<1> QED
  BY <1>3, <1>4, <1>5, <1>6, <1>7, <1>8, OlderGood, SelectListedGood, KeyLoadedGood DEF Answer

LEMMA StreamDoneGood ==
    ASSUME IInv, StreamDone
    PROVE  Good'
<1>1. CASE activeChat # NoChat
  <2>1. /\ FreeSlot \in 1 .. Slots /\ calls[FreeSlot].op # "select" /\ StartReload
        /\ calls' = [calls EXCEPT ![FreeSlot] =
              [op |-> "reload", chat |-> activeChat, unlock |-> FALSE]]
        /\ UNCHANGED <<activeChat, key, alone>>
    BY <1>1, FreeSlotIsFree DEF StreamDone
  <2> QED
    BY <1>1, <2>1, AgainGood
<1>2. CASE activeChat = NoChat
  <2>1. UNCHANGED <<activeChat, messages, currentPage, loadingOlder, key, calls, trust, alone>>
    BY <1>2 DEF StreamDone
  <2> QED
    BY <2>1 DEF IInv, Good, Asked, WholeList, Keyed, Typed, SendOk, Reloading,
                LoadingOlder, Selecting, Busy
<1> QED
  BY <1>1, <1>2

LEMMA Inductive == IInv /\ [Next]_vars => IInv'
<1> SUFFICES ASSUME IInv, [Next]_vars
             PROVE  IInv'
  OBVIOUS
<1>1. UNCHANGED <<activeChat, messages, currentPage, loadingOlder, key, calls, trust, alone>>
         => Good'
  BY DEF IInv, Good, Asked, WholeList, Keyed, Typed, SendOk, Reloading,
              LoadingOlder, Selecting, Busy
<1>2. ASSUME StreamFailed
      PROVE  Good'
  <2>1. UNCHANGED <<activeChat, messages, currentPage, loadingOlder, key, calls, trust, alone>>
    BY <1>2 DEF StreamFailed, list
  <2> QED
    BY <1>1, <2>1
<1>3. ASSUME UNCHANGED vars
      PROVE  Good'
  <2>1. UNCHANGED <<activeChat, messages, currentPage, loadingOlder, key, calls, trust, alone>>
    BY <1>3 DEF vars
  <2> QED
    BY <1>1, <2>1
<1>4. Good'
  <2>1. ASSUME NEW chat \in Chats, SelectChat(chat)
        PROVE  Good'
    BY <2>1, SelectGood
  <2>2. CASE LoadOlder \/ DeleteOpenChat \/ SendMessage
    BY <2>2, LoadOlderGood, DeleteGood, SendGood
  <2>3. ASSUME NEW op \in {"cancel", "regenerate", "variant", "continue"}, Press(op)
        PROVE  Good'
    BY <2>3, PressGood
  <2>4. ASSUME NEW s \in 1 .. Slots, Answer(s)
        PROVE  Good'
    BY <2>4, AnswerGood
  <2>5. CASE StreamDone
    BY <2>5, StreamDoneGood
  <2> QED
    BY <1>2, <1>3, <2>1, <2>2, <2>3, <2>4, <2>5 DEF Next
<1>5. TypeOK'
  BY TypeInductive DEF IInv
<1> QED
  BY <1>4, <1>5 DEF IInv, Good

LEMMA Initially == Init => IInv
<1> SUFFICES ASSUME Init
             PROVE  IInv
  OBVIOUS
<1>1. TypeOK
  <2>1. calls \in [1 .. Slots -> Call]
    BY IdleIsCall DEF Init
  <2>2. messages \in Seq(Block) /\ currentPage \in 1 .. Pages /\ ops \in 0 .. MaxOps
    BY PageAssumption DEF Init
  <2> QED
    BY <2>1, <2>2 DEF Init, TypeOK
<1>2. Busy = {}
  BY DEF Init, Busy
<1> QED
  BY <1>1, <1>2 DEF Init, IInv, Asked, WholeList, Keyed, Typed, Reloading,
                    LoadingOlder, Selecting

-----------------------------------------------------------------------------
(* The lock.                                                               *)

Unlocks(c) ==
    \/ c.op = "send" /\ c.step = "post"
    \/ c.op = "regenerate"
    \/ c.op = "reload" /\ c.unlock

Underway == \E s \in 1 .. Slots : Unlocks(calls[s])

LEMMA UnlockingCalls == Unlocking # {} <=> Underway
<1>1. Idle.op = "idle"
  BY DEF Idle
<1> QED
  BY <1>1 DEF Unlocking, Underway, Unlocks, Busy

(* A call that changes without ceasing to unlock the page.                 *)
LEMMA StillUnderway ==
    ASSUME TypeOK, NEW s \in 1 .. Slots, NEW c, calls' = [calls EXCEPT ![s] = c],
           Unlocks(calls[s]) => Unlocks(c), Underway
    PROVE  Underway'
<1>1. calls'[s] = c /\ \A t \in 1 .. Slots : t # s => calls'[t] = calls[t]
  BY DEF TypeOK
<1>2. PICK t \in 1 .. Slots : Unlocks(calls[t])
  BY DEF Underway
<1>3. Unlocks(calls'[t])
  BY <1>1, <1>2
<1> QED
  BY <1>3 DEF Underway, Unlocks

LEMMA NowUnderway ==
    ASSUME TypeOK, NEW s \in 1 .. Slots, NEW c, calls' = [calls EXCEPT ![s] = c], Unlocks(c)
    PROVE  Underway'
<1>1. calls'[s] = c
  BY DEF TypeOK
<1> QED
  BY <1>1 DEF Underway, Unlocks

LEMMA LockStep ==
    ASSUME TypeOK, LockHeld, [Next]_vars
    PROVE  LockHeld'
<1> SUFFICES ASSUME isGenerating', ~isContinuing', stream' = NoStream
             PROVE  Underway'
  <2>1. (Unlocking # {} <=> Underway)'
    BY UnlockingCalls, PTL
  <2> QED
    BY <2>1 DEF LockHeld
<1>1. isGenerating /\ ~isContinuing /\ stream = NoStream => Underway
  BY UnlockingCalls DEF LockHeld
<1>2. ASSUME NEW c, Begin(c), isGenerating /\ ~isContinuing /\ stream = NoStream
      PROVE  Underway'
  <2>1. FreeSlot \in 1 .. Slots /\ ~Unlocks(calls[FreeSlot])
    BY <1>2, FreeSlotIsFree DEF Begin, Unlocks
  <2> QED
    BY <1>1, <1>2, <2>1, StillUnderway DEF Begin
<1>3. ASSUME NEW chat \in Chats, SelectChat(chat) PROVE FALSE
  BY <1>3 DEF SelectChat, generation
<1>4. CASE LoadOlder
  BY <1>2, <1>4 DEF LoadOlder, generation
<1>5. CASE DeleteOpenChat
  BY <1>1, <1>5 DEF DeleteOpenChat, generation, Underway
<1>6. CASE SendMessage
  <2> DEFINE c == [op |-> "send", step |-> IF key = NoChat THEN "post" ELSE "encrypt",
                   typedIn |-> activeChat, to |-> activeChat, key |-> key, saved |-> messages,
                   calm |-> alone /\ Selecting = {}, listed |-> trust = "whole"]
  <2>1. Begin(c) /\ isGenerating' = (isGenerating \/ key = NoChat)
        /\ UNCHANGED <<isContinuing, stream>>
    BY <1>6 DEF SendMessage
  <2>2. CASE isGenerating
    <3> HIDE DEF c
    <3> QED
      BY <1>2, <2>1, <2>2
  <2>3. CASE key = NoChat
    <3>1. Unlocks(c)
      BY <2>3 DEF Unlocks
    <3> HIDE DEF c
    <3>2. FreeSlot \in 1 .. Slots /\ calls' = [calls EXCEPT ![FreeSlot] = c]
      BY <2>1, FreeSlotIsFree DEF Begin
    <3> QED
      BY <3>1, <3>2, NowUnderway
  <2> QED
    BY <2>1, <2>2, <2>3
<1>7. ASSUME NEW op \in {"cancel", "regenerate", "variant", "continue"}, Press(op)
      PROVE  Underway'
  <2>1. Begin([op |-> op]) /\ isGenerating' = (isGenerating \/ op = "regenerate")
        /\ UNCHANGED <<isContinuing, stream>>
    BY <1>7 DEF Press
  <2>2. CASE op = "regenerate"
    <3>1. FreeSlot \in 1 .. Slots /\ calls' = [calls EXCEPT ![FreeSlot] = [op |-> op]]
      BY <2>1, FreeSlotIsFree DEF Begin
    <3>2. Unlocks([op |-> op])
      BY <2>2 DEF Unlocks
    <3> QED
      BY <3>1, <3>2, NowUnderway
  <2> QED
    BY <1>2, <2>1, <2>2
<1>8. ASSUME NEW s \in 1 .. Slots, Answer(s) PROVE Underway'
  <2> USE DEF Becomes
  <2>1. Idle.op = "idle" /\ ~Unlocks(Idle)
    BY DEF Idle, Unlocks
  <2>2. CASE OlderLoaded(s)
    BY <1>1, <2>2, StillUnderway DEF OlderLoaded, generation, Unlocks
  <2>3. CASE SelectListed(s)
    BY <1>1, <2>3, StillUnderway DEF SelectListed, generation, Unlocks
  <2>4. CASE KeyLoaded(s)
    BY <1>1, <2>4, StillUnderway DEF KeyLoaded, generation, Unlocks
  <2>5. CASE Encrypted(s)
    <3> DEFINE c == [calls[s] EXCEPT !.step = "post", !.to = activeChat]
    <3>1. calls' = [calls EXCEPT ![s] = c] /\ calls[s].op = "send" /\ calls[s] \in Call
      BY <2>5 DEF Encrypted, TypeOK
    <3>2. Unlocks(c)
      BY <3>1 DEF Unlocks, Call, Idle
    <3> HIDE DEF c
    <3> QED
      BY <3>1, <3>2, NowUnderway
  <2>6. CASE Posted(s)
    BY <2>6, PageAssumption DEF Posted, TypeOK
  <2>7. CASE Refused(s)
    BY <2>7 DEF Refused, LockAfterRefusal
  <2>8. CASE Cancelled(s)
    BY <1>1, <2>8, StillUnderway DEF Cancelled, Unlocks
  <2>9. CASE VariantAnswered(s)
    <3>1. UNCHANGED <<isContinuing, stream>> /\ calls[s].op \in {"regenerate", "variant"}
      BY <2>9 DEF VariantAnswered
    <3>2. CASE /\ Becomes(s, [op |-> "reload", chat |-> activeChat, unlock |-> calls[s].op = "regenerate"])
               /\ UNCHANGED isGenerating
      <4>1. Unlocks(calls[s]) => calls[s].op = "regenerate"
        BY <3>1 DEF Unlocks
      <4>2. Unlocks(calls[s]) =>
              Unlocks([op |-> "reload", chat |-> activeChat, unlock |-> calls[s].op = "regenerate"])
        BY <4>1 DEF Unlocks
      <4> QED
        BY <1>1, <3>1, <3>2, <4>2, StillUnderway
    <3>3. CASE Becomes(s, Idle) /\ isGenerating' = (isGenerating /\ calls[s].op # "regenerate")
      BY <1>1, <3>1, <3>3, StillUnderway DEF Unlocks
    <3> QED
      BY <2>9, <3>2, <3>3 DEF VariantAnswered
  <2>10. CASE Reloaded(s)
    BY <1>1, <2>10, StillUnderway DEF Reloaded, Unlocks
  <2>11. CASE ContinueAnswered(s)
    BY <1>1, <2>11, StillUnderway DEF ContinueAnswered, Unlocks
  <2> QED
    BY <1>8, <2>2, <2>3, <2>4, <2>5, <2>6, <2>7, <2>8, <2>9, <2>10, <2>11 DEF Answer
<1>9. CASE StreamDone \/ StreamFailed
  BY <1>9 DEF StreamDone, StreamFailed, Unlock
<1>10. CASE UNCHANGED vars
  BY <1>1, <1>10 DEF vars, Underway
<1> QED
  BY <1>3, <1>4, <1>5, <1>6, <1>7, <1>8, <1>9, <1>10 DEF Next

-----------------------------------------------------------------------------
(* The feeds.                                                              *)

Counts == [UserChats -> [count : Nat, latest : Nat]]
BellData == [count : Nat, items : SUBSET [id : Nat, read : BOOLEAN]]
Data == IF watch = "bell" THEN BellData ELSE Counts

(* What the page gets says what is compared.                               *)
Says(data, sign) == IF watch = "bell" THEN data.count = sign.count ELSE data = sign

Sound(q) ==
    /\ q # Resting /\ q.first \in BOOLEAN
    /\ q.at = "answer" => q.data \in Data /\ Says(q.data, q.sign)

First(q) == q # Resting /\ q.first
Later(q) == q # Resting /\ ~q.first

FeedShape ==
    /\ conn \in [Streams -> {"unused", "starting", "open", "ended"}]
    /\ timer \in [Streams -> BOOLEAN]
    /\ DOMAIN lastSnapshot = Streams
    /\ pipe \in [Streams -> Seq(Data)]
    /\ DOMAIN ticks = Streams
    /\ early \in SUBSET Streams

TickShape ==
    \A s \in Streams :
        /\ DOMAIN ticks[s] = Ticks(s)
        /\ \A k \in Ticks(s) : ticks[s][k] # Resting => Sound(ticks[s][k])

(* A page has one connection at a time.                                    *)
OneConnection ==
    \A s \in Streams : conn[s] # "unused" => \A r \in 1 .. s - 1 : conn[r] = "ended"

(* A stream sends and ticks once it has started, and stops when it ends; a *)
(* page that went before that is the exception.                            *)
Life(s) ==
    /\ conn[s] \in {"unused", "starting"} => ~timer[s] /\ lastSnapshot[s] = NoSnapshot
    /\ pipe[s] # <<>> => conn[s] = "open"
    /\ s \in early => conn[s] = "ended"
    /\ conn[s] = "ended" /\ timer[s] => s \in early
    /\ \A k \in Ticks(s) :
          /\ First(ticks[s][k]) => k = 1 /\ (conn[s] = "starting" \/ s \in early)
          /\ Later(ticks[s][k]) => conn[s] \in {"open", "ended"}

Lifetimes == \A s \in Streams : Life(s)

(* The last event on its way is the snapshot that later ones are compared  *)
(* with.                                                                   *)
LastSent ==
    \A s \in Streams : pipe[s] # <<>> => Says(pipe[s][Len(pipe[s])], lastSnapshot[s])

StreamInv == FeedShape /\ TickShape /\ OneConnection /\ Lifetimes /\ LastSent

DataShape ==
    /\ posts \in [UserChats -> Seq({"visible", "hidden", "gone"})]
    /\ notices \in Seq({"unread", "read", "gone"})
    /\ \A r \in 1 .. Requests :
          request[r] # Resting => request[r].op \in {"refresh", "all", "read", "dismiss"}
    /\ watch # "manager" => \A p \in 1 .. Polls : poll[p] = Resting

FeedInv == StreamInv /\ DataShape /\ ToldPageShows

(* What a step of a feed does to its streams, but for an event taken.       *)
Sending ==
    \/ \E q : Connect(q) /\ Sound(q) /\ q.first
    \/ \E s \in Streams : \E q : Tick(s, q) /\ Sound(q) /\ ~q.first
    \/ \E s \in Streams : \E k \in Ticks(s) : \E q :
          Query(s, k, q) /\ ticks[s][k] # Resting /\ Sound(q) /\ q.first = ticks[s][k].first
    \/ \E s \in Streams : \E k \in Ticks(s) : Ended(s, k) \/ QueryFails(s, k)
    \/ \E s \in Streams : Lose(s)
    \/ UNCHANGED streamVars

StreamStep == Sending \/ \E s \in Streams : Delivered(s)

LEMMA RestingIdle == Resting.at = "idle"
BY DEF Resting

(* One slot of a stream's ticks changes.                                   *)
Takes(s, k, q) == ticks' = [ticks EXCEPT ![s][k] = q]

LEMMA TickChanges ==
    ASSUME FeedShape, TickShape, NEW s \in Streams, NEW k \in Ticks(s), NEW q, Takes(s, k, q)
    PROVE  /\ DOMAIN ticks' = Streams
           /\ \A r \in Streams : DOMAIN ticks'[r] = Ticks(r)
           /\ ticks'[s][k] = q
           /\ \A r \in Streams : \A j \in Ticks(r) : r # s \/ j # k => ticks'[r][j] = ticks[r][j]
<1>1. ticks' = [ticks EXCEPT ![s] = [ticks[s] EXCEPT ![k] = q]]
  BY DEF Takes
<1>2. DOMAIN ticks' = Streams /\ \A r \in Streams : r # s => ticks'[r] = ticks[r]
  BY <1>1 DEF FeedShape
<1>3. ticks'[s] = [ticks[s] EXCEPT ![k] = q]
  BY <1>1 DEF FeedShape
<1>4. DOMAIN ticks'[s] = Ticks(s) /\ ticks'[s][k] = q
      /\ \A j \in Ticks(s) : j # k => ticks'[s][j] = ticks[s][j]
  BY <1>3 DEF TickShape
<1> QED
  BY <1>2, <1>4 DEF TickShape

(* A send either meets a closed controller or is the last event.           *)
LEMMA SendShape ==
    ASSUME FeedShape, LastSent, watch' = watch, NEW s \in Streams, NEW q, Sound(q), q.at = "answer",
           Send(s, q), Lifetimes
    PROVE  /\ pipe' \in [Streams -> Seq(Data)] /\ DOMAIN lastSnapshot' = Streams
           /\ \A r \in Streams : r # s => pipe'[r] = pipe[r] /\ lastSnapshot'[r] = lastSnapshot[r]
           /\ conn[s] = "ended" => pipe'[s] = pipe[s] /\ lastSnapshot'[s] = lastSnapshot[s]
           /\ conn[s] # "ended" =>
                 /\ pipe'[s] # <<>> /\ lastSnapshot'[s] = q.sign
                 /\ Says(pipe'[s][Len(pipe'[s])], lastSnapshot'[s])
<1>1. CASE conn[s] = "ended"
  BY <1>1 DEF Send, FeedShape
<1>2. CASE conn[s] # "ended"
  <2>1. /\ lastSnapshot' = [lastSnapshot EXCEPT ![s] = q.sign]
        /\ pipe' = [pipe EXCEPT ![s] = Append(pipe[s], q.data)]
    BY <1>2 DEF Send
  <2>2. pipe[s] \in Seq(Data) /\ q.data \in Data /\ Says(q.data, q.sign)
    BY DEF FeedShape, Sound
  <2> DEFINE p == Append(pipe[s], q.data)
  <2>3. p \in Seq(Data) /\ Len(p) = Len(pipe[s]) + 1 /\ p[Len(p)] = q.data
    BY <2>2, AppendProperties, LenProperties
  <2>4. p # <<>>
    BY <2>2, <2>3, LenProperties
  <2>5. pipe' = [pipe EXCEPT ![s] = p]
    BY <2>1
  <2> HIDE DEF p
  <2> QED
    BY <1>2, <2>1, <2>2, <2>3, <2>4, <2>5 DEF FeedShape
<1> QED
  BY <1>1, <1>2

LEMMA SaysKept == ASSUME watch' = watch, NEW d, NEW g PROVE (Says(d, g))' <=> Says(d', g')
BY DEF Says

LEMMA DataKept == watch' = watch => Data' = Data
BY DEF Data

LEMMA SoundKept == ASSUME watch' = watch, NEW q PROVE Sound(q)' <=> Sound(q)
BY DEF Sound, Says, Data

(* The ticks stay sound when one slot takes a sound query or rests.        *)
LEMMA TicksSound ==
    ASSUME FeedShape, TickShape, watch' = watch, NEW s \in Streams, NEW k \in Ticks(s), NEW q,
           Takes(s, k, q), q = Resting \/ Sound(q)
    PROVE  TickShape'
<1> SUFFICES ASSUME NEW r \in Streams, NEW j \in Ticks(r), ticks'[r][j] # Resting
             PROVE  Sound(ticks[r][j])'
  BY TickChanges DEF TickShape, Streams, Ticks
<1>1. CASE r = s /\ j = k
  <2>1. ticks'[r][j] = q
    BY <1>1, TickChanges
  <2>2. Sound(q)
    BY <2>1
  <2> QED
    BY <2>1, <2>2 DEF Sound, Says, Data
<1>2. CASE r # s \/ j # k
  <2>1. ticks'[r][j] = ticks[r][j] /\ Sound(ticks[r][j])
    BY <1>2, TickChanges DEF TickShape
  <2> QED
    BY <2>1 DEF Sound, Says, Data
<1> QED
  BY <1>1, <1>2

LEMMA ConnectKeeps ==
    ASSUME StreamInv, watch' = watch, NEW q, Connect(q), Sound(q), q.first
    PROVE  StreamInv'
<1>1. PICK s \in Streams :
        /\ conn[s] = "unused" /\ \A r \in 1 .. s - 1 : conn[r] = "ended"
        /\ conn' = [conn EXCEPT ![s] = "starting"]
        /\ ticks' = [ticks EXCEPT ![s][1] = q]
  BY DEF Connect
<1>2. UNCHANGED <<timer, lastSnapshot, pipe, early>>
  BY DEF Connect
<1>3. 1 \in Ticks(s)
  BY FeedAssumption DEF Ticks, Streams
<1>4. TickShape'
  <2>1. Takes(s, 1, q)
    BY <1>1 DEF Takes
  <2> QED
    BY <1>3, <2>1, TicksSound DEF StreamInv
<1>5. /\ DOMAIN ticks' = Streams
      /\ ticks'[s][1] = q
      /\ \A r \in Streams : \A j \in Ticks(r) : r # s \/ j # 1 => ticks'[r][j] = ticks[r][j]
  <2>1. FeedShape /\ TickShape /\ Takes(s, 1, q)
    BY <1>1 DEF StreamInv, Takes
  <2> QED
    BY <1>3, <2>1, TickChanges
<1>6. conn'[s] = "starting" /\ \A r \in Streams : r # s => conn'[r] = conn[r]
  BY <1>1 DEF StreamInv, FeedShape
<1>7. FeedShape'
  BY <1>1, <1>2, <1>5, DataKept DEF StreamInv, FeedShape, Streams
<1>8. OneConnection'
  <2> SUFFICES ASSUME NEW t \in Streams, conn'[t] # "unused", NEW r \in 1 .. t - 1
               PROVE  conn'[r] = "ended"
    BY DEF OneConnection, Streams
  <2>1. r \in Streams /\ r < t
    BY FeedAssumption DEF Streams
  <2>2. CASE t = s
    BY <1>1, <1>6, <2>1, <2>2
  <2>3. CASE t # s
    <3>1. conn[r] = "ended"
      BY <1>6, <2>1, <2>3 DEF StreamInv, OneConnection
    <3> QED
      BY <1>1, <1>6, <2>1, <3>1
  <2> QED
    BY <2>2, <2>3
<1>9. Lifetimes'
  <2> SUFFICES ASSUME NEW t \in Streams PROVE Life(t)'
    BY DEF Lifetimes, Streams
  <2>1. Life(t)
    BY DEF StreamInv, Lifetimes
  <2>2. CASE t = s
    <3>1. \A k \in Ticks(t) : k # 1 => ~First(ticks'[t][k]) /\ ~Later(ticks'[t][k])
      BY <1>1, <1>5, <2>1, <2>2 DEF Life
    <3>2. First(q) /\ ~Later(q)
      BY DEF First, Later, Sound
    <3> QED
      BY <1>1, <1>2, <1>5, <1>6, <2>1, <2>2, <3>1, <3>2 DEF Life, First, Later, Ticks
  <2>3. CASE t # s
    BY <1>2, <1>5, <1>6, <2>1, <2>3 DEF Life, First, Later, Ticks
  <2> QED
    BY <2>2, <2>3
<1>10. LastSent'
  BY <1>2 DEF StreamInv, LastSent, Says, Streams
<1> QED
  BY <1>4, <1>7, <1>8, <1>9, <1>10 DEF StreamInv

(* A tick begins or goes on: nothing else changes.                         *)
LEMMA SlotTakes ==
    ASSUME StreamInv, watch' = watch, NEW s \in Streams, NEW k \in Ticks(s), NEW q, Sound(q),
           Takes(s, k, q),
           UNCHANGED <<conn, timer, lastSnapshot, pipe, early>>,
           First(q) => First(ticks[s][k]),
           Later(q) => conn[s] \in {"open", "ended"}
    PROVE  StreamInv'
<1>1. TickShape'
  BY TicksSound DEF StreamInv
<1>2. /\ DOMAIN ticks' = Streams
      /\ ticks'[s][k] = q
      /\ \A r \in Streams : \A j \in Ticks(r) : r # s \/ j # k => ticks'[r][j] = ticks[r][j]
  <2>1. FeedShape /\ TickShape
    BY DEF StreamInv
  <2> QED
    BY <2>1, TickChanges
<1>3. FeedShape'
  BY <1>2, DataKept DEF StreamInv, FeedShape, Streams
<1>4. OneConnection'
  BY DEF StreamInv, OneConnection, Streams
<1>5. Lifetimes'
  <2> SUFFICES ASSUME NEW t \in Streams PROVE Life(t)'
    BY DEF Lifetimes, Streams
  <2>1. Life(t)
    BY DEF StreamInv, Lifetimes
  <2>2. \A j \in Ticks(t) :
          /\ First(ticks'[t][j]) => First(ticks[t][j])
          /\ Later(ticks'[t][j]) => conn[t] \in {"open", "ended"}
    BY <1>2, <2>1 DEF Life
  <2> QED
    BY <2>1, <2>2 DEF Life, First, Later, Ticks
<1>6. LastSent'
  BY DEF StreamInv, LastSent, Says, Streams
<1> QED
  BY <1>1, <1>3, <1>4, <1>5, <1>6 DEF StreamInv

LEMMA TickKeeps ==
    ASSUME StreamInv, watch' = watch, NEW s \in Streams, NEW q, Tick(s, q), Sound(q), ~q.first
    PROVE  StreamInv'
<1>1. PICK k \in Ticks(s) : ticks' = [ticks EXCEPT ![s][k] = q]
  BY DEF Tick
<1>2. UNCHANGED <<conn, timer, lastSnapshot, pipe, early>> /\ timer[s]
  BY DEF Tick
<1>3. conn[s] \in {"open", "ended"}
  BY <1>2 DEF StreamInv, Lifetimes, Life, FeedShape
<1>4. ~First(q)
  BY DEF First
<1> QED
  BY <1>1, <1>2, <1>3, <1>4, SlotTakes DEF Takes

LEMMA QueryKeeps ==
    ASSUME StreamInv, watch' = watch, NEW s \in Streams, NEW k \in Ticks(s), NEW q, Query(s, k, q),
           ticks[s][k] # Resting, Sound(q), q.first = ticks[s][k].first
    PROVE  StreamInv'
<1>1. ticks' = [ticks EXCEPT ![s][k] = q] /\ UNCHANGED <<conn, timer, lastSnapshot, pipe, early>>
  BY DEF Query
<1>2. First(q) => First(ticks[s][k])
  BY DEF First
<1>3. Later(q) => conn[s] \in {"open", "ended"}
  BY DEF Later, StreamInv, Lifetimes, Life
<1> QED
  BY <1>1, <1>2, <1>3, SlotTakes DEF Takes

(* A tick ends, with or without an event: the stream keeps its place.      *)
Rests(s, k) ==
    /\ ticks' = [ticks EXCEPT ![s][k] = Resting] /\ early' = early
    /\ timer' = [timer EXCEPT ![s] = timer[s] \/ ticks[s][k].first]
    /\ conn' = [conn EXCEPT ![s] = IF conn[s] = "ended" \/ ~ticks[s][k].first THEN conn[s] ELSE "open"]

Told(s) ==
    /\ pipe' \in [Streams -> Seq(Data)] /\ DOMAIN lastSnapshot' = Streams
    /\ \A r \in Streams : r # s => pipe'[r] = pipe[r] /\ lastSnapshot'[r] = lastSnapshot[r]
    /\ conn[s] = "ended" => pipe'[s] = <<>>
    /\ pipe'[s] # <<>> => Says(pipe'[s][Len(pipe'[s])], lastSnapshot'[s])

LEMMA SlotRests ==
    ASSUME StreamInv, watch' = watch, NEW s \in Streams, NEW k \in Ticks(s), ticks[s][k] # Resting,
           Rests(s, k), Told(s)
    PROVE  StreamInv'
<1>0. FeedShape /\ TickShape /\ Takes(s, k, Resting)
  BY DEF StreamInv, Rests, Takes
<1>1. TickShape'
  BY <1>0, TicksSound
<1>2. /\ DOMAIN ticks' = Streams
      /\ ticks'[s][k] = Resting
      /\ \A r \in Streams : \A j \in Ticks(r) : r # s \/ j # k => ticks'[r][j] = ticks[r][j]
  BY <1>0, TickChanges
<1>3. ticks[s][k].first \in BOOLEAN /\ timer \in [Streams -> BOOLEAN]
      /\ conn \in [Streams -> {"unused", "starting", "open", "ended"}]
  BY DEF StreamInv, TickShape, FeedShape, Sound
<1>20. /\ timer' = [timer EXCEPT ![s] = timer[s] \/ ticks[s][k].first]
       /\ conn' = [conn EXCEPT ![s] = IF conn[s] = "ended" \/ ~ticks[s][k].first THEN conn[s] ELSE "open"]
       /\ early' = early
  BY DEF Rests
<1>4. /\ timer'[s] = (timer[s] \/ ticks[s][k].first)
      /\ conn'[s] = IF conn[s] = "ended" \/ ~ticks[s][k].first THEN conn[s] ELSE "open"
      /\ \A r \in Streams : r # s => timer'[r] = timer[r] /\ conn'[r] = conn[r]
  BY <1>3, <1>20
<1>5. FeedShape'
  <2>1. timer' \in [Streams -> BOOLEAN]
    BY <1>3, <1>20
  <2>2. conn' \in [Streams -> {"unused", "starting", "open", "ended"}]
    BY <1>3, <1>20
  <2> QED
    BY <1>2, <1>20, <2>1, <2>2, DataKept DEF StreamInv, FeedShape, Streams, Told
<1>6. Life(s)
  BY DEF StreamInv, Lifetimes
<1>7. First(ticks[s][k]) \/ Later(ticks[s][k])
  BY <1>3 DEF First, Later
<1>8. conn[s] \in {"starting", "open", "ended"} /\ (conn[s] = "starting" <=> conn[s] # "ended" /\ ticks[s][k].first)
  BY <1>6, <1>7 DEF Life, First, Later
<1>9. OneConnection'
  <2> SUFFICES ASSUME NEW t \in Streams, conn'[t] # "unused", NEW r \in 1 .. t - 1
               PROVE  conn'[r] = "ended"
    BY DEF OneConnection, Streams
  <2>1. r \in Streams
    BY FeedAssumption DEF Streams
  <2>2. conn[t] # "unused"
    BY <1>4, <1>8
  <2>3. conn[r] = "ended"
    BY <2>2 DEF StreamInv, OneConnection
  <2> QED
    BY <1>4, <2>1, <2>3
<1>10. Lifetimes'
  <2> SUFFICES ASSUME NEW t \in Streams PROVE Life(t)'
    BY DEF Lifetimes, Streams
  <2>1. Life(t)
    BY DEF StreamInv, Lifetimes
  <2>2. CASE t = s
    <3>1. \A j \in Ticks(s) : j # k => ticks'[s][j] = ticks[s][j]
      BY <1>2
    <3>2. ~First(ticks'[s][k]) /\ ~Later(ticks'[s][k])
      BY <1>2 DEF First, Later
    <3>3. CASE conn[s] = "ended"
      <4>1. conn'[s] = "ended" /\ pipe'[s] = <<>>
        BY <1>4, <3>3 DEF Told
      <4>2. ticks[s][k].first => s \in early
        BY <1>6, <1>7, <3>3 DEF Life, First, Later
      <4>3. conn'[s] = "ended" /\ timer'[s] => s \in early'
        BY <1>4, <1>6, <1>20, <3>3, <4>2 DEF Life
      <4>4. \A j \in Ticks(s) :
              /\ First(ticks'[s][j]) => j = 1 /\ (conn'[s] = "starting" \/ s \in early')
              /\ Later(ticks'[s][j]) => conn'[s] \in {"open", "ended"}
        BY <1>6, <1>20, <3>1, <3>2, <3>3, <4>1 DEF Life
      <4> QED
        BY <2>2, <4>1, <4>3, <4>4 DEF Life, First, Later, Ticks
    <3>4. CASE conn[s] # "ended"
      <4>1. conn'[s] = "open" /\ s \notin early
        BY <1>4, <1>6, <1>8, <3>4 DEF Life
      <4>2. \A j \in Ticks(s) : ~First(ticks'[s][j])
        <5> SUFFICES ASSUME NEW j \in Ticks(s), First(ticks'[s][j]) PROVE FALSE
          OBVIOUS
        <5>1. j # k /\ First(ticks[s][j])
          BY <3>1, <3>2
        <5>2. j = 1 /\ conn[s] = "starting"
          BY <1>6, <4>1, <5>1 DEF Life
        <5>3. ticks[s][k].first
          BY <1>8, <5>2
        <5>4. k = 1
          BY <1>6, <1>7, <5>3 DEF Life, First, Later
        <5> QED
          BY <5>1, <5>2, <5>4
      <4> QED
        BY <1>20, <2>2, <4>1, <4>2 DEF Life, First, Later, Ticks
    <3> QED
      BY <3>3, <3>4
  <2>3. CASE t # s
    BY <1>2, <1>4, <1>20, <2>1, <2>3 DEF Life, First, Later, Ticks, Told
  <2> QED
    BY <2>2, <2>3
<1>11. LastSent'
  <2> SUFFICES ASSUME NEW t \in Streams, pipe'[t] # <<>>
               PROVE  Says(pipe'[t][Len(pipe'[t])], lastSnapshot'[t])
    BY DEF LastSent, Streams, Says
  <2>1. CASE t = s
    BY <2>1 DEF Told
  <2>2. CASE t # s
    BY <2>2 DEF StreamInv, LastSent, Told
  <2> QED
    BY <2>1, <2>2
<1> QED
  BY <1>1, <1>5, <1>9, <1>10, <1>11 DEF StreamInv

LEMMA SentTold ==
    ASSUME StreamInv, watch' = watch, NEW s \in Streams, NEW q, Sound(q), q.at = "answer", Send(s, q)
    PROVE  Told(s)
<1>1. FeedShape /\ LastSent /\ Lifetimes /\ Life(s)
  BY DEF StreamInv, Lifetimes
<1>2. /\ pipe' \in [Streams -> Seq(Data)] /\ DOMAIN lastSnapshot' = Streams
      /\ \A r \in Streams : r # s => pipe'[r] = pipe[r] /\ lastSnapshot'[r] = lastSnapshot[r]
      /\ conn[s] = "ended" => pipe'[s] = pipe[s] /\ lastSnapshot'[s] = lastSnapshot[s]
      /\ conn[s] # "ended" => Says(pipe'[s][Len(pipe'[s])], lastSnapshot'[s])
  BY <1>1, SendShape
<1>3. conn[s] = "ended" => pipe[s] = <<>>
  BY <1>1 DEF Life
<1> QED
  BY <1>2, <1>3 DEF Told

LEMMA UnsentTold ==
    ASSUME StreamInv, NEW s \in Streams, UNCHANGED <<lastSnapshot, pipe>>
    PROVE  Told(s)
BY DEF StreamInv, Told, FeedShape, LastSent, Lifetimes, Life

LEMMA EndKeeps ==
    ASSUME StreamInv, watch' = watch, NEW s \in Streams, NEW k \in Ticks(s),
           Ended(s, k) \/ QueryFails(s, k)
    PROVE  StreamInv'
<1>1. /\ conn \in [Streams -> {"unused", "starting", "open", "ended"}] /\ timer \in [Streams -> BOOLEAN]
      /\ ticks[s][k] # Resting => Sound(ticks[s][k]) /\ ticks[s][k].first \in BOOLEAN
  BY DEF StreamInv, FeedShape, TickShape, Sound
<1>2. CASE Started(s, k)
  <2>1. /\ ticks[s][k].at = "answer" /\ ticks[s][k].first /\ Send(s, ticks[s][k])
        /\ timer' = [timer EXCEPT ![s] = TRUE]
        /\ conn' = [conn EXCEPT ![s] = IF conn[s] = "ended" THEN conn[s] ELSE "open"]
        /\ ticks' = [ticks EXCEPT ![s][k] = Resting]
        /\ early' = early
    BY <1>2 DEF Started
  <2>2. ticks[s][k] # Resting
    BY <2>1, RestingIdle
  <2>3. Rests(s, k)
    BY <1>1, <2>1, <2>2 DEF Rests
  <2>4. Told(s)
    BY <1>1, <2>1, <2>2, SentTold
  <2> QED
    BY <2>2, <2>3, <2>4, SlotRests
<1>3. CASE Ticked(s, k)
  <2>1. /\ ticks[s][k].at = "answer" /\ ~ticks[s][k].first
        /\ Send(s, ticks[s][k]) \/ UNCHANGED <<lastSnapshot, pipe>>
        /\ ticks' = [ticks EXCEPT ![s][k] = Resting]
        /\ UNCHANGED <<conn, timer, early>>
    BY <1>3 DEF Ticked
  <2>2. ticks[s][k] # Resting
    BY <2>1, RestingIdle
  <2>3. Rests(s, k)
    BY <1>1, <2>1, <2>2 DEF Rests
  <2>4. Told(s)
    BY <1>1, <2>1, <2>2, SentTold, UnsentTold
  <2> QED
    BY <2>2, <2>3, <2>4, SlotRests
<1>4. CASE QueryFails(s, k)
  <2>1. /\ ticks[s][k] # Resting
        /\ IF ticks[s][k].first
           THEN /\ timer' = [timer EXCEPT ![s] = TRUE]
                /\ conn' = [conn EXCEPT ![s] = IF conn[s] = "ended" THEN conn[s] ELSE "open"]
           ELSE UNCHANGED <<timer, conn>>
        /\ ticks' = [ticks EXCEPT ![s][k] = Resting]
        /\ UNCHANGED <<lastSnapshot, pipe, early>>
    BY <1>4 DEF QueryFails
  <2>2. Rests(s, k)
    <3>1. CASE ticks[s][k].first
      BY <1>1, <2>1, <3>1 DEF Rests
    <3>2. CASE ~ticks[s][k].first
      BY <1>1, <2>1, <3>2 DEF Rests
    <3> QED
      BY <3>1, <3>2
  <2>3. Told(s)
    BY <2>1, UnsentTold
  <2> QED
    BY <2>1, <2>2, <2>3, SlotRests
<1> QED
  BY <1>2, <1>3, <1>4 DEF Ended

LEMMA LoseKeeps ==
    ASSUME StreamInv, watch' = watch, NEW s \in Streams, Lose(s)
    PROVE  StreamInv'
<1>1. /\ conn[s] \in {"starting", "open"}
      /\ conn' = [conn EXCEPT ![s] = "ended"]
      /\ timer' = [timer EXCEPT ![s] = FALSE]
      /\ pipe' = [pipe EXCEPT ![s] = <<>>]
      /\ lastSnapshot' = [lastSnapshot EXCEPT ![s] = NoSnapshot]
      /\ early' = IF conn[s] = "starting" THEN early \cup {s} ELSE early
      /\ ticks' = ticks
  BY DEF Lose, TimerAfterCancel
<1>2. FeedShape /\ TickShape
  BY DEF StreamInv
<1>3. <<>> \in Seq(Data)
  BY EmptySeq
<1>4. FeedShape'
  BY <1>1, <1>2, <1>3, DataKept DEF FeedShape, Streams
<1>5. TickShape'
  BY <1>1, <1>2, SoundKept DEF TickShape, Streams, Ticks, Sound, Says, Data
<1>6. /\ conn'[s] = "ended" /\ ~timer'[s] /\ pipe'[s] = <<>>
      /\ \A r \in Streams : r # s => /\ conn'[r] = conn[r] /\ timer'[r] = timer[r] /\ pipe'[r] = pipe[r]
                                     /\ lastSnapshot'[r] = lastSnapshot[r]
                                     /\ (r \in early' <=> r \in early)
  BY <1>1, <1>2 DEF FeedShape
<1>7. OneConnection'
  <2> SUFFICES ASSUME NEW t \in Streams, conn'[t] # "unused", NEW r \in 1 .. t - 1
               PROVE  conn'[r] = "ended"
    BY DEF OneConnection, Streams
  <2>1. r \in Streams
    BY FeedAssumption DEF Streams
  <2>2. conn[t] # "unused"
    BY <1>1, <1>6
  <2>3. conn[r] = "ended"
    BY <2>2 DEF StreamInv, OneConnection
  <2> QED
    BY <1>6, <2>1, <2>3
<1>8. Lifetimes'
  <2> SUFFICES ASSUME NEW t \in Streams PROVE Life(t)'
    BY DEF Lifetimes, Streams
  <2>1. Life(t)
    BY DEF StreamInv, Lifetimes
  <2>2. CASE t = s
    <3>1. \A k \in Ticks(s) : First(ticks[s][k]) => k = 1 /\ s \in early'
      BY <1>1, <2>1, <2>2 DEF Life
    <3> QED
      BY <1>1, <1>6, <2>2, <3>1 DEF Life, First, Later, Ticks
  <2>3. CASE t # s
    BY <1>1, <1>6, <2>1, <2>3 DEF Life, First, Later, Ticks
  <2> QED
    BY <2>2, <2>3
<1>9. LastSent'
  <2> SUFFICES ASSUME NEW t \in Streams, pipe'[t] # <<>>
               PROVE  Says(pipe'[t][Len(pipe'[t])], lastSnapshot'[t])
    BY DEF LastSent, Streams, Says
  <2>1. t # s
    BY <1>6
  <2> QED
    BY <1>6, <2>1 DEF StreamInv, LastSent
<1> QED
  BY <1>4, <1>5, <1>7, <1>8, <1>9 DEF StreamInv

LEMMA DeliveredShape ==
    ASSUME StreamInv, NEW s \in Streams, Delivered(s)
    PROVE  /\ conn[s] = "open" /\ pipe[s] # <<>> /\ Head(pipe[s]) \in Data
           /\ pipe'[s] = Tail(pipe[s]) /\ pipe'[s] \in Seq(Data)
           /\ pipe'[s] # <<>> => pipe'[s][Len(pipe'[s])] = pipe[s][Len(pipe[s])]
           /\ pipe'[s] = <<>> => Head(pipe[s]) = pipe[s][Len(pipe[s])]
<1>1. pipe[s] \in Seq(Data) /\ pipe[s] # <<>> /\ pipe' = [pipe EXCEPT ![s] = Tail(pipe[s])]
      /\ pipe \in [Streams -> Seq(Data)]
  BY DEF StreamInv, FeedShape, Delivered
<1>2. conn[s] = "open"
  BY <1>1 DEF StreamInv, Lifetimes, Life
<1>3. pipe'[s] = Tail(pipe[s])
  BY <1>1
<1> DEFINE p == pipe[s]
<1>4. /\ Head(p) \in Data /\ Tail(p) \in Seq(Data) /\ Len(Tail(p)) = Len(p) - 1
      /\ \A i \in 1 .. Len(Tail(p)) : Tail(p)[i] = p[i + 1]
  BY <1>1, HeadTailProperties
<1>5. Len(p) \in Nat /\ Len(p) >= 1 /\ Head(p) = p[1]
  BY <1>1, LenProperties, EmptySeq
<1>6. Tail(p) # <<>> => Tail(p)[Len(Tail(p))] = p[Len(p)]
  <2> SUFFICES ASSUME Tail(p) # <<>> PROVE Tail(p)[Len(Tail(p))] = p[Len(p)]
    OBVIOUS
  <2>1. Len(Tail(p)) # 0
    BY <1>4, EmptySeq
  <2>2. Len(Tail(p)) \in 1 .. Len(Tail(p)) /\ Len(Tail(p)) + 1 = Len(p)
    BY <1>4, <1>5, <2>1
  <2> HIDE DEF p
  <2> QED
    BY <1>4, <2>2
<1>7. Tail(p) = <<>> => Head(p) = p[Len(p)]
  <2> SUFFICES ASSUME Tail(p) = <<>> PROVE Head(p) = p[Len(p)]
    OBVIOUS
  <2>1. Len(Tail(p)) = 0
    BY EmptySeq
  <2> QED
    BY <1>4, <1>5, <2>1
<1> QED
  BY <1>1, <1>2, <1>3, <1>4, <1>6, <1>7

LEMMA DeliveredKeeps ==
    ASSUME StreamInv, watch' = watch, NEW s \in Streams, Delivered(s)
    PROVE  StreamInv'
<1>1. /\ pipe' = [pipe EXCEPT ![s] = Tail(pipe[s])]
      /\ UNCHANGED <<conn, timer, lastSnapshot, ticks, early>>
  BY DEF Delivered
<1>2. /\ conn[s] = "open" /\ pipe'[s] \in Seq(Data) /\ pipe[s] # <<>>
      /\ pipe'[s] # <<>> => pipe'[s][Len(pipe'[s])] = pipe[s][Len(pipe[s])]
  BY DeliveredShape
<1>3. pipe' \in [Streams -> Seq(Data)] /\ \A r \in Streams : r # s => pipe'[r] = pipe[r]
  BY <1>1, <1>2 DEF StreamInv, FeedShape
<1>4. FeedShape'
  BY <1>1, <1>3, DataKept DEF StreamInv, FeedShape, Streams
<1>5. TickShape'
  BY <1>1 DEF StreamInv, TickShape, Streams, Ticks, Sound, Says, Data
<1>6. OneConnection'
  BY <1>1 DEF StreamInv, OneConnection, Streams
<1>7. Lifetimes'
  BY <1>1, <1>2, <1>3 DEF StreamInv, Lifetimes, Life, Streams, Ticks, First, Later
<1>8. LastSent'
  <2> SUFFICES ASSUME NEW t \in Streams, pipe'[t] # <<>>
               PROVE  Says(pipe'[t][Len(pipe'[t])], lastSnapshot'[t])
    BY DEF LastSent, Streams, Says
  <2> QED
    BY <1>1, <1>2, <1>3 DEF StreamInv, LastSent
<1> QED
  BY <1>4, <1>5, <1>6, <1>7, <1>8 DEF StreamInv

LEMMA StreamStepKeeps ==
    ASSUME StreamInv, watch' = watch, StreamStep
    PROVE  StreamInv'
<1>1. CASE UNCHANGED streamVars
  BY <1>1 DEF streamVars, StreamInv, FeedShape, TickShape, OneConnection, Lifetimes, Life, LastSent,
              Sound, Says, Data, First, Later, Streams, Ticks
<1> QED
  BY <1>1, ConnectKeeps, TickKeeps, QueryKeeps, EndKeeps, LoseKeeps, DeliveredKeeps DEF StreamStep, Sending

-----------------------------------------------------------------------------
(* What is counted.                                                        *)

LEMMA CountsNat ==
    ASSUME DataShape, NEW c \in UserChats
    PROVE  /\ Visible(c) \subseteq 1 .. Len(posts[c]) /\ Len(posts[c]) \in Nat
           /\ \A since : CountAfter(c, since) \in Nat
<1>1. posts[c] \in Seq({"visible", "hidden", "gone"})
  BY DEF DataShape
<1>2. Len(posts[c]) \in Nat /\ DOMAIN posts[c] = 1 .. Len(posts[c])
  BY <1>1, LenProperties
<1>3. Visible(c) \subseteq 1 .. Len(posts[c])
  BY <1>2 DEF Visible
<1>4. IsFiniteSet(1 .. Len(posts[c]))
  BY <1>2, FS_Interval
<1>5. ASSUME NEW since PROVE CountAfter(c, since) \in Nat
  <2>1. {i \in Visible(c) : i > since} \subseteq 1 .. Len(posts[c])
    BY <1>3
  <2>2. IsFiniteSet({i \in Visible(c) : i > since})
    BY <1>4, <2>1, FS_Subset
  <2> QED
    BY <2>2, FS_CardinalityType DEF CountAfter
<1> QED
  BY <1>2, <1>3, <1>5

(* A nonempty bounded set of numbers has a greatest one.                   *)
LEMMA GreatestNumber ==
    ASSUME NEW n \in Nat, NEW S, S \subseteq 1 .. n, S # {}
    PROVE  \E i \in S : \A j \in S : j <= i
<1> DEFINE T == {m \in Nat : \A j \in S : j <= m}
<1>1. n \in T
  OBVIOUS
<1>2. PICK m \in T : \A l \in 0 .. m - 1 : l \notin T
  BY <1>1, LeastNumber
<1>3. m \in S
  <2> SUFFICES ASSUME m \notin S PROVE FALSE
    OBVIOUS
  <2>1. \A j \in S : j <= m - 1
    BY <1>2
  <2>2. m - 1 \in Nat
    <3>1. PICK j \in S : TRUE
      OBVIOUS
    <3>2. 1 <= j /\ j <= m - 1
      BY <2>1, <3>1
    <3> QED
      BY <1>2, <3>2
  <2>3. m - 1 \in T /\ m - 1 \in 0 .. m - 1
    BY <1>2, <2>1, <2>2
  <2> QED
    BY <1>2, <2>3
<1> QED
  BY <1>2, <1>3

LEMMA NewestNat ==
    ASSUME DataShape, NEW c \in UserChats
    PROVE  Newest(c) \in Nat
<1>1. CASE Visible(c) = {}
  BY <1>1 DEF Newest
<1>2. CASE Visible(c) # {}
  <2>1. \E i \in Visible(c) : \A j \in Visible(c) : j <= i
    BY <1>2, CountsNat, GreatestNumber
  <2>2. Newest(c) \in Visible(c)
    BY <1>2, <2>1 DEF Newest
  <2> QED
    BY <2>2, CountsNat
<1> QED
  BY <1>1, <1>2

LEMMA FirstQuerySound ==
    ASSUME NEW first \in BOOLEAN
    PROVE  Sound(FirstQuery(first)) /\ FirstQuery(first).first = first
BY RestingIdle DEF Sound, FirstQuery

LEMMA RestSound ==
    ASSUME DataShape, watch # "bell", NEW q, q.first \in BOOLEAN
    PROVE  Sound(Rest(q)) /\ Rest(q).first = q.first
<1> DEFINE data == [c \in UserChats |->
                       [count |-> CountAfter(c, Since(c, q.marks[c])), latest |-> Newest(c)]]
<1>1. \A c \in UserChats : CountAfter(c, Since(c, q.marks[c])) \in Nat /\ Newest(c) \in Nat
  BY CountsNat, NewestNat
<1>2. data \in Counts
  BY <1>1 DEF Counts
<1>3. Rest(q) = [at |-> "answer", first |-> q.first, sign |-> data, data |-> data]
  BY DEF Rest
<1> HIDE DEF data
<1>4. Rest(q).at = "answer" /\ Rest(q).first = q.first /\ Rest(q).sign = data /\ Rest(q).data = data
  BY <1>3
<1>5. Rest(q) # Resting
  BY <1>4, RestingIdle
<1> QED
  BY <1>2, <1>4, <1>5 DEF Sound, Says, Data

LEMMA NoticesFinite ==
    ASSUME DataShape, NEW states
    PROVE  InState(states) \subseteq Nat /\ IsFiniteSet(InState(states))
<1>1. Len(notices) \in Nat /\ DOMAIN notices = 1 .. Len(notices)
  BY LenProperties DEF DataShape
<1>2. InState(states) \subseteq 1 .. Len(notices)
  BY <1>1 DEF InState
<1>3. IsFiniteSet(1 .. Len(notices))
  BY <1>1, FS_Interval
<1> QED
  BY <1>1, <1>2, <1>3, FS_Subset

LEMMA BellQuerySound ==
    ASSUME DataShape, watch = "bell", NEW first \in BOOLEAN
    PROVE  Sound(BellQuery(first)) /\ BellQuery(first).first = first
<1> DEFINE data == [count |-> Cardinality(Unread),
                    items |-> List(TopOf(InState({"unread", "read"}), ListLimit), Recent)]
<1>1. Cardinality(Unread) \in Nat
  BY NoticesFinite, FS_CardinalityType DEF Unread
<1>2. List(TopOf(InState({"unread", "read"}), ListLimit), Recent) \in SUBSET [id : Nat, read : BOOLEAN]
  <2>1. TopOf(TopOf(InState({"unread", "read"}), ListLimit), Recent) \subseteq Nat
    BY NoticesFinite DEF TopOf
  <2>2. \A i \in Nat : \A b \in BOOLEAN : [id |-> i, read |-> b] \in [id : Nat, read : BOOLEAN]
    OBVIOUS
  <2>3. \A i : (notices[i] = "read") \in BOOLEAN
    OBVIOUS
  <2>4. ASSUME NEW item \in List(TopOf(InState({"unread", "read"}), ListLimit), Recent)
        PROVE  item \in [id : Nat, read : BOOLEAN]
    <3>1. PICK i \in TopOf(TopOf(InState({"unread", "read"}), ListLimit), Recent) :
            item = [id |-> i, read |-> notices[i] = "read"]
      BY <2>4 DEF List
    <3> DEFINE b == notices[i] = "read"
    <3>2. b \in BOOLEAN /\ i \in Nat /\ item = [id |-> i, read |-> b]
      BY <2>1, <3>1
    <3> HIDE DEF b
    <3> QED
      BY <2>2, <3>2
  <2> QED
    BY <2>4
<1>3. data \in BellData
  BY <1>1, <1>2 DEF BellData
<1>4. /\ BellQuery(first).at = "answer" /\ BellQuery(first).first = first
      /\ BellQuery(first).data = data /\ BellQuery(first).sign = BellSignature
  BY DEF BellQuery
<1>5. BellSignature.count = Cardinality(Unread) /\ data.count = Cardinality(Unread)
  BY DEF BellSignature
<1>6. BellQuery(first) # Resting
  BY <1>4, RestingIdle
<1> HIDE DEF data
<1> QED
  BY <1>3, <1>4, <1>5, <1>6 DEF Sound, Says, Data

LEMMA ActivityCounts == \A c \in UserChats : Activity[c].count = Unseen(c)
BY DEF Activity

LEMMA ActivityKept ==
    UNCHANGED <<posts, lastRead>> => Activity' = Activity /\ \A c \in UserChats : Unseen(c)' = Unseen(c)
BY DEF Activity, Unseen, CountAfter, Since, Visible, Newest

LEMMA BellKept == UNCHANGED notices => BellSignature' = BellSignature /\ Unread' = Unread
BY DEF BellSignature, Unread, InState, TopOf

-----------------------------------------------------------------------------
(* The steps of the feeds.                                                 *)

LEMMA ActivityStreams ==
    ASSUME StreamInv, DataShape, ActivityNext
    PROVE  StreamStep /\ watch' = watch /\ Watching /\ (Sending \/ \E s \in Streams : ActivityEvent(s))
<1>1. watch' = watch /\ Watching /\ watch # "bell"
  BY DEF ActivityNext, Watching
<1>2. ASSUME ActivityConnect PROVE Sending
  <2>1. Connect(FirstQuery(TRUE)) /\ Sound(FirstQuery(TRUE)) /\ FirstQuery(TRUE).first
    BY <1>2, FirstQuerySound DEF ActivityConnect
  <2> QED
    BY <2>1 DEF Sending
<1>3. ASSUME NEW s \in Streams, ActivityTick(s) PROVE Sending
  <2>1. Tick(s, FirstQuery(FALSE)) /\ Sound(FirstQuery(FALSE)) /\ ~FirstQuery(FALSE).first
    BY <1>3, FirstQuerySound DEF ActivityTick
  <2> QED
    BY <2>1 DEF Sending
<1>4. ASSUME NEW s \in Streams, NEW k \in Ticks(s), ActivityTickStep(s, k) PROVE Sending
  <2>1. CASE ticks[s][k].at = "marks" /\ Query(s, k, Rest(ticks[s][k]))
    <3>1. ticks[s][k] # Resting
      BY <2>1, RestingIdle
    <3>2. ticks[s][k].first \in BOOLEAN
      BY <3>1 DEF StreamInv, TickShape, Sound
    <3>3. Sound(Rest(ticks[s][k])) /\ Rest(ticks[s][k]).first = ticks[s][k].first
      BY <1>1, <3>2, RestSound
    <3> QED
      BY <2>1, <3>1, <3>3 DEF Sending
  <2>2. CASE Ended(s, k)
    BY <2>2 DEF Sending
  <2> QED
    BY <1>4, <2>1, <2>2 DEF ActivityTickStep
<1>5. ASSUME NEW s \in Streams, Lose(s) PROVE Sending
  BY <1>5 DEF Sending
<1>6. ASSUME NEW s \in Streams, NEW k \in Ticks(s), QueryFails(s, k) PROVE Sending
  BY <1>6 DEF Sending
<1>7. ASSUME NEW c \in UserChats, Post(c) \/ \E i \in DOMAIN posts[c] : SetVisibility(c, i)
      PROVE  Sending
  BY <1>7 DEF Post, SetVisibility, Sending
<1>8. ASSUME NEW p \in 1 .. Puts,
             \/ PutStep(p) \/ MarkLost(p)
             \/ \E c \in UserChats : \E mark \in 0 .. Len(posts[c]) : MarkAsRead(c, mark, p)
      PROVE  Sending
  <2>1. UNCHANGED streamVars
    BY <1>8 DEF PutStep, MarkServed, MarkAnswered, MarkLost, MarkAsRead
  <2> QED
    BY <2>1 DEF Sending
<1>9. ASSUME Poll PROVE Sending
  <2>1. UNCHANGED streamVars
    BY <1>9 DEF Poll
  <2> QED
    BY <2>1 DEF Sending
<1>10. ASSUME NEW p \in 1 .. Polls, PollStep(p) \/ PollLost(p) PROVE Sending
  <2>1. UNCHANGED streamVars
    BY <1>10 DEF PollStep, PollQuery, PollAnswered, PollLost
  <2> QED
    BY <2>1 DEF Sending
<1>11. ASSUME NEW s \in Streams, ActivityEvent(s) PROVE Delivered(s)
  BY <1>11 DEF ActivityEvent
<1> QED
  BY <1>1, <1>2, <1>3, <1>4, <1>5, <1>6, <1>7, <1>8, <1>9, <1>10, <1>11 DEF StreamStep, ActivityNext

LEMMA BellStreams ==
    ASSUME StreamInv, DataShape, BellNext
    PROVE  StreamStep /\ watch' = watch /\ watch = "bell" /\ (Sending \/ \E s \in Streams : BellEvent(s))
<1>1. watch' = watch /\ watch = "bell"
  BY DEF BellNext
<1>2. ASSUME BellConnect PROVE Sending
  <2>1. Connect(BellQuery(TRUE)) /\ Sound(BellQuery(TRUE)) /\ BellQuery(TRUE).first
    BY <1>1, <1>2, BellQuerySound DEF BellConnect
  <2> QED
    BY <2>1 DEF Sending
<1>3. ASSUME NEW s \in Streams, BellTick(s) PROVE Sending
  <2>1. Tick(s, BellQuery(FALSE)) /\ Sound(BellQuery(FALSE)) /\ ~BellQuery(FALSE).first
    BY <1>1, <1>3, BellQuerySound DEF BellTick
  <2> QED
    BY <2>1 DEF Sending
<1>4. ASSUME NEW s \in Streams, NEW k \in Ticks(s), BellTickStep(s, k) \/ QueryFails(s, k) PROVE Sending
  BY <1>4 DEF BellTickStep, Sending
<1>5. ASSUME NEW s \in Streams, Lose(s) PROVE Sending
  BY <1>5 DEF Sending
<1>6. ASSUME Notify PROVE Sending
  <2>1. UNCHANGED streamVars
    BY <1>6 DEF Notify
  <2> QED
    BY <2>1 DEF Sending
<1>7. ASSUME NEW r \in 1 .. Requests, Ask(r) \/ AskStep(r) \/ AskFailed(r) PROVE Sending
  <2>1. UNCHANGED streamVars
    BY <1>7 DEF Ask, AskStep, AskServed, AskAnswered, AskFailed
  <2> QED
    BY <2>1 DEF Sending
<1>8. ASSUME NEW s \in Streams, BellEvent(s) PROVE Delivered(s)
  BY <1>8 DEF BellEvent
<1> QED
  BY <1>1, <1>2, <1>3, <1>4, <1>5, <1>6, <1>7, <1>8 DEF StreamStep, BellNext

-----------------------------------------------------------------------------
(* The data keep their shape.                                              *)

LEMMA PostsKept ==
    ASSUME DataShape, NEW c \in UserChats, NEW s \in Seq({"visible", "hidden", "gone"}),
           posts' = [posts EXCEPT ![c] = s]
    PROVE  posts' \in [UserChats -> Seq({"visible", "hidden", "gone"})]
BY DEF DataShape

LEMMA ActivityData ==
    ASSUME DataShape, ActivityNext, UNCHANGED bellVars
    PROVE  DataShape'
<1>1. watch' = watch /\ watch # "bell"
  BY DEF ActivityNext, Watching
<1>2. posts' \in [UserChats -> Seq({"visible", "hidden", "gone"})]
  <2>1. posts \in [UserChats -> Seq({"visible", "hidden", "gone"})]
    BY DEF DataShape
  <2>2. ASSUME NEW c \in UserChats, Post(c)
        PROVE  posts' \in [UserChats -> Seq({"visible", "hidden", "gone"})]
    <3>1. Append(posts[c], "visible") \in Seq({"visible", "hidden", "gone"})
      BY <2>1, AppendProperties
    <3>2. posts' = [posts EXCEPT ![c] = Append(posts[c], "visible")]
      BY <2>2 DEF Post
    <3> QED
      BY <3>1, <3>2, PostsKept
  <2>3. ASSUME NEW c \in UserChats, NEW i \in DOMAIN posts[c], SetVisibility(c, i)
        PROVE  posts' \in [UserChats -> Seq({"visible", "hidden", "gone"})]
    <3>1. PICK v \in {"visible", "hidden", "gone"} : posts' = [posts EXCEPT ![c][i] = v]
      BY <2>3 DEF SetVisibility
    <3>2. posts' = [posts EXCEPT ![c] = [posts[c] EXCEPT ![i] = v]]
      BY <3>1
    <3>3. [posts[c] EXCEPT ![i] = v] \in Seq({"visible", "hidden", "gone"})
      BY <2>1, ExceptSeq
    <3> QED
      BY <3>2, <3>3, PostsKept
  <2>4. \/ UNCHANGED posts
        \/ \E c \in UserChats : Post(c) \/ \E i \in DOMAIN posts[c] : SetVisibility(c, i)
    BY DEF ActivityNext, ActivityConnect, ActivityTick, ActivityEvent, ActivityTickStep, activityVars,
           PutStep, MarkServed, MarkAnswered, MarkLost, MarkAsRead, Poll, PollStep, PollQuery,
           PollAnswered, PollLost
  <2> QED
    BY <2>1, <2>2, <2>3, <2>4
<1>3. watch # "manager" => UNCHANGED poll
  <2>1. ASSUME watch # "manager", NEW p \in 1 .. Polls, PollStep(p) \/ PollLost(p) PROVE FALSE
    BY <2>1, RestingIdle DEF DataShape, PollStep, PollQuery, PollAnswered, PollLost
  <2> QED
    BY <2>1 DEF ActivityNext, ActivityConnect, ActivityTick, ActivityEvent, ActivityTickStep, activityVars,
           PutStep, MarkServed, MarkAnswered, MarkLost, MarkAsRead, Poll, Post, SetVisibility
<1> QED
  BY <1>1, <1>2, <1>3 DEF DataShape, bellVars

LEMMA PutSeq ==
    ASSUME NEW S, NEW s \in Seq(S), NEW i, NEW v \in S
    PROVE  [s EXCEPT ![i] = v] \in Seq(S)
<1>1. Len(s) \in Nat /\ DOMAIN s = 1 .. Len(s)
  BY LenProperties
<1>2. CASE i \in 1 .. Len(s)
  BY <1>2, ExceptSeq
<1>3. CASE i \notin 1 .. Len(s)
  <2>1. s = [j \in DOMAIN s |-> s[j]]
    BY LenProperties, ElementOfSeq
  <2>2. [s EXCEPT ![i] = v] = s
    BY <1>1, <1>3, <2>1
  <2> QED
    BY <2>2
<1> QED
  BY <1>2, <1>3

LEMMA ServedNotices ==
    ASSUME DataShape, NEW ask, ask.op \in {"refresh", "all", "read", "dismiss"}
    PROVE  NoticesAfter(ask) \in Seq({"unread", "read", "gone"})
<1>0. notices \in Seq({"unread", "read", "gone"})
  BY DEF DataShape
<1>1. CASE ask.op = "refresh"
  BY <1>0, <1>1 DEF NoticesAfter
<1>2. CASE ask.op = "all"
  <2>1. NoticesAfter(ask) = [i \in DOMAIN notices |-> IF notices[i] = "unread" THEN "read" ELSE notices[i]]
    BY <1>2 DEF NoticesAfter
  <2>2. Len(notices) \in Nat /\ DOMAIN notices = 1 .. Len(notices)
        /\ \A i \in 1 .. Len(notices) : notices[i] \in {"unread", "read", "gone"}
    BY <1>0, LenProperties, ElementOfSeq
  <2> QED
    BY <2>1, <2>2, IsASeq
<1>3. CASE ask.op = "read"
  <2>1. NoticesAfter(ask) = IF notices[ask.id] = "unread" THEN [notices EXCEPT ![ask.id] = "read"] ELSE notices
    BY <1>3 DEF NoticesAfter
  <2> QED
    BY <1>0, <2>1, PutSeq
<1>4. CASE ask.op = "dismiss"
  <2>1. NoticesAfter(ask) = [notices EXCEPT ![ask.id] = "gone"]
    BY <1>4 DEF NoticesAfter
  <2>2. [notices EXCEPT ![ask.id] = "gone"] \in Seq({"unread", "read", "gone"})
    BY <1>0, PutSeq
  <2> QED
    BY <2>1, <2>2
<1> QED
  BY <1>1, <1>2, <1>3, <1>4

LEMMA BellKeepsData ==
    ASSUME DataShape, BellNext, UNCHANGED activityVars
    PROVE  DataShape'
<1>1. watch' = watch /\ watch = "bell"
  BY DEF BellNext
<1>2. notices' \in Seq({"unread", "read", "gone"})
  <2>1. CASE Notify
    BY <2>1, AppendProperties DEF Notify, DataShape
  <2>2. ASSUME NEW r \in 1 .. Requests, AskServed(r)
        PROVE  notices' \in Seq({"unread", "read", "gone"})
    <3>1. request[r] # Resting /\ notices' = NoticesAfter(request[r])
      BY <2>2, RestingIdle DEF AskServed
    <3> QED
      BY <3>1, ServedNotices DEF DataShape
  <2>3. \/ UNCHANGED notices \/ Notify \/ \E r \in 1 .. Requests : AskServed(r)
    BY DEF BellNext, BellConnect, BellTick, BellEvent, BellTickStep, bellVars, Ask, AskStep,
           AskAnswered, AskFailed
  <2> QED
    BY <2>1, <2>2, <2>3 DEF DataShape
<1>3. \A r \in 1 .. Requests :
        request'[r] # Resting => request'[r].op \in {"refresh", "all", "read", "dismiss"}
  <2>1. CASE UNCHANGED request
    BY <2>1 DEF DataShape
  <2>2. ASSUME NEW r \in 1 .. Requests, NEW ask,
               ask = Resting \/ ask.op \in {"refresh", "all", "read", "dismiss"},
               request' = [request EXCEPT ![r] = ask]
        PROVE  \A t \in 1 .. Requests :
                  request'[t] # Resting => request'[t].op \in {"refresh", "all", "read", "dismiss"}
    BY <2>2 DEF DataShape
  <2>3. ASSUME NEW r \in 1 .. Requests, Ask(r)
        PROVE  \A t \in 1 .. Requests :
                  request'[t] # Resting => request'[t].op \in {"refresh", "all", "read", "dismiss"}
    <3>1. PICK ask \in Askable : request' = [request EXCEPT ![r] = ask]
      BY <2>3 DEF Ask
    <3>2. ask.op \in {"refresh", "all", "read", "dismiss"}
      <4>1. CASE ask = Refresh \/ ask = [Refresh EXCEPT !.op = "all"]
        BY <4>1 DEF Refresh
      <4>2. CASE \E op \in {"read", "dismiss"}, item \in items :
                    ask = [op |-> op, at |-> "sent", id |-> item.id]
        BY <4>2
      <4> QED
        BY <4>1, <4>2 DEF Askable
    <3> QED
      BY <2>2, <3>1, <3>2
  <2>4. ASSUME NEW r \in 1 .. Requests, AskServed(r)
        PROVE  \A t \in 1 .. Requests :
                  request'[t] # Resting => request'[t].op \in {"refresh", "all", "read", "dismiss"}
    <3>1. request[r].op \in {"refresh", "all", "read", "dismiss"}
      BY <2>4, RestingIdle DEF AskServed, DataShape
    <3> DEFINE ask == [op |-> request[r].op,
                       id |-> IF request[r].op \in {"read", "dismiss"} THEN request[r].id ELSE 0,
                       at |-> "served",
                       list |-> IF request[r].op = "refresh" THEN List(Unread, ListLimit) ELSE {}]
    <3>2. request' = [request EXCEPT ![r] = ask] /\ ask.op = request[r].op
      BY <2>4 DEF AskServed
    <3> HIDE DEF ask
    <3> QED
      BY <2>2, <3>1, <3>2
  <2>5. \/ UNCHANGED request
        \/ \E r \in 1 .. Requests : Ask(r) \/ AskServed(r) \/ request' = [request EXCEPT ![r] = Resting]
    BY DEF BellNext, BellConnect, BellTick, BellEvent, BellTickStep, bellVars, Notify, AskStep,
           AskAnswered, AskFailed
  <2> QED
    BY <2>1, <2>2, <2>3, <2>4, <2>5
<1> QED
  BY <1>1, <1>2, <1>3 DEF DataShape, activityVars

-----------------------------------------------------------------------------
(* A page that has been told.                                              *)

(* All that stream s has sent has arrived.                                 *)
Heard(s) == conn[s] = "open" /\ pipe[s] = <<>> /\ lastSnapshot[s] # NoSnapshot

Watched == IF watch = "bell" THEN BellSignature ELSE Activity

LEMMA ToldIs ==
    ToldPageShows <=>
        (watch \in {"badges", "bell"} /\ ~doubt =>
            \A s \in Streams : Heard(s) /\ lastSnapshot[s] = Watched => Agrees)
BY DEF ToldPageShows, Heard, Watched, Truthful

(* Only what the page takes makes it have heard more.                      *)
LEMMA HeardSent ==
    ASSUME StreamInv, watch' = watch, NEW s \in Streams, NEW q, Sound(q), q.at = "answer", Send(s, q),
           NEW t \in Streams, pipe'[t] = <<>>, t # s \/ conn[s] = "open"
    PROVE  t # s /\ pipe[t] = <<>> /\ lastSnapshot'[t] = lastSnapshot[t]
<1>1. FeedShape /\ LastSent /\ Lifetimes
  BY DEF StreamInv
<1>2. /\ \A r \in Streams : r # s => pipe'[r] = pipe[r] /\ lastSnapshot'[r] = lastSnapshot[r]
      /\ conn[s] # "ended" => pipe'[s] # <<>>
  BY <1>1, SendShape
<1> QED
  BY <1>2

LEMMA HeardBefore ==
    ASSUME StreamInv, watch' = watch, Sending, NEW t \in Streams,
           conn'[t] = "open", pipe'[t] = <<>>, lastSnapshot'[t] # NoSnapshot
    PROVE  Heard(t) /\ lastSnapshot'[t] = lastSnapshot[t]
<1>0. FeedShape /\ Lifetimes /\ LastSent /\ Life(t)
  BY DEF StreamInv, Lifetimes
<1>1. ASSUME NEW q, Connect(q) PROVE Heard(t) /\ lastSnapshot'[t] = lastSnapshot[t]
  <2>1. PICK s \in Streams : conn' = [conn EXCEPT ![s] = "starting"]
    BY <1>1 DEF Connect
  <2>2. conn[t] = "open"
    BY <1>0, <2>1 DEF FeedShape
  <2> QED
    BY <1>1, <2>2 DEF Connect, Heard
<1>2. ASSUME NEW s \in Streams, NEW q, Tick(s, q) \/ \E k \in Ticks(s) : Query(s, k, q)
      PROVE  Heard(t) /\ lastSnapshot'[t] = lastSnapshot[t]
  BY <1>2 DEF Tick, Query, Heard
<1>3. ASSUME NEW s \in Streams, NEW k \in Ticks(s), Started(s, k)
      PROVE  Heard(t) /\ lastSnapshot'[t] = lastSnapshot[t]
  <2>1. /\ ticks[s][k].at = "answer" /\ Send(s, ticks[s][k])
        /\ conn' = [conn EXCEPT ![s] = IF conn[s] = "ended" THEN conn[s] ELSE "open"]
    BY <1>3 DEF Started
  <2>2. ticks[s][k] # Resting /\ Sound(ticks[s][k])
    BY <2>1, RestingIdle DEF StreamInv, TickShape
  <2>3. /\ \A r \in Streams : r # s => pipe'[r] = pipe[r] /\ lastSnapshot'[r] = lastSnapshot[r]
        /\ conn[s] # "ended" => pipe'[s] # <<>>
    BY <1>0, <2>1, <2>2, SendShape
  <2>4. t # s
    BY <1>0, <2>1, <2>3 DEF FeedShape
  <2> QED
    BY <1>0, <2>1, <2>3, <2>4 DEF FeedShape, Heard
<1>4. ASSUME NEW s \in Streams, NEW k \in Ticks(s), Ticked(s, k)
      PROVE  Heard(t) /\ lastSnapshot'[t] = lastSnapshot[t]
  <2>1. /\ ticks[s][k].at = "answer" /\ conn' = conn
        /\ Send(s, ticks[s][k]) \/ UNCHANGED <<lastSnapshot, pipe>>
    BY <1>4 DEF Ticked
  <2>2. ticks[s][k] # Resting /\ Sound(ticks[s][k])
    BY <2>1, RestingIdle DEF StreamInv, TickShape
  <2>3. CASE Send(s, ticks[s][k])
    <3>1. t # s \/ conn[s] = "open"
      BY <2>1
    <3> QED
      BY <2>1, <2>2, <2>3, <3>1, HeardSent DEF Heard
  <2>4. CASE UNCHANGED <<lastSnapshot, pipe>>
    BY <2>1, <2>4 DEF Heard
  <2> QED
    BY <2>1, <2>3, <2>4
<1>5. ASSUME NEW s \in Streams, NEW k \in Ticks(s), QueryFails(s, k)
      PROVE  Heard(t) /\ lastSnapshot'[t] = lastSnapshot[t]
  <2>1. /\ ticks[s][k] # Resting
        /\ IF ticks[s][k].first
           THEN conn' = [conn EXCEPT ![s] = IF conn[s] = "ended" THEN conn[s] ELSE "open"]
           ELSE conn' = conn
        /\ UNCHANGED <<lastSnapshot, pipe>>
    BY <1>5 DEF QueryFails
  <2>2. CASE t # s \/ ~ticks[s][k].first
    BY <1>0, <2>1, <2>2 DEF FeedShape, Heard
  <2>3. CASE t = s /\ ticks[s][k].first
    <3>1. conn[t] = "starting" \/ conn[t] = "ended"
      BY <1>0, <2>1, <2>3 DEF Life, First
    <3>2. conn[t] = "starting"
      BY <1>0, <2>1, <2>3, <3>1 DEF FeedShape
    <3> QED
      BY <1>0, <2>1, <3>2 DEF Life
  <2> QED
    BY <2>2, <2>3
<1>6. ASSUME NEW s \in Streams, Lose(s) PROVE Heard(t) /\ lastSnapshot'[t] = lastSnapshot[t]
  <2>1. /\ conn' = [conn EXCEPT ![s] = "ended"] /\ pipe' = [pipe EXCEPT ![s] = <<>>]
        /\ lastSnapshot' = [lastSnapshot EXCEPT ![s] = NoSnapshot]
    BY <1>6 DEF Lose
  <2>2. t # s
    BY <1>0, <2>1 DEF FeedShape
  <2> QED
    BY <1>0, <2>1, <2>2 DEF FeedShape, Heard
<1>7. CASE UNCHANGED streamVars
  BY <1>7 DEF streamVars, Heard
<1> QED
  BY <1>1, <1>2, <1>3, <1>4, <1>5, <1>6, <1>7 DEF Sending, Ended

(* A step of the streams alone: what the page shows stays.                 *)
LEMMA StreamsTold ==
    ASSUME StreamInv, ToldPageShows, watch' = watch, Sending,
           UNCHANGED <<posts, lastRead, shown, notices, unreadCount, doubt>>
    PROVE  ToldPageShows'
<1>1. Watched' = Watched
  BY ActivityKept, BellKept DEF Watched
<1>2. Agrees => Agrees'
  BY ActivityKept, BellKept DEF Agrees
<1> SUFFICES ASSUME watch \in {"badges", "bell"}, ~doubt, NEW s \in Streams,
                    Heard(s)', lastSnapshot'[s] = Watched'
             PROVE  Agrees'
  BY DEF ToldPageShows, Heard, Watched, Truthful, Streams
<1>3. Heard(s) /\ lastSnapshot'[s] = lastSnapshot[s]
  BY HeardBefore DEF Heard
<1> QED
  BY <1>1, <1>2, <1>3, ToldIs

(* The data change: what an open stream has sent by then is in doubt.      *)
LEMMA DataTold ==
    ASSUME ToldPageShows, UNCHANGED <<watch, streamVars>>,
           watch \in {"badges", "bell"} /\ ~doubt' => ~doubt /\ ~CameBack(Watched, Watched'),
           Watched' = Watched => (Agrees => Agrees')
    PROVE  ToldPageShows'
<1> SUFFICES ASSUME watch \in {"badges", "bell"}, ~doubt', NEW s \in Streams,
                    Heard(s)', lastSnapshot'[s] = Watched'
             PROVE  Agrees'
  BY DEF ToldPageShows, Heard, Watched, Truthful, Streams
<1>1. Heard(s) /\ lastSnapshot[s] = Watched'
  BY DEF streamVars, Heard
<1>2. Watched' = Watched
  BY <1>1 DEF CameBack, Heard
<1> QED
  BY <1>1, <1>2, ToldIs

(* An event: the page shows what the stream has sent last.                 *)
LEMMA OnlyConnection ==
    ASSUME StreamInv, NEW s \in Streams, NEW t \in Streams, conn[s] = "open", conn[t] = "open"
    PROVE  s = t
<1>1. s < t => s \in 1 .. t - 1
  BY FeedAssumption DEF Streams
<1>2. t < s => t \in 1 .. s - 1
  BY FeedAssumption DEF Streams
<1>3. s < t \/ t < s \/ s = t
  BY FeedAssumption DEF Streams
<1> QED
  BY <1>1, <1>2, <1>3 DEF StreamInv, OneConnection

LEMMA LastTaken ==
    ASSUME StreamInv, watch' = watch, NEW s \in Streams, Delivered(s), NEW t \in Streams, Heard(t)'
    PROVE  t = s /\ Says(Head(pipe[s]), lastSnapshot'[s]) /\ Head(pipe[s]) \in Data
<1>1. UNCHANGED <<conn, lastSnapshot>>
  BY DEF Delivered
<1>2. conn[s] = "open" /\ conn[t] = "open" /\ pipe'[t] = <<>>
  BY <1>1, DeliveredShape DEF Heard
<1>3. t = s
  BY <1>2, OnlyConnection
<1>4. pipe[s] # <<>> /\ Head(pipe[s]) = pipe[s][Len(pipe[s])] /\ Head(pipe[s]) \in Data
  BY <1>2, <1>3, DeliveredShape
<1>5. Says(pipe[s][Len(pipe[s])], lastSnapshot[s])
  BY <1>4 DEF StreamInv, LastSent
<1> QED
  BY <1>1, <1>3, <1>4, <1>5

LEMMA AgreesWith ==
    /\ watch # "bell" => (Agrees <=> \A c \in UserChats : shown[c] = Activity[c].count)
    /\ watch = "bell" => (Agrees <=> unreadCount = BellSignature.count)
BY ActivityCounts DEF Agrees, BellSignature

LEMMA ActivityTold ==
    ASSUME StreamInv, DataShape, ToldPageShows, ActivityNext, UNCHANGED bellVars
    PROVE  ToldPageShows'
<1>1. watch' = watch /\ (Sending \/ \E s \in Streams : ActivityEvent(s))
  BY ActivityStreams
<1> SUFFICES ASSUME watch = "badges" PROVE ToldPageShows'
  BY <1>1 DEF ActivityNext, Watching, ToldPageShows
<1>2. Watched = Activity /\ Watched' = Activity'
  BY <1>1 DEF Watched
<1>3. UNCHANGED notices /\ UNCHANGED unreadCount
  BY DEF bellVars
<1>4. ASSUME UNCHANGED <<streamVars, shown>>, Recounted PROVE ToldPageShows'
  <2>1. ~doubt' => ~doubt /\ ~CameBack(Watched, Watched')
    BY <1>2, <1>4 DEF Recounted
  <2>2. Watched' = Watched => (Agrees => Agrees')
    <3>1. \A c \in UserChats : Activity'[c].count = Unseen(c)'
      BY DEF Activity
    <3>2. \A c \in UserChats : Activity[c].count = Unseen(c)
      BY DEF Activity
    <3> QED
      BY <1>1, <1>2, <1>4, <3>1, <3>2 DEF Agrees
  <2> QED
    BY <1>1, <1>4, <2>1, <2>2, DataTold
<1>5. ASSUME Sending, UNCHANGED <<posts, lastRead, shown, doubt>> PROVE ToldPageShows'
  BY <1>1, <1>3, <1>5, StreamsTold
<1>6. ASSUME NEW s \in Streams, ActivityEvent(s) PROVE ToldPageShows'
  <2>1. Delivered(s) /\ shown' = NewCounts(Head(pipe[s])) /\ UNCHANGED <<posts, lastRead>>
    BY <1>6 DEF ActivityEvent
  <2> SUFFICES ASSUME NEW t \in Streams, Heard(t)', lastSnapshot'[t] = Watched'
               PROVE  Agrees'
    BY DEF ToldPageShows, Heard, Watched, Truthful, Streams
  <2>2. t = s /\ Head(pipe[s]) = lastSnapshot'[s]
    BY <1>1, <2>1, LastTaken DEF Says
  <2>3. Activity' = Activity /\ \A c \in UserChats : Unseen(c)' = Unseen(c)
    BY <2>1, ActivityKept
  <2>4. \A c \in UserChats : shown'[c] = Unseen(c)'
    BY <1>2, <2>1, <2>2, <2>3, ActivityCounts DEF NewCounts
  <2> QED
    BY <1>1, <2>4 DEF Agrees
<1>7. ASSUME NEW p \in 1 .. Puts, MarkAnswered(p) PROVE ToldPageShows'
  <2>1. doubt' = (\E c \in UserChats : shown'[c] # Unseen(c)) /\ UNCHANGED <<posts, lastRead>>
    BY <1>7 DEF MarkAnswered
  <2>2. \A c \in UserChats : Unseen(c)' = Unseen(c)
    BY <2>1, ActivityKept
  <2>3. ~doubt' => \A c \in UserChats : shown'[c] = Unseen(c)'
    BY <2>1, <2>2
  <2> QED
    BY <1>1, <2>3 DEF ToldPageShows, Agrees
<1>8. ASSUME NEW c \in UserChats, Post(c) \/ \E i \in DOMAIN posts[c] : SetVisibility(c, i)
      PROVE  ToldPageShows'
  <2>1. UNCHANGED <<streamVars, shown>> /\ Recounted
    BY <1>8 DEF Post, SetVisibility
  <2> QED
    BY <1>4, <2>1
<1>9. ASSUME NEW p \in 1 .. Puts, MarkServed(p) PROVE ToldPageShows'
  <2>1. UNCHANGED <<streamVars, shown>> /\ Recounted
    BY <1>9 DEF MarkServed
  <2> QED
    BY <1>4, <2>1
<1>10. ASSUME UNCHANGED <<posts, lastRead, shown, streamVars, doubt>> PROVE ToldPageShows'
  <2>1. Sending
    BY <1>10 DEF Sending
  <2> QED
    BY <1>5, <1>10, <2>1
<1>11. ASSUME UNCHANGED <<activityVars, doubt>> PROVE ToldPageShows'
  <2>1. UNCHANGED <<posts, lastRead, shown, doubt>>
    BY <1>11 DEF activityVars
  <2> QED
    BY <1>1, <1>5, <1>6, <2>1
<1>12. ASSUME NEW p \in 1 .. Puts,
              MarkLost(p) \/ \E c \in UserChats : \E mark \in 0 .. Len(posts[c]) : MarkAsRead(c, mark, p)
       PROVE  ToldPageShows'
  <2>1. UNCHANGED <<posts, lastRead, shown, streamVars, doubt>>
    BY <1>12 DEF MarkLost, MarkAsRead
  <2> QED
    BY <1>10, <2>1
<1>13. ASSUME NEW p \in 1 .. Polls, PollStep(p) \/ PollLost(p) PROVE ToldPageShows'
  BY <1>13, RestingIdle DEF DataShape, PollStep, PollQuery, PollAnswered, PollLost
<1>14. ASSUME Poll PROVE ToldPageShows'
  BY <1>14 DEF Poll
<1>15. ASSUME NEW s \in Streams, NEW k \in Ticks(s),
              ActivityTickStep(s, k) \/ (QueryFails(s, k) /\ UNCHANGED <<activityVars, acts, doubt>>)
       PROVE  ToldPageShows'
  <2>1. UNCHANGED <<activityVars, doubt>>
    BY <1>15 DEF ActivityTickStep
  <2> QED
    BY <1>11, <2>1
<1>16. ASSUME NEW s \in Streams, ActivityTick(s) PROVE ToldPageShows'
  BY <1>11, <1>16 DEF ActivityTick
<1>17. ASSUME ActivityConnect PROVE ToldPageShows'
  BY <1>11, <1>17 DEF ActivityConnect
<1>18. ASSUME NEW s \in Streams, Lose(s) /\ UNCHANGED <<activityVars, failures, acts, doubt>>
       PROVE  ToldPageShows'
  BY <1>11, <1>18
<1>19. ASSUME NEW s \in Streams,
              \/ ActivityTick(s) \/ ActivityEvent(s)
              \/ Lose(s) /\ UNCHANGED <<activityVars, failures, acts, doubt>>
              \/ \E k \in Ticks(s) : \/ ActivityTickStep(s, k)
                                     \/ QueryFails(s, k) /\ UNCHANGED <<activityVars, acts, doubt>>
       PROVE  ToldPageShows'
  BY <1>6, <1>15, <1>16, <1>18, <1>19
<1>20. ASSUME NEW p \in 1 .. Puts,
              \/ PutStep(p) \/ MarkLost(p)
              \/ \E c \in UserChats : \E mark \in 0 .. Len(posts[c]) : MarkAsRead(c, mark, p)
       PROVE  ToldPageShows'
  BY <1>7, <1>9, <1>12, <1>20 DEF PutStep
<1> QED
  BY <1>8, <1>13, <1>14, <1>17, <1>19, <1>20 DEF ActivityNext

LEMMA BellTold ==
    ASSUME StreamInv, DataShape, ToldPageShows, BellNext, UNCHANGED activityVars
    PROVE  ToldPageShows'
<1>1. watch' = watch /\ watch = "bell" /\ (Sending \/ \E s \in Streams : BellEvent(s))
  BY BellStreams
<1>2. Watched = BellSignature /\ Watched' = BellSignature'
  BY <1>1 DEF Watched
<1>3. UNCHANGED posts /\ UNCHANGED lastRead /\ UNCHANGED shown
  BY DEF activityVars
<1>4. ASSUME UNCHANGED <<streamVars, unreadCount>>, Renoticed PROVE ToldPageShows'
  <2>1. ~doubt' => ~doubt /\ ~CameBack(Watched, Watched')
    BY <1>2, <1>4 DEF Renoticed
  <2>2. Watched' = Watched => (Agrees => Agrees')
    <3>1. BellSignature'.count = Cardinality(Unread)'
      BY DEF BellSignature
    <3>2. BellSignature.count = Cardinality(Unread)
      BY DEF BellSignature
    <3> QED
      BY <1>1, <1>2, <1>4, <3>1, <3>2 DEF Agrees
  <2> QED
    BY <1>1, <1>4, <2>1, <2>2, DataTold
<1>5. ASSUME Sending, UNCHANGED <<notices, unreadCount, doubt>> PROVE ToldPageShows'
  BY <1>1, <1>3, <1>5, StreamsTold
<1>6. ASSUME NEW s \in Streams, BellEvent(s) PROVE ToldPageShows'
  <2>1. Delivered(s) /\ unreadCount' = Head(pipe[s]).count /\ UNCHANGED notices
    BY <1>6 DEF BellEvent
  <2> SUFFICES ASSUME NEW t \in Streams, Heard(t)', lastSnapshot'[t] = Watched'
               PROVE  Agrees'
    BY DEF ToldPageShows, Heard, Watched, Truthful, Streams
  <2>2. t = s /\ Head(pipe[s]).count = lastSnapshot'[s].count
    BY <1>1, <2>1, LastTaken DEF Says
  <2>3. BellSignature'.count = Cardinality(Unread)'
    BY DEF BellSignature
  <2> QED
    BY <1>1, <1>2, <2>1, <2>2, <2>3 DEF Agrees
<1>7. ASSUME NEW ask, Edited(ask), UNCHANGED notices PROVE ToldPageShows'
  <2>1. doubt' = (unreadCount' # Cardinality(Unread)) /\ Unread' = Unread
    BY <1>7, BellKept DEF Edited
  <2>2. ~doubt' => unreadCount' = Cardinality(Unread)'
    BY <2>1
  <2> QED
    BY <1>1, <2>2 DEF ToldPageShows, Agrees
<1>8. ASSUME UNCHANGED <<bellVars, doubt>> PROVE ToldPageShows'
  <2>1. UNCHANGED <<notices, unreadCount, doubt>>
    BY <1>8 DEF bellVars
  <2> QED
    BY <1>1, <1>5, <1>6, <2>1
<1>9. ASSUME UNCHANGED <<notices, unreadCount, streamVars, doubt>> PROVE ToldPageShows'
  <2>1. Sending
    BY <1>9 DEF Sending
  <2> QED
    BY <1>5, <1>9, <2>1
<1>10. ASSUME NEW r \in 1 .. Requests, Ask(r) \/ AskStep(r) \/ AskFailed(r) PROVE ToldPageShows'
  <2>1. CASE Ask(r)
    <3>1. UNCHANGED <<notices, unreadCount, streamVars, doubt>>
      BY <2>1 DEF Ask
    <3> QED
      BY <1>9, <3>1
  <2>2. CASE AskServed(r)
    <3>1. UNCHANGED <<streamVars, unreadCount>> /\ Renoticed
      BY <2>2 DEF AskServed
    <3> QED
      BY <1>4, <3>1
  <2>3. CASE AskAnswered(r)
    <3>1. Edited(request[r]) /\ UNCHANGED notices
      BY <2>3 DEF AskAnswered
    <3> QED
      BY <1>7, <3>1
  <2>4. CASE AskFailed(r)
    <3>1. Edited(request[r]) \/ UNCHANGED <<unreadCount, doubt>>
      BY <2>4 DEF AskFailed
    <3>2. UNCHANGED notices /\ UNCHANGED streamVars
      BY <2>4 DEF AskFailed
    <3> QED
      BY <1>7, <1>9, <3>1, <3>2
  <2> QED
    BY <1>10, <2>1, <2>2, <2>3, <2>4 DEF AskStep
<1>11. ASSUME Notify PROVE ToldPageShows'
  <2>1. UNCHANGED <<streamVars, unreadCount>> /\ Renoticed
    BY <1>11 DEF Notify
  <2> QED
    BY <1>4, <2>1
<1>12. ASSUME NEW s \in Streams, NEW k \in Ticks(s),
              BellTickStep(s, k) \/ (QueryFails(s, k) /\ UNCHANGED <<bellVars, acts, doubt>>)
       PROVE  ToldPageShows'
  <2>1. UNCHANGED <<bellVars, doubt>>
    BY <1>12 DEF BellTickStep
  <2> QED
    BY <1>8, <2>1
<1>13. ASSUME NEW s \in Streams, BellTick(s) PROVE ToldPageShows'
  BY <1>8, <1>13 DEF BellTick
<1>14. ASSUME BellConnect PROVE ToldPageShows'
  BY <1>8, <1>14 DEF BellConnect
<1>15. ASSUME NEW s \in Streams, Lose(s) /\ UNCHANGED <<bellVars, failures, acts, doubt>>
       PROVE  ToldPageShows'
  BY <1>8, <1>15
<1>16. ASSUME NEW s \in Streams,
              \/ BellTick(s) \/ BellEvent(s)
              \/ Lose(s) /\ UNCHANGED <<bellVars, failures, acts, doubt>>
              \/ \E k \in Ticks(s) : \/ BellTickStep(s, k)
                                     \/ QueryFails(s, k) /\ UNCHANGED <<bellVars, acts, doubt>>
       PROVE  ToldPageShows'
  BY <1>6, <1>12, <1>13, <1>15, <1>16
<1> QED
  BY <1>10, <1>11, <1>14, <1>16 DEF BellNext

LEMMA FeedInitially == PageInit => FeedInv
<1> SUFFICES ASSUME PageInit PROVE FeedInv
  OBVIOUS
<1>1. FeedInit /\ ActivityInit /\ BellInit
  BY DEF PageInit
<1>2. /\ conn = [s \in Streams |-> "unused"] /\ timer = [s \in Streams |-> FALSE]
      /\ lastSnapshot = [s \in Streams |-> NoSnapshot] /\ pipe = [s \in Streams |-> <<>>]
      /\ ticks = [s \in Streams |-> [k \in Ticks(s) |-> Resting]] /\ early = {}
  BY <1>1 DEF FeedInit
<1>3. FeedShape
  <2>1. <<>> \in Seq(Data)
    BY EmptySeq
  <2> QED
    BY <1>2, <2>1 DEF FeedShape
<1>4. TickShape
  BY <1>2 DEF TickShape
<1>5. OneConnection /\ LastSent
  BY <1>2 DEF OneConnection, LastSent
<1>6. Lifetimes
  BY <1>2 DEF Lifetimes, Life, First, Later
<1>7. posts \in [UserChats -> Seq({"visible", "hidden", "gone"})]
  <2>1. CASE Watching
    <3>1. watch \in Feeds /\ Earlier[watch] \in Nat
      BY <1>1, <2>1, FeedAssumption DEF FeedInit, Watching
    <3>2. [i \in 1 .. Earlier[watch] |-> "visible"] \in Seq({"visible", "hidden", "gone"})
      BY <3>1, IsASeq
    <3> QED
      BY <1>1, <2>1, <3>2 DEF ActivityInit
  <2>2. CASE ~Watching
    <3>1. <<>> \in Seq({"visible", "hidden", "gone"})
      BY EmptySeq
    <3> QED
      BY <1>1, <2>2, <3>1 DEF ActivityInit
  <2> QED
    BY <2>1, <2>2
<1>8. notices \in Seq({"unread", "read", "gone"})
  <2>1. CASE watch = "bell"
    <3>1. Earlier[watch] \in Nat
      BY <1>1, <2>1, FeedAssumption DEF FeedInit
    <3>2. [i \in 1 .. Earlier[watch] |-> "unread"] \in Seq({"unread", "read", "gone"})
      BY <3>1, IsASeq
    <3> QED
      BY <1>1, <2>1, <3>2 DEF BellInit
  <2>2. CASE watch # "bell"
    <3>1. <<>> \in Seq({"unread", "read", "gone"})
      BY EmptySeq
    <3> QED
      BY <1>1, <2>2, <3>1 DEF BellInit
  <2> QED
    BY <2>1, <2>2
<1>9. \A r \in 1 .. Requests : request[r] # Resting => request[r].op = "refresh"
  BY <1>1 DEF BellInit, Refresh
<1>10. \A p \in 1 .. Polls : poll[p] = Resting
  BY <1>1 DEF ActivityInit
<1>11. ToldPageShows
  BY <1>2 DEF ToldPageShows
<1> QED
  BY <1>3, <1>4, <1>5, <1>6, <1>7, <1>8, <1>9, <1>10, <1>11 DEF FeedInv, StreamInv, DataShape

LEMMA FeedsStill == FeedInv /\ UNCHANGED <<feedVars, activityVars, bellVars>> => FeedInv'
<1> SUFFICES ASSUME FeedInv, UNCHANGED <<feedVars, activityVars, bellVars>> PROVE FeedInv'
  OBVIOUS
<1>1. UNCHANGED streamVars /\ watch' = watch /\ doubt' = doubt
  BY DEF feedVars, streamVars
<1>2. UNCHANGED <<posts, lastRead, shown, poll, notices, unreadCount, request>>
  BY DEF activityVars, bellVars
<1>3. Sending
  BY <1>1 DEF Sending
<1>4. StreamInv'
  BY <1>1, <1>3, StreamStepKeeps DEF FeedInv, StreamStep
<1>5. DataShape'
  BY <1>1, <1>2 DEF FeedInv, DataShape
<1>6. ToldPageShows'
  BY <1>1, <1>2, <1>3, StreamsTold DEF FeedInv
<1> QED
  BY <1>4, <1>5, <1>6 DEF FeedInv

LEMMA FeedSteps == FeedInv /\ [PageNext]_pageVars => FeedInv'
<1> SUFFICES ASSUME FeedInv, [PageNext]_pageVars PROVE FeedInv'
  OBVIOUS
<1>1. StreamInv /\ DataShape /\ ToldPageShows
  BY DEF FeedInv
<1>2. CASE UNCHANGED <<feedVars, activityVars, bellVars>>
  BY <1>2, FeedsStill
<1>3. CASE ActivityNext /\ UNCHANGED bellVars
  <2>1. StreamInv'
    BY <1>1, <1>3, ActivityStreams, StreamStepKeeps
  <2> QED
    BY <1>1, <1>3, <2>1, ActivityData, ActivityTold DEF FeedInv
<1>4. CASE BellNext /\ UNCHANGED activityVars
  <2>1. StreamInv'
    BY <1>1, <1>4, BellStreams, StreamStepKeeps
  <2> QED
    BY <1>1, <1>4, <2>1, BellKeepsData, BellTold DEF FeedInv
<1> QED
  BY <1>2, <1>3, <1>4 DEF PageNext, pageVars

LEMMA FeedInvariance == PageSpec => []FeedInv
BY FeedInitially, FeedSteps, PTL DEF PageSpec

\* A stream whose page has gone after the first snapshot keeps no interval, for
\* any number of connections and however ticks overlap, fail and end late: cancel()
\* clears the only interval there is, and none is set again
\* (src/routes/activity-stream.ts, src/routes/notifications.ts).
THEOREM TimersStayCleared == PageSpec => []TimersCleared
<1>1. FeedInv => TimersCleared
  BY DEF FeedInv, StreamInv, Lifetimes, Life, TimersCleared
<1> QED
  BY FeedInvariance, <1>1, PTL

\* The badges and the bell show what the server counts whenever all that their
\* stream has sent has arrived and that is what the server has, except for what
\* they wrote since and counts that changed and came back: the safety at the
\* bottom of ViewSettles (src/frontend/alpine/chat-activity.ts,
\* src/frontend/alpine/user-notifications.ts).
THEOREM ToldPagesShow == PageSpec => []ToldPageShows
<1>1. FeedInv => ToldPageShows
  BY DEF FeedInv
<1> QED
  BY FeedInvariance, <1>1, PTL

-----------------------------------------------------------------------------
(* The page among its feeds: a step of the page is one of the chat page or *)
(* leaves it alone.                                                        *)

LEMMA PageSteps == [PageNext]_pageVars => [Next]_vars
BY DEF PageNext, pageVars

LEMMA PageInvariance == PageSpec => [](IInv /\ LockHeld)
<1>1. PageInit => IInv /\ LockHeld
  BY Initially DEF PageInit, Init, LockHeld
<1>2. IInv /\ LockHeld /\ [PageNext]_pageVars => (IInv /\ LockHeld)'
  BY PageSteps, Inductive, LockStep DEF IInv
<1> QED
  BY <1>1, <1>2, PTL DEF PageSpec

\* The types of the page and of the calls under way: among them, a request for
\* older messages asks for a page there can be.
THEOREM TypesHold == PageSpec => []TypeOK
<1>1. IInv => TypeOK
  BY DEF IInv
<1> QED
  BY PageInvariance, <1>1, PTL

\* While the requests for the list do not overlap and none fails, the page holds
\* the pages 1 .. currentPage of the open chat once each, for any number of
\* pages and calls and whatever else the user does
\* (src/frontend/alpine/chat-messages.ts, src/frontend/alpine/chat.ts).
THEOREM ListStaysWhole == PageSpec => []WholeList
<1>1. IInv => WholeList
  BY DEF IInv
<1> QED
  BY PageInvariance, <1>1, PTL

\* A message goes to another chat than the one it was typed in only encrypted,
\* when that chat was left meanwhile; otherwise its parent is a message of the chat
\* it is posted to, and its key that chat's or none unless a chat was being opened
\* (src/frontend/alpine/chat-messages.ts, src/frontend/alpine/chat-keys.ts).
THEOREM OwnKeyOrNone == PageSpec => []SentWithOwnKey
<1>1. IInv => SentWithOwnKey
  BY DEF IInv, Typed, SendOk, Sent, SentWithOwnKey
<1> QED
  BY PageInvariance, <1>1, PTL

\* A locked page always has a call or a stream under way whose end unlocks it, in
\* whatever order calls are answered and streams replaced; only continueMessage
\* locks it for good (src/frontend/alpine/chat-generations.ts).
THEOREM LockIsHeld == PageSpec => []LockHeld
BY PageInvariance, PTL
=============================================================================
