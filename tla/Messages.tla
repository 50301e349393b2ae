------------------------------ MODULE Messages ------------------------------
(***************************************************************************)
(* The message requests of src/routes/messages.ts on one chat, with the    *)
(* automatic reply (src/generation/auto-gen.ts) and the generate endpoint  *)
(* (generate-route.ts) as far as they write messages: posting, listing     *)
(* with the position of each variant, hiding, archiving, restoring and     *)
(* purging.  Slash commands, attachments, mentions, claims of initiative,  *)
(* contents and their keys, idempotency keys (stored, never looked up) and *)
(* the status are left out: no step here reads what they write.            *)
(*                                                                         *)
(* A request that reads, awaits and then writes is a call with a step for  *)
(* each side of the await; one that only writes by id is one action.  The  *)
(* id of a message is its place in the order of insertion, which is also   *)
(* the order SQLite returns rows of equal created_at in.                   *)
(***************************************************************************)
EXTENDS Naturals, Sequences, FiniteSets

CONSTANTS
    Answerer,   \* "llm", "rules" or "none": what answers a post
    MaxRows,    \* bound: messages inserted
    Slots,      \* bound: one element for each call that may be under way
    MaxWrites   \* bound: insertions and changes of visibility

ASSUME MessagesAssumption ==
    /\ Answerer \in {"llm", "rules", "none"}
    /\ MaxRows \in Nat \ {0} /\ MaxWrites \in Nat

VARIABLES
    messages,   \* messages ever inserted, in order
    calls,      \* the calls under way, by slot
    shown,      \* a message of the latest list, its id and variantIndex;
                \* shifted (history): a sibling before it was hidden when the
                \* list was made, or one came late or without an index since
    hidings     \* changes of visibility so far

vars == <<messages, calls, shown, hidings>>

Ids == 1 .. MaxRows
None == 0           \* null parent, nothing shown
NotShown == [id |-> None, index |-> 0, shifted |-> FALSE]

\* swipe: swipe_index, 0 for NULL, which sorts first and max() passes over.
\* visible: visibility is "visible"; every reader treats the four other values
\* alike.  crossed: another reply to the same message was stored between the
\* read of the swipe index and the insert.  byHand: archived, and shown
\* again by PUT visibility.
Message ==
    [parent : 0 .. MaxRows, swipe : 0 .. MaxRows,
     visible : BOOLEAN, archived : {"no", "recent", "expired"},
     attempted : BOOLEAN, crossed : BOOLEAN, byHand : BOOLEAN, purged : BOOLEAN]

Idle == [op |-> "idle"]
Call ==
    {Idle}
    \cup [op : {"post"}, parent : 0 .. MaxRows, swipe : 0 .. MaxRows,
          late : BOOLEAN]
    \cup [op : {"answer"}, id : Ids]
    \cup [op : {"reply", "generate"}, parent : Ids, swipe : 0 .. MaxRows, late : BOOLEAN]

Stored == {i \in DOMAIN messages : ~ messages[i].purged}
SiblingsOf(p) == {i \in Stored : p # None /\ messages[i].parent = p}
Visible(S) == {i \in S : messages[i].visible}

Room == Len(messages) + hidings < MaxWrites

First == [parent |-> None, swipe |-> 0, visible |-> TRUE, archived |-> "no",
          attempted |-> FALSE, crossed |-> FALSE, byHand |-> FALSE,
          purged |-> FALSE]

TypeOK ==
    /\ messages \in Seq(Message) /\ Len(messages) <= MaxRows
    /\ calls \in [Slots -> Call]
    /\ shown \in [id : 0 .. MaxRows, index : 0 .. MaxRows, shifted : BOOLEAN]
    /\ hidings \in 0 .. MaxWrites

\* A chat with its first message.
Init ==
    /\ messages = <<First>>
    /\ calls = [s \in Slots |-> Idle]
    /\ shown = NotShown
    /\ hidings = 0

----------------------------------------------------------------------------
(* Posting *)

\* The maximum over the visible replies only.
MaxSwipe_Visible(p) ==
    LET taken == {messages[i].swipe : i \in Visible(SiblingsOf(p))} \cup {0}
    IN CHOOSE m \in taken : \A n \in taken : n <= m

\* select max(swipe_index) ... where parent_id = p: hidden siblings count.
MaxSwipe(p) ==
    LET taken == {messages[i].swipe : i \in SiblingsOf(p)} \cup {0}
    IN CHOOSE m \in taken : \A n \in taken : n <= m

NextSwipe(p) == IF p = None THEN 0 ELSE MaxSwipe(p) + 1

\* A post, up to the read of the swipe index.
Post(s, p) ==
    /\ calls[s] = Idle /\ Len(messages) < MaxRows
    /\ p \in Stored \cup {None}
    /\ calls' = [calls EXCEPT ![s] =
           [op |-> "post", parent |-> p, swipe |-> NextSwipe(p), late |-> FALSE]]
    /\ UNCHANGED <<messages, shown, hidings>>

NewRow(c) == [First EXCEPT !.parent = c.parent, !.swipe = c.swipe, !.crossed = c.late]

\* Stored is the parent_id foreign key: the insert fails once p is purged.
ParentHolds(p) == p \in Stored \cup {None}

\* The calls about to answer the same message, other than s, become late.
Overtaken(s, p, others) ==
    [t \in DOMAIN others |->
        IF t # s /\ p # None /\ others[t].op \in {"post", "reply"} /\ others[t].parent = p
        THEN [others[t] EXCEPT !.late = TRUE] ELSE others[t]]

InsertRow(s, c, next) ==
    /\ Len(messages) < MaxRows /\ Room
    /\ messages' = Append(messages, NewRow(c))
    /\ calls' = Overtaken(s, c.parent, [calls EXCEPT ![s] = next])
    /\ shown' = IF /\ shown # NotShown /\ c.parent = messages[shown.id].parent
                   /\ c.late \/ c.op = "generate"
                THEN [shown EXCEPT !.shifted = TRUE] ELSE shown

\* A post that is stored goes on with its answer.
PostInsert(s) ==
    LET c == calls[s]
    IN /\ c.op = "post" /\ ParentHolds(c.parent)
       /\ InsertRow(s, c, IF Answerer = "none" THEN Idle
                          ELSE [op |-> "answer", id |-> Len(messages) + 1])
       /\ UNCHANGED <<hidings>>

\* The insert fails on its foreign key: 500, nothing stored.
PostRefused(s) ==
    /\ calls[s].op = "post" /\ ~ ParentHolds(calls[s].parent)
    /\ calls' = [calls EXCEPT ![s] = Idle]
    /\ UNCHANGED <<messages, shown, hidings>>

----------------------------------------------------------------------------
(* The automatic reply: a generation in the background, or the rule-based   *)
(* assistant before the post is answered                                    *)

\* The attempt of a generation references the message, which may be purged by
\* then; the rule-based reply has none.  Both go on to read the swipe index.
Answer(s) ==
    LET i == calls[s].id
    IN /\ calls[s].op = "answer"
       /\ Answerer = "llm" => i \in Stored
       /\ calls' = [calls EXCEPT ![s] =
              [op |-> "reply", parent |-> i, swipe |-> NextSwipe(i), late |-> FALSE]]
       /\ messages' = IF Answerer = "llm" THEN [messages EXCEPT ![i].attempted = TRUE] ELSE messages
       /\ UNCHANGED <<shown, hidings>>

\* No reply: nothing to answer with, cancelled, or a failure that is logged.
NoReply(s) ==
    /\ calls[s].op \in {"answer", "reply", "generate"}
    /\ calls' = [calls EXCEPT ![s] = Idle]
    /\ UNCHANGED <<messages, shown, hidings>>

ReplyInsert(s) ==
    LET c == calls[s]
    IN /\ c.op = "reply" /\ ParentHolds(c.parent)
       /\ InsertRow(s, c, Idle)
       /\ UNCHANGED <<hidings>>

----------------------------------------------------------------------------
(* The generate endpoint *)

\* POST /api/generation/generate: its attempt references the parent, and its
\* reply takes no swipe index.
Generate(s, p) ==
    /\ calls[s] = Idle /\ Len(messages) < MaxRows
    /\ p \in Stored
    /\ calls' = [calls EXCEPT ![s] =
           [op |-> "generate", parent |-> p, swipe |-> 0, late |-> FALSE]]
    /\ messages' = [messages EXCEPT ![p].attempted = TRUE]
    /\ UNCHANGED <<shown, hidings>>

StoreGenerated(s) ==
    LET c == calls[s]
    IN /\ c.op = "generate" /\ ParentHolds(c.parent)
       /\ InsertRow(s, c, Idle)
       /\ UNCHANGED <<hidings>>

----------------------------------------------------------------------------
(* Listing and the variants *)

Before(i, j) == messages[i].swipe < messages[j].swipe \/ (messages[i].swipe = messages[j].swipe /\ i < j)
Position(i, S) == Cardinality({j \in S : Before(j, i)})

\* GET the list.  Its two reads, of the messages and of their siblings, are
\* one step: a message hidden or purged between them gets index 0, and shows
\* nothing here either way.
Listed(S) == Visible(S)
VariantIndex(i) == Position(i, Listed(SiblingsOf(messages[i].parent)))

List(i) ==
    LET S == SiblingsOf(messages[i].parent)
    IN /\ i \in Visible(Stored) /\ messages[i].parent # None
       /\ shown' = [id |-> i, index |-> VariantIndex(i),
                    shifted |-> \E j \in S \ Visible(S) : Before(j, i)]
       /\ UNCHANGED <<messages, calls, hidings>>

\* PUT variant leaves hidden siblings out, as the list does.
Variants_Visible(p) == Visible(SiblingsOf(p))

\* PUT variant: the sibling an index selects, hidden ones counted.  It stores
\* nothing, so it is an operator and no action.
Variants(p) == SiblingsOf(p)
Selected(i, index) == {j \in Variants(messages[i].parent) : Position(j, Variants(messages[i].parent)) = index}

----------------------------------------------------------------------------
(* Hiding, archiving, purging *)

\* Changes of one row by id; a row purged meanwhile is not found.
Change(i, row) ==
    /\ i \in Stored
    /\ Room /\ hidings' = hidings + 1
    /\ messages' = [messages EXCEPT ![i] = row]
    /\ UNCHANGED <<calls, shown>>

\* DELETE and PUT visibility: archived_at stays.
Removed(row) == [row EXCEPT !.visible = FALSE, !.byHand = FALSE]
DeleteMessage(i) == i \in Stored /\ Change(i, Removed(messages[i]))

WithVisibility(row, v) == [row EXCEPT !.visible = v, !.byHand = v /\ row.archived # "no"]
SetVisibility(i, v) == i \in Stored /\ Change(i, WithVisibility(messages[i], v))

Archived(row) == [row EXCEPT !.archived = "recent", !.visible = FALSE, !.byHand = FALSE]
Archive(i) == i \in Stored /\ Change(i, Archived(messages[i]))

\* Restoring leaves archived_at.
Restored_KeepsDate(row) == [row EXCEPT !.visible = TRUE, !.byHand = FALSE]

Restored(row) == [row EXCEPT !.archived = "no", !.visible = TRUE, !.byHand = FALSE]
Restore(i) == i \in Stored /\ Change(i, Restored(messages[i]))

\* Thirty days go by.
MonthPasses ==
    /\ messages' = [i \in DOMAIN messages |->
          IF messages[i].archived = "recent" THEN [messages[i] EXCEPT !.archived = "expired"] ELSE messages[i]]
    /\ UNCHANGED <<calls, shown, hidings>>

Expired == {i \in Stored : messages[i].archived = "expired"}

\* One DELETE: it fails as a whole while a reply that stays, or an attempt,
\* references a row of it.
Releasable(E) ==
    /\ \A i \in E : ~ messages[i].attempted
    /\ \A j \in Stored \ E : messages[j].parent \notin E

NoRow == [First EXCEPT !.visible = FALSE, !.purged = TRUE]

Purge ==
    /\ Expired # {} /\ Releasable(Expired)
    /\ messages' = [i \in DOMAIN messages |-> IF i \in Expired THEN NoRow ELSE messages[i]]
    /\ shown' = NotShown
    /\ UNCHANGED <<calls, hidings>>

----------------------------------------------------------------------------

Step(s) ==
    \/ \E p \in 0 .. Len(messages) : Post(s, p) \/ Generate(s, p)
    \/ PostInsert(s)
    \/ PostRefused(s)
    \/ Answer(s)
    \/ NoReply(s)
    \/ ReplyInsert(s)
    \/ StoreGenerated(s)

Hiding(i) ==
    \/ DeleteMessage(i)
    \/ \E v \in BOOLEAN : SetVisibility(i, v)
    \/ Archive(i)
    \/ Restore(i)

Next ==
    \/ \E s \in Slots : Step(s)
    \/ \E i \in DOMAIN messages : Hiding(i) \/ List(i)
    \/ MonthPasses
    \/ Purge

Spec == Init /\ [][Next]_vars

----------------------------------------------------------------------------
(* Properties *)

\* Two replies to one message that were given an index have the same one only
\* when the later one was stored across the other's read and insert
\* (src/routes/messages.ts:620-651, src/generation/auto-gen.ts:260-311); those of
\* the generate endpoint are given none (src/generation/generate-route.ts:73-94).
SwipesDistinct ==
    \A i, j \in Stored :
        /\ i < j /\ messages[i].parent = messages[j].parent /\ messages[i].parent # None
        /\ messages[i].swipe = messages[j].swipe /\ messages[i].swipe # 0
        => messages[j].crossed

\* The index a list gives a message selects that message until the next purge,
\* whatever was posted in time, hidden, archived or restored since.  When a sibling
\* before it was hidden when the list was made, or one came late or without an
\* index since, it selects that message or one that sorts before it, never a later
\* one (src/routes/messages.ts:226-249 against 363-376).
ListedSelects ==
    shown # NotShown =>
        LET chosen == Selected(shown.id, shown.index)
        IN  IF shown.shifted
            THEN \A j \in chosen : j = shown.id \/ Before(j, shown.id)
            ELSE chosen = {shown.id}

\* A purge deletes a message that is visible only when its visibility was set
\* by hand after it was archived (src/routes/messages.ts:465-487, 823-903).
PurgedUnseen ==
    [][\A i \in DOMAIN messages :
         ~ messages[i].purged /\ messages'[i].purged =>
             ~ messages[i].visible \/ messages[i].byHand]_vars
=============================================================================
