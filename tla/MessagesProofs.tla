---------------------------- MODULE MessagesProofs ----------------------------
(* Theorems about Messages, for every number of messages and of calls.      *)
EXTENDS Messages, FiniteSetTheorems, SequenceTheorems, WellFoundedInduction, TLAPS

(* A nonempty set of numbers up to n has a maximum.                         *)
LEMMA HasMaximum ==
    ASSUME NEW n \in Nat, NEW T, T \subseteq 0 .. n, T # {}
    PROVE  \E m \in T : \A k \in T : k <= m
<1> DEFINE U == {n - k : k \in T}
<1>1. U \subseteq Nat /\ U # {}
  <2>1. \A k \in T : n - k \in Nat
    <3>1. ASSUME NEW k \in T PROVE n - k \in Nat
      <4>1. k \in 0 .. n
        OBVIOUS
      <4> QED
        BY <4>1
    <3> QED
      BY <3>1
  <2>2. PICK k \in T : TRUE
    OBVIOUS
  <2>3. n - k \in U
    BY <2>2
  <2> QED
    BY <2>1, <2>3
<1>2. PICK x \in U : \A y \in U : ~ (<<y, x>> \in OpToRel(<, Nat))
  BY <1>1, NatLessThanWellFounded, WFMin
<1>3. \A y \in U : ~ (y < x)
  BY <1>1, <1>2 DEF OpToRel
<1>4. PICK m \in T : x = n - m
  BY <1>2
<1>5. ASSUME NEW k \in T PROVE k <= m
  <2>1. n - k \in U
    OBVIOUS
  <2>2. ~ (n - k < n - m)
    BY <1>3, <1>4, <2>1
  <2> QED
    BY <2>2
<1> QED
  BY <1>5

-----------------------------------------------------------------------------
(* The inductive invariant.                                                *)

\* A message has fewer siblings below it than messages were inserted before.
SwipesBelow ==
    /\ Len(messages) > 0
    /\ \A i \in DOMAIN messages : messages[i].swipe < i

\* What the calls under way hold is of messages inserted before.
CallsBelow ==
    \A s \in Slots :
        /\ calls[s].op \in {"post", "reply", "generate"} =>
              calls[s].parent <= Len(messages) /\ calls[s].swipe <= Len(messages)
        /\ calls[s].op = "generate" => calls[s].swipe = 0
        /\ calls[s].op = "answer" => calls[s].id <= Len(messages)

\* Until another reply to the same message is stored, a call's swipe index is
\* above all the stored ones.
OnTimeAbove ==
    \A s \in Slots :
        /\ calls[s].op \in {"post", "reply"}
        /\ ~ calls[s].late
        => \A i \in SiblingsOf(calls[s].parent) : messages[i].swipe < calls[s].swipe

\* The index shown counts siblings, hidden ones included, that sort before;
\* all of them unless the order was shifted.
Counts(index, shifted, n) == index <= n /\ (shifted \/ index = n)

ShownCounts ==
    shown # NotShown =>
        /\ shown.id \in Stored /\ messages[shown.id].parent # None
        /\ Counts(shown.index, shown.shifted,
                  Position(shown.id, SiblingsOf(messages[shown.id].parent)))

\* An archived message is visible only by hand.
ArchivedHidden ==
    \A i \in DOMAIN messages :
        messages[i].archived # "no" /\ messages[i].visible => messages[i].byHand

IInv ==
    /\ TypeOK /\ SwipesBelow /\ CallsBelow /\ OnTimeAbove
    /\ SwipesDistinct /\ ShownCounts /\ ArchivedHidden

LEMMA RowType ==
    ASSUME TypeOK
    PROVE  /\ Len(messages) \in Nat /\ DOMAIN messages = 1 .. Len(messages)
           /\ messages \in [1 .. Len(messages) -> Message]
           /\ \A i \in DOMAIN messages :
                 messages[i] \in Message /\ messages[i].swipe \in Nat /\ messages[i].parent \in Nat
<1>1. /\ Len(messages) \in Nat /\ DOMAIN messages = 1 .. Len(messages)
      /\ messages \in [1 .. Len(messages) -> Message]
  BY DEF TypeOK
<1>2. ASSUME NEW i \in DOMAIN messages
      PROVE  messages[i] \in Message /\ messages[i].swipe \in Nat /\ messages[i].parent \in Nat
  <2>1. messages[i] \in Message
    BY <1>1
  <2>2. messages[i].swipe \in 0 .. MaxRows /\ messages[i].parent \in 0 .. MaxRows
    BY <2>1 DEF Message
  <2> QED
    BY <2>1, <2>2, MessagesAssumption
<1> QED
  BY <1>1, <1>2

(* What a call reads as the next swipe index is above all stored siblings.  *)
LEMMA NextSwipeAbove ==
    ASSUME TypeOK, SwipesBelow, NEW p \in Nat
    PROVE  /\ NextSwipe(p) \in 0 .. Len(messages)
           /\ \A i \in SiblingsOf(p) : messages[i].swipe < NextSwipe(p)
<1> DEFINE taken == {messages[i].swipe : i \in SiblingsOf(p)} \cup {0}
           n == Len(messages) - 1
<1>1. n \in Nat /\ DOMAIN messages = 1 .. Len(messages)
  BY DEF TypeOK, SwipesBelow
<1>2. \A i \in SiblingsOf(p) : i \in DOMAIN messages /\ messages[i].swipe \in 0 .. n
  <2>1. ASSUME NEW i \in SiblingsOf(p)
        PROVE  i \in DOMAIN messages /\ messages[i].swipe \in 0 .. n
    <3>1. i \in DOMAIN messages
      BY DEF SiblingsOf, Stored
    <3>2. messages[i].swipe \in Nat /\ messages[i].swipe < i /\ i \in 1 .. Len(messages)
      BY <1>1, <3>1, RowType DEF SwipesBelow
    <3> QED
      BY <1>1, <3>1, <3>2
  <2> QED
    BY <2>1
<1>3. taken \subseteq 0 .. n /\ taken # {}
  BY <1>1, <1>2
<1>4. \E m \in taken : \A k \in taken : k <= m
  BY <1>1, <1>3, HasMaximum
<1>5. MaxSwipe(p) \in taken /\ \A k \in taken : k <= MaxSwipe(p)
  BY <1>4 DEF MaxSwipe
<1>6. MaxSwipe(p) \in 0 .. n /\ \A i \in SiblingsOf(p) : messages[i].swipe <= MaxSwipe(p)
  BY <1>3, <1>5
<1>7. CASE p = None
  BY <1>1, <1>7 DEF NextSwipe, SiblingsOf
<1>8. CASE p # None
  BY <1>1, <1>2, <1>6, <1>8 DEF NextSwipe
<1> QED
  BY <1>7, <1>8

LEMMA PositionType ==
    ASSUME TypeOK, NEW i, NEW S, S \subseteq DOMAIN messages
    PROVE  IsFiniteSet({j \in S : Before(j, i)}) /\ Position(i, S) \in 0 .. Len(messages)
<1> DEFINE B == {j \in S : Before(j, i)}
<1>1. Len(messages) \in Nat /\ B \in SUBSET (1 .. Len(messages))
  BY RowType
<1>2. IsFiniteSet(1 .. Len(messages)) /\ Cardinality(1 .. Len(messages)) = Len(messages)
  <2>1. /\ IsFiniteSet(1 .. Len(messages))
        /\ Cardinality(1 .. Len(messages)) = IF 1 > Len(messages) THEN 0 ELSE Len(messages) - 1 + 1
    BY <1>1, FS_Interval
  <2> QED
    BY <1>1, <2>1
<1>3. IsFiniteSet(B) /\ Cardinality(B) <= Len(messages)
  BY <1>1, <1>2, FS_Subset
<1>4. Cardinality(B) \in Nat
  BY <1>3, FS_CardinalityType
<1> QED
  BY <1>1, <1>3, <1>4 DEF Position

-----------------------------------------------------------------------------
(* Types.                                                                  *)

\* A row is replaced by one of the right type.
LEMMA ChangeType ==
    ASSUME TypeOK, NEW i \in DOMAIN messages, NEW row \in Message
    PROVE  [messages EXCEPT ![i] = row] \in Seq(Message)
           /\ Len([messages EXCEPT ![i] = row]) = Len(messages)
BY RowType, ExceptSeq DEF TypeOK

LEMMA RowsOfType ==
    ASSUME NEW n \in Nat, NEW f \in [1 .. n -> Message]
    PROVE  f \in Seq(Message) /\ Len(f) = n
OBVIOUS

LEMMA NewRowType ==
    ASSUME NEW c, c.parent \in 0 .. MaxRows, c.swipe \in 0 .. MaxRows,
           c.late \in BOOLEAN
    PROVE  NewRow(c) \in Message
BY MessagesAssumption DEF NewRow, First, Message, None

\* The calls' fields by their kind.
LEMMA CallType ==
    ASSUME TypeOK, NEW s \in Slots
    PROVE  /\ calls[s] \in Call
           /\ calls[s].op = "post" => /\ calls[s].parent \in 0 .. MaxRows
                                      /\ calls[s].swipe \in 0 .. MaxRows
                                      /\ calls[s].late \in BOOLEAN
           /\ calls[s].op \in {"reply", "generate"} => /\ calls[s].parent \in Ids
                                                      /\ calls[s].swipe \in 0 .. MaxRows
                                                      /\ calls[s].late \in BOOLEAN
           /\ calls[s].op = "answer" => calls[s].id \in Ids
BY DEF TypeOK, Call, Idle

Overdue(c) == [c EXCEPT !.late = TRUE]

\* Calls that become late stay calls, and nothing else of them changes.
LEMMA InsertCalls ==
    ASSUME TypeOK, NEW s \in Slots, NEW next \in Call, NEW c, InsertRow(s, c, next)
    PROVE  /\ calls' \in [Slots -> Call]
           /\ calls'[s] = next
           /\ \A t \in Slots \ {s} :
                 \/ calls'[t] = calls[t]
                    /\ ~ (c.parent # None /\ calls[t].op \in {"post", "reply"}
                          /\ calls[t].parent = c.parent)
                 \/ /\ calls[t].op \in {"post", "reply"} /\ calls[t].parent = c.parent
                    /\ calls'[t] = Overdue(calls[t])
<1> DEFINE others == [calls EXCEPT ![s] = next]
<1>1. others \in [Slots -> Call] /\ others[s] = next
      /\ \A t \in Slots \ {s} : others[t] = calls[t]
  BY DEF TypeOK
<1>2. calls' = [t \in Slots |->
         IF t # s /\ c.parent # None /\ others[t].op \in {"post", "reply"}
            /\ others[t].parent = c.parent
         THEN Overdue(others[t]) ELSE others[t]]
  BY <1>1 DEF InsertRow, Overtaken, Overdue
<1>3. \A d \in Call : d.op \in {"post", "reply"} => Overdue(d) \in Call
  BY DEF Call, Idle, Overdue
<1> HIDE DEF others
<1>4. calls' \in [Slots -> Call]
  BY <1>1, <1>2, <1>3
<1>5. calls'[s] = next
  BY <1>1, <1>2
<1>6. ASSUME NEW t \in Slots \ {s}
      PROVE  \/ calls'[t] = calls[t]
                /\ ~ (c.parent # None /\ calls[t].op \in {"post", "reply"}
                      /\ calls[t].parent = c.parent)
             \/ /\ calls[t].op \in {"post", "reply"} /\ calls[t].parent = c.parent
                /\ calls'[t] = Overdue(calls[t])
  BY <1>1, <1>2
<1> QED
  BY <1>4, <1>5, <1>6

LEMMA InsertType ==
    ASSUME TypeOK, NEW s \in Slots, NEW c, NEW next \in Call,
           c.parent \in 0 .. MaxRows, c.swipe \in 0 .. MaxRows, c.late \in BOOLEAN,
           InsertRow(s, c, next)
    PROVE  /\ messages' \in Seq(Message) /\ Len(messages') = Len(messages) + 1 /\ Len(messages') <= MaxRows
           /\ \A i \in 1 .. Len(messages) : messages'[i] = messages[i]
           /\ messages'[Len(messages) + 1] = NewRow(c)
           /\ calls' \in [Slots -> Call]
           /\ shown' \in [id : 0 .. MaxRows, index : 0 .. MaxRows, shifted : BOOLEAN]
<1>1. NewRow(c) \in Message /\ Len(messages) \in Nat
  BY NewRowType, RowType
<1>2. messages' = Append(messages, NewRow(c)) /\ Len(messages) < MaxRows
  BY DEF InsertRow
<1>3. /\ messages' \in Seq(Message) /\ Len(messages') = Len(messages) + 1
      /\ \A i \in 1 .. Len(messages) : messages'[i] = messages[i]
      /\ messages'[Len(messages) + 1] = NewRow(c)
  BY <1>1, <1>2, AppendProperties DEF TypeOK
<1>4. Len(messages') <= MaxRows
  BY <1>1, <1>2, <1>3, MessagesAssumption
<1>5. calls' \in [Slots -> Call]
  BY InsertCalls
<1>6. shown' \in [id : 0 .. MaxRows, index : 0 .. MaxRows, shifted : BOOLEAN]
  BY DEF InsertRow, TypeOK
<1> QED
  BY <1>3, <1>4, <1>5, <1>6

LEMMA ShownType ==
    NotShown \in [id : 0 .. MaxRows, index : 0 .. MaxRows, shifted : BOOLEAN]
BY MessagesAssumption DEF NotShown, None

\* The messages a change of visibility, an archiving or a restoring puts.
LEMMA HidingType ==
    ASSUME NEW row \in Message, NEW v \in BOOLEAN
    PROVE  /\ Removed(row) \in Message /\ WithVisibility(row, v) \in Message
           /\ Archived(row) \in Message /\ Restored(row) \in Message
           /\ [row EXCEPT !.attempted = TRUE] \in Message
           /\ [row EXCEPT !.archived = "expired"] \in Message
           /\ NoRow \in Message
<1>1. Removed(row) \in Message /\ Archived(row) \in Message /\ Restored(row) \in Message
  BY DEF Removed, Archived, Restored, Message
<1>2. WithVisibility(row, v) \in Message
  BY DEF WithVisibility, Message
<1>3. [row EXCEPT !.attempted = TRUE] \in Message /\ [row EXCEPT !.archived = "expired"] \in Message
  BY DEF Message
<1>4. NoRow \in Message
  <2>1. First \in Message
    BY MessagesAssumption DEF First, Message, None
  <2>2. \A r \in Message : [r EXCEPT !.visible = FALSE, !.purged = TRUE] \in Message
    BY DEF Message
  <2> QED
    BY <2>1, <2>2 DEF NoRow
<1> QED
  BY <1>1, <1>2, <1>3, <1>4

LEMMA TypeStep == TypeOK /\ SwipesBelow /\ CallsBelow /\ [Next]_vars => TypeOK'
<1> SUFFICES ASSUME TypeOK, SwipesBelow, CallsBelow, [Next]_vars PROVE TypeOK'
  OBVIOUS
<1>0. Len(messages) \in Nat /\ Len(messages) <= MaxRows /\ DOMAIN messages = 1 .. Len(messages)
      /\ MaxRows \in Nat
  BY RowType, MessagesAssumption DEF TypeOK
<1>a. \A n \in 0 .. Len(messages) : n \in Nat /\ n \in 0 .. MaxRows
  BY <1>0
<1>1. ASSUME NEW s \in Slots, NEW p \in 0 .. Len(messages), Post(s, p) PROVE TypeOK'
  <2>1. NextSwipe(p) \in 0 .. MaxRows /\ p \in 0 .. MaxRows
    BY <1>a, NextSwipeAbove
  <2>2. [op |-> "post", parent |-> p, swipe |-> NextSwipe(p), late |-> FALSE] \in Call
    BY <2>1 DEF Call
  <2> QED
    BY <1>1, <2>2 DEF Post, TypeOK
<1>2. ASSUME NEW s \in Slots, PostInsert(s) PROVE TypeOK'
  <2>1. Len(messages) + 1 \in Ids
    BY <1>0, <1>2 DEF PostInsert, InsertRow, Ids
  <2>2. PICK next \in Call : InsertRow(s, calls[s], next)
    BY <1>2, <2>1 DEF PostInsert, Call
  <2> QED
    BY <1>2, <2>2, CallType, InsertType DEF PostInsert, TypeOK
<1>3. ASSUME NEW s \in Slots, ReplyInsert(s) \/ StoreGenerated(s) PROVE TypeOK'
  <2>1. InsertRow(s, calls[s], Idle) /\ Idle \in Call
    BY <1>3 DEF ReplyInsert, StoreGenerated, Call
  <2>2. calls[s].parent \in 0 .. MaxRows /\ calls[s].swipe \in 0 .. MaxRows
        /\ calls[s].late \in BOOLEAN
    BY <1>3, CallType, MessagesAssumption DEF ReplyInsert, StoreGenerated, Ids
  <2> QED
    BY <1>3, <2>1, <2>2, InsertType DEF ReplyInsert, StoreGenerated, TypeOK
<1>4. ASSUME NEW s \in Slots, PostRefused(s) \/ NoReply(s) PROVE TypeOK'
  BY <1>4 DEF PostRefused, NoReply, TypeOK, Call
<1>5. ASSUME NEW s \in Slots, Answer(s) PROVE TypeOK'
  <2> DEFINE i == calls[s].id
  <2>1. i \in Ids /\ i \in 1 .. Len(messages) /\ i \in Nat
    BY <1>0, <1>5, CallType DEF Answer, CallsBelow, Ids
  <2>2. NextSwipe(i) \in 0 .. MaxRows
    BY <1>a, <2>1, NextSwipeAbove
  <2>3. [op |-> "reply", parent |-> i, swipe |-> NextSwipe(i), late |-> FALSE] \in Call
    BY <2>1, <2>2 DEF Call
  <2>4. calls' \in [Slots -> Call]
    BY <1>5, <2>3 DEF Answer, TypeOK
  <2>5. [messages EXCEPT ![i].attempted = TRUE]
           = [messages EXCEPT ![i] = [messages[i] EXCEPT !.attempted = TRUE]]
    OBVIOUS
  <2>6. messages' \in Seq(Message) /\ Len(messages') = Len(messages)
    BY <1>0, <1>5, <2>1, <2>5, RowType, HidingType, ChangeType DEF Answer, TypeOK
  <2> QED
    BY <1>0, <1>5, <2>4, <2>6 DEF Answer, TypeOK
<1>b. ASSUME NEW s \in Slots, NEW p \in 0 .. Len(messages), Generate(s, p) PROVE TypeOK'
  <2>1. p \in Ids /\ p \in DOMAIN messages
    BY <1>0, <1>b DEF Generate, Stored, Ids
  <2>2. [op |-> "generate", parent |-> p, swipe |-> 0, late |-> FALSE] \in Call
    BY <1>0, <2>1 DEF Call
  <2>3. messages' = [messages EXCEPT ![p] = [messages[p] EXCEPT !.attempted = TRUE]]
    BY <1>b DEF Generate
  <2>4. messages' \in Seq(Message) /\ Len(messages') = Len(messages)
    BY <2>1, <2>3, RowType, HidingType, ChangeType
  <2> QED
    BY <1>0, <1>b, <2>2, <2>4 DEF Generate, TypeOK
<1>6. ASSUME NEW i \in DOMAIN messages, Hiding(i) PROVE TypeOK'
  <2>1. \E row \in Message : Change(i, row)
    BY <1>6, RowType, HidingType
       DEF Hiding, DeleteMessage, SetVisibility, Archive, Restore
  <2>2. PICK row \in Message : Change(i, row)
    BY <2>1
  <2> QED
    <3>1. messages' \in Seq(Message) /\ Len(messages') = Len(messages)
      BY <2>2, ChangeType DEF Change
    <3>2. hidings' \in 0 .. MaxWrites
      BY <1>0, <2>2, MessagesAssumption DEF Change, Room, TypeOK
    <3> QED
      BY <1>0, <2>2, <3>1, <3>2 DEF Change, TypeOK
<1>7. ASSUME NEW i \in DOMAIN messages, List(i) PROVE TypeOK'
  <2>1. VariantIndex(i) \in 0 .. MaxRows
    <3>1. Listed(SiblingsOf(messages[i].parent)) \subseteq DOMAIN messages
      BY DEF Listed, Visible, SiblingsOf, Stored
    <3> QED
      BY <1>a, <3>1, PositionType DEF VariantIndex
  <2>2. i \in 0 .. MaxRows
    BY <1>0
  <2> QED
    BY <1>7, <2>1, <2>2 DEF List, TypeOK
<1>8. CASE MonthPasses
  <2>1. messages' \in [1 .. Len(messages) -> Message]
    BY <1>0, <1>8, RowType, HidingType DEF MonthPasses
  <2> QED
    BY <1>0, <1>8, <2>1, RowsOfType DEF MonthPasses, TypeOK
<1>9. CASE Purge
  <2>1. messages' \in [1 .. Len(messages) -> Message]
    BY <1>0, <1>9, RowType, HidingType DEF Purge
  <2> QED
    BY <1>0, <1>9, <2>1, RowsOfType, ShownType DEF Purge, TypeOK
<1>10. CASE UNCHANGED vars
  BY <1>10 DEF vars, TypeOK
<1> QED
  BY <1>1, <1>2, <1>3, <1>4, <1>5, <1>b, <1>6, <1>7, <1>8, <1>9, <1>10 DEF Next, Step

-----------------------------------------------------------------------------
(* Safety.                                                                 *)

\* A step that adds and removes no message, and moves none to another place.
LEMMA SameTree ==
    ASSUME IInv, Len(messages') = Len(messages), DOMAIN messages' = DOMAIN messages,
           \A i \in DOMAIN messages :
              /\ messages'[i].swipe = messages[i].swipe /\ messages'[i].parent = messages[i].parent
              /\ messages'[i].purged = messages[i].purged /\ messages'[i].crossed = messages[i].crossed
    PROVE  /\ SwipesBelow' /\ SwipesDistinct'
           /\ Stored' = Stored /\ \A p : SiblingsOf(p)' = SiblingsOf(p)
           /\ calls' = calls => CallsBelow' /\ OnTimeAbove'
           /\ shown' = shown => ShownCounts'
<1>1. SwipesBelow'
  BY DEF IInv, SwipesBelow
<1>2. Stored' = Stored /\ \A i \in Stored : i \in DOMAIN messages
  BY DEF Stored
<1>3. ASSUME NEW p PROVE SiblingsOf(p)' = SiblingsOf(p)
  BY <1>2 DEF SiblingsOf
<1>4. SwipesDistinct'
  BY <1>2 DEF IInv, SwipesDistinct
<1>5. ASSUME calls' = calls PROVE CallsBelow' /\ OnTimeAbove'
  <2>1. CallsBelow'
    BY <1>5 DEF IInv, CallsBelow
  <2>2. \A p : \A i \in SiblingsOf(p) : messages'[i].swipe = messages[i].swipe
    BY DEF SiblingsOf, Stored
  <2> QED
    BY <1>3, <1>5, <2>1, <2>2 DEF IInv, OnTimeAbove
<1>6. ASSUME shown' = shown PROVE ShownCounts'
  <2>1. SUFFICES ASSUME shown # NotShown
                 PROVE  /\ shown.id \in Stored /\ messages'[shown.id].parent # None
                        /\ Counts(shown.index, shown.shifted,
                                  Position(shown.id, SiblingsOf(messages[shown.id].parent)))'
    BY <1>2, <1>6 DEF ShownCounts, IInv
  <2> DEFINE i == shown.id
             S == SiblingsOf(messages[i].parent)
  <2>2. i \in Stored /\ messages[i].parent # None
        /\ Counts(shown.index, shown.shifted, Position(i, S))
    BY <2>1 DEF IInv, ShownCounts
  <2>3. i \in DOMAIN messages /\ messages'[i].parent = messages[i].parent /\ S' = S
    BY <1>2, <1>3, <1>6, <2>2
  <2>4. \A j \in S : Before(j, i)' <=> Before(j, i)
    BY <1>6, <2>3 DEF Before, SiblingsOf, Stored
  <2>5. {j \in S : Before(j, i)}' = {j \in S : Before(j, i)}
    BY <2>3, <2>4
  <2>6. Position(i, S)' = Position(i, S)
    BY <2>5 DEF Position
  <2> QED
    BY <1>6, <2>2, <2>3, <2>6 DEF Counts
<1> QED
  BY <1>1, <1>2, <1>3, <1>4, <1>5, <1>6

\* A post or a reply that is stored: the calls it overtakes know.
LEMMA InsertKeeps ==
    ASSUME IInv, NEW s \in Slots, NEW next \in Call,
           calls[s].op \in {"post", "reply", "generate"}, ParentHolds(calls[s].parent),
           next = Idle \/ next = [op |-> "answer", id |-> Len(messages) + 1],
           InsertRow(s, calls[s], next)
    PROVE  /\ SwipesBelow' /\ CallsBelow' /\ OnTimeAbove'
           /\ SwipesDistinct' /\ ShownCounts'
<1> DEFINE c == calls[s]
           k == Len(messages) + 1
<1>0. TypeOK /\ Len(messages) \in Nat /\ Len(messages) > 0 /\ DOMAIN messages = 1 .. Len(messages)
  BY RowType DEF IInv, SwipesBelow
<1>1. c.parent \in 0 .. MaxRows /\ c.swipe \in 0 .. MaxRows /\ c.late \in BOOLEAN
  BY <1>0, CallType, MessagesAssumption DEF Ids
<1>2. /\ messages' \in Seq(Message) /\ Len(messages') = k
      /\ \A i \in 1 .. Len(messages) : messages'[i] = messages[i]
      /\ messages'[k] = NewRow(c)
  BY <1>0, <1>1, InsertType
<1>3. DOMAIN messages' = 1 .. k
  BY <1>2
<1>4. /\ messages'[k].parent = c.parent /\ messages'[k].swipe = c.swipe
      /\ messages'[k].crossed = c.late /\ ~ messages'[k].purged /\ ~ messages'[k].attempted
  BY <1>2 DEF NewRow, First
<1>5. c.swipe \in Nat /\ c.swipe < k
  BY <1>0, <1>1 DEF IInv, CallsBelow
<1>6. Stored' = Stored \cup {k} /\ k \notin Stored
  BY <1>0, <1>2, <1>3, <1>4 DEF Stored
<1>7. ASSUME NEW p
      PROVE  SiblingsOf(p)' = IF p # None /\ p = c.parent
                              THEN SiblingsOf(p) \cup {k} ELSE SiblingsOf(p)
  BY <1>0, <1>2, <1>4, <1>6 DEF SiblingsOf, Stored
<1>8. \A p : \A i \in SiblingsOf(p) : i \in 1 .. Len(messages) /\ messages'[i] = messages[i]
  BY <1>0, <1>2 DEF SiblingsOf, Stored
<1>9. /\ calls'[s] = next
      /\ \A t \in Slots \ {s} :
            \/ calls'[t] = calls[t]
               /\ ~ (c.parent # None /\ calls[t].op \in {"post", "reply"}
                     /\ calls[t].parent = c.parent)
            \/ /\ calls[t].op \in {"post", "reply"} /\ calls[t].parent = c.parent
               /\ calls'[t] = Overdue(calls[t])
  BY <1>0, InsertCalls
<1>10. SwipesBelow'
  BY <1>0, <1>2, <1>3, <1>4, <1>5 DEF IInv, SwipesBelow
<1>11. ASSUME NEW t \in Slots, NEW op \in {"post", "reply", "generate"}, calls'[t].op = op
       PROVE  /\ t # s /\ calls[t].op = op
              /\ calls'[t].parent = calls[t].parent /\ calls'[t].swipe = calls[t].swipe
              /\ ~ calls'[t].late => /\ calls'[t] = calls[t]
                                     /\ calls[t].parent # c.parent \/ c.parent = None
                                        \/ op = "generate"
  <2>1. t # s
    BY <1>9, <1>11 DEF Idle
  <2>2. CASE calls'[t] = calls[t]
             /\ ~ (c.parent # None /\ calls[t].op \in {"post", "reply"}
                   /\ calls[t].parent = c.parent)
    BY <1>11, <2>1, <2>2
  <2>3. CASE calls'[t] = Overdue(calls[t])
             /\ calls[t].op \in {"post", "reply"}
    BY <1>0, <1>11, <2>1, <2>3 DEF TypeOK, Call, Idle, Overdue
  <2> QED
    BY <1>9, <2>1, <2>2, <2>3
<1>12. CallsBelow'
  <2>1. ASSUME NEW t \in Slots, calls'[t].op \in {"post", "reply", "generate"}
        PROVE  calls'[t].parent <= k /\ calls'[t].swipe <= k
               /\ (calls'[t].op = "generate" => calls'[t].swipe = 0)
    <3>1. calls[t].op \in {"post", "reply", "generate"} /\ calls[t].op = calls'[t].op
          /\ calls'[t].parent = calls[t].parent /\ calls'[t].swipe = calls[t].swipe
      BY <1>11, <2>1
    <3>2. calls[t].parent \in Nat /\ calls[t].swipe \in Nat
      BY <1>0, <3>1, CallType, MessagesAssumption DEF Ids
    <3> QED
      BY <1>0, <3>1, <3>2 DEF IInv, CallsBelow
  <2>2. ASSUME NEW t \in Slots, calls'[t].op = "answer" PROVE calls'[t].id <= k
    <3>1. CASE t = s
      BY <1>0, <1>9, <2>2, <3>1 DEF Idle
    <3>2. CASE t # s /\ calls'[t] = calls[t]
      <4>1. calls[t].id \in Nat /\ calls[t].id <= Len(messages)
        BY <1>0, <2>2, <3>2, CallType, MessagesAssumption DEF IInv, CallsBelow, Ids
      <4> QED
        BY <1>0, <3>2, <4>1
    <3>3. CASE t # s /\ calls[t].op \in {"post", "reply"}
                     /\ calls'[t] = Overdue(calls[t])
      BY <1>0, <2>2, <3>3 DEF TypeOK, Call, Idle, Overdue
    <3> QED
      BY <1>9, <3>1, <3>2, <3>3
  <2> QED
    BY <1>2, <2>1, <2>2 DEF CallsBelow
<1>13. OnTimeAbove'
  <2>1. ASSUME NEW t \in Slots, calls'[t].op \in {"post", "reply"}, ~ calls'[t].late
        PROVE  \A i \in SiblingsOf(calls[t].parent)' : messages'[i].swipe < calls'[t].swipe
    <3>1. /\ calls[t].op \in {"post", "reply"} /\ calls'[t] = calls[t]
          /\ calls[t].parent # c.parent \/ c.parent = None
      BY <1>11, <2>1
    <3>2. PICK p : p = calls[t].parent
      OBVIOUS
    <3>3. \A i \in SiblingsOf(p) : messages[i].swipe < calls[t].swipe
      BY <2>1, <3>1, <3>2 DEF IInv, OnTimeAbove
    <3>4. SiblingsOf(p)' = SiblingsOf(p)
      BY <1>7, <3>1, <3>2
    <3>5. SiblingsOf(calls[t].parent)' = SiblingsOf(p)'
      BY <3>1, <3>2
    <3> QED
      BY <1>8, <3>1, <3>3, <3>4, <3>5
  <2> QED
    BY <2>1 DEF OnTimeAbove
<1>14. ~ c.late /\ c.op # "generate" =>
          \A i \in SiblingsOf(c.parent) : messages[i].swipe < c.swipe
  BY DEF IInv, OnTimeAbove
<1>e. c.op = "generate" => c.swipe = 0
  BY DEF IInv, CallsBelow
<1>15. SwipesDistinct'
  <2>1. SUFFICES ASSUME NEW i \in Stored', NEW j \in Stored', i < j,
                        messages'[i].parent = messages'[j].parent, messages'[i].parent # None,
                        messages'[i].swipe = messages'[j].swipe, messages'[i].swipe # 0
                 PROVE  messages'[j].crossed
    BY DEF SwipesDistinct
  <2>2. \A m \in Stored : m \in 1 .. Len(messages) /\ messages'[m] = messages[m]
    BY <1>0, <1>2 DEF Stored
  <2>3. CASE j = k
    <3>1. i \in Stored /\ messages'[i] = messages[i]
      BY <1>6, <2>1, <2>2, <2>3, <1>0
    <3>2. i \in SiblingsOf(c.parent)
      BY <1>4, <2>1, <2>3, <3>1 DEF SiblingsOf
    <3>3. messages[i].swipe = c.swipe
      BY <1>4, <2>1, <2>3, <3>1
    <3> QED
      BY <1>4, <1>5, <1>14, <1>e, <2>1, <2>3, <3>1, <3>2, <3>3
  <2>4. CASE j # k
    <3>1. i \in Stored /\ j \in Stored
      BY <1>0, <1>6, <2>1, <2>2, <2>4
    <3> QED
      BY <2>1, <2>2, <3>1 DEF IInv, SwipesDistinct
  <2> QED
    BY <2>3, <2>4
<1>17. ShownCounts'
  <2>1. SUFFICES ASSUME shown' # NotShown PROVE ShownCounts'
    BY DEF ShownCounts
  <2>a. PICK i, p : i = shown.id /\ p = messages[shown.id].parent
    OBVIOUS
  <2>b. PICK m : m = k
    OBVIOUS
  <2>2. /\ shown # NotShown /\ shown'.id = i /\ shown'.index = shown.index
        /\ shown'.shifted = (shown.shifted \/ (c.parent = p /\ (c.late \/ c.op = "generate")))
    BY <1>0, <2>1, <2>a DEF InsertRow, TypeOK
  <2>3. i \in Stored /\ p # None /\ Counts(shown.index, shown.shifted, Position(i, SiblingsOf(p)))
    BY <2>2, <2>a DEF IInv, ShownCounts
  <2>4. i \in 1 .. Len(messages) /\ messages'[i] = messages[i] /\ i \in Stored'
    BY <1>0, <1>2, <1>6, <2>3 DEF Stored
  <2> DEFINE A == {j \in SiblingsOf(p) : Before(j, i)}
             B == {j \in SiblingsOf(p)' : messages'[j].swipe < messages'[i].swipe
                                         \/ (messages'[j].swipe = messages'[i].swipe /\ j < i)}
  <2>5. \A j \in SiblingsOf(p) : j \in B <=> j \in A
    BY <1>7, <1>8, <2>2, <2>4 DEF Before
  <2>6. SiblingsOf(p)' \subseteq SiblingsOf(p) \cup {m} /\ (c.parent # p => SiblingsOf(p)' = SiblingsOf(p))
    BY <1>7, <2>b
  <2>7. Position(i, SiblingsOf(p)) = Cardinality(A) /\ Position(i, SiblingsOf(p))' = Cardinality(B)
        /\ IsFiniteSet(A)
    <3>1. SiblingsOf(p) \subseteq DOMAIN messages
      BY DEF SiblingsOf, Stored
    <3> QED
      BY <1>0, <3>1, PositionType DEF Position, Before
  <2>8. A \subseteq B /\ B \subseteq A \cup {m}
    BY <2>5, <2>6, <1>7
  <2>9. shown'.shifted \/ (~ shown.shifted /\ B = A)
    <3>1. CASE c.parent # p
      BY <2>2, <2>5, <2>6, <3>1
    <3>2. CASE c.parent = p /\ (c.late \/ c.op = "generate")
      BY <2>2, <3>2
    <3>3. CASE c.parent = p /\ ~ c.late /\ c.op # "generate"
      <4>1. i \in SiblingsOf(p)
        BY <2>a, <2>3 DEF SiblingsOf
      <4>2. messages[i].swipe < c.swipe /\ messages[i].swipe \in Nat /\ i < k
        BY <1>0, <1>14, <2>2, <2>4, <3>3, <4>1, RowType
      <4>3. messages'[m].swipe = c.swipe /\ messages'[i].swipe = messages[i].swipe
        BY <1>4, <2>4, <2>b
      <4>4. m \notin B
        BY <1>0, <1>5, <2>b, <4>2, <4>3
      <4> QED
        BY <1>0, <2>2, <2>8, <4>4 DEF TypeOK
    <3> QED
      BY <3>1, <3>2, <3>3
  <2>10. IsFiniteSet(B)
    <3>1. IsFiniteSet(A \cup {m})
      BY <2>7, FS_AddElement
    <3> QED
      BY <2>8, <3>1, FS_Subset
  <2> HIDE DEF A, B
  <2>11. Cardinality(A) \in Nat /\ Cardinality(B) \in Nat /\ Cardinality(A) <= Cardinality(B)
    BY <2>7, <2>8, <2>10, FS_Subset, FS_CardinalityType
  <2>12. shown.index \in Nat /\ shown.shifted \in BOOLEAN /\ shown'.shifted \in BOOLEAN
    BY <1>0, <2>2, MessagesAssumption DEF TypeOK
  <2>13. Counts(shown.index, shown'.shifted, Cardinality(B))
    BY <2>2, <2>3, <2>7, <2>9, <2>11, <2>12 DEF Counts
  <2>14. messages'[i].parent = p /\ Position(i, SiblingsOf(p))' = Cardinality(B)
    BY <2>a, <2>4, <2>7
  <2> QED
    BY <2>2, <2>3, <2>4, <2>13, <2>14 DEF ShownCounts
<1> QED
  BY <1>10, <1>12, <1>13, <1>15, <1>17

\* What is stored is not archived, what is purged not visible.
LEMMA InsertArchived ==
    ASSUME IInv, NEW s \in Slots, NEW next \in Call,
           calls[s].op \in {"post", "reply", "generate"}, InsertRow(s, calls[s], next)
    PROVE  ArchivedHidden'
<1>1. TypeOK /\ Len(messages) \in Nat /\ DOMAIN messages = 1 .. Len(messages)
  BY RowType DEF IInv
<1>2. calls[s].parent \in 0 .. MaxRows /\ calls[s].swipe \in 0 .. MaxRows
      /\ calls[s].late \in BOOLEAN
  BY <1>1, CallType, MessagesAssumption DEF Ids
<1>3. /\ messages' \in Seq(Message) /\ Len(messages') = Len(messages) + 1
      /\ \A i \in 1 .. Len(messages) : messages'[i] = messages[i]
      /\ messages'[Len(messages) + 1] = NewRow(calls[s])
  BY <1>1, <1>2, InsertType
<1>4. DOMAIN messages' = 1 .. Len(messages) + 1
  BY <1>3
<1>5. messages'[Len(messages) + 1].archived = "no"
  BY <1>3 DEF NewRow, First
<1> QED
  BY <1>1, <1>3, <1>4, <1>5 DEF IInv, ArchivedHidden

LEMMA PurgeArchived == IInv /\ Purge => ArchivedHidden'
BY DEF IInv, Purge, ArchivedHidden, NoRow, First

LEMMA PurgeKeeps == IInv /\ Purge => SwipesBelow' /\ CallsBelow' /\ OnTimeAbove'
                                     /\ SwipesDistinct' /\ ShownCounts'
<1> SUFFICES ASSUME IInv, Purge
             PROVE  SwipesBelow' /\ CallsBelow' /\ OnTimeAbove'
                    /\ SwipesDistinct' /\ ShownCounts'
  OBVIOUS
<1>0. TypeOK /\ Len(messages) \in Nat /\ Len(messages) > 0 /\ DOMAIN messages = 1 .. Len(messages)
  BY RowType DEF IInv, SwipesBelow
<1>1. /\ messages' = [i \in DOMAIN messages |-> IF i \in Expired THEN NoRow ELSE messages[i]]
      /\ shown' = NotShown /\ calls' = calls /\ Releasable(Expired)
  BY DEF Purge
<1>2. /\ messages' \in [1 .. Len(messages) -> Message] /\ DOMAIN messages' = DOMAIN messages
      /\ \A i \in DOMAIN messages : messages'[i] = IF i \in Expired THEN NoRow ELSE messages[i]
  BY <1>0, <1>1, RowType, HidingType
<1>3. Len(messages') = Len(messages)
  BY <1>0, <1>2, RowsOfType
<1>4. NoRow.purged /\ ~ NoRow.attempted /\ NoRow.swipe = 0
  BY DEF NoRow, First
<1>5. Stored' = Stored \ Expired /\ \A i \in Stored' : messages'[i] = messages[i]
  BY <1>2, <1>4 DEF Stored, Expired
<1>6. \A p : SiblingsOf(p)' \subseteq SiblingsOf(p)
             /\ \A i \in SiblingsOf(p)' : messages'[i] = messages[i]
  BY <1>5 DEF SiblingsOf
<1>7. SwipesBelow'
  BY <1>0, <1>2, <1>3, <1>4 DEF IInv, SwipesBelow
<1>8. CallsBelow'
  BY <1>1, <1>3 DEF IInv, CallsBelow
<1>9. OnTimeAbove'
  <2>1. ASSUME NEW t \in Slots, calls'[t].op \in {"post", "reply"}, ~ calls'[t].late
        PROVE  \A i \in SiblingsOf(calls[t].parent)' : messages'[i].swipe < calls'[t].swipe
    <3>1. PICK p : p = calls[t].parent
      OBVIOUS
    <3>2. \A i \in SiblingsOf(p) : messages[i].swipe < calls[t].swipe
      BY <1>1, <2>1, <3>1 DEF IInv, OnTimeAbove
    <3>3. SiblingsOf(calls[t].parent)' = SiblingsOf(p)'
      BY <1>1, <3>1
    <3> QED
      BY <1>1, <1>6, <3>2, <3>3
  <2> QED
    BY <2>1 DEF OnTimeAbove
<1>10. SwipesDistinct'
  BY <1>5 DEF IInv, SwipesDistinct
<1>12. ShownCounts'
  BY <1>1 DEF ShownCounts
<1> QED
  BY <1>7, <1>8, <1>9, <1>10, <1>12

\* A call that is free begins a post, or one that answers begins a reply.
LEMMA ReadSwipeKeeps ==
    ASSUME IInv, NEW s \in Slots, NEW p \in 0 .. Len(messages), NEW op \in {"post", "reply"},
           calls' = [calls EXCEPT ![s] =
              [op |-> op, parent |-> p, swipe |-> NextSwipe(p), late |-> FALSE]],
           Len(messages') = Len(messages), \A q : SiblingsOf(q)' = SiblingsOf(q),
           \A i \in DOMAIN messages : messages'[i].swipe = messages[i].swipe
    PROVE  CallsBelow' /\ OnTimeAbove'
<1>0. TypeOK /\ Len(messages) \in Nat /\ p \in Nat
  BY RowType DEF IInv
<1>1. NextSwipe(p) \in 0 .. Len(messages)
      /\ \A i \in SiblingsOf(p) : messages[i].swipe < NextSwipe(p)
  BY <1>0, NextSwipeAbove DEF IInv
<1>2. /\ calls'[s].op = op /\ calls'[s].parent = p
      /\ calls'[s].swipe = NextSwipe(p) /\ ~ calls'[s].late
      /\ \A t \in Slots \ {s} : calls'[t] = calls[t]
  BY <1>0 DEF TypeOK
<1>3. CallsBelow'
  <2>1. ASSUME NEW t \in Slots
        PROVE  /\ calls'[t].op \in {"post", "reply", "generate"} =>
                     calls'[t].parent <= Len(messages) /\ calls'[t].swipe <= Len(messages)
               /\ calls'[t].op = "generate" => calls'[t].swipe = 0
               /\ calls'[t].op = "answer" => calls'[t].id <= Len(messages)
    <3>1. CASE t = s
      BY <1>0, <1>1, <1>2, <3>1
    <3>2. CASE t # s
      BY <1>2, <3>2 DEF IInv, CallsBelow
    <3> QED
      BY <3>1, <3>2
  <2> QED
    BY <2>1 DEF CallsBelow
<1>4. \A q : \A i \in SiblingsOf(q) : messages'[i].swipe = messages[i].swipe
  BY DEF SiblingsOf, Stored
<1>5. OnTimeAbove'
  <2>1. ASSUME NEW t \in Slots, calls'[t].op \in {"post", "reply"}, ~ calls'[t].late,
               NEW q, q = calls'[t].parent
        PROVE  \A i \in SiblingsOf(q) : messages[i].swipe < calls'[t].swipe
    <3>1. CASE t = s
      BY <1>1, <1>2, <2>1, <3>1
    <3>2. CASE t # s
      BY <1>2, <2>1, <3>2 DEF IInv, OnTimeAbove
    <3> QED
      BY <3>1, <3>2
  <2>2. ASSUME NEW t \in Slots, (calls[t].op \in {"post", "reply"})', ~ (calls[t].late)'
        PROVE  (\A i \in SiblingsOf(calls[t].parent) : messages[i].swipe < calls[t].swipe)'
    <3>1. PICK q : q = calls'[t].parent
      OBVIOUS
    <3>2. SiblingsOf(calls[t].parent)' = SiblingsOf(q)'
      BY <3>1
    <3>3. SiblingsOf(q)' = SiblingsOf(q)
      OBVIOUS
    <3> QED
      BY <1>4, <2>1, <2>2, <3>1, <3>2, <3>3
  <2> QED
    BY <2>2 DEF OnTimeAbove
<1> QED
  BY <1>3, <1>5

\* new is the message of old, archived and visible only by hand.
SameMessage(new, old) ==
    /\ new.swipe = old.swipe /\ new.parent = old.parent /\ new.purged = old.purged
    /\ new.crossed = old.crossed /\ new.attempted = old.attempted
    /\ new.archived # "no" /\ new.visible => new.byHand

LEMMA HidingSame ==
    ASSUME NEW row \in Message, NEW v \in BOOLEAN
    PROVE  /\ SameMessage(Removed(row), row) /\ SameMessage(WithVisibility(row, v), row)
           /\ SameMessage(Archived(row), row) /\ SameMessage(Restored(row), row)
<1>1. SameMessage(Removed(row), row)
  BY DEF SameMessage, Removed, Message
<1>2. SameMessage(WithVisibility(row, v), row)
  BY DEF SameMessage, WithVisibility, Message
<1>3. SameMessage(Archived(row), row)
  BY DEF SameMessage, Archived, Message
<1>4. SameMessage(Restored(row), row)
  BY DEF SameMessage, Restored, Message
<1> QED
  BY <1>1, <1>2, <1>3, <1>4

\* Hiding, archiving and restoring change one row, and only how it is seen.
LEMMA HidingKeeps ==
    ASSUME IInv, NEW i \in DOMAIN messages, Hiding(i)
    PROVE  /\ Len(messages') = Len(messages) /\ DOMAIN messages' = DOMAIN messages
           /\ \A j \in DOMAIN messages :
                 /\ messages'[j].swipe = messages[j].swipe /\ messages'[j].parent = messages[j].parent
                 /\ messages'[j].purged = messages[j].purged /\ messages'[j].crossed = messages[j].crossed
                 /\ messages'[j].attempted = messages[j].attempted
           /\ ArchivedHidden' /\ UNCHANGED <<calls, shown>>
<1>0. TypeOK /\ messages[i] \in Message /\ DOMAIN messages = 1 .. Len(messages)
  BY RowType DEF IInv
<1>1. PICK row \in Message : Change(i, row) /\ SameMessage(row, messages[i])
  BY <1>0, HidingType, HidingSame
     DEF Hiding, DeleteMessage, SetVisibility, Archive, Restore
<1>2. messages' = [messages EXCEPT ![i] = row] /\ UNCHANGED <<calls, shown>>
  BY <1>1 DEF Change
<1>3. Len(messages') = Len(messages) /\ DOMAIN messages' = DOMAIN messages
  BY <1>0, <1>2, ChangeType
<1>4. messages'[i] = row /\ \A j \in DOMAIN messages : j # i => messages'[j] = messages[j]
  BY <1>2
<1>5. ArchivedHidden'
  BY <1>1, <1>3, <1>4 DEF IInv, ArchivedHidden, SameMessage
<1> QED
  BY <1>1, <1>2, <1>3, <1>4, <1>5 DEF SameMessage

LEMMA MonthKeeps ==
    ASSUME IInv, MonthPasses
    PROVE  /\ Len(messages') = Len(messages) /\ DOMAIN messages' = DOMAIN messages
           /\ \A j \in DOMAIN messages :
                 /\ messages'[j].swipe = messages[j].swipe /\ messages'[j].parent = messages[j].parent
                 /\ messages'[j].purged = messages[j].purged /\ messages'[j].crossed = messages[j].crossed
                 /\ messages'[j].attempted = messages[j].attempted
           /\ ArchivedHidden' /\ UNCHANGED <<calls, shown>>
<1>0. TypeOK /\ Len(messages) \in Nat /\ DOMAIN messages = 1 .. Len(messages)
      /\ \A j \in DOMAIN messages : messages[j] \in Message
  BY RowType DEF IInv
<1>1. messages' = [j \in DOMAIN messages |->
         IF messages[j].archived = "recent" THEN [messages[j] EXCEPT !.archived = "expired"] ELSE messages[j]]
      /\ UNCHANGED <<calls, shown>>
  BY DEF MonthPasses
<1>2. messages' \in [1 .. Len(messages) -> Message]
  BY <1>0, <1>1, HidingType
<1>3. Len(messages') = Len(messages) /\ DOMAIN messages' = DOMAIN messages
  BY <1>0, <1>2, RowsOfType
<1>4. ASSUME NEW j \in DOMAIN messages
      PROVE  /\ messages'[j].swipe = messages[j].swipe /\ messages'[j].parent = messages[j].parent
             /\ messages'[j].purged = messages[j].purged /\ messages'[j].crossed = messages[j].crossed
             /\ messages'[j].attempted = messages[j].attempted
             /\ messages'[j].visible = messages[j].visible /\ messages'[j].byHand = messages[j].byHand
             /\ messages'[j].archived # "no" => messages[j].archived # "no"
  <2>1. messages[j] \in Message
    BY <1>0
  <2> QED
    BY <1>1, <2>1 DEF Message
<1>5. ArchivedHidden'
  BY <1>3, <1>4 DEF IInv, ArchivedHidden
<1> QED
  BY <1>1, <1>3, <1>4, <1>5

\* A call that is over refers to nothing.
LEMMA IdleKeeps ==
    ASSUME IInv, NEW s \in Slots, calls' = [calls EXCEPT ![s] = Idle],
           UNCHANGED <<messages, shown>>
    PROVE  CallsBelow' /\ OnTimeAbove'
<1>1. calls'[s] = Idle /\ \A t \in Slots \ {s} : calls'[t] = calls[t]
  BY DEF IInv, TypeOK
<1>2. CallsBelow'
  BY <1>1 DEF IInv, CallsBelow, Idle
<1>3. OnTimeAbove'
  BY <1>1 DEF IInv, OnTimeAbove, Idle, SiblingsOf, Stored
<1> QED
  BY <1>2, <1>3

\* An attempt marks one message, and nothing that places or shows it.
LEMMA AttemptKeeps ==
    ASSUME IInv, NEW p \in Stored,
           messages' = [messages EXCEPT ![p] = [messages[p] EXCEPT !.attempted = TRUE]],
           UNCHANGED shown
    PROVE  /\ Len(messages') = Len(messages)
           /\ \A j \in DOMAIN messages : messages'[j].swipe = messages[j].swipe
           /\ SwipesBelow' /\ SwipesDistinct' /\ ShownCounts' /\ ArchivedHidden'
           /\ \A q : SiblingsOf(q)' = SiblingsOf(q)
<1> DEFINE new == [messages[p] EXCEPT !.attempted = TRUE]
<1>0. TypeOK /\ ArchivedHidden /\ p \in DOMAIN messages /\ messages[p] \in Message
  BY RowType DEF IInv, Stored
<1>1. /\ new \in Message /\ new.swipe = messages[p].swipe /\ new.parent = messages[p].parent
      /\ new.purged = messages[p].purged /\ new.crossed = messages[p].crossed
      /\ new.archived = messages[p].archived /\ new.visible = messages[p].visible
      /\ new.byHand = messages[p].byHand
  BY <1>0 DEF Message
<1>2. messages' = [messages EXCEPT ![p] = new]
  OBVIOUS
<1> HIDE DEF new
<1>3. Len(messages') = Len(messages) /\ DOMAIN messages' = DOMAIN messages
      /\ messages'[p] = new /\ \A j \in DOMAIN messages : j # p => messages'[j] = messages[j]
  BY <1>0, <1>1, <1>2, ChangeType
<1>4. \A j \in DOMAIN messages :
         /\ messages'[j].swipe = messages[j].swipe /\ messages'[j].parent = messages[j].parent
         /\ messages'[j].purged = messages[j].purged /\ messages'[j].crossed = messages[j].crossed
  BY <1>1, <1>3
<1>5. ArchivedHidden'
  BY <1>0, <1>1, <1>3 DEF ArchivedHidden
<1> QED
  BY <1>3, <1>4, <1>5, SameTree

\* A call begins to generate: it holds no swipe index.
LEMMA GenerateKeeps ==
    ASSUME IInv, NEW s \in Slots, NEW p \in Stored,
           calls' = [calls EXCEPT ![s] =
              [op |-> "generate", parent |-> p, swipe |-> 0, late |-> FALSE]],
           Len(messages') = Len(messages), \A q : SiblingsOf(q)' = SiblingsOf(q),
           \A i \in DOMAIN messages : messages'[i].swipe = messages[i].swipe
    PROVE  CallsBelow' /\ OnTimeAbove'
<1>0. TypeOK /\ Len(messages) \in Nat /\ p <= Len(messages) /\ p \in Nat
  BY RowType DEF IInv, Stored
<1>1. /\ calls'[s].op = "generate" /\ calls'[s].parent = p /\ calls'[s].swipe = 0
      /\ \A t \in Slots \ {s} : calls'[t] = calls[t]
  BY <1>0 DEF TypeOK
<1>2. CallsBelow'
  <2>1. ASSUME NEW t \in Slots
        PROVE  /\ calls'[t].op \in {"post", "reply", "generate"} =>
                     calls'[t].parent <= Len(messages) /\ calls'[t].swipe <= Len(messages)
               /\ calls'[t].op = "generate" => calls'[t].swipe = 0
               /\ calls'[t].op = "answer" => calls'[t].id <= Len(messages)
    <3>1. CASE t = s
      BY <1>0, <1>1, <3>1
    <3>2. CASE t # s
      BY <1>1, <3>2 DEF IInv, CallsBelow
    <3> QED
      BY <3>1, <3>2
  <2> QED
    BY <2>1 DEF CallsBelow
<1>3. \A q : \A i \in SiblingsOf(q) : messages'[i].swipe = messages[i].swipe
  BY DEF SiblingsOf, Stored
<1>4. OnTimeAbove'
  <2>1. ASSUME NEW t \in Slots, (calls[t].op \in {"post", "reply"})', ~ (calls[t].late)'
        PROVE  (\A i \in SiblingsOf(calls[t].parent) : messages[i].swipe < calls[t].swipe)'
    <3>1. PICK q : q = calls'[t].parent
      OBVIOUS
    <3>2. calls'[t] = calls[t]
      BY <1>1, <2>1
    <3>3. \A i \in SiblingsOf(q) : messages[i].swipe < calls'[t].swipe
      BY <2>1, <3>1, <3>2 DEF IInv, OnTimeAbove
    <3>4. SiblingsOf(calls[t].parent)' = SiblingsOf(q)'
      BY <3>1
    <3>5. SiblingsOf(q)' = SiblingsOf(q)
      OBVIOUS
    <3> QED
      BY <1>3, <3>3, <3>4, <3>5
  <2> QED
    BY <2>1 DEF OnTimeAbove
<1> QED
  BY <1>2, <1>4

LEMMA ListKeeps ==
    ASSUME IInv, NEW i \in DOMAIN messages, List(i)
    PROVE  ShownCounts'
<1> DEFINE S == SiblingsOf(messages[i].parent)
           A == {j \in Visible(S) : Before(j, i)}
           B == {j \in S : Before(j, i)}
<1>1. /\ UNCHANGED messages /\ i \in Stored /\ messages[i].parent # None
      /\ shown'.id = i /\ shown'.index = Cardinality(A)
      /\ shown'.shifted = (\E j \in S \ Visible(S) : Before(j, i))
  <2>1. /\ UNCHANGED messages /\ i \in Stored /\ messages[i].parent # None
        /\ shown' = [id |-> i, index |-> VariantIndex(i),
                     shifted |-> \E j \in S \ Visible(S) : Before(j, i)]
    BY DEF List, Visible
  <2>2. VariantIndex(i) = Cardinality(A)
    BY DEF VariantIndex, Listed, Position
  <2> QED
    BY <2>1, <2>2
<1>2. TypeOK /\ S \subseteq DOMAIN messages
  BY DEF IInv, SiblingsOf, Stored
<1>3. IsFiniteSet(B) /\ A \subseteq B
  BY <1>2, PositionType DEF Visible
<1>4. shown'.shifted \/ A = B
  BY <1>1 DEF Visible
<1>5. PICK p : p = messages[i].parent
  OBVIOUS
<1>6. Stored' = Stored /\ Position(i, SiblingsOf(p))' = Cardinality(B)
  BY <1>1, <1>5 DEF Stored, Position, Before, SiblingsOf
<1> HIDE DEF A, B
<1>7. Cardinality(A) \in Nat /\ Cardinality(B) \in Nat /\ Cardinality(A) <= Cardinality(B)
  BY <1>3, FS_Subset, FS_CardinalityType
<1>8. Counts(shown'.index, shown'.shifted, Cardinality(B))
  BY <1>1, <1>4, <1>7 DEF Counts
<1> QED
  BY <1>1, <1>5, <1>6, <1>8 DEF ShownCounts

LEMMA InvStep == IInv /\ [Next]_vars => IInv'
<1> SUFFICES ASSUME IInv, [Next]_vars
             PROVE  /\ SwipesBelow' /\ CallsBelow' /\ OnTimeAbove' /\ SwipesDistinct'
                    /\ ShownCounts' /\ ArchivedHidden'
  BY TypeStep DEF IInv
<1> DEFINE Kept == /\ SwipesBelow' /\ CallsBelow' /\ OnTimeAbove' /\ SwipesDistinct'
                   /\ ShownCounts' /\ ArchivedHidden'
<1>0. TypeOK /\ ArchivedHidden /\ Len(messages) \in Nat /\ DOMAIN messages = 1 .. Len(messages)
  BY RowType DEF IInv
<1>1. ASSUME UNCHANGED messages
      PROVE  /\ SwipesBelow' /\ SwipesDistinct' /\ ArchivedHidden'
             /\ \A p : SiblingsOf(p)' = SiblingsOf(p)
             /\ calls' = calls => CallsBelow' /\ OnTimeAbove'
             /\ shown' = shown => ShownCounts'
  BY <1>0, <1>1, SameTree DEF ArchivedHidden
<1>2. ASSUME NEW s \in Slots, NEW p \in 0 .. Len(messages), Post(s, p) PROVE Kept
  <2>1. UNCHANGED <<messages, shown>>
        /\ calls' = [calls EXCEPT ![s] =
              [op |-> "post", parent |-> p, swipe |-> NextSwipe(p), late |-> FALSE]]
    BY <1>2 DEF Post
  <2> QED
    BY <1>1, <2>1, ReadSwipeKeeps
<1>3. ASSUME NEW s \in Slots, PostInsert(s) PROVE Kept
  <2>1. PICK next : /\ next = Idle \/ next = [op |-> "answer", id |-> Len(messages) + 1]
                    /\ InsertRow(s, calls[s], next)
    BY <1>3 DEF PostInsert
  <2>2. next \in Call
    <3>1. Len(messages) + 1 \in Ids
      BY <1>0, <2>1, MessagesAssumption DEF InsertRow, Ids
    <3> QED
      BY <2>1, <3>1 DEF Call
  <2>3. calls[s].op \in {"post", "reply", "generate"} /\ ParentHolds(calls[s].parent)
    BY <1>3 DEF PostInsert
  <2>4. ArchivedHidden'
    BY <2>1, <2>2, <2>3, InsertArchived
  <2> QED
    BY <2>1, <2>2, <2>3, <2>4, InsertKeeps
<1>4. ASSUME NEW s \in Slots, ReplyInsert(s) \/ StoreGenerated(s) PROVE Kept
  <2>1. /\ InsertRow(s, calls[s], Idle) /\ Idle \in Call
        /\ calls[s].op \in {"post", "reply", "generate"} /\ ParentHolds(calls[s].parent)
    BY <1>4 DEF ReplyInsert, StoreGenerated, Call
  <2>2. ArchivedHidden'
    BY <2>1, InsertArchived
  <2> QED
    BY <2>1, <2>2, InsertKeeps
<1>5. ASSUME NEW s \in Slots, PostRefused(s) \/ NoReply(s) PROVE Kept
  <2>1. calls' = [calls EXCEPT ![s] = Idle] /\ UNCHANGED <<messages, shown>>
    BY <1>5 DEF PostRefused, NoReply
  <2> QED
    BY <1>1, <2>1, IdleKeeps
<1>6. ASSUME NEW s \in Slots, Answer(s) PROVE Kept
  <2>1. PICK p : p = calls[s].id
    OBVIOUS
  <2>2. p \in 0 .. Len(messages) /\ p \in DOMAIN messages
    BY <1>0, <1>6, <2>1, CallType DEF IInv, Answer, CallsBelow, Ids
  <2>3. /\ calls' = [calls EXCEPT ![s] =
              [op |-> "reply", parent |-> p, swipe |-> NextSwipe(p), late |-> FALSE]]
        /\ UNCHANGED shown
    BY <1>6, <2>1 DEF Answer
  <2>4. \/ UNCHANGED messages
        \/ p \in Stored /\ messages' = [messages EXCEPT ![p] = [messages[p] EXCEPT !.attempted = TRUE]]
    BY <1>6, <2>1 DEF Answer
  <2>5. CASE UNCHANGED messages
    BY <1>1, <2>2, <2>3, <2>5, ReadSwipeKeeps
  <2>6. CASE p \in Stored /\ messages' = [messages EXCEPT ![p] = [messages[p] EXCEPT !.attempted = TRUE]]
    BY <2>2, <2>3, <2>6, AttemptKeeps, ReadSwipeKeeps
  <2> QED
    BY <2>4, <2>5, <2>6
<1>a. ASSUME NEW s \in Slots, NEW p \in 0 .. Len(messages), Generate(s, p) PROVE Kept
  <2>1. /\ p \in Stored /\ UNCHANGED shown
        /\ calls' = [calls EXCEPT ![s] =
              [op |-> "generate", parent |-> p, swipe |-> 0, late |-> FALSE]]
        /\ messages' = [messages EXCEPT ![p] = [messages[p] EXCEPT !.attempted = TRUE]]
    BY <1>a DEF Generate
  <2>2. /\ Len(messages') = Len(messages) /\ \A q : SiblingsOf(q)' = SiblingsOf(q)
        /\ \A j \in DOMAIN messages : messages'[j].swipe = messages[j].swipe
        /\ SwipesBelow' /\ SwipesDistinct' /\ ShownCounts' /\ ArchivedHidden'
    BY <2>1, AttemptKeeps
  <2> QED
    BY <2>1, <2>2, GenerateKeeps
<1>7. ASSUME NEW i \in DOMAIN messages, Hiding(i) PROVE Kept
  BY <1>7, HidingKeeps, SameTree
<1>8. ASSUME NEW i \in DOMAIN messages, List(i) PROVE Kept
  BY <1>1, <1>8, ListKeeps DEF List
<1>9. CASE MonthPasses
  BY <1>9, MonthKeeps, SameTree
<1>10. CASE Purge
  BY <1>10, PurgeKeeps, PurgeArchived
<1>11. CASE UNCHANGED vars
  BY <1>1, <1>11 DEF vars
<1> QED
  BY <1>2, <1>3, <1>4, <1>5, <1>6, <1>a, <1>7, <1>8, <1>9, <1>10, <1>11 DEF Next, Step

LEMMA InvInit == Init => IInv
<1> SUFFICES ASSUME Init PROVE IInv
  OBVIOUS
<1>1. First \in Message /\ First.parent = None /\ First.swipe = 0 /\ ~ First.attempted
      /\ ~ First.purged /\ First.archived = "no"
  BY MessagesAssumption DEF First, Message, None
<1>2. messages = <<First>> /\ Len(messages) = 1 /\ DOMAIN messages = {1} /\ messages[1] = First
      /\ messages \in Seq(Message)
  BY <1>1 DEF Init
<1>3. TypeOK
  BY <1>2, ShownType, MessagesAssumption DEF Init, TypeOK, Call
<1>4. \A s \in Slots : calls[s].op = "idle"
  BY DEF Init, Idle
<1>5. SwipesBelow /\ CallsBelow /\ OnTimeAbove
  BY <1>1, <1>2, <1>4 DEF SwipesBelow, CallsBelow, OnTimeAbove
<1>6. SwipesDistinct /\ ArchivedHidden
  BY <1>1, <1>2 DEF SwipesDistinct, ArchivedHidden, Stored
<1>7. ShownCounts
  BY DEF Init, ShownCounts
<1> QED
  BY <1>3, <1>5, <1>6, <1>7 DEF IInv

LEMMA Inductive == Spec => []IInv
BY InvInit, InvStep, PTL DEF Spec

-----------------------------------------------------------------------------
(* What it gives.                                                          *)

(* Types of the messages, the requests under way and the index shown.      *)
THEOREM TypesHold == Spec => []TypeOK
<1>1. IInv => TypeOK
  BY DEF IInv
<1> QED
  BY <1>1, Inductive, PTL

(* Two replies to a message that were given an index share it only when one *)
(* was stored across the other's read and insert, for any number of         *)
(* requests, with the generate endpoint storing replies without an index.   *)
THEOREM SwipesStayDistinct == Spec => []SwipesDistinct
<1>1. IInv => SwipesDistinct
  BY DEF IInv
<1> QED
  BY <1>1, Inductive, PTL

(* A sibling that comes before another has a smaller position.              *)
LEMMA PositionLess ==
    ASSUME TypeOK, NEW S, S \subseteq DOMAIN messages, NEW i \in S, NEW j \in S, Before(j, i)
    PROVE  Position(j, S) < Position(i, S)
<1> DEFINE Below(k) == {m \in S : Before(m, k)}
<1>1. \A k \in S : k \in Nat /\ messages[k].swipe \in Nat
  BY RowType
<1>2. \A m \in S : Before(m, j) => Before(m, i)
  BY <1>1 DEF Before
<1>3. j \in Below(i) /\ j \notin Below(j)
  BY <1>1 DEF Before
<1>4. Below(j) \in SUBSET Below(i) /\ Below(j) # Below(i)
  BY <1>2, <1>3
<1>5. IsFiniteSet(Below(i)) /\ IsFiniteSet(Below(j))
  BY PositionType
<1> HIDE DEF Below
<1>6. /\ Cardinality(Below(j)) <= Cardinality(Below(i))
      /\ Cardinality(Below(j)) # Cardinality(Below(i))
  BY <1>4, <1>5, FS_Subset
<1>7. Cardinality(Below(j)) \in Nat /\ Cardinality(Below(i)) \in Nat
  BY <1>5, FS_CardinalityType
<1>8. Cardinality(Below(j)) < Cardinality(Below(i))
  BY <1>6, <1>7
<1> QED
  BY <1>8 DEF Position, Below

LEMMA SelectsShown == IInv => ListedSelects
<1> SUFFICES ASSUME IInv, shown # NotShown
             PROVE  IF shown.shifted
                    THEN \A j \in Selected(shown.id, shown.index) : j = shown.id \/ Before(j, shown.id)
                    ELSE Selected(shown.id, shown.index) = {shown.id}
  BY DEF ListedSelects
<1> DEFINE i == shown.id
           S == SiblingsOf(messages[i].parent)
<1>1. i \in S /\ Counts(shown.index, shown.shifted, Position(i, S))
  BY DEF IInv, ShownCounts, SiblingsOf
<1>2. TypeOK /\ S \subseteq DOMAIN messages
      /\ \A k \in S : k \in Nat /\ messages[k].swipe \in Nat
  BY RowType DEF IInv, SiblingsOf, Stored
<1>a. Selected(i, shown.index) = {j \in S : Position(j, S) = shown.index}
  BY DEF Selected, Variants
<1>3. ASSUME NEW j \in S
      PROVE  Position(i, S) \in Nat /\ Position(j, S) \in Nat /\ shown.index \in Nat
  <2> HIDE DEF S
  <2>1. Position(i, S) \in 0 .. Len(messages) /\ Position(j, S) \in 0 .. Len(messages)
    BY <1>2, PositionType
  <2> QED
    BY <1>2, <2>1, MessagesAssumption DEF TypeOK
<1>4. ASSUME NEW j \in S, j # i PROVE Before(j, i) \/ Position(i, S) < Position(j, S)
  <2>1. Before(i, j) \/ Before(j, i)
    BY <1>1, <1>2, <1>4 DEF Before
  <2> QED
    BY <1>1, <1>2, <1>4, <2>1, PositionLess
<1>5. ASSUME NEW j \in S, Position(j, S) = shown.index
      PROVE  j = i \/ Before(j, i)
  <2>1. shown.index <= Position(i, S)
    BY <1>1 DEF Counts
  <2> QED
    BY <1>3, <1>4, <1>5, <2>1
<1>6. ASSUME ~ shown.shifted, NEW j \in S PROVE Position(j, S) = shown.index <=> j = i
  <2>1. shown.index = Position(i, S)
    BY <1>1, <1>6 DEF Counts
  <2>2. Before(j, i) => Position(j, S) < Position(i, S)
    BY <1>1, <1>2, PositionLess
  <2> QED
    BY <1>3, <1>5, <2>1, <2>2
<1> QED
  BY <1>1, <1>5, <1>6, <1>a

(* The index a list showed selects that message later on; after a hidden or  *)
(* late sibling, or one without an index, never a message that sorts after   *)
(* it.                                                                      *)
THEOREM ListSelects == Spec => []ListedSelects
BY SelectsShown, Inductive, PTL

(* A purge takes a visible message only if it was shown again by hand.      *)
THEOREM PurgesUnseen == Spec => PurgedUnseen
<1> DEFINE Unseen == \A i \in DOMAIN messages :
                       ~ messages[i].purged /\ messages'[i].purged => ~ messages[i].visible \/ messages[i].byHand
<1>1. ASSUME IInv, [Next]_vars PROVE [Unseen]_vars
  <2>0. TypeOK /\ Len(messages) \in Nat /\ DOMAIN messages = 1 .. Len(messages)
    BY <1>1, RowType DEF IInv
  <2>1. ASSUME \A i \in DOMAIN messages : messages'[i].purged = messages[i].purged PROVE Unseen
    BY <2>1
  <2>2. ASSUME NEW c, messages' = Append(messages, NewRow(c)) PROVE Unseen
    <3>1. \A i \in DOMAIN messages : messages'[i] = messages[i]
      BY <2>0, <2>2 DEF TypeOK
    <3> QED
      BY <2>1, <3>1
  <2>3. CASE Purge
    BY <1>1, <2>3 DEF Purge, Expired, IInv, ArchivedHidden
  <2>4. ASSUME NEW s \in Slots, PostInsert(s) \/ ReplyInsert(s) \/ StoreGenerated(s) PROVE Unseen
    BY <2>2, <2>4 DEF PostInsert, ReplyInsert, StoreGenerated, InsertRow
  <2>5. ASSUME NEW s \in Slots, Answer(s) PROVE Unseen
    BY <2>0, <2>5 DEF Answer
  <2>9. ASSUME NEW s \in Slots, NEW p \in 0 .. Len(messages), Generate(s, p) PROVE Unseen
    <3>1. p \in Stored /\ messages' = [messages EXCEPT ![p] = [messages[p] EXCEPT !.attempted = TRUE]]
      BY <2>9 DEF Generate
    <3>2. messages[p] \in Message /\ p \in DOMAIN messages
      BY <2>0, <3>1, RowType DEF Stored
    <3>3. [messages[p] EXCEPT !.attempted = TRUE].purged = messages[p].purged
      BY <3>2 DEF Message
    <3>4. messages'[p].purged = messages[p].purged
          /\ \A i \in DOMAIN messages : i # p => messages'[i] = messages[i]
      BY <2>0, <3>1, <3>2, <3>3
    <3> QED
      BY <2>1, <3>4
  <2>6. ASSUME NEW i \in DOMAIN messages, Hiding(i) PROVE Unseen
    BY <1>1, <2>1, <2>6, HidingKeeps
  <2>7. CASE MonthPasses
    BY <1>1, <2>1, <2>7, MonthKeeps
  <2>8. CASE UNCHANGED messages
    BY <2>1, <2>8
  <2> QED
    BY <1>1, <2>3, <2>4, <2>5, <2>6, <2>7, <2>8, <2>9
       DEF Next, Step, Post, PostRefused, NoReply, List, vars
<1> QED
  BY <1>1, Inductive, PTL DEF Spec, PurgedUnseen
=============================================================================
