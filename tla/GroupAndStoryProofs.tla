------------------------ MODULE GroupAndStoryProofs ------------------------
(* Theorems about GroupTurns, WorldItems and Quests, for every set of actors,      *)
(* messages, places and quests, every strategy, quantity and limit.        *)
EXTENDS GroupTurns, WorldItems, Quests, SumProofs

(***************************************************************************)
(* Group chats.  What a strategy picks is never looked at: it is only      *)
(* known to be a participant.                                              *)
(***************************************************************************)

Untold == {"idle", "reading", "picking"}
Before == Untold \cup {"ready", "generating", "answered", "failing", "failingLate"}
After == {"completing", "completingLate", "cascading", "choosing", "advancing",
          "handing"}

(* A chain has stored one reply per turn; the turn after the last one is   *)
(* decided only below the limit.                                           *)
Counted ==
    \A c \in Chains :
        /\ depth[c] <= MaxTurns
        /\ pc[c] \in Untold => depth[c] = 0
        /\ pc[c] \in Before => Len(replies[c]) = depth[c]
        /\ pc[c] \in After => Len(replies[c]) = depth[c] + 1
        /\ pc[c] \in {"choosing", "advancing", "handing"} => depth[c] < MaxTurns
        /\ Len(replies[c]) <= MaxTurns + 1

(* The speaker of a turn that is under way is not the author of the last   *)
(* reply; after the turn it is, and the next speaker is somebody else.     *)
Speaking ==
    \A c \in Chains :
        /\ pc[c] \in {"ready", "generating", "answered"} =>
              /\ speaker[c] \in Actors
              /\ Len(replies[c]) > 0 => replies[c][Len(replies[c])] # speaker[c]
        /\ pc[c] \in After =>
              /\ speaker[c] \in Actors
              /\ replies[c][Len(replies[c])] = speaker[c]
        /\ pc[c] = "handing" => upcoming[c] \in Actors /\ upcoming[c] # speaker[c]

(* In a paused chat a chain that has stored a reply can only end.          *)
Drained ==
    Paused => \A c \in Chains :
        /\ late[c] <= 1
        /\ pc[c] \notin {"completing", "completingLate", "cascading", "ended"}
              => late[c] = 0

IInv == TypeOK /\ Counted /\ Speaking /\ NoEcho /\ Drained

(* A substitute is an actor, and never the speaker.                        *)
LEMMA SubstituteIsOther ==
    ASSUME TypeOK, NEW c \in Chains, NEW a \in Actors, NEW b \in Substitute(c, a)
    PROVE  b \in Actors /\ b # speaker[c]
BY DEF Substitute, TypeOK

(* Appending a reply keeps the earlier ones.                               *)
LEMMA AppendReply ==
    ASSUME NEW s \in Seq(Actors), NEW a \in Actors
    PROVE  /\ Append(s, a) \in Seq(Actors)
           /\ Len(Append(s, a)) = Len(s) + 1
           /\ Append(s, a)[Len(s) + 1] = a
           /\ \A i \in 1 .. Len(s) : Append(s, a)[i] = s[i]
OBVIOUS

LEMMA InvInit == Init => IInv
<1> SUFFICES ASSUME Init PROVE IInv
  OBVIOUS
<1> USE ActorsAssumption, GroupAssumption DEF Init
<1>1. Members(ActorOrder) \in SUBSET Actors
  BY DEF Members
<1>2. TypeOK
  BY <1>1 DEF TypeOK, PCs
<1>3. Counted /\ Speaking /\ NoEcho /\ Drained
  BY DEF Counted, Speaking, NoEcho, Drained, Paused, Untold, Before, After
<1> QED
  BY <1>2, <1>3 DEF IInv

LEMMA InvStep == IInv /\ [Next]_vars => IInv'
<1> SUFFICES ASSUME IInv, [Next]_vars PROVE IInv'
  OBVIOUS
<1> USE ActorsAssumption, GroupAssumption
    DEF IInv, vars, settings, plan, tracker, history, bounds, Goto, PCs, Untold,
        Before, After, Paused
<1>1. CASE UserCancel
  BY <1>1 DEF UserCancel, CancelActive, TypeOK, Counted, Speaking, NoEcho, Drained
<1>2. ASSUME NEW c \in Chains, Post(c) PROVE IInv'
  <2>1. TypeOK'
    BY <1>2 DEF Post, CancelActive, TypeOK
  <2>2. Counted'
    BY <1>2 DEF Post, CancelActive, TypeOK, Counted
  <2>3. Speaking' /\ NoEcho'
    BY <1>2 DEF Post, CancelActive, TypeOK, Counted, Speaking, NoEcho
  <2>4. Drained'
    BY <1>2 DEF Post, CancelActive, TypeOK, Drained
  <2> QED
    BY <2>1, <2>2, <2>3, <2>4
<1>3. ASSUME NEW c \in Chains, CheckPause(c) PROVE IInv'
  <2>1. TypeOK'
    BY <1>3 DEF CheckPause, TypeOK
  <2>2. Counted'
    BY <1>3 DEF CheckPause, TypeOK, Counted
  <2>3. Speaking' /\ NoEcho'
    BY <1>3 DEF CheckPause, TypeOK, Counted, Speaking, NoEcho
  <2>4. Drained'
    BY <1>3 DEF CheckPause, TypeOK, Drained
  <2> QED
    BY <2>1, <2>2, <2>3, <2>4
<1>4. ASSUME NEW c \in Chains, Pick(c) PROVE IInv'
  <2>1. /\ pc[c] = "picking"
        /\ UNCHANGED <<settings, depth, roster, upcoming, tracker, cut, replies, late,
                       bounds>>
        /\ \/ /\ \E p \in {"ended", "broken"} : pc' = [pc EXCEPT ![c] = p]
              /\ UNCHANGED speaker
           \/ \E a \in members :
                 /\ speaker' = [speaker EXCEPT ![c] = a]
                 /\ pc' = [pc EXCEPT ![c] = "ready"]
    BY <1>4 DEF Pick
  <2>2. members \subseteq Actors
    BY DEF TypeOK
  <2>4. TypeOK'
    <3>1. pc' \in [Chains -> PCs]
      BY <2>1 DEF TypeOK, PCs
    <3>2. speaker' \in [Chains -> Actors \cup {NoActor}]
      BY <2>1, <2>2 DEF TypeOK
    <3> HIDE DEF IInv
    <3>3. UNCHANGED <<settings, depth, roster, upcoming, tracker, cut, history, bounds>>
      BY <2>1 DEF history
    <3>4. TypeOK
      BY DEF IInv
    <3> QED
      BY <3>1, <3>2, <3>3, <3>4 DEF TypeOK, settings, tracker, history, bounds
  <2>5. Counted'
    BY <2>1 DEF Counted, TypeOK
  <2>6. Len(replies[c]) = 0
    BY <2>1 DEF Counted
  <2>7. Speaking' /\ NoEcho'
    BY <2>1, <2>2, <2>6 DEF Speaking, NoEcho, TypeOK
  <2>8. Drained'
    BY <2>1 DEF Drained, TypeOK
  <2> QED
    BY <2>4, <2>5, <2>7, <2>8
<1>5. ASSUME NEW c \in Chains, Track(c) PROVE IInv'
  <2>1. TypeOK'
    BY <1>5 DEF Track, TypeOK
  <2>2. Counted'
    BY <1>5 DEF Track, TypeOK, Counted
  <2>3. Speaking' /\ NoEcho'
    BY <1>5 DEF Track, TypeOK, Counted, Speaking, NoEcho
  <2>4. Drained'
    BY <1>5 DEF Track, TypeOK, Drained
  <2> QED
    BY <2>1, <2>2, <2>3, <2>4
<1>6. ASSUME NEW c \in Chains, Answer(c) PROVE IInv'
  <2>1. TypeOK'
    BY <1>6 DEF Answer, TypeOK
  <2>2. Counted'
    BY <1>6 DEF Answer, TypeOK, Counted
  <2>3. Speaking' /\ NoEcho'
    BY <1>6 DEF Answer, TypeOK, Counted, Speaking, NoEcho
  <2>4. Drained'
    BY <1>6 DEF Answer, TypeOK, Drained
  <2> QED
    BY <2>1, <2>2, <2>3, <2>4
<1>7. ASSUME NEW c \in Chains, Throw(c) PROVE IInv'
  <2>1. TypeOK'
    BY <1>7 DEF Throw, TypeOK
  <2>2. Counted'
    BY <1>7 DEF Throw, TypeOK, Counted
  <2>3. Speaking' /\ NoEcho'
    BY <1>7 DEF Throw, TypeOK, Counted, Speaking, NoEcho
  <2>4. Drained'
    BY <1>7 DEF Throw, TypeOK, Drained
  <2> QED
    BY <2>1, <2>2, <2>3, <2>4
<1>8. ASSUME NEW c \in Chains, EndFailure(c) PROVE IInv'
  <2>1. TypeOK'
    BY <1>8 DEF EndFailure, Forget, TypeOK
  <2>2. Counted'
    BY <1>8 DEF EndFailure, Forget, TypeOK, Counted
  <2>3. Speaking' /\ NoEcho'
    BY <1>8 DEF EndFailure, Forget, TypeOK, Counted, Speaking, NoEcho
  <2>4. Drained'
    BY <1>8 DEF EndFailure, Forget, TypeOK, Drained
  <2> QED
    BY <2>1, <2>2, <2>3, <2>4
<1>9. ASSUME NEW c \in Chains, Store(c) PROVE IInv'
  <2> DEFINE s == replies[c]
  <2>1. s \in Seq(Actors) /\ speaker[c] \in Actors
    BY <1>9 DEF Store, TypeOK, Speaking
  <2>2. /\ replies' = [replies EXCEPT ![c] = Append(s, speaker[c])]
        /\ pc[c] = "answered"
        /\ \E p \in {"cascading", "completing", "completingLate"} :
              pc' = [pc EXCEPT ![c] = p]
        /\ late' = IF Paused THEN [late EXCEPT ![c] = @ + 1] ELSE late
        /\ UNCHANGED <<settings, plan, tracker, cut, bounds>>
    BY <1>9 DEF Store, Author
  <2> PICK p \in {"cascading", "completing", "completingLate"} :
              pc' = [pc EXCEPT ![c] = p]
    BY <2>2
  <2> HIDE DEF s
  <2>3. /\ replies'[c] \in Seq(Actors)
        /\ Len(replies'[c]) = Len(s) + 1
        /\ replies'[c][Len(s) + 1] = speaker[c]
        /\ \A i \in 1 .. Len(s) : replies'[c][i] = s[i]
        /\ \A d \in Chains \ {c} : replies'[d] = replies[d]
    BY <2>1, <2>2, AppendReply DEF TypeOK
  <2>4. Len(s) = depth[c] /\ Len(s) \in Nat
    BY <2>1, <2>2 DEF Counted, s
  <2>5. TypeOK'
    <3>1. replies \in [Chains -> Seq(Actors)] /\ Append(s, speaker[c]) \in Seq(Actors)
      BY <2>1, AppendReply DEF TypeOK
    <3> HIDE DEF IInv
    <3>2. replies' \in [Chains -> Seq(Actors)]
      BY <2>2, <3>1
    <3> QED
      BY <2>2, <3>2 DEF TypeOK, IInv
  <2>6. Counted'
    <3>1. /\ pc'[c] \in {"cascading", "completing", "completingLate"}
          /\ \A d \in Chains \ {c} : pc'[d] = pc[d]
          /\ depth' = depth /\ depth[c] \in Nat
      BY <2>2 DEF TypeOK
    <3>2. Len(replies'[c]) = depth[c] + 1
      BY <2>3, <2>4
    <3> QED
      BY <2>3, <3>1, <3>2 DEF Counted
  <2>7. Speaking'
    <3>1. /\ pc'[c] \in {"cascading", "completing", "completingLate"}
          /\ \A d \in Chains \ {c} : pc'[d] = pc[d]
          /\ speaker' = speaker /\ upcoming' = upcoming
      BY <2>2 DEF TypeOK
    <3>2. replies'[c][Len(replies'[c])] = speaker[c]
      BY <2>3
    <3> QED
      BY <2>1, <2>3, <3>1, <3>2 DEF Speaking
  <2>8. NoEcho'
    <3> SUFFICES ASSUME NEW d \in Chains, NEW i \in 1 .. Len(replies'[d]) - 1
                 PROVE  replies'[d][i] # replies'[d][i + 1]
      BY DEF NoEcho
    <3>1. CASE d # c
      BY <3>1, <2>3 DEF NoEcho
    <3>2. CASE d = c /\ i = Len(s)
      BY <3>2, <2>2, <2>3, <2>4 DEF Speaking, s
    <3>3. CASE d = c /\ i < Len(s)
      <4>1. i \in 1 .. Len(s) - 1 /\ i + 1 \in 1 .. Len(s)
        BY <3>3, <2>4
      <4>2. s[i] # s[i + 1]
        BY <4>1 DEF NoEcho, s
      <4>3. replies'[c][i] = s[i] /\ replies'[c][i + 1] = s[i + 1]
        BY <2>3, <2>4, <4>1
      <4> QED
        BY <3>3, <4>2, <4>3
    <3> QED
      BY <3>1, <3>2, <3>3, <2>3, <2>4
  <2>9. Drained'
    BY <2>2 DEF Drained, TypeOK
  <2> QED
    BY <2>5, <2>6, <2>7, <2>8, <2>9
<1>10. ASSUME NEW c \in Chains, End(c) PROVE IInv'
  <2>1. TypeOK'
    BY <1>10 DEF End, Forget, TypeOK
  <2>2. Counted'
    BY <1>10 DEF End, Forget, TypeOK, Counted
  <2>3. Speaking' /\ NoEcho'
    BY <1>10 DEF End, Forget, TypeOK, Counted, Speaking, NoEcho
  <2>4. Drained'
    BY <1>10 DEF End, Forget, TypeOK, Drained
  <2> QED
    BY <2>1, <2>2, <2>3, <2>4
<1>11. ASSUME NEW c \in Chains, Cascade(c) PROVE IInv'
  <2>1. TypeOK'
    BY <1>11 DEF Cascade, MayCascade, TypeOK
  <2>2. Counted'
    BY <1>11 DEF Cascade, MayCascade, TypeOK, Counted
  <2>3. Speaking' /\ NoEcho'
    <3>1. /\ pc[c] = "cascading" /\ pc'[c] \in {"choosing", "ended"}
          /\ \A d \in Chains \ {c} : pc'[d] = pc[d]
          /\ UNCHANGED <<speaker, upcoming, replies>>
      BY <1>11 DEF Cascade, TypeOK
    <3>2. Speaking'
      BY <3>1 DEF Speaking
    <3>3. NoEcho'
      BY <3>1 DEF NoEcho
    <3> QED
      BY <3>2, <3>3
  <2>4. Drained'
    BY <1>11 DEF Cascade, MayCascade, TypeOK, Drained
  <2> QED
    BY <2>1, <2>2, <2>3, <2>4
<1>12. ASSUME NEW c \in Chains, Choose(c) PROVE IInv'
  <2>1. TypeOK'
    <3>0. members \subseteq Actors /\ roster \in [Chains -> SUBSET Actors]
          /\ upcoming \in [Chains -> Actors \cup {NoActor}]
      BY DEF TypeOK
    <3>1. upcoming' \in [Chains -> Actors \cup {NoActor}]
          /\ roster' \in [Chains -> SUBSET Actors]
      <4>1. roster' = roster \/ roster' = [roster EXCEPT ![c] = members]
        BY <1>12 DEF Choose
      <4>2. upcoming' = upcoming \/ \E a \in members : upcoming' = [upcoming EXCEPT ![c] = a]
        BY <1>12 DEF Choose, Mentioned
      <4> HIDE DEF IInv
      <4> QED
        BY <3>0, <4>1, <4>2
    <3>2. pc' \in [Chains -> PCs]
      BY <1>12 DEF Choose, TypeOK
    <3> QED
      BY <1>12, <3>1, <3>2 DEF Choose, TypeOK
  <2>2. Counted'
    BY <1>12 DEF Choose, Mentioned, TypeOK, Counted
  <2>3. Speaking' /\ NoEcho'
    <3>0. /\ pc[c] = "choosing" /\ UNCHANGED <<speaker, replies>>
          /\ \/ \E a \in members \ {speaker[c]} :
                   upcoming' = [upcoming EXCEPT ![c] = a] /\ pc' = [pc EXCEPT ![c] = "handing"]
             \/ UNCHANGED upcoming /\ \E p \in {"advancing", "ended"} : pc' = [pc EXCEPT ![c] = p]
      BY <1>12 DEF Choose, Mentioned
    <3> HIDE DEF IInv
    <3>t. /\ pc \in [Chains -> PCs] /\ upcoming \in [Chains -> Actors \cup {NoActor}]
          /\ members \subseteq Actors
      BY DEF IInv, TypeOK
    <3>1. /\ pc'[c] \in {"advancing", "handing", "ended"}
          /\ \A d \in Chains \ {c} : pc'[d] = pc[d] /\ upcoming'[d] = upcoming[d]
          /\ pc'[c] = "handing" => upcoming'[c] \in Actors /\ upcoming'[c] # speaker[c]
          /\ UNCHANGED <<speaker, replies>>
      BY <3>0, <3>t
    <3> USE DEF IInv
    <3>2. Speaking'
      BY <3>0, <3>1 DEF Speaking
    <3>3. NoEcho'
      BY <3>1 DEF NoEcho
    <3> QED
      BY <3>2, <3>3
  <2>4. Drained'
    BY <1>12 DEF Choose, Mentioned, TypeOK, Drained
  <2> QED
    BY <2>1, <2>2, <2>3, <2>4
<1>13. ASSUME NEW c \in Chains, Advance(c) PROVE IInv'
  <2>1. ASSUME NEW a \in members, NEW b \in Substitute(c, a),
               upcoming' = [upcoming EXCEPT ![c] = b], Goto(c, "handing")
        PROVE  IInv'
    <3>1. b \in Actors /\ b # speaker[c]
      BY SubstituteIsOther DEF TypeOK
    <3>2. /\ pc[c] = "advancing" /\ roster' = [roster EXCEPT ![c] = {}]
          /\ UNCHANGED <<settings, depth, speaker, tracker, cut, history, bounds>>
      BY <1>13 DEF Advance
    <3>3. TypeOK'
      BY <2>1, <3>1, <3>2 DEF TypeOK
    <3>4. Counted' /\ NoEcho' /\ Drained'
      BY <2>1, <3>2 DEF TypeOK, Counted, NoEcho, Drained
    <3>5. Speaking'
      BY <2>1, <3>1, <3>2 DEF TypeOK, Speaking
    <3> QED
      BY <3>3, <3>4, <3>5
  <2>2. ASSUME upcoming' = upcoming, Goto(c, "ended") PROVE IInv'
    BY <1>13, <2>2 DEF Advance, TypeOK, Counted, Speaking, NoEcho, Drained
  <2> QED
    BY <1>13, <2>1, <2>2 DEF Advance
<1>14. ASSUME NEW c \in Chains, Handover(c) PROVE IInv'
  <2>1. TypeOK'
    BY <1>14 DEF Handover, CancelActive, TypeOK
  <2>2. Counted'
    BY <1>14 DEF Handover, CancelActive, TypeOK, Counted
  <2>3. Speaking' /\ NoEcho'
    BY <1>14 DEF Handover, CancelActive, TypeOK, Counted, Speaking, NoEcho
  <2>4. Drained'
    BY <1>14 DEF Handover, CancelActive, TypeOK, Drained
  <2> QED
    BY <2>1, <2>2, <2>3, <2>4
<1>15. ASSUME NEW b \in BOOLEAN, SetPaused(b) PROVE IInv'
  <2>1. TypeOK'
    BY <1>15 DEF SetPaused, TypeOK
  <2>2. Counted'
    BY <1>15 DEF SetPaused, TypeOK, Counted
  <2>3. Speaking' /\ NoEcho'
    BY <1>15 DEF SetPaused, TypeOK, Counted, Speaking, NoEcho
  <2>4. Drained'
    BY <1>15 DEF SetPaused, TypeOK, Drained
  <2> QED
    BY <2>1, <2>2, <2>3, <2>4
<1>16. ASSUME NEW a \in Members(ActorOrder), Join(a) \/ Leave(a) PROVE IInv'
  <2>1. a \in Actors
    BY DEF Members
  <2>2. /\ members' \in SUBSET Actors /\ moves' = moves + 1
        /\ UNCHANGED <<state, greetings, pc, plan, tracker, cut, history, toggles>>
    BY <1>16, <2>1 DEF Join, Leave, TypeOK
  <2>3. TypeOK'
    BY <2>2 DEF TypeOK
  <2>4. Counted' /\ Speaking' /\ NoEcho' /\ Drained'
    BY <2>2 DEF Counted, Speaking, NoEcho, Drained
  <2> QED
    BY <2>3, <2>4
<1>17. CASE UNCHANGED vars
  BY <1>17 DEF TypeOK, Counted, Speaking, NoEcho, Drained
<1> QED
  BY <1>1, <1>2, <1>3, <1>4, <1>5, <1>6, <1>7, <1>8, <1>9, <1>10, <1>11, <1>12,
     <1>13, <1>14, <1>15, <1>16, <1>17 DEF Next

THEOREM Invariance == Spec => []IInv
<1>1. IInv /\ [Next]_vars => IInv'
  BY InvStep
<1> QED
  BY InvInit, <1>1, PTL DEF Spec

(* The variables keep their types: what a cascade hands over is an actor,  *)
(* and every stored reply has one as its author.                           *)
THEOREM TypesHold == Spec => []TypeOK
<1>1. IInv => TypeOK
  BY DEF IInv
<1> QED
  BY Invariance, <1>1, PTL

(* A user message causes at most max_turns + 1 replies                     *)
(* (triggerGroupCascade's depth check).                                    *)
THEOREM CascadesEnd == Spec => []CascadeBounded
<1>1. IInv => CascadeBounded
  BY DEF IInv, Counted, CascadeBounded
<1> QED
  BY Invariance, <1>1, PTL

(* No actor answers itself, whichever strategy picks the speakers.         *)
THEOREM NobodyEchoes == Spec => []NoEcho
<1>1. IInv => NoEcho
  BY DEF IInv
<1> QED
  BY Invariance, <1>1, PTL

(* A paused chat stores at most one more reply of each chain.              *)
THEOREM PausesDrain == Spec => []PauseDrains
<1>1. IInv => PauseDrains
  BY DEF IInv, Drained, PauseDrains
<1> QED
  BY Invariance, <1>1, PTL

(***************************************************************************)
(* The items and quests of a world.                                        *)
(***************************************************************************)

(* A request of a move that is about to write the row it has read.         *)
Relies(c) == c.step = "take" \/ (c.step = "add" /\ c.row # 0)

ReadOf(c) == c.row \in DOMAIN rows /\ Exists(c.row) /\ c.had = rows[c.row].quantity

(* Until a request writes a row another one relies on, every read is still *)
(* what the row holds: this is what a move needs of the rows, and what a   *)
(* step of another request could break.                                    *)
ReadsHold ==
    ~crossed => \A r \in DOMAIN itemRequests : Relies(itemRequests[r]) => ReadOf(itemRequests[r])

Conserved == Quantity(rows) + InTransit + removed + lost = placed

ItemsInv == ItemsTypeOK /\ ReadsHold /\ (~crossed => Conserved)

(* Of a quest whose reports never overlapped: each chat has one row, and    *)
(* at most one report is on its way.  From its write of the quest to its    *)
(* write of the row it carries where the quest stands; otherwise the quest  *)
(* stands where the row recorded last does, unless a report broke off.      *)
IsOf(i, q) == i \in DOMAIN progressRows /\ progressRows[i].quest = q

OneRowEach(q) ==
    \A i, j \in DOMAIN progressRows :
        IsOf(i, q) /\ IsOf(j, q) /\ progressRows[i].chat = progressRows[j].chat => i = j

LatestOf(q) == latest[q] # 0 => IsOf(latest[q], q)

Recorded(q) == quests[q].progress = IF latest[q] = 0 THEN 0 ELSE progressRows[latest[q]].progress

OneReport(q) == \A r, s \in Reporting(q) : r = s

InStep(q) ==
    \A r \in Reporting(q) :
        LET c == questRequests[r] IN
        /\ c.step # "quest" => c.progress = quests[q].progress
        /\ c.step = "record" /\ c.row = 0 => RowsOf(q, c.chat) = {}

Settled(q) ==
    q \notin unrecorded /\ (\A r \in Reporting(q) : questRequests[r].step = "quest") => Recorded(q)

(* A row that was found for a quest and a chat stays theirs.               *)
RowsFound ==
    \A r \in DOMAIN questRequests :
        LET c == questRequests[r] IN
        c.step = "record" /\ c.row # 0 => c.row \in RowsOf(c.quest, c.chat)

Agreed(q) == OneRowEach(q) /\ LatestOf(q) /\ OneReport(q) /\ InStep(q) /\ Settled(q)

Uncontested == \A q \in QuestIds \ contested : Agreed(q)

QuestsInv == QuestsTypeOK /\ RowsFound /\ Uncontested

-----------------------------------------------------------------------------
(* Sequences.                                                              *)

LEMMA SequenceDomain ==
    ASSUME NEW S, NEW s \in Seq(S)
    PROVE  /\ DOMAIN s = 1 .. Len(s) /\ Len(s) \in Nat
           /\ IsFiniteSet(DOMAIN s)
           /\ \A i \in DOMAIN s : s[i] \in S
<1>1. DOMAIN s = 1 .. Len(s) /\ Len(s) \in Nat /\ \A i \in DOMAIN s : s[i] \in S
  BY LenProperties, ElementOfSeq
<1> QED
  BY <1>1, FS_Interval

LEMMA ReplaceInSequence ==
    ASSUME NEW S, NEW s \in Seq(S), NEW t, DOMAIN t = DOMAIN s,
           t = [i \in DOMAIN t |-> t[i]], \A i \in DOMAIN s : t[i] \in S
    PROVE  t \in Seq(S) /\ Len(t) = Len(s)
<1>1. DOMAIN s = 1 .. Len(s) /\ Len(s) \in Nat
  BY SequenceDomain
<1>2. t \in [1 .. Len(s) -> S]
  BY <1>1
<1>3. t \in Seq(S)
  BY <1>1, <1>2, SeqDef
<1> QED
  BY <1>1, <1>3, LenProperties

LEMMA ReplaceElement ==
    ASSUME NEW S, NEW s \in Seq(S), NEW i, NEW x, i \in DOMAIN s => x \in S
    PROVE  [s EXCEPT ![i] = x] \in Seq(S) /\ Len([s EXCEPT ![i] = x]) = Len(s)
<1> DEFINE t == [s EXCEPT ![i] = x]
<1>1. /\ DOMAIN t = DOMAIN s
      /\ t = [j \in DOMAIN t |-> t[j]]
      /\ \A j \in DOMAIN s : t[j] \in S
  BY SequenceDomain
<1> QED
  BY <1>1, ReplaceInSequence

LEMMA AppendedSequence ==
    ASSUME NEW S, NEW s \in Seq(S), NEW x \in S
    PROVE  /\ Append(s, x) \in Seq(S)
           /\ DOMAIN Append(s, x) = DOMAIN s \cup {Len(s) + 1}
           /\ Len(s) + 1 \notin DOMAIN s
           /\ Append(s, x)[Len(s) + 1] = x
           /\ \A i \in DOMAIN s : Append(s, x)[i] = s[i]
<1>1. DOMAIN s = 1 .. Len(s) /\ Len(s) \in Nat
  BY SequenceDomain
<1>2. /\ Append(s, x) \in Seq(S) /\ Len(Append(s, x)) = Len(s) + 1
      /\ \A i \in 1 .. Len(s) : Append(s, x)[i] = s[i]
      /\ Append(s, x)[Len(s) + 1] = x
  BY AppendProperties
<1>3. DOMAIN Append(s, x) = 1 .. Len(s) + 1
  BY <1>2, SequenceDomain
<1>4. 1 .. Len(s) + 1 = (1 .. Len(s)) \cup {Len(s) + 1} /\ Len(s) + 1 \notin 1 .. Len(s)
  BY <1>1
<1> QED
  BY <1>1, <1>2, <1>3, <1>4

-----------------------------------------------------------------------------
(* How many items rows hold.                                               *)

LEMMA RowQuantity ==
    /\ Deleted \in Row /\ Deleted.quantity = 0
    /\ \A row \in Row : row.quantity \in Int
    /\ \A p \in Places \cup {Nowhere}, n \in Int : [place |-> p, quantity |-> n] \in Row \ {Deleted}
BY ItemsAssumption DEF Row, Deleted

LEMMA QuantityInt == ASSUME NEW s \in Seq(Row) PROVE Quantity(s) \in Int
<1> DEFINE f == [i \in DOMAIN s |-> s[i].quantity]
<1>1. IsFiniteSet(DOMAIN s) /\ \A i \in DOMAIN s : f[i] \in Int
  BY SequenceDomain, RowQuantity
<1>2. SumFunctionOnSet(f, DOMAIN s) \in Int
  BY <1>1, SumInt
<1> QED
  BY <1>2 DEF Quantity, SumFunction

LEMMA QuantityAppend ==
    ASSUME NEW s \in Seq(Row), NEW row \in Row
    PROVE  Quantity(Append(s, row)) = Quantity(s) + row.quantity
<1> DEFINE t == Append(s, row)
           f == [i \in DOMAIN s |-> s[i].quantity]
           g == [i \in DOMAIN t |-> t[i].quantity]
           e == Len(s) + 1
<1>1. /\ t \in Seq(Row) /\ DOMAIN t = DOMAIN s \cup {e} /\ e \notin DOMAIN s
      /\ t[e] = row /\ \A i \in DOMAIN s : t[i] = s[i]
  BY AppendedSequence
<1>2. IsFiniteSet(DOMAIN s) /\ \A i \in DOMAIN t : t[i] \in Row
  BY <1>1, SequenceDomain
<1>3. \A i \in DOMAIN t : g[i] \in Int
  BY <1>2, RowQuantity
<1>4. /\ \A i \in DOMAIN s : f[i] = g[i]
      /\ g[e] = row.quantity
  BY <1>1
<1>5. SumFunctionOnSet(g, DOMAIN s \cup {e}) = SumFunctionOnSet(f, DOMAIN s) + g[e]
  <2> HIDE DEF f, g, e, t
  <2> QED
    BY <1>1, <1>2, <1>3, <1>4, SumInsert
<1> QED
  BY <1>1, <1>4, <1>5 DEF Quantity, SumFunction

LEMMA QuantityChange ==
    ASSUME NEW s \in Seq(Row), NEW i \in DOMAIN s, NEW row \in Row
    PROVE  Quantity([s EXCEPT ![i] = row]) + s[i].quantity = Quantity(s) + row.quantity
<1> DEFINE t == [s EXCEPT ![i] = row]
           f == [j \in DOMAIN s |-> s[j].quantity]
           g == [j \in DOMAIN t |-> t[j].quantity]
<1>1. /\ IsFiniteSet(DOMAIN s) /\ DOMAIN t = DOMAIN s
      /\ t[i] = row /\ \A j \in DOMAIN s \ {i} : t[j] = s[j]
      /\ \A j \in DOMAIN s : s[j] \in Row
  BY SequenceDomain
<1>2. \A j \in DOMAIN s : t[j] \in Row
  BY <1>1
<1>3. \A j \in DOMAIN s : f[j] \in Int /\ g[j] \in Int
  BY <1>1, <1>2, RowQuantity
<1>4. /\ \A j \in DOMAIN s \ {i} : f[j] = g[j]
      /\ f[i] = s[i].quantity /\ g[i] = row.quantity
  BY <1>1
<1>5. SumFunctionOnSet(g, DOMAIN s) + f[i] = SumFunctionOnSet(f, DOMAIN s) + g[i]
  <2> HIDE DEF f, g
  <2> QED
    BY <1>1, <1>3, <1>4, SumChange
<1> QED
  BY <1>1, <1>4, <1>5 DEF Quantity, SumFunction

LEMMA QuantityDeleted ==
    ASSUME NEW s \in Seq(Row)
    PROVE  Quantity([i \in DOMAIN s |-> Deleted]) = 0
<1> DEFINE t == [i \in DOMAIN s |-> Deleted]
           g == [i \in DOMAIN t |-> t[i].quantity]
<1>1. IsFiniteSet(DOMAIN t) /\ \A i \in DOMAIN t : g[i] = 0
  BY SequenceDomain, RowQuantity
<1>2. SumFunctionOnSet(g, DOMAIN t) = 0
  <2> HIDE DEF g, t
  <2> QED
    BY <1>1, SumZero
<1> QED
  BY <1>2 DEF Quantity, SumFunction

-----------------------------------------------------------------------------
(* How many items moves carry.                                             *)

OnTheWay(c) == c.step \in {"find", "add"}

Carrying(s) == {r \in DOMAIN s : OnTheWay(s[r])}

Carried(s) == SumFunction([r \in Carrying(s) |-> s[r].amount])

(* What one request carries.                                               *)
Load(c) == IF OnTheWay(c) THEN c.amount ELSE 0

LEMMA CarriedIsInTransit == InTransit = Carried(itemRequests)
BY DEF InTransit, Moving, Carried, Carrying, OnTheWay

LEMMA RequestAmount ==
    /\ Done \in Request /\ ~OnTheWay(Done)
    /\ \A c \in Request : OnTheWay(c) => c.amount \in Int
BY DEF Request, Done, OnTheWay

LEMMA CarryingFinite ==
    ASSUME NEW s \in Seq(Request)
    PROVE  /\ IsFiniteSet(Carrying(s))
           /\ \A r \in Carrying(s) : s[r].amount \in Int
<1>1. IsFiniteSet(DOMAIN s) /\ Carrying(s) \subseteq DOMAIN s
  BY SequenceDomain DEF Carrying
<1>2. \A r \in Carrying(s) : s[r] \in Request /\ OnTheWay(s[r])
  BY SequenceDomain DEF Carrying
<1> QED
  BY <1>1, <1>2, FS_Subset, RequestAmount

LEMMA CarriedInt == ASSUME NEW s \in Seq(Request) PROVE Carried(s) \in Int
<1> DEFINE f == [r \in Carrying(s) |-> s[r].amount]
<1>1. IsFiniteSet(Carrying(s)) /\ \A r \in Carrying(s) : f[r] \in Int
  BY CarryingFinite
<1>2. SumFunctionOnSet(f, Carrying(s)) \in Int
  <2> HIDE DEF f
  <2> QED
    BY <1>1, SumInt
<1> QED
  BY <1>2 DEF Carried, SumFunction

LEMMA CarriedSame ==
    ASSUME NEW s \in Seq(Request), NEW t \in Seq(Request), Carrying(t) = Carrying(s),
           \A r \in Carrying(s) : t[r].amount = s[r].amount
    PROVE  Carried(t) = Carried(s)
<1> DEFINE f == [r \in Carrying(s) |-> s[r].amount]
           g == [r \in Carrying(t) |-> t[r].amount]
<1>1. IsFiniteSet(Carrying(s)) /\ \A r \in Carrying(s) : f[r] = g[r]
  BY CarryingFinite
<1>2. SumFunctionOnSet(f, Carrying(s)) = SumFunctionOnSet(g, Carrying(s))
  <2> HIDE DEF f, g
  <2> QED
    BY <1>1, SumSame
<1> QED
  BY <1>2 DEF Carried, SumFunction

LEMMA CarriedStarts ==
    ASSUME NEW s \in Seq(Request), NEW t \in Seq(Request), NEW e, e \notin Carrying(s),
           Carrying(t) = Carrying(s) \cup {e}, \A r \in Carrying(s) : t[r] = s[r]
    PROVE  Carried(t) = Carried(s) + t[e].amount
<1> DEFINE f == [r \in Carrying(s) |-> s[r].amount]
           g == [r \in Carrying(t) |-> t[r].amount]
<1>1. /\ IsFiniteSet(Carrying(s))
      /\ \A r \in Carrying(s) : f[r] = g[r]
      /\ \A r \in Carrying(s) \cup {e} : g[r] \in Int
      /\ g[e] = t[e].amount
  BY CarryingFinite
<1>2. SumFunctionOnSet(g, Carrying(s) \cup {e}) = SumFunctionOnSet(f, Carrying(s)) + g[e]
  <2> HIDE DEF f, g
  <2> QED
    BY <1>1, SumInsert
<1> QED
  BY <1>1, <1>2 DEF Carried, SumFunction

LEMMA CarriedAppend ==
    ASSUME NEW s \in Seq(Request), NEW c \in Request, ~OnTheWay(c)
    PROVE  /\ Append(s, c) \in Seq(Request)
           /\ Carried(Append(s, c)) = Carried(s)
<1> DEFINE t == Append(s, c)
<1>1. /\ t \in Seq(Request) /\ DOMAIN t = DOMAIN s \cup {Len(s) + 1} /\ Len(s) + 1 \notin DOMAIN s
      /\ t[Len(s) + 1] = c /\ \A i \in DOMAIN s : t[i] = s[i]
  BY AppendedSequence
<1> HIDE DEF t
<1>2. Carrying(t) = Carrying(s) /\ \A r \in Carrying(s) : t[r].amount = s[r].amount
  BY <1>1 DEF Carrying
<1> QED
  BY <1>1, <1>2, CarriedSame DEF t

(* A request that goes on to its next step: it loads, keeps or unloads what *)
(* it carries.                                                              *)
LEMMA CarriedContinue ==
    ASSUME NEW s \in Seq(Request), NEW r \in DOMAIN s, NEW c \in Request,
           NEW t, t = [s EXCEPT ![r] = c]
    PROVE  Carried(t) + Load(s[r]) = Carried(s) + Load(c)
<1> DEFINE before == Load(s[r])
           after == Load(c)
<1> USE DEF Load
<1>1. /\ t \in Seq(Request) /\ DOMAIN t = DOMAIN s
      /\ t[r] = c /\ \A q \in DOMAIN s \ {r} : t[q] = s[q]
  BY ReplaceElement, SequenceDomain
<1>2. s[r] \in Request
  BY SequenceDomain
<1>3. before \in Int /\ after \in Int
  BY <1>2, RequestAmount
<1>4. Carried(s) \in Int /\ Carried(t) \in Int
  BY <1>1, CarriedInt
<1>5. CASE OnTheWay(s[r]) /\ OnTheWay(c)
  <2> DEFINE f == [q \in Carrying(s) |-> s[q].amount]
             g == [q \in Carrying(t) |-> t[q].amount]
  <2>1. Carrying(t) = Carrying(s) /\ r \in Carrying(s)
    BY <1>1, <1>5 DEF Carrying
  <2>2. /\ IsFiniteSet(Carrying(s)) /\ \A q \in Carrying(s) : f[q] \in Int /\ g[q] \in Int
        /\ \A q \in Carrying(s) \ {r} : f[q] = g[q]
        /\ f[r] = before /\ g[r] = after
    BY <1>1, <1>5, <2>1, CarryingFinite DEF Carrying
  <2>3. SumFunctionOnSet(g, Carrying(s)) + f[r] = SumFunctionOnSet(f, Carrying(s)) + g[r]
    <3> HIDE DEF f, g
    <3> QED
      BY <2>1, <2>2, SumChange
  <2>4. Carried(t) + before = Carried(s) + after
    BY <2>1, <2>2, <2>3 DEF Carried, SumFunction
  <2> QED
    BY <1>1, <1>3, <2>4
<1>6. CASE OnTheWay(s[r]) /\ ~OnTheWay(c)
  <2>1. /\ r \notin Carrying(t) /\ Carrying(s) = Carrying(t) \cup {r}
        /\ \A q \in Carrying(t) : s[q] = t[q]
    BY <1>1, <1>6 DEF Carrying
  <2>2. Carried(s) = Carried(t) + s[r].amount
    BY <1>1, <2>1, CarriedStarts
  <2>3. Carried(t) + before = Carried(s) + after
    BY <1>3, <1>4, <1>6, <2>2
  <2> QED
    BY <1>1, <1>3, <2>3
<1>7. CASE ~OnTheWay(s[r]) /\ OnTheWay(c)
  <2>1. /\ r \notin Carrying(s) /\ Carrying(t) = Carrying(s) \cup {r}
        /\ \A q \in Carrying(s) : t[q] = s[q]
    BY <1>1, <1>7 DEF Carrying
  <2>2. Carried(t) = Carried(s) + t[r].amount
    BY <1>1, <2>1, CarriedStarts
  <2>3. Carried(t) + before = Carried(s) + after
    BY <1>1, <1>3, <1>4, <1>7, <2>2
  <2> QED
    BY <1>1, <1>3, <2>3
<1>8. CASE ~OnTheWay(s[r]) /\ ~OnTheWay(c)
  <2>1. Carrying(t) = Carrying(s) /\ \A q \in Carrying(s) : t[q].amount = s[q].amount
    BY <1>1, <1>8 DEF Carrying
  <2>2. Carried(t) + before = Carried(s) + after
    BY <1>1, <1>8, <2>1, CarriedSame
  <2> QED
    BY <1>1, <1>3, <2>2
<1> QED
  BY <1>5, <1>6, <1>7, <1>8

-----------------------------------------------------------------------------
(* The requests the actions write.                                         *)

LEMMA RequestShapes ==
    /\ Done \in Request /\ ~OnTheWay(Done) /\ Done.step = "done"
    /\ [step |-> "definition"] \in Request /\ ~OnTheWay([step |-> "definition"])
    /\ \A i \in Nat, had \in Int, n \in Quantities, to \in Places \cup {Elsewhere, Nowhere} :
          LET c == [step |-> "take", row |-> i, had |-> had, asked |-> n, to |-> to] IN
          c \in Request /\ ~OnTheWay(c)
    /\ \A n \in Int, to \in Places \cup {Elsewhere} :
          LET c == [step |-> "find", amount |-> n, to |-> to] IN c \in Request /\ OnTheWay(c)
    /\ \A i \in Nat, n, had \in Int, to \in Places \cup {Elsewhere} :
          LET c == [step |-> "add", amount |-> n, to |-> to, row |-> i, had |-> had] IN
          c \in Request /\ OnTheWay(c)
<1>1. Done \in Request /\ ~OnTheWay(Done) /\ Done.step = "done"
  BY DEF Request, Done, OnTheWay
<1>2. [step |-> "definition"] \in Request /\ ~OnTheWay([step |-> "definition"])
  BY DEF Request, OnTheWay
<1>3. ASSUME NEW i \in Nat, NEW had \in Int, NEW n \in Quantities, NEW to \in Places \cup {Elsewhere, Nowhere}
      PROVE  LET c == [step |-> "take", row |-> i, had |-> had, asked |-> n, to |-> to] IN
             c \in Request /\ ~OnTheWay(c)
  BY <1>3 DEF Request, OnTheWay
<1>4. ASSUME NEW n \in Int, NEW to \in Places \cup {Elsewhere}
      PROVE  LET c == [step |-> "find", amount |-> n, to |-> to] IN c \in Request /\ OnTheWay(c)
  BY <1>4 DEF Request, OnTheWay
<1>5. ASSUME NEW n \in Int, NEW i \in Nat, NEW had \in Int, NEW to \in Places \cup {Elsewhere}
      PROVE  LET c == [step |-> "add", amount |-> n, to |-> to, row |-> i, had |-> had] IN
             c \in Request /\ OnTheWay(c)
  BY <1>5 DEF Request, OnTheWay
<1> QED
  BY <1>1, <1>2, <1>3, <1>4, <1>5

LEMMA RequestFields ==
    ASSUME NEW c \in Request
    PROVE  /\ c.step = "take" => /\ c.row \in Nat /\ c.had \in Int /\ c.asked \in Int
                                 /\ c.to \in Places \cup {Elsewhere, Nowhere}
           /\ c.step \in {"find", "add"} => c.amount \in Int /\ c.to \in Places \cup {Elsewhere}
           /\ c.step = "add" => c.row \in Nat /\ c.had \in Int
<1>1. CASE c.step = "take"
  <2>1. c \in [step : {"take"}, row : Nat, had : Int, asked : Quantities,
               to : Places \cup {Elsewhere, Nowhere}]
    BY <1>1 DEF Request, Done
  <2> QED
    BY <1>1, <2>1, ItemsAssumption
<1>2. CASE c.step = "find"
  <2>1. c \in [step : {"find"}, amount : Int, to : Places \cup {Elsewhere}]
    BY <1>2 DEF Request, Done
  <2> QED
    BY <1>2, <2>1
<1>3. CASE c.step = "add"
  <2>1. c \in [step : {"add"}, amount : Int, to : Places \cup {Elsewhere}, row : Nat, had : Int]
    BY <1>3 DEF Request, Done
  <2> QED
    BY <1>3, <2>1
<1> QED
  BY <1>1, <1>2, <1>3

(* A move takes no more than the row was read to hold, and nothing else of  *)
(* it stays behind.                                                         *)
LEMMA TakenAmount ==
    ASSUME NEW c \in Request, c.step = "take"
    PROVE  /\ Least(c.asked, c.had) \in Int /\ c.had - Least(c.asked, c.had) \in Int
           /\ c.had - Least(c.asked, c.had) <= 0 <=> Least(c.asked, c.had) = c.had
BY RequestFields DEF Least

LEMMA TakenRow ==
    ASSUME ItemsTypeOK, NEW r \in DOMAIN itemRequests, Take(r)
    PROVE  LET c == itemRequests[r]
               amount == Least(c.asked, c.had)
           IN
           /\ c \in Request /\ c.step = "take" /\ c.row \in Nat
           /\ amount \in Int /\ c.had - amount \in Int
           /\ ~(c.to = Elsewhere /\ amount = c.had /\ Exists(c.row)) =>
                 (c.row \in DOMAIN rows =>
                    /\ Taken(c) \in Row
                    /\ Exists(c.row) => /\ Taken(c) # Deleted
                                        /\ Taken(c).quantity = c.had - amount)
<1> DEFINE c == itemRequests[r]
           amount == Least(c.asked, c.had)
           remaining == c.had - amount
<1>1. c \in Request /\ c.step = "take"
  BY SequenceDomain DEF ItemsTypeOK, Take
<1>2. /\ c.row \in Nat /\ c.had \in Int /\ c.to \in Places \cup {Elsewhere, Nowhere}
      /\ amount \in Int /\ remaining \in Int /\ (remaining <= 0 <=> amount = c.had)
  BY <1>1, RequestFields, TakenAmount
<1>3. ASSUME ~(c.to = Elsewhere /\ amount = c.had /\ Exists(c.row)), c.row \in DOMAIN rows
      PROVE  /\ Taken(c) \in Row
             /\ Exists(c.row) => Taken(c) # Deleted /\ Taken(c).quantity = remaining
  <2>1. rows[c.row] \in Row
    BY <1>3, SequenceDomain DEF ItemsTypeOK
  <2>2. CASE ~Exists(c.row)
    BY <2>1, <2>2 DEF Taken
  <2>3. CASE Exists(c.row) /\ remaining <= 0
    <3>1. Taken(c) = [place |-> c.to, quantity |-> 0] /\ remaining = 0
      BY <1>2, <2>3 DEF Taken, QuantityOfMoved
    <3>2. c.to \in Places \cup {Nowhere}
      BY <1>2, <1>3, <2>3
    <3> QED
      BY <3>1, <3>2, RowQuantity
  <2>4. CASE Exists(c.row) /\ ~(remaining <= 0)
    <3>1. Taken(c) = [rows[c.row] EXCEPT !.quantity = remaining]
      BY <2>4 DEF Taken
    <3>2. rows[c.row] \in [place : Places \cup {Nowhere}, quantity : Int]
      BY <2>1, <2>4 DEF Exists, Row
    <3>3. Taken(c) = [place |-> rows[c.row].place, quantity |-> remaining]
      BY <3>1, <3>2
    <3> QED
      BY <1>2, <3>2, <3>3, RowQuantity
  <2> QED
    BY <2>2, <2>3, <2>4
<1> QED
  BY <1>1, <1>2, <1>3

(* What an add writes into the row it found.                               *)
LEMMA FilledRow ==
    ASSUME ItemsTypeOK, NEW r \in DOMAIN itemRequests, Add(r)
    PROVE  LET c == itemRequests[r]
               filled == [rows[c.row] EXCEPT !.quantity = c.had + c.amount]
           IN
           /\ c \in Request /\ c.step = "add" /\ c.row \in Nat /\ c.had \in Int /\ c.amount \in Int
           /\ c.to \in Places \cup {Elsewhere}
           /\ c.row \in DOMAIN rows /\ Exists(c.row) =>
                 /\ filled \in Row /\ filled # Deleted /\ filled.quantity = c.had + c.amount
                 /\ [rows EXCEPT ![c.row].quantity = c.had + c.amount]
                      = [rows EXCEPT ![c.row] = filled]
<1> DEFINE c == itemRequests[r]
           filled == [rows[c.row] EXCEPT !.quantity = c.had + c.amount]
<1>1. c \in Request /\ c.step = "add"
  BY SequenceDomain DEF ItemsTypeOK, Add
<1>2. c.row \in Nat /\ c.had \in Int /\ c.amount \in Int /\ c.to \in Places \cup {Elsewhere}
  BY <1>1, RequestFields
<1>3. ASSUME c.row \in DOMAIN rows, Exists(c.row)
      PROVE  filled \in Row /\ filled # Deleted /\ filled.quantity = c.had + c.amount
  <2>1. rows[c.row] \in [place : Places \cup {Nowhere}, quantity : Int]
    BY <1>3, SequenceDomain DEF ItemsTypeOK, Exists, Row
  <2>2. filled = [place |-> rows[c.row].place, quantity |-> c.had + c.amount]
    BY <2>1
  <2>3. c.had + c.amount \in Int
    BY <1>2
  <2> QED
    BY <2>1, <2>2, <2>3, RowQuantity
<1>4. [rows EXCEPT ![c.row].quantity = c.had + c.amount] = [rows EXCEPT ![c.row] = filled]
  OBVIOUS
<1> QED
  BY <1>1, <1>2, <1>3, <1>4

-----------------------------------------------------------------------------
(* Types of the items.                                                     *)

LEMMA AdmitTypes ==
    ASSUME ItemsTypeOK, NEW c \in Request, Admit(c)
    PROVE  itemRequests' \in Seq(Request)
BY AppendedSequence DEF ItemsTypeOK, Admit

LEMMA ContinueTypes ==
    ASSUME ItemsTypeOK, NEW r, NEW c \in Request, Continue(r, c)
    PROVE  itemRequests' \in Seq(Request)
BY ReplaceElement DEF ItemsTypeOK, Continue

LEMMA ItemsTypeStep == ItemsTypeOK /\ [ItemsNext]_itemVars => ItemsTypeOK'
<1> SUFFICES ASSUME ItemsTypeOK, [ItemsNext]_itemVars PROVE ItemsTypeOK'
  OBVIOUS
<1>0. /\ defined \in BOOLEAN /\ rows \in Seq(Row) /\ itemRequests \in Seq(Request)
      /\ placed \in Int /\ removed \in Int /\ lost \in Int /\ crossed \in BOOLEAN
  BY DEF ItemsTypeOK
<1>1. ASSUME NEW p \in Places, NEW n \in Quantities, PlaceInLocation(p, n)
      PROVE  ItemsTypeOK'
  <2>1. n \in Int /\ [place |-> p, quantity |-> n] \in Row
    BY ItemsAssumption, RowQuantity
  <2>2. rows' \in Seq(Row)
    BY <1>0, <1>1, <2>1, AppendedSequence DEF PlaceInLocation
  <2>3. itemRequests' \in Seq(Request)
    BY <1>1, AdmitTypes, RequestShapes DEF PlaceInLocation
  <2> QED
    BY <1>0, <1>1, <2>1, <2>2, <2>3 DEF PlaceInLocation, ItemsTypeOK
<1>2. ASSUME NEW i \in DOMAIN rows, Destroy(i) PROVE ItemsTypeOK'
  <2>1. rows' \in Seq(Row)
    BY <1>0, <1>2, ReplaceElement, RowQuantity DEF Destroy
  <2>2. itemRequests' \in Seq(Request)
    BY <1>2, AdmitTypes, RequestShapes DEF Destroy
  <2>3. rows[i].quantity \in Int
    BY <1>0, SequenceDomain, RowQuantity
  <2> QED
    BY <1>0, <1>2, <2>1, <2>2, <2>3 DEF Destroy, ItemsTypeOK
<1>3. ASSUME NEW i \in DOMAIN rows, NEW n \in Quantities, NEW to \in Places \cup {Elsewhere, Nowhere},
             BeginTransfer(i, n, to)
      PROVE  ItemsTypeOK'
  <2>1. i \in Nat /\ rows[i].quantity \in Int
    BY <1>0, SequenceDomain, RowQuantity
  <2>2. itemRequests' \in Seq(Request)
    BY <1>3, <2>1, AdmitTypes, RequestShapes DEF BeginTransfer
  <2> QED
    BY <1>0, <1>3, <2>2 DEF BeginTransfer, ItemsTypeOK
<1>4. CASE DeleteInstances
  <2>1. itemRequests' \in Seq(Request)
    BY <1>4, AdmitTypes, RequestShapes DEF DeleteInstances
  <2>2. rows' \in Seq(Row)
    <3> DEFINE t == [i \in DOMAIN rows |-> Deleted]
    <3>1. DOMAIN t = DOMAIN rows /\ t = [i \in DOMAIN t |-> t[i]] /\ \A i \in DOMAIN rows : t[i] \in Row
      BY RowQuantity
    <3>2. t \in Seq(Row)
      BY <1>0, <3>1, ReplaceInSequence
    <3> QED
      BY <1>4, <3>2 DEF DeleteInstances
  <2>3. Quantity(rows) \in Int
    BY <1>0, QuantityInt
  <2> QED
    BY <1>0, <1>4, <2>1, <2>2, <2>3 DEF DeleteInstances, ItemsTypeOK
<1>5. ASSUME NEW r \in DOMAIN itemRequests, Take(r) PROVE ItemsTypeOK'
  <2> DEFINE c == itemRequests[r]
             amount == Least(c.asked, c.had)
  <2>1. c \in Request /\ c.step = "take" /\ amount \in Int /\ c.to \in Places \cup {Elsewhere, Nowhere}
    BY <1>5, TakenRow, RequestFields
  <2>2. CASE c.to = Elsewhere /\ amount = c.had /\ Exists(c.row)
    <3>1. Continue(r, Done) /\ UNCHANGED <<rows, removed, crossed, defined, placed, lost>>
      BY <1>5, <2>2 DEF Take
    <3>2. itemRequests' \in Seq(Request)
      BY <3>1, ContinueTypes, RequestShapes
    <3> QED
      BY <1>0, <3>1, <3>2 DEF ItemsTypeOK
  <2>3. CASE ~(c.to = Elsewhere /\ amount = c.had /\ Exists(c.row))
    <3>1. /\ rows' = [rows EXCEPT ![c.row] = Taken(c)]
          /\ crossed' \in BOOLEAN
          /\ IF c.to = Nowhere
             THEN Continue(r, Done) /\ removed' = removed + amount
             ELSE Continue(r, [step |-> "find", amount |-> amount, to |-> c.to]) /\ UNCHANGED removed
          /\ UNCHANGED <<defined, placed, lost>>
      BY <1>0, <1>5, <2>3 DEF Take
    <3>2. rows' \in Seq(Row)
      BY <1>0, <1>5, <2>3, <3>1, TakenRow, ReplaceElement
    <3>3. itemRequests' \in Seq(Request) /\ removed' \in Int
      <4>1. CASE c.to = Nowhere
        BY <1>0, <2>1, <3>1, <4>1, ContinueTypes, RequestShapes
      <4>2. CASE c.to # Nowhere
        <5>1. [step |-> "find", amount |-> amount, to |-> c.to] \in Request
          BY <2>1, <4>2, RequestShapes
        <5> QED
          BY <1>0, <3>1, <4>2, <5>1, ContinueTypes
      <4> QED
        BY <4>1, <4>2
    <3> QED
      BY <1>0, <3>1, <3>2, <3>3 DEF ItemsTypeOK
  <2> QED
    BY <2>2, <2>3
<1>6. ASSUME NEW r \in DOMAIN itemRequests, Find(r) PROVE ItemsTypeOK'
  <2> DEFINE c == itemRequests[r]
             there == {i \in DOMAIN rows : Exists(i) /\ rows[i].place = c.to}
             after(i) == [step |-> "add", amount |-> c.amount, to |-> c.to, row |-> i,
                          had |-> IF i = 0 THEN 0 ELSE rows[i].quantity]
  <2>1. c \in Request /\ c.step = "find" /\ c.amount \in Int /\ c.to \in Places \cup {Elsewhere}
    BY <1>0, <1>6, SequenceDomain, RequestFields DEF Find
  <2>2. PICK i \in IF there = {} THEN {0} ELSE there : Continue(r, after(i))
    BY <1>6 DEF Find
  <2>3. i \in Nat /\ (IF i = 0 THEN 0 ELSE rows[i].quantity) \in Int
    BY <1>0, SequenceDomain, RowQuantity
  <2>4. after(i) \in Request
    BY <2>1, <2>3, RequestShapes
  <2>5. itemRequests' \in Seq(Request)
    BY <2>2, <2>4, ContinueTypes
  <2> QED
    BY <1>0, <1>6, <2>5 DEF Find, ItemsTypeOK
<1>7. ASSUME NEW r \in DOMAIN itemRequests, Add(r) PROVE ItemsTypeOK'
  <2> DEFINE c == itemRequests[r]
  <2>1. itemRequests' \in Seq(Request)
    BY <1>7, ContinueTypes, RequestShapes DEF Add
  <2>2. c.amount \in Int
    BY <1>7, FilledRow
  <2>3. CASE /\ c.row # 0
             /\ rows' = IF Exists(c.row)
                        THEN [rows EXCEPT ![c.row].quantity = c.had + c.amount] ELSE rows
             /\ crossed' = (crossed \/ Relying(c.row, r) # {})
             /\ UNCHANGED lost
    <3>1. rows' \in Seq(Row)
      <4>1. CASE Exists(c.row) /\ c.row \in DOMAIN rows
        BY <1>0, <1>7, <2>3, <4>1, FilledRow, ReplaceElement
      <4>2. CASE ~Exists(c.row)
        BY <1>0, <2>3, <4>2
      <4>3. CASE c.row \notin DOMAIN rows
        <5>1. [rows EXCEPT ![c.row].quantity = c.had + c.amount] = rows
          BY <1>0, <4>3, SequenceDomain
        <5> QED
          BY <1>0, <2>3, <5>1
      <4> QED
        BY <4>1, <4>2, <4>3
    <3> QED
      BY <1>0, <1>7, <2>1, <2>3, <3>1 DEF Add, ItemsTypeOK
  <2>4. CASE /\ c.row = 0 /\ defined /\ c.to \in Places
             /\ rows' = Append(rows, [place |-> c.to, quantity |-> c.amount])
             /\ UNCHANGED <<crossed, lost>>
    <3>1. rows' \in Seq(Row)
      BY <1>0, <2>2, <2>4, RowQuantity, AppendedSequence
    <3> QED
      BY <1>0, <1>7, <2>1, <2>4, <3>1 DEF Add, ItemsTypeOK
  <2>5. CASE c.row = 0 /\ lost' = lost + c.amount /\ UNCHANGED <<rows, crossed>>
    BY <1>0, <1>7, <2>1, <2>2, <2>5 DEF Add, ItemsTypeOK
  <2> QED
    BY <1>7, <2>3, <2>4, <2>5 DEF Add
<1>8. ASSUME NEW r \in DOMAIN itemRequests, Break(r) PROVE ItemsTypeOK'
  <2>1. itemRequests' \in Seq(Request)
    BY <1>8, ContinueTypes, RequestShapes DEF Break
  <2>2. itemRequests[r].amount \in Int
    BY <1>0, <1>8, SequenceDomain, RequestFields DEF Break
  <2> QED
    BY <1>0, <1>8, <2>1, <2>2 DEF Break, ItemsTypeOK
<1>9. ASSUME NEW r \in DOMAIN itemRequests, DeleteDefinition(r) PROVE ItemsTypeOK'
  <2>1. itemRequests' \in Seq(Request)
    BY <1>9, ContinueTypes, RequestShapes DEF DeleteDefinition
  <2> QED
    BY <1>0, <1>9, <2>1 DEF DeleteDefinition, ItemsTypeOK
<1>10. CASE UNCHANGED itemVars
  BY <1>0, <1>10 DEF itemVars, ItemsTypeOK
<1> QED
  BY <1>1, <1>2, <1>3, <1>4, <1>5, <1>6, <1>7, <1>8, <1>9, <1>10 DEF ItemsNext

-----------------------------------------------------------------------------
(* A read still holds when no request has crossed another.                 *)

LEMMA OthersRead ==
    ASSUME ReadsHold, ~crossed, NEW r,
           DOMAIN itemRequests' \subseteq DOMAIN itemRequests \cup {r},
           \A q \in DOMAIN itemRequests \ {r} : itemRequests'[q] = itemRequests[q],
           (Relies(itemRequests[r]) => ReadOf(itemRequests[r]))',
           \A q \in DOMAIN itemRequests \ {r} : Relies(itemRequests[q]) =>
              /\ itemRequests[q].row \in DOMAIN rows'
              /\ rows'[itemRequests[q].row] = rows[itemRequests[q].row]
    PROVE  ReadsHold'
BY DEF ReadsHold, ReadOf, Exists, Relies

LEMMA Admitted ==
    ASSUME ItemsTypeOK, NEW c \in Request, Admit(c)
    PROVE  LET r == Len(itemRequests) + 1 IN
           /\ DOMAIN itemRequests' = DOMAIN itemRequests \cup {r}
           /\ r \notin DOMAIN itemRequests
           /\ itemRequests'[r] = c
           /\ \A q \in DOMAIN itemRequests : itemRequests'[q] = itemRequests[q]
BY AppendedSequence DEF ItemsTypeOK, Admit

LEMMA Continued ==
    ASSUME ItemsTypeOK, NEW r \in DOMAIN itemRequests, NEW c, Continue(r, c)
    PROVE  /\ DOMAIN itemRequests' = DOMAIN itemRequests
           /\ itemRequests'[r] = c
           /\ \A q \in DOMAIN itemRequests \ {r} : itemRequests'[q] = itemRequests[q]
BY SequenceDomain DEF ItemsTypeOK, Continue

(* Rows nobody else relies on can be written.                              *)
LEMMA FreeRow ==
    ASSUME ReadsHold, ~crossed, NEW i, NEW r, Relying(i, r) = {},
           NEW q \in DOMAIN itemRequests \ {r}, Relies(itemRequests[q])
    PROVE  itemRequests[q].row \in DOMAIN rows /\ itemRequests[q].row # i
BY DEF Relying, Relies, ReadsHold, ReadOf

LEMMA ReadsHoldStep == ItemsTypeOK /\ ReadsHold /\ [ItemsNext]_itemVars => ReadsHold'
<1> SUFFICES ASSUME ItemsTypeOK, ReadsHold, [ItemsNext]_itemVars, ~crossed' PROVE ReadsHold'
  BY DEF ReadsHold
<1>0. rows \in Seq(Row) /\ itemRequests \in Seq(Request) /\ 0 \notin DOMAIN itemRequests
  BY SequenceDomain DEF ItemsTypeOK
<1>r. \A q \in DOMAIN itemRequests : ~crossed /\ Relies(itemRequests[q]) => ReadOf(itemRequests[q])
  BY DEF ReadsHold
<1>1. ASSUME NEW p \in Places, NEW n \in Quantities, PlaceInLocation(p, n)
      PROVE  ReadsHold'
  <2> DEFINE row == [place |-> p, quantity |-> n]
  <2>1. row \in Row
    BY ItemsAssumption, RowQuantity
  <2>2. DOMAIN rows \subseteq DOMAIN rows' /\ \A i \in DOMAIN rows : rows'[i] = rows[i]
    BY <1>0, <1>1, <2>1, AppendedSequence DEF PlaceInLocation
  <2>3. ~crossed /\ Admit(Done) /\ Done \in Request /\ ~Relies(Done)
    BY <1>1, RequestShapes DEF PlaceInLocation, Done, Relies
  <2> QED
    BY <1>r, <2>2, <2>3, Admitted, OthersRead DEF ReadOf
<1>2. ASSUME NEW i \in DOMAIN rows, Destroy(i) PROVE ReadsHold'
  <2>1. ~crossed /\ Relying(i, 0) = {} /\ rows' = [rows EXCEPT ![i] = Deleted]
    BY <1>2 DEF Destroy
  <2>2. Admit(Done) /\ Done \in Request /\ ~Relies(Done)
    BY <1>2, RequestShapes DEF Destroy, Done, Relies
  <2>3. \A q \in DOMAIN itemRequests : Relies(itemRequests[q]) =>
            itemRequests[q].row \in DOMAIN rows /\ itemRequests[q].row # i
    BY <1>0, <2>1, FreeRow
  <2>4. DOMAIN rows' = DOMAIN rows /\ \A j \in DOMAIN rows \ {i} : rows'[j] = rows[j]
    BY <1>0, <2>1, SequenceDomain
  <2> QED
    BY <2>1, <2>2, <2>3, <2>4, Admitted, OthersRead
<1>3. ASSUME NEW i \in DOMAIN rows, NEW n \in Quantities, NEW to \in Places \cup {Elsewhere, Nowhere},
             BeginTransfer(i, n, to)
      PROVE  ReadsHold'
  <2> DEFINE c == [step |-> "take", row |-> i, had |-> rows[i].quantity, asked |-> n, to |-> to]
  <2>1. i \in Nat /\ rows[i].quantity \in Int
    BY <1>0, SequenceDomain, RowQuantity
  <2>2. Admit(c) /\ c \in Request /\ ~crossed /\ UNCHANGED rows
    BY <1>3, <2>1, RequestShapes DEF BeginTransfer
  <2>3. c.row \in DOMAIN rows' /\ rows'[c.row] # Deleted /\ c.had = rows'[c.row].quantity
    BY <1>3, <2>2 DEF BeginTransfer, Exists
  <2> HIDE DEF c
  <2> DEFINE r == Len(itemRequests) + 1
  <2>4. /\ DOMAIN itemRequests' = DOMAIN itemRequests \cup {r}
        /\ r \notin DOMAIN itemRequests
        /\ itemRequests'[r] = c
        /\ \A q \in DOMAIN itemRequests : itemRequests'[q] = itemRequests[q]
    BY <2>2, Admitted
  <2> HIDE DEF r
  <2>5. ASSUME NEW q \in DOMAIN itemRequests', Relies(itemRequests'[q])
        PROVE  /\ itemRequests'[q].row \in DOMAIN rows'
               /\ rows'[itemRequests'[q].row] # Deleted
               /\ itemRequests'[q].had = rows'[itemRequests'[q].row].quantity
    <3>1. CASE q = r
      BY <2>3, <2>4, <3>1
    <3>2. CASE q # r
      BY <1>r, <2>2, <2>4, <2>5, <3>2 DEF ReadOf, Exists
    <3> QED
      BY <3>1, <3>2
  <2> QED
    BY <2>5 DEF ReadsHold, ReadOf, Exists, Relies
<1>4. CASE DeleteInstances
  <2>1. ~crossed /\ \A i \in DOMAIN rows : Exists(i) => Relying(i, 0) = {}
    BY <1>4 DEF DeleteInstances
  <2>2. \A q \in DOMAIN itemRequests : ~Relies(itemRequests[q])
    BY <1>0, <1>r, <2>1 DEF ReadOf, Relying, Relies
  <2> DEFINE c == [step |-> "definition"]
  <2>3. Admit(c) /\ c \in Request /\ ~Relies(c)
    BY <1>4, RequestShapes DEF DeleteInstances, Relies
  <2> QED
    BY <2>1, <2>2, <2>3, Admitted, OthersRead
<1>5. ASSUME NEW r \in DOMAIN itemRequests, Take(r) PROVE ReadsHold'
  <2> DEFINE c == itemRequests[r]
             amount == Least(c.asked, c.had)
             next == [step |-> "find", amount |-> amount, to |-> c.to]
  <2>1. CASE c.to = Elsewhere /\ amount = c.had /\ Exists(c.row)
    <3>1. Continue(r, Done) /\ UNCHANGED <<rows, crossed>> /\ ~Relies(Done)
      BY <1>5, <2>1 DEF Take, Done, Relies
    <3> QED
      BY <1>r, <3>1, Continued, OthersRead DEF ReadOf
  <2>2. CASE ~(c.to = Elsewhere /\ amount = c.had /\ Exists(c.row))
    <3>1. /\ rows' = [rows EXCEPT ![c.row] = Taken(c)]
          /\ ~crossed /\ Relying(c.row, r) = {}
          /\ Continue(r, Done) \/ Continue(r, next)
      BY <1>5, <2>2 DEF Take
    <3>2. ~Relies(Done) /\ ~Relies(next)
      BY DEF Relies, Done
    <3>3. \A q \in DOMAIN itemRequests \ {r} : Relies(itemRequests[q]) =>
              itemRequests[q].row \in DOMAIN rows /\ itemRequests[q].row # c.row
      BY <3>1, FreeRow
    <3>4. DOMAIN rows' = DOMAIN rows /\ \A j \in DOMAIN rows \ {c.row} : rows'[j] = rows[j]
      BY <1>0, <3>1, SequenceDomain
    <3> HIDE DEF next
    <3> QED
      BY <3>1, <3>2, <3>3, <3>4, Continued, OthersRead
  <2> QED
    BY <2>1, <2>2
<1>6. ASSUME NEW r \in DOMAIN itemRequests, Find(r) PROVE ReadsHold'
  <2> DEFINE c == itemRequests[r]
             there == {i \in DOMAIN rows : Exists(i) /\ rows[i].place = c.to}
             after(i) == [step |-> "add", amount |-> c.amount, to |-> c.to, row |-> i,
                          had |-> IF i = 0 THEN 0 ELSE rows[i].quantity]
  <2>1. PICK i \in IF there = {} THEN {0} ELSE there : Continue(r, after(i))
    BY <1>6 DEF Find
  <2>2. ~crossed /\ UNCHANGED rows
    BY <1>6 DEF Find
  <2> DEFINE d == after(i)
  <2>3. Relies(d) => i \in DOMAIN rows' /\ rows'[i] # Deleted /\ d.had = rows'[i].quantity /\ d.row = i
    BY <2>1, <2>2 DEF Relies, Exists
  <2>4. Continue(r, d)
    BY <2>1
  <2> HIDE DEF d
  <2>5. itemRequests'[r] = d
    BY <2>4, Continued
  <2>6. Relies(itemRequests'[r]) => /\ itemRequests'[r].row \in DOMAIN rows'
                                   /\ rows'[itemRequests'[r].row] # Deleted
                                   /\ itemRequests'[r].had = rows'[itemRequests'[r].row].quantity
    BY <2>3, <2>5
  <2>7. (Relies(itemRequests[r]) => ReadOf(itemRequests[r]))'
    BY <2>6 DEF ReadOf, Exists, Relies
  <2> QED
    BY <1>r, <2>2, <2>4, <2>7, Continued, OthersRead DEF ReadOf
<1>7. ASSUME NEW r \in DOMAIN itemRequests, Add(r) PROVE ReadsHold'
  <2> DEFINE c == itemRequests[r]
  <2>1. Continue(r, Done) /\ ~Relies(Done) /\ ~crossed
    <3>1. Continue(r, Done) /\ ~Relies(Done)
      BY <1>7 DEF Add, Relies, Done
    <3>2. crossed' = crossed \/ crossed' = (crossed \/ Relying(c.row, r) # {})
      BY <1>7 DEF Add
    <3>3. crossed \in BOOLEAN
      BY DEF ItemsTypeOK
    <3>4. ~crossed
      <4>1. CASE crossed' = crossed
        BY <4>1
      <4>2. CASE crossed' = (crossed \/ Relying(c.row, r) # {})
        BY <3>3, <4>2
      <4> QED
        BY <3>2, <4>1, <4>2
    <3> QED
      BY <3>1, <3>4
  <2>2. CASE /\ c.row # 0
             /\ rows' = IF Exists(c.row)
                        THEN [rows EXCEPT ![c.row].quantity = c.had + c.amount] ELSE rows
             /\ crossed' = (crossed \/ Relying(c.row, r) # {})
    <3>1. \A q \in DOMAIN itemRequests \ {r} : Relies(itemRequests[q]) =>
              itemRequests[q].row \in DOMAIN rows /\ itemRequests[q].row # c.row
      BY <2>1, <2>2, FreeRow
    <3>2. DOMAIN rows' = DOMAIN rows /\ \A j \in DOMAIN rows \ {c.row} : rows'[j] = rows[j]
      BY <1>0, <2>2, SequenceDomain
    <3> QED
      BY <2>1, <3>1, <3>2, Continued, OthersRead
  <2>3. CASE rows' = Append(rows, [place |-> c.to, quantity |-> c.amount]) /\ c.to \in Places
    <3>1. [place |-> c.to, quantity |-> c.amount] \in Row
      BY <1>7, <2>3, FilledRow, RowQuantity
    <3>2. DOMAIN rows \subseteq DOMAIN rows' /\ \A i \in DOMAIN rows : rows'[i] = rows[i]
      BY <1>0, <2>3, <3>1, AppendedSequence
    <3> QED
      BY <1>r, <2>1, <3>2, Continued, OthersRead DEF ReadOf
  <2>4. CASE UNCHANGED rows
    BY <1>r, <2>1, <2>4, Continued, OthersRead DEF ReadOf
  <2> QED
    BY <1>7, <2>2, <2>3, <2>4 DEF Add
<1>8. ASSUME NEW r \in DOMAIN itemRequests, Break(r) \/ DeleteDefinition(r) PROVE ReadsHold'
  <2>1. Continue(r, Done) /\ ~Relies(Done) /\ ~crossed /\ UNCHANGED rows
    BY <1>8 DEF Break, DeleteDefinition, Relies, Done
  <2> QED
    BY <1>r, <2>1, Continued, OthersRead DEF ReadOf
<1>9. CASE UNCHANGED itemVars
  BY <1>9 DEF itemVars, ReadsHold, ReadOf, Relies, Exists
<1> QED
  BY <1>1, <1>2, <1>3, <1>4, <1>5, <1>6, <1>7, <1>8, <1>9 DEF ItemsNext

-----------------------------------------------------------------------------
(* Items are conserved.                                                    *)

LEMMA ConservedNext ==
    ASSUME Quantity(rows') + Carried(itemRequests') + removed' + lost' = placed'
    PROVE  Conserved'
<1>1. InTransit' = Carried(itemRequests')
  BY DEF InTransit, Moving, Carried, Carrying, OnTheWay
<1>2. Quantity(rows)' = Quantity(rows')
  BY DEF Quantity
<1> QED
  BY <1>1, <1>2 DEF Conserved

LEMMA CarriedByAdmitted ==
    ASSUME ItemsTypeOK, NEW c \in Request, ~OnTheWay(c), Admit(c)
    PROVE  Carried(itemRequests') = Carried(itemRequests)
BY CarriedAppend DEF ItemsTypeOK, Admit

LEMMA CarriedByContinued ==
    ASSUME ItemsTypeOK, NEW r \in DOMAIN itemRequests, NEW c \in Request, Continue(r, c)
    PROVE  Carried(itemRequests') + Load(itemRequests[r]) = Carried(itemRequests) + Load(c)
BY CarriedContinue DEF ItemsTypeOK, Continue

LEMMA ConservedStep ==
    ASSUME ItemsTypeOK, ReadsHold, ~crossed, Conserved, ~crossed', [ItemsNext]_itemVars
    PROVE  Conserved'
<1> DEFINE before == Quantity(rows)
           after == Quantity(rows')
           moving == Carried(itemRequests)
           moved == Carried(itemRequests')
<1>0. /\ rows \in Seq(Row) /\ itemRequests \in Seq(Request)
      /\ rows' \in Seq(Row) /\ itemRequests' \in Seq(Request)
      /\ removed \in Int /\ lost \in Int /\ placed \in Int
      /\ removed' \in Int /\ lost' \in Int /\ placed' \in Int
  BY ItemsTypeStep DEF ItemsTypeOK
<1>n. before \in Int /\ after \in Int /\ moving \in Int /\ moved \in Int
  BY <1>0, QuantityInt, CarriedInt
<1>c. before + moving + removed + lost = placed
  BY CarriedIsInTransit DEF Conserved
<1>s. SUFFICES after + moved + removed' + lost' = placed'
  BY ConservedNext
<1>r. \A q \in DOMAIN itemRequests : Relies(itemRequests[q]) => ReadOf(itemRequests[q])
  BY DEF ReadsHold
<1>1. ASSUME NEW p \in Places, NEW n \in Quantities, PlaceInLocation(p, n)
      PROVE  after + moved + removed' + lost' = placed'
  <2>1. n \in Int /\ [place |-> p, quantity |-> n] \in Row
    BY ItemsAssumption, RowQuantity
  <2>2. after = before + n
    BY <1>0, <1>1, <2>1, QuantityAppend DEF PlaceInLocation
  <2>3. moved = moving
    BY <1>1, RequestShapes, CarriedByAdmitted DEF PlaceInLocation
  <2>4. placed' = placed + n /\ removed' = removed /\ lost' = lost
    BY <1>1 DEF PlaceInLocation
  <2> HIDE DEF before, after, moving, moved
  <2> QED
    BY <1>0, <1>n, <1>c, <2>1, <2>2, <2>3, <2>4
<1>2. ASSUME NEW i \in DOMAIN rows, Destroy(i)
      PROVE  after + moved + removed' + lost' = placed'
  <2>1. after + rows[i].quantity = before + 0
    BY <1>0, <1>2, QuantityChange, RowQuantity DEF Destroy
  <2>2. moved = moving
    BY <1>2, RequestShapes, CarriedByAdmitted DEF Destroy
  <2>3. removed' = removed + rows[i].quantity /\ placed' = placed /\ lost' = lost
    BY <1>2 DEF Destroy
  <2>4. PICK n \in Int : n = rows[i].quantity
    BY <1>0, SequenceDomain, RowQuantity
  <2>5. after + n = before + 0 /\ removed' = removed + n /\ placed' = placed /\ lost' = lost
    BY <2>1, <2>3, <2>4
  <2> HIDE DEF before, after, moving, moved
  <2> QED
    BY <1>0, <1>n, <1>c, <2>2, <2>5
<1>3. ASSUME NEW i \in DOMAIN rows, NEW n \in Quantities, NEW to \in Places \cup {Elsewhere, Nowhere},
             BeginTransfer(i, n, to)
      PROVE  after + moved + removed' + lost' = placed'
  <2>1. i \in Nat /\ rows[i].quantity \in Int
    BY <1>0, SequenceDomain, RowQuantity
  <2>2. moved = moving
    BY <1>3, <2>1, RequestShapes, CarriedByAdmitted DEF BeginTransfer
  <2>3. after = before /\ removed' = removed /\ placed' = placed /\ lost' = lost
    BY <1>3 DEF BeginTransfer
  <2> QED
    BY <1>c, <2>2, <2>3
<1>4. CASE DeleteInstances
  <2>1. after = 0
    BY <1>0, <1>4, QuantityDeleted DEF DeleteInstances
  <2>2. moved = moving
    BY <1>4, RequestShapes, CarriedByAdmitted DEF DeleteInstances
  <2>3. removed' = removed + before /\ placed' = placed /\ lost' = lost
    BY <1>4 DEF DeleteInstances
  <2> HIDE DEF before, after, moving, moved
  <2> QED
    BY <1>0, <1>n, <1>c, <2>1, <2>2, <2>3
<1>5. ASSUME NEW r \in DOMAIN itemRequests, Take(r)
      PROVE  after + moved + removed' + lost' = placed'
  <2> DEFINE c == itemRequests[r]
             amount == Least(c.asked, c.had)
             next == [step |-> "find", amount |-> amount, to |-> c.to]
  <2>1. /\ c \in Request /\ c.step = "take" /\ amount \in Int /\ c.had - amount \in Int
        /\ c.had \in Int /\ c.to \in Places \cup {Elsewhere, Nowhere} /\ ~OnTheWay(c)
    BY <1>5, TakenRow, RequestFields DEF OnTheWay
  <2>2. c.row \in DOMAIN rows /\ Exists(c.row) /\ c.had = rows[c.row].quantity
    BY <1>r, <2>1 DEF Relies, ReadOf
  <2>3. CASE c.to = Elsewhere /\ amount = c.had
    <3>1. Continue(r, Done) /\ UNCHANGED <<rows, removed, placed, lost>>
      BY <1>5, <2>2, <2>3 DEF Take
    <3>2. moved + 0 = moving + 0
      BY <2>1, <3>1, RequestShapes, CarriedByContinued DEF Load
    <3>3. after = before /\ removed' = removed /\ placed' = placed /\ lost' = lost /\ moved = moving
      BY <1>n, <3>1, <3>2
    <3> QED
      BY <1>c, <3>3
  <2>4. CASE ~(c.to = Elsewhere /\ amount = c.had)
    <3>1. /\ rows' = [rows EXCEPT ![c.row] = Taken(c)]
          /\ IF c.to = Nowhere
             THEN Continue(r, Done) /\ removed' = removed + amount
             ELSE Continue(r, next) /\ UNCHANGED removed
          /\ UNCHANGED <<placed, lost>>
      BY <1>5, <2>2, <2>4 DEF Take
    <3>2. Taken(c) \in Row /\ Taken(c).quantity = c.had - amount
      BY <1>5, <2>2, <2>4, TakenRow
    <3>3. after + c.had = before + (c.had - amount)
      <4>1. after + rows[c.row].quantity = before + Taken(c).quantity
        BY <1>0, <2>2, <3>1, <3>2, QuantityChange
      <4> QED
        BY <2>2, <3>2, <4>1
    <3>4. CASE c.to = Nowhere
      <4>1. moved + 0 = moving + 0
        BY <2>1, <3>1, <3>4, RequestShapes, CarriedByContinued DEF Load
      <4>2. removed' = removed + amount /\ placed' = placed /\ lost' = lost
        BY <3>1, <3>4
      <4>3. PICK n \in Int, h \in Int : n = amount /\ h = c.had
        BY <2>1
      <4>4. /\ after + h = before + (h - n) /\ moved + 0 = moving + 0
            /\ removed' = removed + n /\ placed' = placed /\ lost' = lost
        BY <3>3, <4>1, <4>2, <4>3
      <4> HIDE DEF before, after, moving, moved
      <4> QED
        BY <1>0, <1>n, <1>c, <4>4
    <3>5. CASE c.to # Nowhere
      <4>1. next \in Request /\ OnTheWay(next) /\ next.amount = amount
        BY <2>1, <3>5, RequestShapes
      <4>2. Continue(r, next)
        BY <3>1, <3>5
      <4>3. moved + 0 = moving + amount
        <5> HIDE DEF next
        <5> QED
          BY <2>1, <4>1, <4>2, CarriedByContinued DEF Load
      <4>4. removed' = removed /\ placed' = placed /\ lost' = lost
        BY <3>1, <3>5
      <4>5. PICK n \in Int, h \in Int : n = amount /\ h = c.had
        BY <2>1
      <4>6. /\ after + h = before + (h - n) /\ moved + 0 = moving + n
            /\ removed' = removed /\ placed' = placed /\ lost' = lost
        BY <3>3, <4>3, <4>4, <4>5
      <4> HIDE DEF before, after, moving, moved
      <4> QED
        BY <1>0, <1>n, <1>c, <4>6
    <3> QED
      BY <3>4, <3>5
  <2> QED
    BY <2>3, <2>4
<1>6. ASSUME NEW r \in DOMAIN itemRequests, Find(r)
      PROVE  after + moved + removed' + lost' = placed'
  <2> DEFINE c == itemRequests[r]
             there == {i \in DOMAIN rows : Exists(i) /\ rows[i].place = c.to}
             found(i) == [step |-> "add", amount |-> c.amount, to |-> c.to, row |-> i,
                          had |-> IF i = 0 THEN 0 ELSE rows[i].quantity]
  <2>1. c \in Request /\ c.step = "find" /\ c.amount \in Int /\ c.to \in Places \cup {Elsewhere}
    BY <1>0, <1>6, SequenceDomain, RequestFields DEF Find
  <2>2. PICK i \in IF there = {} THEN {0} ELSE there : Continue(r, found(i))
    BY <1>6 DEF Find
  <2>3. i \in Nat /\ (IF i = 0 THEN 0 ELSE rows[i].quantity) \in Int
    BY <1>0, SequenceDomain, RowQuantity
  <2>4. found(i) \in Request /\ OnTheWay(found(i)) /\ found(i).amount = c.amount
    BY <2>1, <2>3, RequestShapes
  <2>5. moved + c.amount = moving + c.amount
    <3> DEFINE d == found(i)
    <3>1. d \in Request /\ OnTheWay(d) /\ d.amount = c.amount /\ Continue(r, d)
      BY <2>2, <2>4
    <3> HIDE DEF d
    <3>2. OnTheWay(c)
      BY <2>1 DEF OnTheWay
    <3> QED
      BY <3>1, <3>2, CarriedByContinued DEF Load
  <2>6. moved = moving
    <3> HIDE DEF moved, moving
    <3> QED
      BY <1>n, <2>1, <2>5
  <2>7. after = before /\ removed' = removed /\ placed' = placed /\ lost' = lost
    BY <1>6 DEF Find
  <2> QED
    BY <1>c, <2>6, <2>7
<1>7. ASSUME NEW r \in DOMAIN itemRequests, Add(r)
      PROVE  after + moved + removed' + lost' = placed'
  <2> DEFINE c == itemRequests[r]
  <2>1. /\ c \in Request /\ c.step = "add" /\ c.row \in Nat /\ c.had \in Int /\ c.amount \in Int
        /\ OnTheWay(c) /\ Continue(r, Done) /\ removed' = removed /\ placed' = placed
    BY <1>7, FilledRow DEF OnTheWay, Add
  <2>2. moved + c.amount = moving + 0
    BY <2>1, RequestShapes, CarriedByContinued DEF Load
  <2>3. CASE /\ c.row # 0
             /\ rows' = IF Exists(c.row)
                        THEN [rows EXCEPT ![c.row].quantity = c.had + c.amount] ELSE rows
             /\ lost' = lost
    <3> DEFINE filled == [rows[c.row] EXCEPT !.quantity = c.had + c.amount]
    <3>1. c.row \in DOMAIN rows /\ Exists(c.row) /\ c.had = rows[c.row].quantity
      BY <1>r, <2>1, <2>3 DEF Relies, ReadOf
    <3>2. /\ filled \in Row /\ filled.quantity = c.had + c.amount
          /\ rows' = [rows EXCEPT ![c.row] = filled]
      BY <1>7, <2>3, <3>1, FilledRow
    <3>3. after + c.had = before + (c.had + c.amount)
      <4> HIDE DEF filled
      <4>1. after + rows[c.row].quantity = before + filled.quantity
        BY <1>0, <3>1, <3>2, QuantityChange
      <4> QED
        BY <3>1, <3>2, <4>1
    <3>4. PICK n \in Int, h \in Int : n = c.amount /\ h = c.had
      BY <2>1
    <3>5. /\ after + h = before + (h + n) /\ moved + n = moving + 0
          /\ removed' = removed /\ placed' = placed /\ lost' = lost
      BY <2>1, <2>2, <2>3, <3>3, <3>4
    <3> HIDE DEF before, after, moving, moved, c
    <3> QED
      BY <1>0, <1>n, <1>c, <3>5
  <2>4. CASE /\ c.to \in Places /\ lost' = lost
             /\ rows' = Append(rows, [place |-> c.to, quantity |-> c.amount])
    <3>1. [place |-> c.to, quantity |-> c.amount] \in Row
      BY <2>1, <2>4, RowQuantity
    <3>2. after = before + c.amount
      BY <1>0, <2>4, <3>1, QuantityAppend
    <3>3. removed' = removed /\ placed' = placed /\ lost' = lost
      BY <2>1, <2>4
    <3>4. PICK n \in Int : n = c.amount
      BY <2>1
    <3>5. after = before + n /\ moved + n = moving + 0
      BY <2>2, <3>2, <3>4
    <3> HIDE DEF before, after, moving, moved, c
    <3> QED
      BY <1>0, <1>n, <1>c, <3>3, <3>5
  <2>5. CASE lost' = lost + c.amount /\ rows' = rows
    <3>1. PICK n \in Int : n = c.amount
      BY <2>1
    <3>2. /\ removed' = removed /\ placed' = placed /\ lost' = lost + n
          /\ after = before /\ moved + n = moving + 0
      BY <2>1, <2>2, <2>5, <3>1
    <3> HIDE DEF before, after, moving, moved, c
    <3> QED
      BY <1>0, <1>n, <1>c, <3>2
  <2> QED
    BY <1>7, <2>3, <2>4, <2>5 DEF Add
<1>8. ASSUME NEW r \in DOMAIN itemRequests, Break(r)
      PROVE  after + moved + removed' + lost' = placed'
  <2> DEFINE c == itemRequests[r]
  <2>1. /\ c \in Request /\ c.amount \in Int /\ OnTheWay(c) /\ Continue(r, Done)
    BY <1>0, <1>8, SequenceDomain, RequestFields DEF Break, OnTheWay
  <2>2. moved + c.amount = moving + 0
    BY <2>1, RequestShapes, CarriedByContinued DEF Load
  <2>3. PICK n \in Int : n = c.amount
    BY <2>1
  <2>4. /\ after = before /\ removed' = removed /\ placed' = placed
        /\ lost' = lost + n /\ moved + n = moving + 0
    BY <1>8, <2>1, <2>2, <2>3 DEF Break
  <2> HIDE DEF before, after, moving, moved, c
  <2> QED
    BY <1>0, <1>n, <1>c, <2>4
<1>9. ASSUME NEW r \in DOMAIN itemRequests, DeleteDefinition(r)
      PROVE  after + moved + removed' + lost' = placed'
  <2> DEFINE c == itemRequests[r]
  <2>1. ~OnTheWay(c) /\ Continue(r, Done)
    BY <1>9 DEF DeleteDefinition, OnTheWay
  <2>2. moved + 0 = moving + 0
    BY <2>1, RequestShapes, CarriedByContinued DEF Load
  <2>3. after = before /\ removed' = removed /\ placed' = placed /\ lost' = lost
    BY <1>9 DEF DeleteDefinition
  <2> HIDE DEF before, after, moving, moved
  <2> QED
    BY <1>0, <1>n, <1>c, <2>2, <2>3
<1>10. CASE UNCHANGED itemVars
  BY <1>c, <1>10 DEF itemVars
<1> QED
  BY <1>1, <1>2, <1>3, <1>4, <1>5, <1>6, <1>7, <1>8, <1>9, <1>10 DEF ItemsNext

-----------------------------------------------------------------------------
(* The requests and rows the quests' actions write.                        *)

LEMMA QuestRequestShapes ==
    /\ Finished \in QuestRequest /\ Finished.step = "finished"
    /\ \A q \in QuestIds, chat \in NamedChats, n \in Int, d \in Deltas :
          [step |-> "quest", quest |-> q, chat |-> chat, read |-> n, delta |-> d] \in QuestRequest
    /\ \A q \in QuestIds, chat \in NamedChats, n \in Int :
          [step |-> "look", quest |-> q, chat |-> chat, progress |-> n] \in QuestRequest
    /\ \A q \in QuestIds, chat \in NamedChats, n \in Int, i \in Nat :
          [step |-> "record", quest |-> q, chat |-> chat, progress |-> n, row |-> i] \in QuestRequest
    /\ \A q \in QuestIds, left \in Seq(QuestIds) :
          [step |-> "unlock", quest |-> q, left |-> left] \in QuestRequest
    /\ \A q \in QuestIds : [step |-> "ignore", quest |-> q] \in QuestRequest
<1>1. Finished \in QuestRequest /\ Finished.step = "finished"
  BY DEF QuestRequest, Finished
<1>2. ASSUME NEW q \in QuestIds, NEW chat \in NamedChats, NEW n \in Int, NEW d \in Deltas
      PROVE  [step |-> "quest", quest |-> q, chat |-> chat, read |-> n, delta |-> d] \in QuestRequest
  BY <1>2 DEF QuestRequest
<1>3. ASSUME NEW q \in QuestIds, NEW chat \in NamedChats, NEW n \in Int
      PROVE  [step |-> "look", quest |-> q, chat |-> chat, progress |-> n] \in QuestRequest
  BY <1>3 DEF QuestRequest
<1>4. ASSUME NEW q \in QuestIds, NEW chat \in NamedChats, NEW n \in Int, NEW i \in Nat
      PROVE  [step |-> "record", quest |-> q, chat |-> chat, progress |-> n, row |-> i] \in QuestRequest
  BY <1>4 DEF QuestRequest
<1>5. ASSUME NEW q \in QuestIds, NEW left \in Seq(QuestIds)
      PROVE  [step |-> "unlock", quest |-> q, left |-> left] \in QuestRequest
  BY <1>5 DEF QuestRequest
<1>6. ASSUME NEW q \in QuestIds PROVE [step |-> "ignore", quest |-> q] \in QuestRequest
  BY <1>6 DEF QuestRequest
<1> QED
  BY <1>1, <1>2, <1>3, <1>4, <1>5, <1>6

LEMMA QuestRequestFields ==
    ASSUME NEW c \in QuestRequest
    PROVE  /\ c.step \in {"quest", "look", "record"} => c.quest \in QuestIds /\ c.chat \in NamedChats
           /\ c.step = "quest" => c.read \in Int /\ c.delta \in Deltas
           /\ c.step \in {"look", "record"} => c.progress \in Int
           /\ c.step = "record" => c.row \in Nat
           /\ c.step = "unlock" => c.quest \in QuestIds /\ c.left \in Seq(QuestIds)
                                   /\ c = [step |-> "unlock", quest |-> c.quest, left |-> c.left]
<1>1. CASE c.step = "quest"
  <2>1. c \in [step : {"quest"}, quest : QuestIds, chat : NamedChats, read : Int, delta : Deltas]
    BY <1>1 DEF QuestRequest, Finished
  <2> QED
    BY <1>1, <2>1
<1>2. CASE c.step = "look"
  <2>1. c \in [step : {"look"}, quest : QuestIds, chat : NamedChats, progress : Int]
    BY <1>2 DEF QuestRequest, Finished
  <2> QED
    BY <1>2, <2>1
<1>3. CASE c.step = "record"
  <2>1. c \in [step : {"record"}, quest : QuestIds, chat : NamedChats, progress : Int, row : Nat]
    BY <1>3 DEF QuestRequest, Finished
  <2> QED
    BY <1>3, <2>1
<1>4. CASE c.step = "unlock"
  <2>1. c \in [step : {"unlock"}, quest : QuestIds, left : Seq(QuestIds)]
    BY <1>4 DEF QuestRequest, Finished
  <2> QED
    BY <1>4, <2>1
<1> QED
  BY <1>1, <1>2, <1>3, <1>4

LEMMA CappedProgress ==
    ASSUME NEW n \in Int, NEW d \in Deltas
    PROVE  /\ Capped(n + d) \in Int
           /\ Completes(Capped(n + d)) <=> Capped(n + d) = Target
<1>1. Target \in Int /\ d \in Int
  BY QuestAssumption
<1> QED
  BY <1>1 DEF Capped, Completes

LEMMA IgnoredRows ==
    ASSUME NEW row \in ProgressRow
    PROVE  LET ignored == [row EXCEPT !.status = "ignored"] IN
           /\ ignored \in ProgressRow
           /\ ignored.quest = row.quest /\ ignored.chat = row.chat /\ ignored.progress = row.progress
BY DEF ProgressRow

-----------------------------------------------------------------------------
(* Types of the quests.                                                    *)

LEMMA AdmittedQuest ==
    ASSUME QuestsTypeOK, NEW c \in QuestRequest, AdmitQuest(c)
    PROVE  LET r == Len(questRequests) + 1 IN
           /\ questRequests' \in Seq(QuestRequest)
           /\ DOMAIN questRequests' = DOMAIN questRequests \cup {r}
           /\ r \notin DOMAIN questRequests
           /\ questRequests'[r] = c
           /\ \A s \in DOMAIN questRequests : questRequests'[s] = questRequests[s]
BY AppendedSequence DEF QuestsTypeOK, AdmitQuest

LEMMA ResumedQuest ==
    ASSUME QuestsTypeOK, NEW r \in DOMAIN questRequests, NEW c \in QuestRequest, Resume(r, c)
    PROVE  /\ questRequests' \in Seq(QuestRequest)
           /\ DOMAIN questRequests' = DOMAIN questRequests
           /\ questRequests'[r] = c
           /\ \A s \in DOMAIN questRequests \ {r} : questRequests'[s] = questRequests[s]
BY ReplaceElement, SequenceDomain DEF QuestsTypeOK, Resume

(* The chat's row as RecordProgress leaves it: written or appended.        *)
LEMMA RecordedRows ==
    ASSUME QuestsTypeOK, RowsFound, NEW r \in DOMAIN questRequests, RecordProgress(r)
    PROVE  LET c == questRequests[r]
               i == IF c.row = 0 THEN Len(progressRows) + 1 ELSE c.row
           IN
           /\ c \in QuestRequest /\ c.step = "record"
           /\ c.quest \in QuestIds /\ c.chat \in NamedChats /\ c.progress \in Int
           /\ progressRows' \in Seq(ProgressRow)
           /\ c.row = 0 <=> i \notin DOMAIN progressRows
           /\ DOMAIN progressRows' = DOMAIN progressRows \cup {i}
           /\ progressRows'[i].quest = c.quest /\ progressRows'[i].chat = c.chat
           /\ progressRows'[i].progress = c.progress
           /\ \A j \in DOMAIN progressRows \ {i} : progressRows'[j] = progressRows[j]
           /\ i \in Nat \ {0} /\ latest' = [latest EXCEPT ![c.quest] = i]
           /\ unrecorded' = unrecorded \ {c.quest}
<1> DEFINE c == questRequests[r]
           status == IF Completes(c.progress) THEN "completed" ELSE "active"
           row == [quest |-> c.quest, chat |-> c.chat, progress |-> c.progress, status |-> status]
<1>0. progressRows \in Seq(ProgressRow)
  BY DEF QuestsTypeOK
<1>1. c \in QuestRequest /\ c.step = "record"
  BY SequenceDomain DEF QuestsTypeOK, RecordProgress
<1>2. c.quest \in QuestIds /\ c.chat \in NamedChats /\ c.progress \in Int /\ c.row \in Nat
  BY <1>1, QuestRequestFields
<1>3. c.chat \in QuestChats => row \in ProgressRow
  BY <1>2 DEF ProgressRow
<1>6. /\ latest' = [latest EXCEPT ![c.quest] = IF c.row = 0 THEN Len(progressRows') ELSE c.row]
      /\ unrecorded' = unrecorded \ {c.quest}
  BY DEF RecordProgress
<1> DEFINE i == IF c.row = 0 THEN Len(progressRows) + 1 ELSE c.row
<1>7. i \in Nat \ {0}
  BY <1>0, <1>2, SequenceDomain
<1>4. CASE c.row = 0
  <2>1. progressRows' = Append(progressRows, row) /\ c.chat \in QuestChats
    BY <1>4 DEF RecordProgress
  <2>2. row \in ProgressRow
    BY <1>3, <2>1
  <2>3. /\ progressRows' \in Seq(ProgressRow) /\ i = Len(progressRows) + 1 /\ i \notin DOMAIN progressRows
        /\ DOMAIN progressRows' = DOMAIN progressRows \cup {i} /\ progressRows'[i] = row
        /\ \A j \in DOMAIN progressRows : progressRows'[j] = progressRows[j]
    BY <1>0, <1>4, <2>1, <2>2, AppendedSequence
  <2>4. Len(progressRows') = Len(progressRows) + 1
    BY <1>0, <2>1, <2>2, AppendProperties
  <2>5. latest' = [latest EXCEPT ![c.quest] = i]
    BY <1>4, <1>6, <2>4
  <2>6. row.quest = c.quest /\ row.chat = c.chat /\ row.progress = c.progress
    OBVIOUS
  <2> HIDE DEF row, i
  <2>7. /\ progressRows'[i].quest = c.quest /\ progressRows'[i].chat = c.chat
        /\ progressRows'[i].progress = c.progress
    BY <2>3, <2>6
  <2> QED
    BY <1>1, <1>2, <1>4, <1>6, <1>7, <2>3, <2>5, <2>7 DEF i
<1>5. CASE c.row # 0
  <2> DEFINE written == [progressRows[c.row] EXCEPT !.progress = c.progress, !.status = status]
  <2>1. progressRows' = [progressRows EXCEPT ![c.row].progress = row.progress, ![c.row].status = row.status]
    BY <1>5 DEF RecordProgress
  <2>2. /\ c.row \in DOMAIN progressRows
        /\ progressRows[c.row].quest = c.quest /\ progressRows[c.row].chat = c.chat
    BY <1>1, <1>5 DEF RowsFound, RowsOf
  <2>3. progressRows' = [progressRows EXCEPT ![c.row] = written]
    BY <2>1
  <2>4. progressRows[c.row] \in ProgressRow /\ status \in {"active", "completed"}
    BY <1>0, <2>2, SequenceDomain
  <2>5. written \in ProgressRow /\ written.quest = c.quest /\ written.chat = c.chat /\ written.progress = c.progress
    <3> DEFINE old == progressRows[c.row]
    <3>1. old \in ProgressRow
      BY <2>4
    <3>2. written = [old EXCEPT !.progress = c.progress, !.status = status]
      OBVIOUS
    <3> HIDE DEF old, written, status
    <3>3. old = [quest |-> old.quest, chat |-> old.chat, progress |-> old.progress, status |-> old.status]
      BY <3>1 DEF ProgressRow
    <3>4. written = [quest |-> old.quest, chat |-> old.chat, progress |-> c.progress, status |-> status]
      BY <3>2, <3>3
    <3>5. old.quest = c.quest /\ old.chat = c.chat
      BY <2>2 DEF old
    <3> QED
      <4>1. old.quest \in QuestIds /\ old.chat \in QuestChats
        BY <3>1 DEF ProgressRow
      <4>2. written \in ProgressRow
        BY <1>2, <2>4, <3>4, <4>1 DEF ProgressRow
      <4> QED
        BY <3>4, <3>5, <4>2
  <2> HIDE DEF written
  <2>6. /\ progressRows' \in Seq(ProgressRow) /\ DOMAIN progressRows' = DOMAIN progressRows
        /\ progressRows'[c.row] = written
        /\ \A j \in DOMAIN progressRows \ {c.row} : progressRows'[j] = progressRows[j]
    BY <1>0, <2>2, <2>3, <2>5, ReplaceElement, SequenceDomain
  <2> QED
    BY <1>1, <1>2, <1>5, <1>6, <1>7, <2>2, <2>5, <2>6
<1> QED
  BY <1>4, <1>5

(* A reward or an abandonment changes no progress and completes nothing.   *)
LEMMA ChangedStatus ==
    ASSUME QuestsTypeOK, NEW q, NEW status,
           quests' = [quests EXCEPT ![q].status = status],
           q \in QuestIds => status \in QuestStatus /\ (status = "completed" => quests[q].status = "completed")
    PROVE  /\ quests' \in [QuestIds -> [status : QuestStatus, progress : Int]]
           /\ \A s \in QuestIds : /\ quests'[s].progress = quests[s].progress
                                  /\ quests'[s].status = "completed" => quests[s].status = "completed"
                                  /\ s # q => quests'[s] = quests[s]
           /\ q \in QuestIds => quests'[q].status = status
<1>0. quests \in [QuestIds -> [status : QuestStatus, progress : Int]]
  BY DEF QuestsTypeOK
<1>1. CASE q \in QuestIds
  <2> DEFINE new == [status |-> status, progress |-> quests[q].progress]
  <2>1. quests[q] = [status |-> quests[q].status, progress |-> quests[q].progress]
    BY <1>0, <1>1
  <2>2. [quests[q] EXCEPT !.status = status] = new
    BY <2>1
  <2>3. quests' = [quests EXCEPT ![q] = new]
    BY <2>2
  <2>4. new \in [status : QuestStatus, progress : Int]
    BY <1>0, <1>1
  <2>5. /\ new.status = status /\ new.progress = quests[q].progress
        /\ new.status = "completed" => quests[q].status = "completed"
    BY <1>1
  <2> HIDE DEF new
  <2> QED
    BY <1>0, <1>1, <2>3, <2>4, <2>5
<1>2. CASE q \notin QuestIds
  BY <1>0, <1>2
<1> QED
  BY <1>1, <1>2

LEMMA UnlockedQuests ==
    ASSUME QuestsTypeOK, NEW r \in DOMAIN questRequests, UnlockQuest(r)
    PROVE  /\ quests' \in [QuestIds -> [status : QuestStatus, progress : Int]]
           /\ \A q \in QuestIds : /\ quests'[q].progress = quests[q].progress
                                  /\ quests'[q].status = "completed" <=> quests[q].status = "completed"
<1> DEFINE h == Head(questRequests[r].left)
           status == Unlocked(quests[h].status)
<1>0. quests \in [QuestIds -> [status : QuestStatus, progress : Int]]
  BY DEF QuestsTypeOK
<1>1. quests' = [quests EXCEPT ![h].status = status]
  BY DEF UnlockQuest
<1>2. h \in QuestIds => /\ status \in QuestStatus
                        /\ status = "completed" <=> quests[h].status = "completed"
  <2>1. h \in QuestIds => quests[h].status \in QuestStatus
    BY <1>0
  <2> QED
    BY <2>1 DEF Unlocked, QuestStatus
<1> HIDE DEF h, status
<1>3. /\ quests' \in [QuestIds -> [status : QuestStatus, progress : Int]]
      /\ \A s \in QuestIds : /\ quests'[s].progress = quests[s].progress
                             /\ quests'[s].status = "completed" => quests[s].status = "completed"
                             /\ s # h => quests'[s] = quests[s]
      /\ h \in QuestIds => quests'[h].status = status
  BY <1>1, <1>2, ChangedStatus
<1>4. ASSUME NEW q \in QuestIds, quests[q].status = "completed" PROVE quests'[q].status = "completed"
  <2>1. CASE q = h
    BY <1>2, <1>3, <1>4, <2>1
  <2>2. CASE q # h
    BY <1>3, <1>4, <2>2
  <2> QED
    BY <2>1, <2>2
<1> QED
  BY <1>3, <1>4

LEMMA AbandonedQuest ==
    ASSUME QuestsTypeOK, NEW q \in QuestIds, Abandon(q)
    PROVE  /\ quests' \in [QuestIds -> [status : QuestStatus, progress : Int]]
           /\ \A s \in QuestIds : /\ quests'[s].progress = quests[s].progress
                                  /\ quests'[s].status = "completed" => quests[s].status = "completed"
                                  /\ s # q => quests'[s] = quests[s]
           /\ quests'[q].status = "abandoned"
<1>1. quests' = [quests EXCEPT ![q].status = "abandoned"] /\ "abandoned" \in QuestStatus
  BY DEF Abandon, QuestStatus
<1> QED
  BY <1>1, ChangedStatus

(* A report raises the progress it read to what it reports, at most to the *)
(* target; at the target the quest is completed.                           *)
LEMMA ReportedQuest ==
    ASSUME QuestsTypeOK, NEW r \in DOMAIN questRequests, WriteQuest(r)
    PROVE  LET c == questRequests[r]
               progress == Capped(c.read + c.delta)
           IN
           /\ c \in QuestRequest /\ c.step = "quest"
           /\ c.quest \in QuestIds /\ c.chat \in NamedChats /\ c.read \in Int
           /\ progress \in Int
           /\ quests' \in [QuestIds -> [status : QuestStatus, progress : Int]]
           /\ quests'[c.quest].progress = progress
           /\ progress = Target => quests'[c.quest].status = "completed"
           /\ progress # Target => quests'[c.quest].status = quests[c.quest].status
           /\ \A q \in QuestIds \ {c.quest} : quests'[q] = quests[q]
<1> DEFINE c == questRequests[r]
           progress == Capped(c.read + c.delta)
           status == IF Completes(progress) THEN "completed" ELSE quests[c.quest].status
           new == [status |-> status, progress |-> progress]
<1>0. quests \in [QuestIds -> [status : QuestStatus, progress : Int]]
  BY DEF QuestsTypeOK
<1>1. c \in QuestRequest /\ c.step = "quest"
  BY SequenceDomain DEF QuestsTypeOK, WriteQuest
<1>2. c.quest \in QuestIds /\ c.chat \in NamedChats /\ c.read \in Int /\ c.delta \in Deltas
  BY <1>1, QuestRequestFields
<1>3. /\ progress \in Int
      /\ Completes(progress) <=> progress = Target
  BY <1>2, CappedProgress
<1>4. quests' = [quests EXCEPT ![c.quest] = new]
  BY DEF WriteQuest
<1> HIDE DEF progress, c
<1>5. /\ progress = Target => status = "completed"
      /\ progress # Target => status = quests[c.quest].status
      /\ status \in QuestStatus
  BY <1>0, <1>2, <1>3 DEF QuestStatus
<1> HIDE DEF status
<1>6. new \in [status : QuestStatus, progress : Int]
  BY <1>3, <1>5
<1>7. new.status = status /\ new.progress = progress
  OBVIOUS
<1> HIDE DEF new
<1>8. /\ quests' \in [QuestIds -> [status : QuestStatus, progress : Int]]
      /\ quests'[c.quest] = new
      /\ \A q \in QuestIds \ {c.quest} : quests'[q] = quests[q]
  BY <1>0, <1>2, <1>4, <1>6
<1> QED
  BY <1>1, <1>2, <1>3, <1>5, <1>7, <1>8 DEF progress, c

(* Looking for the chat's row finds it, or finds none.                     *)
LEMMA FoundRow ==
    ASSUME QuestsTypeOK, NEW r \in DOMAIN questRequests, LookForRow(r)
    PROVE  LET c == questRequests[r] IN
           /\ c \in QuestRequest /\ c.step = "look"
           /\ c.quest \in QuestIds /\ c.chat \in NamedChats /\ c.progress \in Int
           /\ \E d \in QuestRequest :
                 /\ Resume(r, d) /\ d.step = "record"
                 /\ d.quest = c.quest /\ d.chat = c.chat /\ d.progress = c.progress
                 /\ d.row = 0 => RowsOf(c.quest, c.chat) = {}
                 /\ d.row # 0 => d.row \in RowsOf(c.quest, c.chat)
<1> DEFINE c == questRequests[r]
           found == RowsOf(c.quest, c.chat)
           next(i) == [step |-> "record", quest |-> c.quest, chat |-> c.chat,
                       progress |-> c.progress, row |-> i]
<1>0. progressRows \in Seq(ProgressRow)
  BY DEF QuestsTypeOK
<1>1. c \in QuestRequest /\ c.step = "look"
  BY SequenceDomain DEF QuestsTypeOK, LookForRow
<1>2. c.quest \in QuestIds /\ c.chat \in NamedChats /\ c.progress \in Int
  BY <1>1, QuestRequestFields
<1>3. PICK i \in IF found = {} THEN {0} ELSE found : Resume(r, next(i))
  BY DEF LookForRow
<1>4. i \in Nat /\ (i = 0 <=> found = {}) /\ (i # 0 => i \in found)
  BY <1>0, SequenceDomain DEF RowsOf
<1>5. next(i) \in QuestRequest
  BY <1>2, <1>4, QuestRequestShapes
<1>6. /\ next(i).step = "record" /\ next(i).quest = c.quest /\ next(i).chat = c.chat
      /\ next(i).progress = c.progress /\ next(i).row = i
  OBVIOUS
<1> DEFINE d == next(i)
<1>7. d \in QuestRequest /\ Resume(r, d)
  BY <1>3, <1>5
<1> HIDE DEF d, next
<1>8. /\ d.step = "record" /\ d.quest = c.quest /\ d.chat = c.chat
      /\ d.progress = c.progress /\ d.row = i
  BY <1>6 DEF d
<1> QED
  BY <1>1, <1>2, <1>4, <1>7, <1>8

(* What a request goes on with after its progress is recorded.             *)
LEMMA RecordedRequest ==
    ASSUME QuestsTypeOK, NEW r \in DOMAIN questRequests, RecordProgress(r)
    PROVE  \E d \in QuestRequest : Resume(r, d) /\ d.step \in {"unlock", "finished"}
<1> DEFINE c == questRequests[r]
           unlock == [step |-> "unlock", quest |-> c.quest, left |-> Unlocks[c.quest]]
<1>1. c \in QuestRequest /\ c.step = "record"
  BY SequenceDomain DEF QuestsTypeOK, RecordProgress
<1>2. c.quest \in QuestIds /\ Unlocks[c.quest] \in Seq(QuestIds)
  BY <1>1, QuestRequestFields, QuestAssumption
<1>3. unlock \in QuestRequest /\ unlock.step = "unlock"
  BY <1>2, QuestRequestShapes
<1>4. Finished \in QuestRequest /\ Finished.step = "finished"
  BY QuestRequestShapes
<1>5. Resume(r, unlock) \/ Resume(r, Finished)
  BY DEF RecordProgress
<1> HIDE DEF unlock
<1> QED
  BY <1>3, <1>4, <1>5

LEMMA UnlockedRequest ==
    ASSUME QuestsTypeOK, NEW r \in DOMAIN questRequests, UnlockQuest(r)
    PROVE  \E d \in QuestRequest : Resume(r, d) /\ d.step \in {"unlock", "finished"}
<1> DEFINE c == questRequests[r]
           next == [c EXCEPT !.left = Tail(c.left)]
<1>1. c \in QuestRequest /\ c.step = "unlock"
  BY SequenceDomain DEF QuestsTypeOK, UnlockQuest
<1>2. /\ c.quest \in QuestIds /\ c.left \in Seq(QuestIds)
      /\ c = [step |-> "unlock", quest |-> c.quest, left |-> c.left]
  BY <1>1, QuestRequestFields
<1>3. CASE Len(c.left) > 1
  <2> DEFINE d == [step |-> "unlock", quest |-> c.quest, left |-> Tail(c.left)]
  <2>1. Tail(c.left) \in Seq(QuestIds)
    BY <1>2, <1>3, HeadTailProperties, EmptySeq
  <2>2. d \in QuestRequest /\ d.step = "unlock"
    BY <1>2, <2>1, QuestRequestShapes
  <2>3. next = d
    <3>1. PICK q \in QuestIds, l \in Seq(QuestIds) : c = [step |-> "unlock", quest |-> q, left |-> l]
      BY <1>2
    <3> DEFINE t == Tail(c.left)
    <3>2. next = [c EXCEPT !.left = t] /\ d = [step |-> "unlock", quest |-> c.quest, left |-> t]
      OBVIOUS
    <3> HIDE DEF c, t, next, d
    <3> QED
      BY <3>1, <3>2
  <2>4. Resume(r, d)
    BY <1>3, <2>3 DEF UnlockQuest
  <2> HIDE DEF d
  <2> QED
    BY <2>2, <2>4
<1>4. CASE ~(Len(c.left) > 1)
  BY <1>4, QuestRequestShapes DEF UnlockQuest
<1> QED
  BY <1>3, <1>4

LEMMA IgnoredProgress ==
    ASSUME QuestsTypeOK, NEW r, IgnoreProgress(r)
    PROVE  /\ progressRows' \in Seq(ProgressRow)
           /\ DOMAIN progressRows' = DOMAIN progressRows
           /\ \A i \in DOMAIN progressRows :
                 /\ progressRows'[i].quest = progressRows[i].quest
                 /\ progressRows'[i].chat = progressRows[i].chat
                 /\ progressRows'[i].progress = progressRows[i].progress
<1> DEFINE ignored(i) == IF progressRows[i].quest = questRequests[r].quest
                         THEN [progressRows[i] EXCEPT !.status = "ignored"] ELSE progressRows[i]
<1>0. progressRows \in Seq(ProgressRow)
  BY DEF QuestsTypeOK
<1>1. progressRows' = [i \in DOMAIN progressRows |-> ignored(i)]
  BY DEF IgnoreProgress
<1>2. ASSUME NEW i \in DOMAIN progressRows
      PROVE  /\ ignored(i) \in ProgressRow
             /\ ignored(i).quest = progressRows[i].quest
             /\ ignored(i).chat = progressRows[i].chat
             /\ ignored(i).progress = progressRows[i].progress
  <2>1. progressRows[i] \in ProgressRow
    BY <1>0, SequenceDomain
  <2> QED
    BY <2>1, IgnoredRows
<1> HIDE DEF ignored
<1>3. DOMAIN progressRows' = DOMAIN progressRows /\ \A i \in DOMAIN progressRows : progressRows'[i] = ignored(i)
  BY <1>1
<1>4. progressRows' \in Seq(ProgressRow)
  BY <1>0, <1>1, <1>2, <1>3, ReplaceInSequence
<1> QED
  BY <1>2, <1>3, <1>4

(* What a request that breaks off leaves.                                  *)
LEMMA BrokenQuest ==
    ASSUME QuestsTypeOK, NEW r \in DOMAIN questRequests, BreakQuest(r)
    PROVE  LET c == questRequests[r] IN
           /\ c \in QuestRequest /\ Finished \in QuestRequest
           /\ Resume(r, Finished) /\ Finished.step = "finished"
           /\ c.step \in {"look", "record"} => unrecorded' = unrecorded \cup {c.quest} /\ c.quest \in QuestIds
           /\ c.step \notin {"look", "record"} => unrecorded' = unrecorded
           /\ UNCHANGED <<quests, progressRows, contested, latest>>
<1>1. questRequests[r] \in QuestRequest
  BY SequenceDomain DEF QuestsTypeOK
<1>2. questRequests[r].step \in {"look", "record"} => questRequests[r].quest \in QuestIds
  BY <1>1, QuestRequestFields
<1> QED
  BY <1>1, <1>2, QuestRequestShapes DEF BreakQuest

LEMMA QuestsTypeStep == QuestsTypeOK /\ RowsFound /\ [QuestsNext]_questVars => QuestsTypeOK'
<1> SUFFICES ASSUME QuestsTypeOK, RowsFound, [QuestsNext]_questVars PROVE QuestsTypeOK'
  OBVIOUS
<1>0. /\ quests \in [QuestIds -> [status : QuestStatus, progress : Int]]
      /\ progressRows \in Seq(ProgressRow) /\ questRequests \in Seq(QuestRequest)
      /\ contested \in SUBSET QuestIds
      /\ latest \in [QuestIds -> Nat] /\ unrecorded \in SUBSET QuestIds
  BY DEF QuestsTypeOK
<1>1. ASSUME NEW q \in QuestIds, NEW chat \in NamedChats, NEW delta \in Deltas, ReadQuest(q, chat, delta)
      PROVE  QuestsTypeOK'
  <2>1. [step |-> "quest", quest |-> q, chat |-> chat, read |-> quests[q].progress, delta |-> delta]
          \in QuestRequest
    BY <1>0, QuestRequestShapes
  <2>2. questRequests' \in Seq(QuestRequest)
    BY <1>1, <2>1, AdmittedQuest DEF ReadQuest
  <2> QED
    BY <1>0, <1>1, <2>2 DEF ReadQuest, QuestsTypeOK
<1>2. ASSUME NEW q \in QuestIds, Abandon(q) PROVE QuestsTypeOK'
  <2>1. questRequests' \in Seq(QuestRequest)
    BY <1>2, QuestRequestShapes, AdmittedQuest DEF Abandon
  <2>2. quests' \in [QuestIds -> [status : QuestStatus, progress : Int]]
    BY <1>2, AbandonedQuest
  <2> QED
    BY <1>0, <1>2, <2>1, <2>2 DEF Abandon, QuestsTypeOK
<1>3. ASSUME NEW r \in DOMAIN questRequests, WriteQuest(r) PROVE QuestsTypeOK'
  <2> DEFINE c == questRequests[r]
             progress == Capped(c.read + c.delta)
             d == [step |-> "look", quest |-> c.quest, chat |-> c.chat, progress |-> progress]
  <2>1. /\ c.quest \in QuestIds /\ c.chat \in NamedChats /\ progress \in Int
        /\ quests' \in [QuestIds -> [status : QuestStatus, progress : Int]]
    BY <1>3, ReportedQuest
  <2>2. d \in QuestRequest
    BY <2>1, QuestRequestShapes
  <2>3. questRequests' \in Seq(QuestRequest)
    BY <1>3, <2>2, ResumedQuest DEF WriteQuest
  <2> QED
    BY <1>0, <1>3, <2>1, <2>3 DEF WriteQuest, QuestsTypeOK
<1>4. ASSUME NEW r \in DOMAIN questRequests, LookForRow(r) PROVE QuestsTypeOK'
  <2>1. questRequests' \in Seq(QuestRequest)
    BY <1>4, FoundRow, ResumedQuest
  <2> QED
    BY <1>0, <1>4, <2>1 DEF LookForRow, QuestsTypeOK
<1>5. ASSUME NEW r \in DOMAIN questRequests, RecordProgress(r) PROVE QuestsTypeOK'
  <2>1. questRequests' \in Seq(QuestRequest) /\ progressRows' \in Seq(ProgressRow)
    BY <1>5, RecordedRequest, ResumedQuest, RecordedRows
  <2>2. latest' \in [QuestIds -> Nat] /\ unrecorded' \in SUBSET QuestIds
    BY <1>0, <1>5, RecordedRows
  <2> QED
    BY <1>0, <1>5, <2>1, <2>2 DEF RecordProgress, QuestsTypeOK
<1>6. ASSUME NEW r \in DOMAIN questRequests, UnlockQuest(r) PROVE QuestsTypeOK'
  <2>1. /\ questRequests' \in Seq(QuestRequest)
        /\ quests' \in [QuestIds -> [status : QuestStatus, progress : Int]]
    BY <1>6, UnlockedRequest, ResumedQuest, UnlockedQuests
  <2> QED
    BY <1>0, <1>6, <2>1 DEF UnlockQuest, QuestsTypeOK
<1>7. ASSUME NEW r \in DOMAIN questRequests, IgnoreProgress(r) PROVE QuestsTypeOK'
  <2>1. questRequests' \in Seq(QuestRequest) /\ progressRows' \in Seq(ProgressRow)
    BY <1>7, QuestRequestShapes, ResumedQuest, IgnoredProgress DEF IgnoreProgress
  <2> QED
    BY <1>0, <1>7, <2>1 DEF IgnoreProgress, QuestsTypeOK
<1>9. ASSUME NEW r \in DOMAIN questRequests, BreakQuest(r) PROVE QuestsTypeOK'
  <2>1. questRequests' \in Seq(QuestRequest)
    BY <1>9, BrokenQuest, ResumedQuest
  <2>2. unrecorded' \in SUBSET QuestIds
    BY <1>0, <1>9, BrokenQuest
  <2> QED
    BY <1>0, <1>9, <2>1, <2>2 DEF BreakQuest, QuestsTypeOK
<1>8. CASE UNCHANGED questVars
  BY <1>0, <1>8 DEF questVars, QuestsTypeOK
<1> QED
  BY <1>1, <1>2, <1>3, <1>4, <1>5, <1>6, <1>7, <1>8, <1>9 DEF QuestsNext

-----------------------------------------------------------------------------
(* Rows that were found stay where they are.                               *)

LEMMA OthersFound ==
    ASSUME RowsFound, NEW r,
           DOMAIN questRequests' \subseteq DOMAIN questRequests \cup {r},
           \A s \in DOMAIN questRequests \ {r} : questRequests'[s] = questRequests[s],
           questRequests'[r].step = "record" /\ questRequests'[r].row # 0 =>
              /\ questRequests'[r].row \in DOMAIN progressRows
              /\ progressRows[questRequests'[r].row].quest = questRequests'[r].quest
              /\ progressRows[questRequests'[r].row].chat = questRequests'[r].chat,
           DOMAIN progressRows \subseteq DOMAIN progressRows',
           \A i \in DOMAIN progressRows : /\ progressRows'[i].quest = progressRows[i].quest
                                          /\ progressRows'[i].chat = progressRows[i].chat
    PROVE  RowsFound'
<1>1. ASSUME NEW s \in DOMAIN questRequests',
             questRequests'[s].step = "record", questRequests'[s].row # 0
      PROVE  /\ questRequests'[s].row \in DOMAIN progressRows
             /\ progressRows[questRequests'[s].row].quest = questRequests'[s].quest
             /\ progressRows[questRequests'[s].row].chat = questRequests'[s].chat
  <2>1. CASE s = r
    BY <1>1, <2>1
  <2>2. CASE s # r
    BY <1>1, <2>2 DEF RowsFound, RowsOf
  <2> QED
    BY <2>1, <2>2
<1>2. ASSUME NEW s \in DOMAIN questRequests',
             questRequests'[s].step = "record", questRequests'[s].row # 0
      PROVE  /\ questRequests'[s].row \in DOMAIN progressRows'
             /\ progressRows'[questRequests'[s].row].quest = questRequests'[s].quest
             /\ progressRows'[questRequests'[s].row].chat = questRequests'[s].chat
  BY <1>1, <1>2
<1> QED
  BY <1>2 DEF RowsFound, RowsOf

LEMMA RowsFoundStep == QuestsTypeOK /\ RowsFound /\ [QuestsNext]_questVars => RowsFound'
<1> SUFFICES ASSUME QuestsTypeOK, RowsFound, [QuestsNext]_questVars PROVE RowsFound'
  OBVIOUS
<1>1. ASSUME NEW q \in QuestIds, NEW chat \in NamedChats, NEW delta \in Deltas, ReadQuest(q, chat, delta)
      PROVE  RowsFound'
  <2> DEFINE c == [step |-> "quest", quest |-> q, chat |-> chat, read |-> quests[q].progress, delta |-> delta]
  <2>1. c \in QuestRequest
    BY QuestRequestShapes DEF QuestsTypeOK
  <2>2. AdmitQuest(c) /\ c.step = "quest" /\ UNCHANGED progressRows
    BY <1>1 DEF ReadQuest
  <2> HIDE DEF c
  <2> QED
    BY <2>1, <2>2, AdmittedQuest, OthersFound
<1>2. ASSUME NEW q \in QuestIds, Abandon(q) PROVE RowsFound'
  <2> DEFINE c == [step |-> "ignore", quest |-> q]
  <2>1. c \in QuestRequest /\ AdmitQuest(c) /\ c.step = "ignore" /\ UNCHANGED progressRows
    BY <1>2, QuestRequestShapes DEF Abandon
  <2> HIDE DEF c
  <2> QED
    BY <2>1, AdmittedQuest, OthersFound
<1>3. ASSUME NEW r \in DOMAIN questRequests, WriteQuest(r) PROVE RowsFound'
  <2> DEFINE c == questRequests[r]
             progress == Capped(c.read + c.delta)
             d == [step |-> "look", quest |-> c.quest, chat |-> c.chat, progress |-> progress]
  <2>1. d \in QuestRequest
    BY <1>3, ReportedQuest, QuestRequestShapes
  <2>2. Resume(r, d) /\ d.step = "look" /\ UNCHANGED progressRows
    BY <1>3 DEF WriteQuest
  <2> HIDE DEF d
  <2> QED
    BY <2>1, <2>2, ResumedQuest, OthersFound
<1>4. ASSUME NEW r \in DOMAIN questRequests, LookForRow(r) PROVE RowsFound'
  <2>1. PICK d \in QuestRequest : /\ Resume(r, d)
                                  /\ d.quest = questRequests[r].quest /\ d.chat = questRequests[r].chat
                                  /\ d.row # 0 => d.row \in RowsOf(d.quest, d.chat)
    BY <1>4, FoundRow
  <2>2. d.row # 0 => /\ d.row \in DOMAIN progressRows
                     /\ progressRows[d.row].quest = d.quest /\ progressRows[d.row].chat = d.chat
    BY <2>1 DEF RowsOf
  <2>3. UNCHANGED progressRows
    BY <1>4 DEF LookForRow
  <2> QED
    BY <2>1, <2>2, <2>3, ResumedQuest, OthersFound
<1>5. ASSUME NEW r \in DOMAIN questRequests, RecordProgress(r) PROVE RowsFound'
  <2> DEFINE c == questRequests[r]
             i == IF c.row = 0 THEN Len(progressRows) + 1 ELSE c.row
  <2>1. PICK d \in QuestRequest : Resume(r, d) /\ d.step \in {"unlock", "finished"}
    BY <1>5, RecordedRequest
  <2>2. /\ c.row = 0 <=> i \notin DOMAIN progressRows
        /\ DOMAIN progressRows' = DOMAIN progressRows \cup {i}
        /\ progressRows'[i].quest = c.quest /\ progressRows'[i].chat = c.chat
        /\ \A j \in DOMAIN progressRows \ {i} : progressRows'[j] = progressRows[j]
        /\ c.step = "record"
    BY <1>5, RecordedRows
  <2>3. c.row # 0 => i \in RowsOf(c.quest, c.chat)
    BY <2>2 DEF RowsFound
  <2> HIDE DEF i
  <2>4. \A j \in DOMAIN progressRows : /\ progressRows'[j].quest = progressRows[j].quest
                                       /\ progressRows'[j].chat = progressRows[j].chat
    BY <2>2, <2>3 DEF RowsOf
  <2> QED
    BY <2>1, <2>2, <2>4, ResumedQuest, OthersFound
<1>6. ASSUME NEW r \in DOMAIN questRequests, UnlockQuest(r) PROVE RowsFound'
  <2>1. PICK d \in QuestRequest : Resume(r, d) /\ d.step \in {"unlock", "finished"}
    BY <1>6, UnlockedRequest
  <2>2. UNCHANGED progressRows
    BY <1>6 DEF UnlockQuest
  <2> QED
    BY <2>1, <2>2, ResumedQuest, OthersFound
<1>7. ASSUME NEW r \in DOMAIN questRequests, IgnoreProgress(r) PROVE RowsFound'
  <2>1. Resume(r, Finished) /\ Finished \in QuestRequest /\ Finished.step = "finished"
    BY <1>7, QuestRequestShapes DEF IgnoreProgress
  <2> QED
    BY <1>7, <2>1, IgnoredProgress, ResumedQuest, OthersFound
<1>9. ASSUME NEW r \in DOMAIN questRequests, BreakQuest(r) PROVE RowsFound'
  BY <1>9, BrokenQuest, ResumedQuest, OthersFound
<1>8. CASE UNCHANGED questVars
  BY <1>8 DEF questVars, RowsFound, RowsOf
<1> QED
  BY <1>1, <1>2, <1>3, <1>4, <1>5, <1>6, <1>7, <1>8, <1>9 DEF QuestsNext

-----------------------------------------------------------------------------
(* Quests and their rows agree.                                            *)

IsReport(c, q) == c.step \in {"quest", "look", "record"} /\ c.quest = q

(* What a step on another quest leaves of q's rows and history.            *)
SameRowsOf(q) ==
    /\ \A i : i \in DOMAIN progressRows' /\ progressRows'[i].quest = q
                <=> i \in DOMAIN progressRows /\ progressRows[i].quest = q
    /\ \A i \in DOMAIN progressRows : progressRows[i].quest = q =>
          /\ progressRows'[i].chat = progressRows[i].chat
          /\ progressRows'[i].progress = progressRows[i].progress
    /\ latest'[q] = latest[q]

(* A step on another quest.                                                *)
LEMMA Untouched ==
    ASSUME NEW q \in QuestIds, Agreed(q), NEW r,
           DOMAIN questRequests' = DOMAIN questRequests \cup {r},
           \A s \in DOMAIN questRequests \ {r} : questRequests'[s] = questRequests[s],
           r \in DOMAIN questRequests => ~IsReport(questRequests[r], q),
           ~IsReport(questRequests'[r], q),
           SameRowsOf(q),
           q \in unrecorded => q \in unrecorded',
           quests'[q].progress = quests[q].progress
    PROVE  Agreed(q)'
<1>1. Reporting(q)' = Reporting(q)
  BY DEF Reporting, IsReport
<1>2. \A s \in Reporting(q) : questRequests'[s] = questRequests[s]
  BY DEF Reporting, IsReport
<1>3. \A chat : RowsOf(q, chat)' = RowsOf(q, chat)
  BY DEF RowsOf, SameRowsOf
<1>4. OneRowEach(q)'
  BY DEF Agreed, OneRowEach, IsOf, SameRowsOf
<1>5. LatestOf(q)'
  BY DEF Agreed, LatestOf, IsOf, SameRowsOf
<1>6. OneReport(q)'
  BY <1>1 DEF Agreed, OneReport
<1>7. InStep(q)'
  BY <1>1, <1>2, <1>3 DEF Agreed, InStep
<1>8. Settled(q)'
  <2>1. Recorded(q) => Recorded(q)'
    BY DEF Agreed, LatestOf, Recorded, IsOf, SameRowsOf
  <2> QED
    BY <1>1, <1>2, <2>1 DEF Agreed, Settled
<1> QED
  BY <1>4, <1>5, <1>6, <1>7, <1>8 DEF Agreed

LEMMA SameRows ==
    ASSUME NEW q, UNCHANGED <<progressRows, latest>>
    PROVE  SameRowsOf(q)
BY DEF SameRowsOf

(* The one report on a quest goes on.                                      *)
LEMMA OnlyReport ==
    ASSUME QuestsTypeOK, NEW q \in QuestIds, Agreed(q),
           NEW r \in DOMAIN questRequests, IsReport(questRequests[r], q),
           NEW d \in QuestRequest, Resume(r, d)
    PROVE  /\ Reporting(q) = {r}
           /\ IsReport(d, q) => Reporting(q)' = {r}
           /\ ~IsReport(d, q) => Reporting(q)' = {}
<1>1. /\ DOMAIN questRequests' = DOMAIN questRequests /\ questRequests'[r] = d
      /\ \A s \in DOMAIN questRequests \ {r} : questRequests'[s] = questRequests[s]
  BY ResumedQuest
<1>2. Reporting(q) = {r}
  BY DEF Reporting, IsReport, Agreed, OneReport
<1>3. \A s \in DOMAIN questRequests \ {r} : ~IsReport(questRequests'[s], q)
  BY <1>1, <1>2 DEF Reporting, IsReport
<1>4. Reporting(q)' = {s \in DOMAIN questRequests' : IsReport(questRequests'[s], q)}
  BY DEF Reporting, IsReport
<1> QED
  BY <1>1, <1>2, <1>3, <1>4

LEMMA UncontestedStep ==
    QuestsTypeOK /\ RowsFound /\ Uncontested /\ [QuestsNext]_questVars => Uncontested'
<1> SUFFICES ASSUME QuestsTypeOK, RowsFound, Uncontested, [QuestsNext]_questVars,
                    NEW q \in QuestIds, q \notin contested'
             PROVE  Agreed(q)'
  BY DEF Uncontested
<1>0. /\ quests \in [QuestIds -> [status : QuestStatus, progress : Int]]
      /\ progressRows \in Seq(ProgressRow)
      /\ latest \in [QuestIds -> Nat]
  BY DEF QuestsTypeOK
<1>a. q \notin contested => Agreed(q)
  BY DEF Uncontested
<1>1. ASSUME NEW p \in QuestIds, NEW chat \in NamedChats, NEW delta \in Deltas, ReadQuest(p, chat, delta)
      PROVE  Agreed(q)'
  <2> DEFINE c == [step |-> "quest", quest |-> p, chat |-> chat, read |-> quests[p].progress, delta |-> delta]
             r == Len(questRequests) + 1
  <2>1. c \in QuestRequest
    BY <1>0, QuestRequestShapes
  <2>2. AdmitQuest(c) /\ UNCHANGED <<quests, progressRows, latest, unrecorded>>
    BY <1>1 DEF ReadQuest
  <2>3. c.step = "quest" /\ c.quest = p
    OBVIOUS
  <2>4. contested' = IF Reporting(p) = {} THEN contested ELSE contested \cup {p}
    BY <1>1 DEF ReadQuest
  <2> HIDE DEF c
  <2>5. /\ DOMAIN questRequests' = DOMAIN questRequests \cup {r} /\ r \notin DOMAIN questRequests
        /\ questRequests'[r] = c
        /\ \A s \in DOMAIN questRequests : questRequests'[s] = questRequests[s]
    BY <2>1, <2>2, AdmittedQuest
  <2> HIDE DEF r
  <2>6. CASE p # q
    <3>1. Agreed(q) /\ ~IsReport(c, q)
      BY <1>a, <2>3, <2>4, <2>6 DEF IsReport
    <3> QED
      BY <2>2, <2>5, <3>1, SameRows, Untouched
  <2>7. CASE p = q
    <3>1. Agreed(q) /\ Reporting(q) = {}
      BY <1>a, <2>4, <2>7
    <3>2. Reporting(q)' = {r}
      BY <2>3, <2>5, <2>7, <3>1 DEF Reporting
    <3>3. q \notin unrecorded => Recorded(q)
      BY <3>1 DEF Agreed, Settled
    <3>4. OneRowEach(q)' /\ LatestOf(q)' /\ Settled(q)'
      BY <2>2, <3>1, <3>3 DEF Agreed, OneRowEach, LatestOf, Settled, Recorded, IsOf
    <3>5. OneReport(q)' /\ InStep(q)'
      BY <2>2, <2>3, <2>5, <2>7, <3>2 DEF OneReport, InStep
    <3> QED
      BY <3>4, <3>5 DEF Agreed
  <2> QED
    BY <2>6, <2>7
<1>2. ASSUME NEW p \in QuestIds, Abandon(p) PROVE Agreed(q)'
  <2> DEFINE c == [step |-> "ignore", quest |-> p]
  <2>1. c \in QuestRequest /\ AdmitQuest(c) /\ ~IsReport(c, q)
    BY <1>2, QuestRequestShapes DEF Abandon, IsReport
  <2>2. UNCHANGED <<progressRows, contested, latest, unrecorded>>
    BY <1>2 DEF Abandon
  <2>3. quests'[q].progress = quests[q].progress
    BY <1>2, AbandonedQuest
  <2> HIDE DEF c
  <2> QED
    BY <1>a, <2>1, <2>2, <2>3, AdmittedQuest, SameRows, Untouched
<1>3. ASSUME NEW r \in DOMAIN questRequests, WriteQuest(r) PROVE Agreed(q)'
  <2> DEFINE c == questRequests[r]
             progress == Capped(c.read + c.delta)
             d == [step |-> "look", quest |-> c.quest, chat |-> c.chat, progress |-> progress]
  <2>1. /\ c.step = "quest" /\ c.quest \in QuestIds /\ c.chat \in NamedChats
        /\ progress \in Int
        /\ quests'[c.quest].progress = progress
        /\ \A p \in QuestIds \ {c.quest} : quests'[p] = quests[p]
    BY <1>3, ReportedQuest
  <2>2. UNCHANGED <<progressRows, contested, latest, unrecorded>>
    BY <1>3 DEF WriteQuest
  <2>3. d \in QuestRequest /\ d.step = "look" /\ d.quest = c.quest /\ d.progress = progress
    BY <2>1, QuestRequestShapes
  <2>4. Resume(r, d)
    BY <1>3 DEF WriteQuest
  <2> HIDE DEF d, progress
  <2>5. Agreed(q)
    BY <1>a, <2>2
  <2>6. CASE c.quest # q
    <3>1. ~IsReport(c, q) /\ ~IsReport(d, q)
      BY <2>3, <2>6 DEF IsReport
    <3>2. quests'[q] = quests[q]
      BY <2>1, <2>6
    <3> QED
      BY <2>2, <2>3, <2>4, <2>5, <3>1, <3>2, ResumedQuest, SameRows, Untouched
  <2>7. CASE c.quest = q
    <3>1. IsReport(c, q) /\ IsReport(d, q)
      BY <2>1, <2>3, <2>7 DEF IsReport
    <3>2. Reporting(q)' = {r} /\ questRequests'[r] = d
      BY <2>3, <2>4, <2>5, <3>1, OnlyReport, ResumedQuest
    <3>3. OneRowEach(q)' /\ LatestOf(q)'
      BY <2>2, <2>5 DEF Agreed, OneRowEach, LatestOf, IsOf
    <3>4. OneReport(q)' /\ InStep(q)' /\ Settled(q)'
      BY <2>1, <2>3, <2>7, <3>2 DEF OneReport, InStep, Settled
    <3> QED
      BY <3>3, <3>4 DEF Agreed
  <2> QED
    BY <2>6, <2>7
<1>4. ASSUME NEW r \in DOMAIN questRequests, LookForRow(r) PROVE Agreed(q)'
  <2> DEFINE c == questRequests[r]
  <2>1. c.step = "look" /\ c.quest \in QuestIds
    BY <1>4, FoundRow
  <2>2. PICK d \in QuestRequest :
           /\ Resume(r, d) /\ d.step = "record"
           /\ d.quest = c.quest /\ d.chat = c.chat /\ d.progress = c.progress
           /\ d.row = 0 => RowsOf(c.quest, c.chat) = {}
    BY <1>4, FoundRow
  <2>3. UNCHANGED <<quests, progressRows, contested, latest, unrecorded>>
    BY <1>4 DEF LookForRow
  <2>4. Agreed(q)
    BY <1>a, <2>3
  <2>5. CASE c.quest # q
    <3>1. ~IsReport(c, q) /\ ~IsReport(d, q)
      BY <2>2, <2>5 DEF IsReport
    <3> QED
      BY <2>2, <2>3, <2>4, <3>1, ResumedQuest, SameRows, Untouched
  <2>6. CASE c.quest = q
    <3>1. IsReport(c, q) /\ IsReport(d, q)
      BY <2>1, <2>2, <2>6 DEF IsReport
    <3>2. Reporting(q) = {r} /\ Reporting(q)' = {r} /\ questRequests'[r] = d
      BY <2>2, <2>4, <3>1, OnlyReport, ResumedQuest
    <3>3. d.progress = quests[q].progress
      BY <2>1, <2>2, <2>4, <3>2 DEF Agreed, InStep
    <3>4. OneRowEach(q)' /\ LatestOf(q)'
      BY <2>3, <2>4 DEF Agreed, OneRowEach, LatestOf, IsOf
    <3>5. RowsOf(q, d.chat)' = RowsOf(q, d.chat)
      BY <2>3 DEF RowsOf
    <3>6. OneReport(q)' /\ InStep(q)' /\ Settled(q)'
      BY <2>2, <2>3, <2>6, <3>2, <3>3, <3>5 DEF OneReport, InStep, Settled
    <3> QED
      BY <3>4, <3>6 DEF Agreed
  <2> QED
    BY <2>5, <2>6
<1>5. ASSUME NEW r \in DOMAIN questRequests, RecordProgress(r) PROVE Agreed(q)'
  <2> DEFINE c == questRequests[r]
             i == IF c.row = 0 THEN Len(progressRows) + 1 ELSE c.row
  <2>1. PICK d \in QuestRequest : Resume(r, d) /\ d.step \in {"unlock", "finished"}
    BY <1>5, RecordedRequest
  <2>2. /\ c.step = "record" /\ c.quest \in QuestIds
        /\ c.row = 0 <=> i \notin DOMAIN progressRows
        /\ DOMAIN progressRows' = DOMAIN progressRows \cup {i}
        /\ progressRows'[i].quest = c.quest /\ progressRows'[i].chat = c.chat
        /\ progressRows'[i].progress = c.progress
        /\ \A j \in DOMAIN progressRows \ {i} : progressRows'[j] = progressRows[j]
        /\ i \in Nat \ {0} /\ latest' = [latest EXCEPT ![c.quest] = i]
        /\ unrecorded' = unrecorded \ {c.quest}
    BY <1>5, RecordedRows
  <2>3. c.row # 0 => i \in RowsOf(c.quest, c.chat)
    BY <2>2 DEF RowsFound
  <2> HIDE DEF i
  <2>4. UNCHANGED <<quests, contested>>
    BY <1>5 DEF RecordProgress
  <2>5. Agreed(q) /\ ~IsReport(d, q)
    BY <1>a, <2>1, <2>4 DEF IsReport
  <2>6. CASE c.quest # q
    <3>1. ~IsReport(c, q)
      BY <2>6 DEF IsReport
    <3>2. \A j : j \in DOMAIN progressRows' /\ progressRows'[j].quest = q
                   <=> j \in DOMAIN progressRows /\ progressRows[j].quest = q
      BY <2>2, <2>3, <2>6 DEF RowsOf
    <3>3. \A j \in DOMAIN progressRows : progressRows[j].quest = q => progressRows'[j] = progressRows[j]
      BY <2>2, <2>3, <2>6 DEF RowsOf
    <3>4. latest'[q] = latest[q] /\ (q \in unrecorded => q \in unrecorded')
      BY <1>0, <2>2, <2>6
    <3>5. SameRowsOf(q)
      BY <3>2, <3>3, <3>4 DEF SameRowsOf
    <3> QED
      BY <2>1, <2>4, <2>5, <3>1, <3>4, <3>5, ResumedQuest, Untouched
  <2>7. CASE c.quest = q
    <3>1. IsReport(c, q)
      BY <2>2, <2>7 DEF IsReport
    <3>2. Reporting(q) = {r} /\ Reporting(q)' = {}
      BY <2>1, <2>5, <3>1, OnlyReport
    <3>3. /\ c.progress = quests[q].progress
          /\ c.row = 0 => RowsOf(q, c.chat) = {}
      BY <2>2, <2>5, <3>2 DEF Agreed, InStep
    <3>4. OneRowEach(q)'
      <4> SUFFICES ASSUME NEW j \in DOMAIN progressRows', NEW k \in DOMAIN progressRows',
                          progressRows'[j].quest = q, progressRows'[k].quest = q,
                          progressRows'[j].chat = progressRows'[k].chat
                   PROVE  j = k
        BY DEF OneRowEach, IsOf
      <4>1. \A l \in DOMAIN progressRows' : l # i =>
               l \in DOMAIN progressRows /\ progressRows'[l] = progressRows[l]
        BY <2>2
      <4>2. \A l, m \in DOMAIN progressRows :
               progressRows[l].quest = q /\ progressRows[m].quest = q
               /\ progressRows[l].chat = progressRows[m].chat => l = m
        BY <2>5 DEF Agreed, OneRowEach, IsOf
      <4>3. CASE c.row = 0
        <5>1. \A l \in DOMAIN progressRows : ~(progressRows[l].quest = q /\ progressRows[l].chat = c.chat)
          BY <3>3, <4>3 DEF RowsOf
        <5> QED
          BY <2>2, <4>1, <4>2, <5>1
      <4>4. CASE c.row # 0
        <5>1. i \in DOMAIN progressRows /\ progressRows[i].quest = q /\ progressRows[i].chat = c.chat
          BY <2>3, <2>7, <4>4 DEF RowsOf
        <5> QED
          BY <2>2, <4>1, <4>2, <5>1
      <4> QED
        BY <4>3, <4>4
    <3>5. latest'[q] = i /\ i # 0
      BY <1>0, <2>2, <2>7
    <3>6. LatestOf(q)'
      BY <2>2, <2>7, <3>5 DEF LatestOf, IsOf
    <3>7. Recorded(q)'
      BY <2>2, <2>4, <3>3, <3>5 DEF Recorded
    <3>8. OneReport(q)' /\ InStep(q)' /\ Settled(q)'
      BY <3>2, <3>7 DEF OneReport, InStep, Settled
    <3> QED
      BY <3>4, <3>6, <3>8 DEF Agreed
  <2> QED
    BY <2>6, <2>7
<1>6. ASSUME NEW r \in DOMAIN questRequests, UnlockQuest(r) PROVE Agreed(q)'
  <2>1. PICK d \in QuestRequest : Resume(r, d) /\ d.step \in {"unlock", "finished"}
    BY <1>6, UnlockedRequest
  <2>2. UNCHANGED <<progressRows, contested, latest, unrecorded>> /\ questRequests[r].step = "unlock"
    BY <1>6 DEF UnlockQuest
  <2>3. ~IsReport(questRequests[r], q) /\ ~IsReport(d, q)
    BY <2>1, <2>2 DEF IsReport
  <2>4. quests'[q].progress = quests[q].progress
    BY <1>6, UnlockedQuests
  <2> QED
    BY <1>a, <2>1, <2>2, <2>3, <2>4, ResumedQuest, SameRows, Untouched
<1>7. ASSUME NEW r \in DOMAIN questRequests, IgnoreProgress(r) PROVE Agreed(q)'
  <2>1. Resume(r, Finished) /\ Finished \in QuestRequest /\ ~IsReport(Finished, q)
    BY <1>7, QuestRequestShapes DEF IgnoreProgress, IsReport
  <2>2. UNCHANGED <<quests, contested, latest, unrecorded>> /\ ~IsReport(questRequests[r], q)
    BY <1>7 DEF IgnoreProgress, IsReport
  <2>3. SameRowsOf(q)
    BY <1>7, <2>2, IgnoredProgress DEF SameRowsOf
  <2> QED
    BY <1>a, <2>1, <2>2, <2>3, ResumedQuest, Untouched
<1>8. ASSUME NEW r \in DOMAIN questRequests, BreakQuest(r) PROVE Agreed(q)'
  <2> DEFINE c == questRequests[r]
  <2>1. /\ Resume(r, Finished) /\ Finished \in QuestRequest /\ ~IsReport(Finished, q)
        /\ c.step \in {"look", "record"} => unrecorded' = unrecorded \cup {c.quest}
        /\ c.step \notin {"look", "record"} => unrecorded' = unrecorded
        /\ UNCHANGED <<quests, progressRows, contested, latest>>
    BY <1>8, BrokenQuest DEF IsReport
  <2>2. Agreed(q)
    BY <1>a, <2>1
  <2>3. q \in unrecorded => q \in unrecorded'
    BY <2>1
  <2>4. CASE ~IsReport(c, q)
    BY <2>1, <2>2, <2>3, <2>4, ResumedQuest, SameRows, Untouched
  <2>5. CASE IsReport(c, q)
    <3>1. Reporting(q) = {r} /\ Reporting(q)' = {}
      BY <2>1, <2>2, <2>5, OnlyReport
    <3>2. OneRowEach(q)' /\ LatestOf(q)'
      BY <2>1, <2>2 DEF Agreed, OneRowEach, LatestOf, IsOf
    <3>3. q \notin unrecorded' => Recorded(q)
      BY <2>1, <2>2, <2>5, <3>1 DEF Agreed, Settled, IsReport
    <3>4. Settled(q)'
      BY <2>1, <3>3 DEF Settled, Recorded
    <3>5. OneReport(q)' /\ InStep(q)'
      BY <3>1 DEF OneReport, InStep
    <3> QED
      BY <3>2, <3>4, <3>5 DEF Agreed
  <2> QED
    BY <2>4, <2>5
<1>9. CASE UNCHANGED questVars
  BY <1>a, <1>9 DEF questVars, Agreed, OneRowEach, RowsOf, LatestOf, OneReport, InStep,
                  Settled, Recorded, IsOf, Reporting
<1> QED
  BY <1>1, <1>2, <1>3, <1>4, <1>5, <1>6, <1>7, <1>8, <1>9 DEF QuestsNext

LEMMA InvariantAgrees == QuestsTypeOK /\ Uncontested => QuestsAgree
<1> SUFFICES ASSUME Uncontested, NEW q \in QuestIds \ contested, Reporting(q) = {}
             PROVE  /\ \A i, j \in DOMAIN progressRows :
                          /\ progressRows[i].quest = q /\ progressRows[j].quest = q
                          /\ progressRows[i].chat = progressRows[j].chat
                          => i = j
                    /\ q \notin unrecorded =>
                          quests[q].progress = IF latest[q] = 0 THEN 0 ELSE progressRows[latest[q]].progress
  BY DEF QuestsAgree
<1>1. Agreed(q)
  BY DEF Uncontested
<1>2. q \notin unrecorded => Recorded(q)
  BY <1>1 DEF Agreed, Settled
<1> QED
  BY <1>1, <1>2 DEF Agreed, OneRowEach, IsOf, Recorded

-----------------------------------------------------------------------------
(* The theorems.                                                           *)

LEMMA ItemsInvInit == ItemsInit => ItemsInv
<1> SUFFICES ASSUME ItemsInit PROVE ItemsInv
  OBVIOUS
<1>1. ItemsTypeOK /\ ReadsHold
  <2>1. ItemsTypeOK
    <3>1. rows \in Seq(Row) /\ itemRequests \in Seq(Request)
      BY EmptySeq DEF ItemsInit
    <3>2. placed \in Int /\ removed \in Int /\ lost \in Int
      BY DEF ItemsInit
    <3>3. defined \in BOOLEAN /\ crossed \in BOOLEAN
      BY DEF ItemsInit
    <3> QED
      BY <3>1, <3>2, <3>3 DEF ItemsTypeOK
  <2>2. DOMAIN itemRequests = {}
    BY DEF ItemsInit
  <2> QED
    BY <2>1, <2>2 DEF ReadsHold
<1>2. Conserved
  <2>1. Quantity(rows) = 0
    <3>1. DOMAIN rows = {} /\ rows \in Seq(Row) /\ rows = [i \in DOMAIN rows |-> Deleted]
      BY DEF ItemsInit
    <3> QED
      BY <3>1, QuantityDeleted
  <2>2. InTransit = 0
    <3>1. Moving = {}
      BY DEF ItemsInit, Moving
    <3> QED
      BY <3>1, SumEmpty DEF InTransit, SumFunction
  <2> QED
    BY <2>1, <2>2 DEF ItemsInit, Conserved
<1> QED
  BY <1>1, <1>2 DEF ItemsInv

LEMMA ItemsInvStep == ItemsInv /\ [ItemsNext]_itemVars => ItemsInv'
<1> SUFFICES ASSUME ItemsInv, [ItemsNext]_itemVars PROVE ItemsInv'
  OBVIOUS
<1>1. ItemsTypeOK' /\ ReadsHold'
  BY ItemsTypeStep, ReadsHoldStep DEF ItemsInv
<1>2. ~crossed' => ~crossed
  <2> SUFFICES ASSUME crossed PROVE crossed'
    OBVIOUS
  <2>1. CASE ItemsNext
    BY <2>1 DEF ItemsNext, PlaceInLocation, Destroy, BeginTransfer, DeleteInstances, Take, Find, Add,
                Break, DeleteDefinition
  <2>2. CASE UNCHANGED itemVars
    BY <2>2 DEF itemVars
  <2> QED
    BY <2>1, <2>2
<1>3. ~crossed' => Conserved'
  BY <1>2, ConservedStep DEF ItemsInv
<1> QED
  BY <1>1, <1>3 DEF ItemsInv

LEMMA QuestsInvInit == QuestsInit => QuestsInv
<1> SUFFICES ASSUME QuestsInit PROVE QuestsInv
  OBVIOUS
<1>1. QuestsTypeOK
  <2>1. progressRows \in Seq(ProgressRow) /\ questRequests \in Seq(QuestRequest)
    BY EmptySeq DEF QuestsInit
  <2> QED
    BY <2>1 DEF QuestsInit, QuestsTypeOK, QuestStatus
<1>2. RowsFound
  BY DEF QuestsInit, RowsFound
<1>3. Uncontested
  BY DEF QuestsInit, Uncontested, Agreed, OneRowEach, LatestOf, OneReport, InStep, Settled,
         Recorded, IsOf, Reporting
<1> QED
  BY <1>1, <1>2, <1>3 DEF QuestsInv

(* What holds of the items, whatever the requests on them (src/story/      *)
(* items.ts) interleave like.                                              *)
THEOREM ItemsInvariant == ItemsSpec => []ItemsInv
BY ItemsInvInit, ItemsInvStep, PTL DEF ItemsSpec

(* What holds of the quests, whatever the requests on them (src/story/     *)
(* quest-engine.ts) interleave like.                                       *)
THEOREM QuestsInvariant == QuestsSpec => []QuestsInv
<1>1. QuestsInv /\ [QuestsNext]_questVars => QuestsInv'
  BY QuestsTypeStep, RowsFoundStep, UncontestedStep DEF QuestsInv
<1> QED
  BY <1>1, QuestsInvInit, PTL DEF QuestsSpec

(* The rows and requests on items and quests keep their types, for every   *)
(* quantity and every progress asked for, negative ones included: no row   *)
(* loses a field, none lies where no place is, none is of a chat that does *)
(* not exist.                                                              *)
THEOREM WorldTypesHold == ItemsSpec /\ QuestsSpec => [](ItemsTypeOK /\ QuestsTypeOK)
<1>1. (ItemsInv => ItemsTypeOK) /\ (QuestsInv => QuestsTypeOK)
  BY DEF ItemsInv, QuestsInv
<1> QED
  BY <1>1, ItemsInvariant, QuestsInvariant, PTL

(* Unless a request writes a row another move has read, moves, removals    *)
(* and statements that are refused (transfer) neither make nor lose items: *)
(* for every number of places, rows, requests and quantities.              *)
THEOREM MovesConserveItems == ItemsSpec => []ItemsConserved
<1>1. ItemsInv => ItemsConserved
  BY DEF ItemsInv, Conserved, ItemsConserved
<1> QED
  BY <1>1, ItemsInvariant, PTL

(* Reports on a quest that do not overlap leave at most one row of it for  *)
(* each chat, and the quest where the report recorded last left that row   *)
(* (applyProgress), unless one broke off since: for every number of        *)
(* quests, chats and rewards, whatever is abandoned or unlocked meanwhile. *)
THEOREM QuestsAndRowsAgree == QuestsSpec => []QuestsAgree
<1>1. QuestsInv => QuestsAgree
  BY InvariantAgrees DEF QuestsInv
<1> QED
  BY <1>1, QuestsInvariant, PTL

(* Only DELETE takes a quest out of "completed".                           *)
LEMMA CompletedStep ==
    ASSUME QuestsTypeOK, [QuestsNext]_questVars, NEW q \in QuestIds,
           quests[q].status = "completed", quests'[q].status # "completed"
    PROVE  quests'[q].status = "abandoned" /\ Len(questRequests') > Len(questRequests)
<1>1. PICK p \in QuestIds : Abandon(p)
  <2>1. \A p \in QuestIds, chat \in NamedChats, delta \in Deltas : ~ReadQuest(p, chat, delta)
    BY DEF ReadQuest
  <2>2. \A r \in DOMAIN questRequests : ~WriteQuest(r)
    BY ReportedQuest
  <2>3. \A r \in DOMAIN questRequests :
           ~(LookForRow(r) \/ RecordProgress(r) \/ IgnoreProgress(r) \/ BreakQuest(r))
    BY DEF LookForRow, RecordProgress, IgnoreProgress, BreakQuest
  <2>4. \A r \in DOMAIN questRequests : ~UnlockQuest(r)
    BY UnlockedQuests
  <2>5. ~UNCHANGED questVars
    BY DEF questVars
  <2> QED
    BY <2>1, <2>2, <2>3, <2>4, <2>5 DEF QuestsNext
<1>2. p = q
  BY <1>1, AbandonedQuest
<1>3. Len(questRequests') = Len(questRequests) + 1 /\ Len(questRequests) \in Nat
  BY <1>1, QuestRequestShapes, AppendProperties, LenProperties DEF Abandon, AdmitQuest, QuestsTypeOK
<1> QED
  BY <1>1, <1>2, <1>3, AbandonedQuest

(* A completed quest stays completed until DELETE abandons it: no report,  *)
(* not even a negative one, and no reward of another quest                 *)
(* (distributeRewards) takes it back.                                      *)
THEOREM OnlyDeletionTakesCompletion == QuestsSpec => RewardsKeepCompleted
<1>1. QuestsInv /\ [QuestsNext]_questVars =>
        [\A q \in QuestIds :
            quests[q].status = "completed" /\ quests'[q].status # "completed" =>
                quests'[q].status = "abandoned" /\ Len(questRequests') > Len(questRequests)]_questVars
  BY CompletedStep DEF QuestsInv
<1> QED
  BY <1>1, QuestsInvariant, PTL DEF QuestsSpec, RewardsKeepCompleted
=============================================================================
