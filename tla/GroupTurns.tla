------------------------------ MODULE GroupTurns ------------------------------
(* Who speaks in a group chat: the automatic replies to user messages      *)
(* (triggerAutoGeneration), the choice of the speaker                      *)
(* (src/group-chat/turn-selector.ts) and the cascade that lets one reply   *)
(* call for the next (triggerGroupCascade, src/generation/auto-gen.ts).    *)
(*                                                                         *)
(* Every user message starts a chain of replies; code between two awaits   *)
(* is one step.  The tracker is reduced to the chat's slot and the runs    *)
(* it aborted (see GenerationTracker for all of it).                       *)
EXTENDS TurnStrategies, FiniteSets

CONSTANTS
    Chains,         \* user messages and the replies they cause
    NoChain,        \* an empty slot
    ActorOrder,     \* the actors in the order of the database
    Strategy,       \* chats.turn_strategy
    MaxTurns,       \* chats.max_turns, 3 when the column is null
    AutoAdvance,    \* chats.auto_advance
    NoState,        \* chats.story_state is null
    MaxToggles,     \* bound: pauses and resumes
    MaxMoves        \* bound: participants that leave or join

ASSUME GroupAssumption ==
    /\ NoChain \notin Chains
    /\ Strategy \in Strategies /\ AutoAdvance \in BOOLEAN
    /\ MaxTurns \in Nat /\ MaxToggles \in Nat /\ MaxMoves \in Nat
    /\ ActorOrder \in Seq(Actors)
    /\ NoState \notin BOOLEAN

PCs == {"idle", "reading", "picking", "ready", "generating", "answered",
        "completing", "completingLate", "failing", "failingLate", "cascading",
        "choosing", "advancing", "handing", "ended", "broken"}

VARIABLES
    state,      \* story_state: null, or isPaused of an object without turns
    members,    \* participants
    greetings,  \* chains without a user message: a chat's opening line
    pc,         \* where each chain is
    depth,      \* _cascadeDepth
    speaker,    \* the actor that speaks, or spoke last
    roster,     \* participants a cascade has read
    upcoming,   \* nextActorId of a cascade
    slot,       \* chatToAttempt.get(chat)
    stopped,    \* chains whose current run was aborted
    cut,        \* chains whose last reply ended as "cancelled"
    replies,    \* authors of the replies stored, chain by chain
    late,       \* replies stored since the chat was paused
    toggles, moves

settings == <<state, members, greetings>>
plan == <<depth, speaker, roster, upcoming>>
tracker == <<slot, stopped>>
history == <<replies, late>>
bounds == <<toggles, moves>>
vars == <<settings, pc, plan, tracker, cut, history, bounds>>

TypeOK ==
    /\ state \in {NoState} \cup BOOLEAN
    /\ members \in SUBSET Actors
    /\ greetings \in SUBSET Chains
    /\ pc \in [Chains -> PCs]
    /\ depth \in [Chains -> Nat]
    /\ speaker \in [Chains -> Actors \cup {NoActor}]
    /\ roster \in [Chains -> SUBSET Actors]
    /\ upcoming \in [Chains -> Actors \cup {NoActor}]
    /\ slot \in Chains \cup {NoChain}
    /\ stopped \in SUBSET Chains
    /\ cut \in SUBSET Chains
    /\ replies \in [Chains -> Seq(Actors)]
    /\ late \in [Chains -> Nat]
    /\ toggles \in Nat /\ moves \in Nat

Init ==
    /\ state = NoState
    /\ members = Members(ActorOrder)
    /\ greetings \in SUBSET Chains
    /\ pc = [c \in Chains |-> "idle"]
    /\ depth = [c \in Chains |-> 0]
    /\ speaker = [c \in Chains |-> NoActor]
    /\ roster = [c \in Chains |-> {}]
    /\ upcoming = [c \in Chains |-> NoActor]
    /\ slot = NoChain
    /\ stopped = {} /\ cut = {}
    /\ replies = [c \in Chains |-> <<>>]
    /\ late = [c \in Chains |-> 0]
    /\ toggles = 0 /\ moves = 0

Paused == state = TRUE
Participants == SelectSeq(ActorOrder, LAMBDA a : a \in members)
Goto(c, p) == pc' = [pc EXCEPT ![c] = p]

-----------------------------------------------------------------------------
(* The tracker.                                                            *)

Running == {"generating", "answered", "completing", "failing"}

\* cancelGenerationByChat.
CancelActive ==
    IF slot # NoChain /\ pc[slot] \in Running /\ slot \notin stopped
    THEN stopped' = stopped \cup {slot} /\ slot' = NoChain
    ELSE UNCHANGED <<stopped, slot>>

\* The opening line has no parent message and is not tracked.
Untracked(c) == c \in greetings /\ depth[c] = 0

\* completeGeneration and failGeneration look their entry up before the write
\* they await and then delete the slot, whatever it names.
Forget(c) == slot' = IF pc[c] \in {"completing", "failing"} THEN NoChain ELSE slot

UserCancel ==
    /\ slot # NoChain /\ pc[slot] \in Running /\ slot \notin stopped
    /\ CancelActive
    /\ UNCHANGED <<settings, pc, plan, cut, history, bounds>>

-----------------------------------------------------------------------------
(* The first reply.                                                        *)

\* A user message is stored: its automatic reply cancels what is under way.
\* An opening line does not.
Post(c) ==
    /\ pc[c] = "idle"
    /\ Goto(c, "reading")
    /\ IF Untracked(c) THEN UNCHANGED tracker ELSE CancelActive
    /\ UNCHANGED <<settings, plan, cut, history, bounds>>

\* selectNextGroupActor: a paused chat selects nobody.
CheckPause(c) ==
    /\ pc[c] = "reading"
    /\ Goto(c, IF Paused THEN "ended" ELSE "picking")
    /\ UNCHANGED <<settings, plan, tracker, cut, history, bounds>>

\* The participant the user mentions first, or the choice of the strategy.
\* The TurnManager is made anew for each choice and starts from story_state,
\* which holds no turns: its turn is the first and nobody has spoken.  A
\* story_state without a turnOrder makes initialize() throw.
StrategyPicks ==
    Selectable(Strategy, "group", Participants, NoActor, 1, TurnOrder(Participants))

Pick(c) ==
    /\ pc[c] = "picking"
    /\ \/ /\ members = {}
          /\ Goto(c, "ended")
          /\ UNCHANGED speaker
       \/ \E a \in members :
             /\ c \notin greetings \/ (state = NoState /\ a \in StrategyPicks)
             /\ speaker' = [speaker EXCEPT ![c] = a]
             /\ Goto(c, "ready")
       \/ /\ members # {} /\ state # NoState
          /\ Goto(c, "broken")
          /\ UNCHANGED speaker
    /\ UNCHANGED <<settings, depth, roster, upcoming, tracker, cut, replies, late, bounds>>

\* startGenerationTracking replaces the generation of the chat.
Track(c) ==
    /\ pc[c] = "ready"
    /\ Goto(c, "generating")
    /\ IF Untracked(c)
       THEN UNCHANGED tracker
       ELSE /\ stopped' = (IF slot # NoChain /\ pc[slot] \in Running
                           THEN stopped \cup {slot} ELSE stopped) \ {c}
            /\ slot' = c
    /\ UNCHANGED <<settings, plan, cut, history, bounds>>

\* The provider's answer; an aborted stream ends as "cancelled".
Answer(c) ==
    /\ pc[c] = "generating"
    /\ Goto(c, "answered")
    /\ cut' = IF c \in stopped THEN cut \cup {c} ELSE cut \ {c}
    /\ UNCHANGED <<settings, plan, tracker, history, bounds>>

Throw(c) ==
    /\ pc[c] \in {"generating", "answered"}
    /\ Goto(c, IF Untracked(c) THEN "ended"
               ELSE IF c \in stopped THEN "failingLate" ELSE "failing")
    /\ UNCHANGED <<settings, plan, tracker, cut, history, bounds>>

EndFailure(c) ==
    /\ pc[c] \in {"failing", "failingLate"}
    /\ Goto(c, "ended")
    /\ Forget(c)
    /\ UNCHANGED <<settings, plan, stopped, cut, history, bounds>>

Author(c) == speaker[c]

Store(c) ==
    /\ pc[c] = "answered"
    /\ Goto(c, IF Untracked(c) THEN "cascading"
               ELSE IF c \in stopped THEN "completingLate" ELSE "completing")
    /\ replies' = [replies EXCEPT ![c] = Append(@, Author(c))]
    /\ late' = IF Paused THEN [late EXCEPT ![c] = @ + 1] ELSE late
    /\ UNCHANGED <<settings, plan, tracker, cut, bounds>>

\* A reply that was not cancelled starts a cascade.
End(c) ==
    /\ pc[c] \in {"completing", "completingLate"}
    /\ Goto(c, IF c \in cut THEN "ended" ELSE "cascading")
    /\ Forget(c)
    /\ UNCHANGED <<settings, plan, stopped, cut, history, bounds>>

-----------------------------------------------------------------------------
(* The cascade.                                                            *)

\* Mutant: the limit is compared one turn too late.
Cascade_OffByOne(c) == MaxTurns # 0 /\ depth[c] <= MaxTurns /\ ~Paused

\* Mutant: the cascade leaves the pause to the turn selector.
Cascade_IgnoresPause(c) == MaxTurns # 0 /\ depth[c] < MaxTurns

MayCascade(c) == MaxTurns # 0 /\ depth[c] < MaxTurns /\ ~Paused

Cascade(c) ==
    /\ pc[c] = "cascading"
    /\ Goto(c, IF MayCascade(c) THEN "choosing" ELSE "ended")
    /\ UNCHANGED <<settings, plan, tracker, cut, history, bounds>>

\* Whom the reply may call by a mention.
Mentioned(c) == members \ {speaker[c]}

\* A mention of somebody else comes first; otherwise the chat advances by its
\* strategy, if it is told to and there is somebody else.
Choose(c) ==
    /\ pc[c] = "choosing"
    /\ \/ \E a \in Mentioned(c) :
             /\ upcoming' = [upcoming EXCEPT ![c] = a]
             /\ Goto(c, "handing")
             /\ roster' = roster
       \/ /\ AutoAdvance /\ Cardinality(members) > 1
          /\ Goto(c, "advancing")
          /\ roster' = [roster EXCEPT ![c] = members]
          /\ upcoming' = upcoming
       \/ /\ ~(AutoAdvance /\ Cardinality(members) > 1)
          /\ Goto(c, "ended")
          /\ UNCHANGED <<roster, upcoming>>
    /\ UNCHANGED <<settings, depth, speaker, tracker, cut, history, bounds>>

\* a comes first in the order of the database among the actors of S.
IsFirst(a, S) ==
    \E i \in DOMAIN ActorOrder :
        /\ ActorOrder[i] = a /\ a \in S
        /\ \A j \in 1 .. i - 1 : ActorOrder[j] \notin S

\* Mutant: the speaker the strategy repeats speaks again.
Substitute_Same(c, a) == {a}

\* The strategy's choice, or the first other participant if it repeats the
\* speaker: another of those the cascade read before the choice.
Substitute(c, a) ==
    IF a # speaker[c] THEN {a}
    ELSE {b \in roster[c] \ {speaker[c]} : IsFirst(b, roster[c] \ {speaker[c]})}

\* The selector looks at the pause and the participants again.  What makes it
\* choose nobody, or throw, ends the cascade without a word.
Advance(c) ==
    /\ pc[c] = "advancing"
    /\ \/ \E a \in members : \E b \in Substitute(c, a) :
             /\ state = NoState /\ a \in StrategyPicks
             /\ upcoming' = [upcoming EXCEPT ![c] = b]
             /\ Goto(c, "handing")
       \/ /\ state # NoState \/ members = {}
          /\ upcoming' = upcoming
          /\ Goto(c, "ended")
    /\ roster' = [roster EXCEPT ![c] = {}]
    /\ UNCHANGED <<settings, depth, speaker, tracker, cut, history, bounds>>

\* triggerAutoGeneration for the chosen actor: it cancels what is under way
\* and asks neither the pause nor the participants again.
Handover(c) ==
    /\ pc[c] = "handing"
    /\ Goto(c, "ready")
    /\ depth' = [depth EXCEPT ![c] = @ + 1]
    /\ speaker' = [speaker EXCEPT ![c] = upcoming[c]]
    /\ upcoming' = [upcoming EXCEPT ![c] = NoActor]
    /\ CancelActive
    /\ UNCHANGED <<settings, roster, cut, history, bounds>>

-----------------------------------------------------------------------------
(* Settings.                                                               *)

\* PUT /api/chats/:id with isPaused.
SetPaused(b) ==
    /\ toggles < MaxToggles
    /\ toggles' = toggles + 1
    /\ state' = b
    /\ late' = IF Paused THEN late ELSE [c \in Chains |-> 0]
    /\ UNCHANGED <<members, greetings, pc, plan, tracker, cut, replies, moves>>

\* POST and DELETE /api/chats/:id/participants.
Join(a) ==
    /\ moves < MaxMoves
    /\ moves' = moves + 1
    /\ members' = members \cup {a}
    /\ UNCHANGED <<state, greetings, pc, plan, tracker, cut, history, toggles>>

Leave(a) ==
    /\ moves < MaxMoves
    /\ moves' = moves + 1
    /\ members' = members \ {a}
    /\ UNCHANGED <<state, greetings, pc, plan, tracker, cut, history, toggles>>

-----------------------------------------------------------------------------
Next ==
    \/ UserCancel
    \/ \E c \in Chains :
          \/ Post(c) \/ CheckPause(c) \/ Pick(c) \/ Track(c) \/ Answer(c)
          \/ Throw(c) \/ EndFailure(c) \/ Store(c) \/ End(c) \/ Cascade(c)
          \/ Choose(c) \/ Advance(c) \/ Handover(c)
    \/ \E b \in BOOLEAN : SetPaused(b)
    \/ \E a \in Members(ActorOrder) : Join(a) \/ Leave(a)

Spec == Init /\ [][Next]_vars

-----------------------------------------------------------------------------
(* Properties.                                                             *)

\* A chain has its first reply and at most max_turns more, the bound the code
\* keeps, whatever mentions, cancellations, pauses and strategies do.
CascadeBounded == \A c \in Chains : Len(replies[c]) <= MaxTurns + 1


\* No actor answers itself: two replies in a row of one chain have different
\* authors, when the strategy repeats the speaker too.
NoEcho ==
    \A c \in Chains : \A i \in 1 .. Len(replies[c]) - 1 :
        replies[c][i] # replies[c][i + 1]

\* Pausing the chat lets every chain that is under way store one more reply
\* at most: the pause is not asked again between a choice and its reply.
PauseDrains == Paused => \A c \in Chains : late[c] <= 1

\* "AI generation resumed" (chat-group.ts:59): a chat that is not paused
\* answers its user.
ResumedChatAnswers == ~Paused => \A c \in Chains : pc[c] # "broken"
=============================================================================
