---------------------------- MODULE TurnStrategies ----------------------------
(* The selection functions of src/turning/turn-strategies.ts and the turn  *)
(* order of src/turning/turn-manager.ts.  A strategy is given the          *)
(* participants in the order of the database, the actor that spoke last,   *)
(* the number of the turn and the turn order; a weighted random choice is  *)
(* the set of the actors that may come out (every weight is at least 1).   *)
EXTENDS Naturals, Sequences, SequencesExt

CONSTANTS
    Actors,         \* actors that an agent plays
    AgentType,      \* actors.agent_type of each
    NoActor         \* currentActorId before the first turn

AgentTypes == {"narrator", "ai", "npc"}
Strategies == {"round_robin", "scene_based", "initiative", "quest_driven", "hybrid"}

ASSUME ActorsAssumption ==
    /\ AgentType \in [Actors -> AgentTypes]
    /\ NoActor \notin Actors

Members(participants) == {participants[i] : i \in DOMAIN participants}

OfType(participants, type) ==
    SelectSeq(participants, LAMBDA a : AgentType[a] = type)

\* refreshTurnOrder: a stable sort, narrators first, then ai, then npc.
TurnOrder(participants) ==
    OfType(participants, "narrator") \o OfType(participants, "ai")
        \o OfType(participants, "npc")

\* turnOrder.indexOf(current) + 1, which is 0 for an absent actor.
Place(order, current) ==
    IF \E i \in DOMAIN order : order[i] = current
    THEN CHOOSE i \in DOMAIN order :
            order[i] = current /\ \A j \in 1 .. i - 1 : order[j] # current
    ELSE 0

RoundRobin(participants, current, order) ==
    participants[(Place(order, current) % Len(participants)) + 1]

SceneBased(participants, current, turn, order) ==
    LET narrators == OfType(participants, "narrator")
    IN  IF turn % 3 = 0 /\ narrators # <<>>
        THEN narrators[1]
        ELSE RoundRobin(participants, current, order)

\* In a story the hybrid strategy leaves every fifth turn to the quests, which
\* take turns for now; in a group chat it is a weighted random choice.
Hybrid(mode, participants, current, turn, order) ==
    IF mode = "group" THEN Members(participants)
    ELSE IF turn % 5 = 0 THEN {RoundRobin(participants, current, order)}
    ELSE {SceneBased(participants, current, turn, order)}

\* STRATEGY_MAP: the actors a strategy may select.
Selectable(strategy, mode, participants, current, turn, order) ==
    CASE strategy \in {"round_robin", "quest_driven"} ->
            {RoundRobin(participants, current, order)}
      [] strategy = "scene_based" ->
            {SceneBased(participants, current, turn, order)}
      [] strategy = "initiative" -> Members(participants)
      [] strategy = "hybrid" ->
            Hybrid(mode, participants, current, turn, order)
=============================================================================
