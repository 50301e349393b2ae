SPECIFICATION Spec
CONSTANTS
    Actors = {alice, bob}
    AgentType <- Agents
    ActorOrder <- TwoActors
    Chains = {c1}
    c1 = c1
    alice = alice
    bob = bob
    carol = carol
    NoActor = NoActor
    NoChain = NoChain
    NoState = NoState
    Strategy = "hybrid"
    MaxTurns = 1
    AutoAdvance = FALSE
    MaxToggles = 2
    MaxMoves = 0
SYMMETRY Symmetry
CHECK_DEADLOCK FALSE
INVARIANT ResumedChatAnswers
