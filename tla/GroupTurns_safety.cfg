SPECIFICATION Spec
CONSTANTS
    Actors = {alice, bob, carol}
    AgentType <- Agents
    ActorOrder <- ThreeActors
    Chains = {c1, c2}
    c1 = c1
    c2 = c2
    alice = alice
    bob = bob
    carol = carol
    NoActor = NoActor
    NoChain = NoChain
    NoState = NoState
    Strategy = "round_robin"
    MaxTurns = 2
    AutoAdvance = TRUE
    MaxToggles = 1
    MaxMoves = 1
SYMMETRY Symmetry
CHECK_DEADLOCK FALSE
INVARIANT CascadeBounded
INVARIANT NoEcho
INVARIANT PauseDrains
