SPECIFICATION ContentSpec
CONSTANTS
    P1 = P1
    P2 = P2
    C1 = C1
    C2 = C2
    Q1 = Q1
    Q2 = Q2
    s1 = s1
    s2 = s2
    Places <- TwoPlaces
    Elsewhere = Elsewhere
    Nowhere = Nowhere
    Quantities <- SomeAmounts
    MaxItemRequests = 4
    QuestIds <- TwoQuests
    QuestChats <- TwoChats
    NoSuchChat = NoSuchChat
    Unlocks <- EachOther
    Target = 2
    Deltas <- SomeAmounts
    MaxQuestRequests = 3
    Answerer = "llm"
    MaxRows = 4
    Slots <- TwoCalls
    MaxWrites = 5
SYMMETRY Symmetry
CHECK_DEADLOCK FALSE
INVARIANT ItemsConserved
INVARIANT QuestsAgree
PROPERTY RewardsKeepCompleted
INVARIANT SwipesDistinct
INVARIANT ListedSelects
PROPERTY PurgedUnseen
