SPECIFICATION PageSpec
CONSTANTS
    A = A
    B = B
    Chats <- TwoChats
    NoChat = NoChat
    NoStream = NoStream
    Pages = 2
    Slots = 3
    MaxOps = 4
    Feeds = {"badges", "manager", "bell"}
    NoFeed = NoFeed
    NoSnapshot = NoSnapshot
    MaxStreams = 2
    Overlap <- OneAndTwo
    Overlapping = {"manager"}
    MaxPipe = 1
    MaxFailures = 1
    MaxActs <- ActsOf
    MaxIncidents = 3
    UserChats = {A}
    Puts = 1
    Polls = 1
    ListLimit = 2
    Recent = 1
    Requests = 2
    Earlier <- EarlierOf
CHECK_DEADLOCK FALSE
INVARIANT WholeList
INVARIANT SentWithOwnKey
PROPERTY LockReleased
PROPERTY ViewSettles
PROPERTY StreamsTell
PROPERTY StreamsRest
