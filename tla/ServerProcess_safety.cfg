SPECIFICATION ProcessSpec
CONSTANTS
    p1 = p1
    p2 = p2
    Kinds = {"llama-cpp", "llama-swap"}
    Unchecked = {"llama-swap"}
    PortOf <- OnePort
    MaxProcs = 2
    Plugins <- SharedName
    Toggled = {p1}
    Signals = {c1, c2}
    MaxStarts = 2
    BatchSize = 2
    QueueMaxSize = 3
    MaxEntries = 6
CHECK_DEADLOCK FALSE
INVARIANT NoStrays
INVARIANT UnloadsInReverse
INVARIANT InOrder
INVARIANT NothingLost
INVARIANT DropsCounted
PROPERTY ReadySinceLook
PROPERTY ShutdownEnds
PROPERTY EntriesWritten
