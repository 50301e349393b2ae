SPECIFICATION FairPairs
CONSTANTS
    a1 = a1
    a2 = a2
    Attempts = {a1, a2}
    Chats = {c1}
    c1 = c1
    NoAttempt = NoAttempt
    MaxLostWrites = 1
    PolicyDetectors = TRUE
CHECK_DEADLOCK FALSE
INVARIANT SlotNamesActive
INVARIANT AbortedDetached
INVARIANT DriftOnlyByDetach
INVARIANT LeakOnlyByLostWrite
INVARIANT PartialKept
PROPERTY AbortedRunEnds
PROPERTY OneGenerationPerChat
