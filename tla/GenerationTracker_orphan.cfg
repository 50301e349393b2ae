SPECIFICATION Spec
CONSTANTS
    a1 = a1
    a2 = a2
    Attempts = {a1, a2}
    Chats = {c1}
    c1 = c1
    NoAttempt = NoAttempt
    MaxLostWrites = 0
    PolicyDetectors = FALSE
CHECK_DEADLOCK FALSE
INVARIANT NoOrphan
