SPECIFICATION FairSpec
CONSTANTS
    Runs = {r1, r2}
    Clients = {k1}
    Buffers = {b1, b2, b3, b4}
    r1 = r1
    r2 = r2
    k1 = k1
    b1 = b1
    b2 = b2
    b3 = b3
    b4 = b4
    NoBuffer = NoBuffer
    NoRun = NoRun
    MaxEvents = 2
    MaxBytes = 4
    EventSizes = {1, 3, 5}
    MaxEmits = 2
CHECK_DEADLOCK FALSE
INVARIANT RingSound
INVARIANT LiveSeesLatest
INVARIANT NoListenerOnFinished
INVARIANT StoredListenersTended
INVARIANT StoreWillBeCleaned
PROPERTY ConnectionSettles
