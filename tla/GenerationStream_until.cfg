SPECIFICATION Spec
CONSTANTS
    Runs = {r1, r2}
    Clients = {k1}
    Buffers = {b1, b2}
    r1 = r1
    r2 = r2
    k1 = k1
    b1 = b1
    b2 = b2
    NoBuffer = NoBuffer
    NoRun = NoRun
    MaxEvents = 2
    MaxBytes = 4
    EventSizes = {1}
    MaxEmits = 1
SYMMETRY Symmetry
CHECK_DEADLOCK FALSE
PROPERTY StreamsUntilEnd
