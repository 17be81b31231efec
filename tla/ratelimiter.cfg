SPECIFICATION Spec
CONSTANTS
    Ip = {a, b}
    Limit = 2
    Window = 2
    GcSize = 1
    GcEvery = 2
    MaxTime = 6
    MaxCount = 3
CHECK_DEADLOCK FALSE
INVARIANTS
    GcTransparent
    TwiceTheLimit
