SPECIFICATION Spec
CONSTANTS
    Worker = {w1, w2, w3}
    Conn = {c1, c2, c3}
    PoolSize = 2
    NoConn = NoConn
    NoAnswer = NoAnswer
SYMMETRY Symmetric
INVARIANTS
    OneOwner
    NoOrphan
    OwnAnswer
    OpenBound
    SlotsFreed
CHECK_DEADLOCK FALSE
