SPECIFICATION Spec
CONSTANTS
    Caller = {w1, w2}
    Slots = 2
    CtxTimes = {2, 3}
    QueryTime = 2
    AttemptTime = 1
    DialTime = 2
    LookupTime = 3
    Ttl = 3
    NoEntry = NoEntry
    NoFlight = NoFlight
SYMMETRY Symmetric
INVARIANTS
    NotPoisoned
    PicksUpMove
    ExchangeBounded
