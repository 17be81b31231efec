SPECIFICATION BoundedSpec
CONSTANTS
    lower = lower
    mixed = mixed
    udp = udp
    tcp = tcp
    dnssec = dnssec
    None = None
    Failure = Failure
    Servfail = Servfail
    Rejected = Rejected
    Query <- MCQuery
    Ask <- MCAsk
    Name <- MCName
    Canonical <- MCCanonical
    Upstreams = 2
    Healthy <- FirstHealthy
    Answer <- MCAnswer
CHECK_DEADLOCK FALSE
INVARIANTS
    OwnReply
    NoFalseServfail
    RacesAreFlights
PROPERTIES
    QueryEnds
    ServeReturns
