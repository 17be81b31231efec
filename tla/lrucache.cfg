SPECIFICATION Spec
CONSTANTS
    Key = {k1, k2, k3}
    Size = 2
    Ttl = {0, 1, 9}
    MinTtl = 2
    MaxTtl = 4
    MaxTime = 6
    NoTtl = NoTtl
CHECK_DEADLOCK FALSE
INVARIANTS
    MapMatchesList
    NeverServedLate
PROPERTIES
    EvictsLeastRecent
