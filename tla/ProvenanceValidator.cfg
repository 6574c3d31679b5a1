CONSTANTS
    Handlers = {h1, h2}
    Nonces = {n1}
    EmptyNonce = none
    Timestamps <- MCTimestamps
    TTL = 2
    Drift = 2
    Half = 8
    MaxTime = 4
SPECIFICATION Spec
INVARIANTS
    TypeOK
    SingleUseWithinTTL
    CacheRemembers
PROPERTIES
    DriftExact
    ReplayVerdictSound
    ExpiredEntriesGo
