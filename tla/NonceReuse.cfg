CONSTANTS
    Handlers = {h1}
    Nonces = {n1}
    EmptyNonce = none
    Timestamps <- MCTimestamps
    TTL = 1
    Drift = 2
    Half = 8
    MaxTime = 3
SPECIFICATION Spec
INVARIANT ManifestAcceptedOnce
