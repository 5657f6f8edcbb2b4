SPECIFICATION Spec
CONSTANTS
    Requests = {r1, r2, r3, r4}
    NoCredential = NoCredential
    NoEntry = NoEntry
    u1 = u1
    u2 = u2
    d1 = d1
    d2 = d2
    v1 = v1
    v2 = v2
    Users = {u1, u2}
    Redirects = {d1, d2}
    Verifiers = {v1, v2}
    Bodies <- MCBodies
    TTL = 1
    MaxEvents = 2
INVARIANTS TokensAreEarned
PROPERTIES Rotates NothingOutlives
SYMMETRY Symmetry
CHECK_DEADLOCK FALSE
