SPECIFICATION ReviewsSpec
CONSTANTS
    ReviewRequests = {s1, s2, r1, r2, r3}
    None = None
    u1 = u1
    u2 = u2
    u3 = u3
    s1 = s1
    s2 = s2
    p1 = p1
    p2 = p2
    Clients = {u1, u2, u3}
    Products = {p1, p2}
    ReviewBodies <- MCBodies
    Micros = 2
    Window = 1
    MaxRequests = 1
    MaxClock = 2
    Ids = {1, 2, 3, 4}
    Seed <- MCSeed
    MaxEvents = 1
INVARIANTS FirstReplyIsTold
PROPERTIES LimiterIsHonest WalkIsSound
SYMMETRY Symmetry
CHECK_DEADLOCK FALSE
