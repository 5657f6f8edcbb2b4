SPECIFICATION Spec
CONSTANTS
    Requests = {r1, r2, r3}
    NoTag = NoTag
    Gone = Gone
    u1 = u1
    u2 = u2
    Users = {u1, u2}
    LoadUser = u1
    Reviewers = {u2}
    Product <- MCProduct
    Baseline = 2
    Bodies <- MCBodies
    MaxCrashes = 1
INVARIANTS SalesAreKept DropsAreTrue
PROPERTIES TagsAreTrue
SYMMETRY Symmetry
CHECK_DEADLOCK FALSE
