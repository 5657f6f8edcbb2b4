SPECIFICATION Spec
CONSTANTS
    Requests = {r1, r2, r3}
    Seed = Seed
    NoUser = NoUser
    NoTag = NoTag
    NoToken = NoToken
    Bodies <- MCBodies
    MaxCrashes = 1
INVARIANTS OnceOnly OneChangePerVersion DeletionIsFinal
SYMMETRY Symmetry
CHECK_DEADLOCK FALSE
