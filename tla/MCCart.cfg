SPECIFICATION CartSpec
CONSTANTS
    Requests = {r1, r2, r3, r4}
    Users = {u1}
    Shopper = u1
    Products = {p1, p2}
    NoProduct = NoProduct
    Coupons = {}
    NoCoupon = NoCoupon
    Keys = {k1}
    NoKey = NoKey
    p1 = p1
    p2 = p2
    k1 = k1
    s1 = s1
    Seeds = {s1}
    InitialRows <- MCRows
    MaxQuantity = 9
    InitialStock <- MCStock
    UsageLimit <- MCLimit
    CartBodies <- MCBodies
INVARIANTS OneCheckoutPerKey
PROPERTIES LinesAreKept
SYMMETRY Symmetry
CHECK_DEADLOCK FALSE
