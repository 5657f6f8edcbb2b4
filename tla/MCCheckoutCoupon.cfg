SPECIFICATION FairSpec
CONSTANTS
    Requests = {r1, r2, r3}
    Users = {u1, u2}
    Products = {p1, p2}
    NoProduct = NoProduct
    Coupons = {c1}
    NoCoupon = NoCoupon
    Keys = {k1}
    NoKey = NoKey
    u1 = u1
    u2 = u2
    p1 = p1
    p2 = p2
    k1 = k1
    c1 = c1
    MaxQuantity = 2
    InitialStock <- CouponStock
    UsageLimit <- MCLimit
    Bodies <- CouponBodies
    Price <- MCPrice
    MinOrder <- MCMinOrder
    RedeemableBy <- MCRedeemableBy
    PoolSize = 2
    MaxCrashes = 0
    MaxPatches = 0
INVARIANTS CouponLedger
PROPERTIES EveryRequestAnswered
CHECK_DEADLOCK FALSE
