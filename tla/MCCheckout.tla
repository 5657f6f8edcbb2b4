----------------------------- MODULE MCCheckout -----------------------------
(***************************************************************************)
(* Values for the constants of Checkout.                                   *)
(***************************************************************************)
EXTENDS Checkout, TLC

CONSTANTS u1, u2, p1, p2, k1, c1

Body(u, k, lines, c) == [user |-> u, key |-> k, items |-> lines, coupon |-> c]
L(p, q) == [product |-> p, quantity |-> q]

\* Stock 2 and 1: two orders of p1 fit, one that also takes p2.
MCStock == (p1 :> 2 @@ p2 :> 1)
MCPrice == (p1 :> 1 @@ p2 :> 2)
MCLimit == (c1 :> 1)
MCMinOrder == (c1 :> 2)
MCRedeemableBy == (u1 :> {c1} @@ u2 :> {})

\* Opposite line orders (lock cycles), one key from two users, with one
\* body and with several, on products in common and not (row locks would keep them
\* apart), the same product on two lines, an unknown product.
MCBodies == {
    Body(u1, k1, <<L(p1, 1), L(p2, 1)>>, NoCoupon),
    Body(u1, k1, <<L(p2, 1), L(p1, 1)>>, NoCoupon),
    Body(u2, k1, <<L(p1, 2)>>, NoCoupon),
    Body(u2, NoKey, <<L(p2, 1), L(p1, 1)>>, NoCoupon),
    Body(u1, NoKey, <<L(p1, 1), L(p1, 1)>>, c1),
    Body(u1, NoKey, <<L(p1, 1), L(NoProduct, 1)>>, NoCoupon),
    Body(u2, k1, <<L(p1, 1), L(p2, 1)>>, NoCoupon),
    Body(u1, k1, <<L(p2, 1)>>, NoCoupon) }

\* Coupons: a limit of one for orders with no product in common, below the minimum,
\* not redeemable by u2; and the lines of two orders in opposite order, for cycles of
\* row locks.
CouponBodies == {
    Body(u1, k1, <<L(p1, 1), L(p2, 1)>>, c1),
    Body(u1, NoKey, <<L(p2, 1)>>, c1),
    Body(u1, NoKey, <<L(p1, 1)>>, c1),
    Body(u1, NoKey, <<L(p1, 2)>>, c1),
    Body(u2, NoKey, <<L(p1, 2)>>, c1),
    Body(u1, k1, <<L(p2, 1), L(p1, 1)>>, NoCoupon) }
CouponStock == (p1 :> 4 @@ p2 :> 2)

Symmetry == Permutations(Requests)
=============================================================================
