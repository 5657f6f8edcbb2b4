------------------------------- MODULE MCCart -------------------------------
(***************************************************************************)
(* Values for the constants of Cart.                                       *)
(***************************************************************************)
EXTENDS Cart

CONSTANTS p1, p2, k1, s1

B(op, p, q, k) == [op |-> op, product |-> p, quantity |-> q, key |-> k]

MCStock == (p1 :> 3 @@ p2 :> 2)
MCLimit == <<>>
MCRows == {[id |-> s1, product |-> p1, quantity |-> 1]}

\* Everything at once on a cart with one line.
MCBodies == {B("add", p1, 2, NoKey), B("add", p2, 1, NoKey), B("update", p1, 2, NoKey),
             B("remove", p1, 1, NoKey), B("checkout", p1, 1, k1),
             B("checkout", p1, 1, NoKey)}

Symmetry == Permutations(Requests)
=============================================================================
