----------------------------- MODULE MCCatalog -----------------------------
(***************************************************************************)
(* Values for the constants of Catalog.                                    *)
(***************************************************************************)
EXTENDS Catalog, TLC

CONSTANTS u1, u2

MCProduct == [price |-> 2, stock |-> 2, name |-> "a", version |-> 1]

B(op, user, tagged, set) == [op |-> op, user |-> user, tagged |-> tagged, set |-> set]
None == [c \in {} |-> 0]

\* Lower and higher prices, a name and a stock, with and without If-Match; an order by
\* the load user and by another; a removal and a reset.
MCBodies == {
    B("patch", u1, FALSE, [price |-> 1]), B("patch", u1, FALSE, [price |-> 3]),
    B("patch", u1, TRUE, [price |-> 1]), B("patch", u1, TRUE, [name |-> "b"]),
    B("patch", u1, FALSE, [stock |-> 5]),
    B("order", u1, FALSE, None), B("order", u2, FALSE, None),
    B("remove", u1, FALSE, None), B("reset", u1, FALSE, None) }

Symmetry == Permutations(Requests)
=============================================================================
