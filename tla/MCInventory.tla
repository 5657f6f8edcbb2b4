---------------------------- MODULE MCInventory ----------------------------
(***************************************************************************)
(* Values for the constants of Inventory.                                  *)
(***************************************************************************)
EXTENDS Inventory, TLC

CONSTANTS p1, p2

L(p, q) == [product |-> p, quantity |-> q]
B(op, w, lines) == [op |-> op, warehouse |-> w, lines |-> lines]

\* p1 is in two warehouses, as much in one as in the other; p2 is untracked.
MCLevel == <<(p1 :> 2 @@ p2 :> NoLevel), (p1 :> 2 @@ p2 :> NoLevel),
             (p1 :> NoLevel @@ p2 :> NoLevel)>>

\* Orders that take one warehouse, parts of both, more than both, and two lines; the
\* first stock of p2 at one warehouse twice over; warehouse 2 renamed and removed,
\* warehouse 3 created.
MCBodies == <<B("order", 1, <<L(p1, 3)>>),
              B("order", 1, <<L(p1, 2)>>),
              B("order", 1, <<L(p1, 5), L(p2, 2)>>),
              B("restock", 2, <<L(p1, 1)>>),
              B("restock", 2, <<L(p2, 1)>>),
              B("restock", 3, <<L(p1, 1)>>),
              B("create", 3, <<L(p1, 1)>>),
              B("rename", 2, <<L(p1, 1)>>),
              B("remove", 2, <<L(p1, 1)>>),
              B("setStatus", 1, <<L(p1, 1)>>)>>

\* Requests are alike, so their bodies are taken in one order.
InOrder(g) == \A q, r \in Requests : q < r => g[q] <= g[r]
CreatesOnce(g) == \A q, r \in Requests : MCBodies[g[q]].op = "create" /\ g[q] = g[r] => q = r

MCTraffic == {[r \in Requests |-> MCBodies[f[r]]] :
                 f \in {g \in [Requests -> DOMAIN MCBodies] : InOrder(g) /\ CreatesOnce(g)}}
=============================================================================
