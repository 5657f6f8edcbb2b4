----------------------------- MODULE OrderLedger -----------------------------
(***************************************************************************)
(* What order placement promises to everything around it: an order is      *)
(* placed in one indivisible step that takes all of its units, redeems its *)
(* coupon and claims its idempotency key, or it is not placed at all.      *)
(* Checkout reaches the same effect with many statements of many           *)
(* interleaved transactions, and is checked and proved to implement this   *)
(* module.                                                                 *)
(***************************************************************************)
EXTENDS Integers, Sequences, FiniteSets

CONSTANTS
    Requests,       \* order ids: the request that placed the order names it
    Users,
    Products,       \* the catalogue
    NoProduct,      \* a product id that is not in the catalogue
    Coupons, NoCoupon,
    Keys, NoKey,    \* Idempotency-Key values
    MaxQuantity,    \* bound: largest quantity of one line
    InitialStock,   \* [Products -> Nat]
    UsageLimit      \* [Coupons -> Nat]

ASSUME LedgerAssumption ==
    /\ NoProduct \notin Products
    /\ NoCoupon \notin Coupons
    /\ NoKey \notin Keys
    /\ MaxQuantity \in Nat
    /\ InitialStock \in [Products -> Nat]
    /\ UsageLimit \in [Coupons -> Nat]

VARIABLES
    stock,          \* committed products.stock
    used,           \* committed coupons.used_count
    orders          \* committed orders with their items

ledger == <<stock, used, orders>>

\* One line of an order body, and of the order it becomes.
Line == [product : Products \cup {NoProduct}, quantity : 1..MaxQuantity]

\* Units per product that one order takes out of the stock.
Units == [Products -> Nat]

(***************************************************************************)
(* "units" is not a column: it records what the placing transaction took,  *)
(* so that later edits of the items (PATCH) can be told from the sale.     *)
(***************************************************************************)
Order == [id : Requests, user : Users, key : Keys \cup {NoKey},
          items : Seq(Line), coupon : Coupons \cup {NoCoupon}, units : Units]

\* Two bodies are the same request: equal as multisets of lines.
Occurrences(x, lines) == Cardinality({i \in DOMAIN lines : lines[i] = x})

SameItems(existing, requested) ==
    /\ Len(existing) = Len(requested)
    /\ \A i \in DOMAIN existing :
          Occurrences(existing[i], existing) = Occurrences(existing[i], requested)

\* Mutant: no unique constraint on the key.
AnyKeyFree(k) == TRUE
KeyFree(k) == k = NoKey \/ \A o \in orders : o.key # k

Fresh(o) == \A x \in orders : x.id # o.id

LedgerInit ==
    /\ stock = InitialStock
    /\ used = [c \in Coupons |-> 0]
    /\ orders = {}

\* The whole order or nothing: units in stock, a redemption left, a fresh key.
Place(o) ==
    /\ Fresh(o)
    /\ \A p \in Products : o.units[p] <= stock[p]
    /\ o.coupon # NoCoupon => used[o.coupon] < UsageLimit[o.coupon]
    /\ KeyFree(o.key)
    /\ stock' = [p \in Products |-> stock[p] - o.units[p]]
    /\ used' = [c \in Coupons |-> IF c = o.coupon THEN used[c] + 1 ELSE used[c]]
    /\ orders' = orders \cup {o}

\* A line of a placed order is edited; neither stock nor coupons move.
Amend(o, lines) ==
    /\ orders' = (orders \ {o}) \cup {[o EXCEPT !.items = lines]}
    /\ UNCHANGED <<stock, used>>

\* The order placed, or its edited form, is found among orders': Order itself is
\* infinite.
LedgerNext ==
    \E n \in orders' :
        /\ n \in Order
        /\ \/ Place(n)
           \/ \E o \in orders : Amend(o, n.items)

LedgerSpec == LedgerInit /\ [][LedgerNext]_ledger
==============================================================================
