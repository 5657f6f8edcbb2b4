-------------------------------- MODULE Cart --------------------------------
(***************************************************************************)
(* One shopper's cart (CartService): concurrent requests add, change and   *)
(* remove lines and check the cart out.  Order creation is the single      *)
(* atomic step of OrderLedger, which Checkout is proved to implement; what *)
(* is interleaved here is everything the cart does around it.              *)
(***************************************************************************)
EXTENDS OrderLedger, SequencesExt

CONSTANTS
    Shopper,        \* the user whose cart it is
    CartBodies,     \* requests the shopper may send
    Seeds,          \* ids of the lines the cart starts with
    InitialRows     \* those lines

Operation == {"add", "update", "remove", "checkout"}
Body == [op : Operation, product : Products, quantity : 1..MaxQuantity,
         key : Keys \cup {NoKey}]

RowIds == Requests \cup Seeds
Row == [id : RowIds, product : Products, quantity : Nat \ {0}]

ASSUME CartAssumption ==
    /\ Shopper \in Users
    /\ CartBodies \subseteq Body
    /\ InitialRows \subseteq [id : Seeds, product : Products, quantity : Nat \ {0}]
    /\ Seeds \cap Requests = {}
    /\ \A a, b \in InitialRows : a.id = b.id \/ a.product = b.product => a = b

VARIABLES
    rows,           \* the cart_items rows of the shopper's cart
    cartReq,        \* the body of each request
    cartPc,
    copy,           \* rows the handler holds in memory
    cartAnswer,
    late            \* history: adds answered while a checkout held a copy of the cart

cartVars == <<ledger, rows, cartReq, cartPc, copy, cartAnswer, late>>

CartInit ==
    /\ LedgerInit
    /\ rows = InitialRows
    /\ cartReq \in [Requests -> CartBodies]
    /\ cartPc = [r \in Requests |-> "idle"]
    /\ copy = [r \in Requests |-> {}]
    /\ cartAnswer = [r \in Requests |-> "none"]
    /\ late = {}

CartGoto(r, stage) == cartPc' = [cartPc EXCEPT ![r] = stage]
CartFinish(r, a) == CartGoto(r, "done") /\ cartAnswer' = [cartAnswer EXCEPT ![r] = a]

Of(p) == {row \in rows : row.product = p}
WithId(i) == {row \in rows : row.id = i}

QuantityOf(p, lines) ==
    SumFunctionOnSet([row \in lines |-> row.quantity], {row \in lines : row.product = p})

\* UPDATE cart_items SET quantity = quantity + q: one atomic statement.
Incremented(targets, q) ==
    {IF row \in targets THEN [row EXCEPT !.quantity = @ + q] ELSE row : row \in rows}

CartSubmit(r) ==
    /\ cartPc[r] = "idle"
    /\ CartGoto(r, IF cartReq[r].op # "checkout" THEN "find"
                   ELSE IF cartReq[r].key = NoKey THEN "read" ELSE "lookup")
    /\ UNCHANGED <<ledger, rows, cartReq, copy, cartAnswer>>

------------------------------------------------------------------------------
(***************************************************************************)
(* Lines.  update and remove work on the row found first; TypeORM's save   *)
(* then selects the row again to decide between UPDATE and INSERT.         *)
(***************************************************************************)
FindForAdd(r) ==
    /\ cartPc[r] = "find" /\ cartReq[r].op = "add"
    /\ copy' = [copy EXCEPT ![r] = Of(cartReq[r].product)]
    /\ CartGoto(r, IF Of(cartReq[r].product) = {} THEN "insert" ELSE "increment")
    /\ UNCHANGED <<ledger, rows, cartReq, cartAnswer>>

\* findOneOrFail after the increment fails when the line is gone by then.
Increment(r) ==
    /\ cartPc[r] = "increment"
    /\ LET targets == {row \in rows : \E c \in copy[r] : c.id = row.id}
       IN  /\ rows' = Incremented(targets, cartReq[r].quantity)
           /\ CartFinish(r, IF targets = {} THEN "error" ELSE "ok")
    /\ UNCHANGED <<ledger, cartReq, copy>>

InsertLine(r) ==
    /\ cartPc[r] = "insert"
    /\ Of(cartReq[r].product) = {}
    /\ rows' = rows \cup {[id |-> r, product |-> cartReq[r].product,
                           quantity |-> cartReq[r].quantity]}
    /\ CartFinish(r, "ok")
    /\ UNCHANGED <<ledger, cartReq, copy>>

\* UNIQUE (cart, product): another request inserted the line first.
InsertLost(r) ==
    /\ cartPc[r] = "insert"
    /\ Of(cartReq[r].product) # {}
    /\ CartGoto(r, "merge")
    /\ UNCHANGED <<ledger, rows, cartReq, copy, cartAnswer>>

Merge(r) ==
    /\ cartPc[r] = "merge"
    /\ rows' = Incremented(Of(cartReq[r].product), cartReq[r].quantity)
    /\ CartFinish(r, IF Of(cartReq[r].product) = {} THEN "error" ELSE "ok")
    /\ UNCHANGED <<ledger, cartReq, copy>>

FindOwnItem(r) ==
    /\ cartPc[r] = "find" /\ cartReq[r].op \in {"update", "remove"}
    /\ \/ \E row \in Of(cartReq[r].product) :
            /\ copy' = [copy EXCEPT ![r] = {row}]
            /\ CartGoto(r, IF cartReq[r].op = "update" THEN "save" ELSE "delete")
            /\ UNCHANGED cartAnswer
       \/ /\ CartFinish(r, "notFound")      \* the id sent may no longer exist
          /\ UNCHANGED copy
    /\ UNCHANGED <<ledger, rows, cartReq>>

FoundRow(r) == CHOOSE c \in copy[r] : TRUE

SaveSelect(r) ==
    /\ cartPc[r] = "save"
    /\ LET found == WithId(FoundRow(r).id)
       IN  IF \E row \in found : row.quantity = cartReq[r].quantity
           THEN CartFinish(r, "ok")
           ELSE /\ CartGoto(r, IF found = {} THEN "saveInsert" ELSE "saveUpdate")
                /\ UNCHANGED cartAnswer
    /\ UNCHANGED <<ledger, rows, cartReq, copy>>

SaveUpdate(r) ==
    /\ cartPc[r] = "saveUpdate"
    /\ rows' = {IF row.id = FoundRow(r).id
                THEN [row EXCEPT !.quantity = cartReq[r].quantity] ELSE row : row \in rows}
    /\ CartFinish(r, "ok")
    /\ UNCHANGED <<ledger, cartReq, copy>>

SaveInsert(r) ==
    /\ cartPc[r] = "saveInsert"
    /\ LET row == FoundRow(r)
       IN  IF Of(row.product) \cup WithId(row.id) = {}
           THEN /\ rows' = rows \cup {[row EXCEPT !.quantity = cartReq[r].quantity]}
                /\ CartFinish(r, "ok")
           ELSE UNCHANGED rows /\ CartFinish(r, "error")
    /\ UNCHANGED <<ledger, cartReq, copy>>

DeleteLine(r) ==
    /\ cartPc[r] = "delete"
    /\ rows' = rows \ UNION {WithId(c.id) : c \in copy[r]}
    /\ CartFinish(r, "ok")
    /\ UNCHANGED <<ledger, cartReq, copy>>

------------------------------------------------------------------------------
(***************************************************************************)
(* checkout: replay check, read the cart, OrdersService.create, clear.     *)
(***************************************************************************)
Holders(r) == {o \in orders : o.key = cartReq[r].key /\ cartReq[r].key # NoKey}

\* The items handed to create: the cart as it was read.
SnapshotLines(r) ==
    SetToSeq({[product |-> row.product, quantity |-> row.quantity] : row \in copy[r]})

SnapshotOrder(r) ==
    [id |-> r, user |-> Shopper, key |-> cartReq[r].key, items |-> SnapshotLines(r),
     coupon |-> NoCoupon, units |-> [p \in Products |-> QuantityOf(p, copy[r])]]

\* replayOrConflict, with and without the comparison of the items.
ReplayOf(r, o, compareItems) ==
    IF o.user = Shopper /\ (compareItems => SameItems(o.items, SnapshotLines(r)))
    THEN "replayed" ELSE "conflict"

CartLookUp(r) ==
    /\ cartPc[r] = "lookup"
    /\ \/ \E o \in Holders(r) : CartFinish(r, ReplayOf(r, o, FALSE))
       \/ /\ Holders(r) = {}
          /\ CartGoto(r, "read")
          /\ UNCHANGED cartAnswer
    /\ UNCHANGED <<ledger, rows, cartReq, copy>>

ReadCart(r) ==
    /\ cartPc[r] = "read"
    /\ copy' = [copy EXCEPT ![r] = rows]
    /\ IF rows = {}
       THEN CartFinish(r, "emptyCart")
       ELSE /\ CartGoto(r, IF cartReq[r].key = NoKey THEN "place" ELSE "precheck")
            /\ UNCHANGED cartAnswer
    /\ UNCHANGED <<ledger, rows, cartReq>>

\* create looks the key up again, now comparing the items.
PreCheck(r) ==
    /\ cartPc[r] = "precheck"
    /\ \/ \E o \in Holders(r) : CartFinish(r, ReplayOf(r, o, TRUE))
       \/ /\ Holders(r) = {}
          /\ CartGoto(r, "place")
          /\ UNCHANGED cartAnswer
    /\ UNCHANGED <<ledger, rows, cartReq, copy>>

PlaceOrder(r) ==
    /\ cartPc[r] = "place"
    /\ Place(SnapshotOrder(r))
    /\ CartGoto(r, "created")
    /\ UNCHANGED <<rows, cartReq, copy, cartAnswer>>

\* Mutant: the cart is cleared whatever became of the order.
PlaceFailsAndClears(r) ==
    /\ cartPc[r] = "place"
    /\ \/ /\ \E p \in Products : SnapshotOrder(r).units[p] > stock[p]
          /\ CartFinish(r, "outOfStock")
          /\ rows' = {}
       \/ \E o \in Holders(r) : CartFinish(r, ReplayOf(r, o, TRUE)) /\ UNCHANGED rows
    /\ UNCHANGED <<ledger, cartReq, copy>>

\* The transaction rolled back: for want of stock, or because the key is taken.
PlaceFails(r) ==
    /\ cartPc[r] = "place"
    /\ \/ /\ \E p \in Products : SnapshotOrder(r).units[p] > stock[p]
          /\ CartFinish(r, "outOfStock")
       \/ \E o \in Holders(r) : CartFinish(r, ReplayOf(r, o, TRUE))
    /\ UNCHANGED <<ledger, rows, cartReq, copy>>

\* created is known only here; writing a backorder notification may throw first.
\* DELETE FROM cart_items WHERE cart_id: whatever the cart holds by now.
ClearCart(r) ==
    /\ cartPc[r] = "created"
    /\ \/ rows' = {} /\ CartFinish(r, "created")
       \/ UNCHANGED rows /\ CartFinish(r, "error")
    /\ UNCHANGED <<ledger, cartReq, copy>>

CartHandle(r) ==
    \/ FindForAdd(r) \/ Increment(r) \/ InsertLine(r) \/ InsertLost(r) \/ Merge(r)
    \/ FindOwnItem(r) \/ SaveSelect(r) \/ SaveUpdate(r) \/ SaveInsert(r) \/ DeleteLine(r)
    \/ CartLookUp(r) \/ ReadCart(r) \/ PreCheck(r) \/ PlaceOrder(r) \/ PlaceFails(r)
    \/ ClearCart(r)

Clearing == {r \in Requests : cartPc[r] \in {"precheck", "place", "created"}}

CartNext ==
    \E r \in Requests :
        /\ CartSubmit(r) \/ CartHandle(r)
        /\ late' = IF cartAnswer'[r] = "ok" /\ cartReq[r].op = "add" /\ Clearing # {}
                   THEN late \cup {r} ELSE late

CartSpec == CartInit /\ [][CartNext]_cartVars

------------------------------------------------------------------------------
(***************************************************************************)
(* Properties.                                                             *)
(***************************************************************************)
CartStages == {"idle", "find", "insert", "increment", "merge", "save", "saveUpdate",
               "saveInsert", "delete", "lookup", "read", "precheck", "place", "created", "done"}
CartAnswers == {"none", "ok", "notFound", "error", "emptyCart", "created", "replayed",
                "conflict", "outOfStock"}

\* Every variable has its type.
CartTypeOK ==
    /\ stock \in [Products -> Int]
    /\ rows \subseteq Row
    /\ cartReq \in [Requests -> Body]
    /\ cartPc \in [Requests -> CartStages]
    /\ copy \in [Requests -> SUBSET Row]
    /\ cartAnswer \in [Requests -> CartAnswers]
    /\ late \subseteq Requests

Added(p) == {r \in Requests : /\ cartReq[r].op = "add" /\ cartReq[r].product = p
                              /\ cartAnswer[r] = "ok"}
Sent(adds) == SumFunctionOnSet([r \in Requests |-> cartReq[r].quantity], adds)
Bought(p) == SumFunction([o \in orders |-> o.units[p]])

\* No add is lost: while requests only add, the cart holds one line per product
\* with everything it started with and every quantity an answered add sent.
NoAddLost ==
    (\A r \in Requests : cartReq[r].op = "add") =>
        \A p \in Products :
            /\ Cardinality(Of(p)) <= 1
            /\ QuantityOf(p, rows) = QuantityOf(p, InitialRows) + Sent(Added(p))

\* The initial units of p and those of these adds are in the cart or were ordered.
Accounted(p, adds) ==
    QuantityOf(p, rows) + Bought(p) >= QuantityOf(p, InitialRows) + Sent(adds)

\* What a shopper put in the cart is charged or still there, through refused, failed
\* and replayed checkouts: only an add answered between a checkout's read of the cart
\* and its clearing can vanish.
VanishesInWindowOnly ==
    (\A r \in Requests : cartReq[r].op \in {"add", "checkout"}) =>
        \A p \in Products : Accounted(p, Added(p) \ late)

\* "A replayed request must not re-clear an already-cleared cart", and a failed
\* checkout leaves the cart untouched: a line leaves the cart only by a remove of
\* that line or by a checkout that has just placed an order of its own.
OnlyOwnOrderClears ==
    [][ \A row \in rows :
            WithId(row.id)' = {} =>
                \E r \in Requests :
                    /\ cartAnswer'[r] # cartAnswer[r]
                    /\ \/ cartReq[r].op = "remove" /\ row.id \in {c.id : c \in copy[r]}
                       \/ cartReq[r].op = "checkout" /\ \E o \in orders : o.id = r ]_cartVars

\* A retried checkout never charges twice: under one key there is one order, and
\* every 200 or 201 given under that key stands for that order.
OneCheckoutPerKey ==
    \A k \in Keys :
        LET answered == {r \in Requests : cartReq[r].op = "checkout" /\ cartReq[r].key = k
                                          /\ cartAnswer[r] \in {"created", "replayed"}}
        IN  answered # {} => Cardinality({o \in orders : o.key = k}) = 1

------------------------------------------------------------------------------
(***************************************************************************)
(* What texts of the repository say and concurrent requests break: not     *)
(* invariants of this model.  The README tells what happens.               *)
(***************************************************************************)
\* "'cart is empty' must never block" a replay.
ReplayNotBlockedByEmptyCart ==
    \A r \in Requests :
        cartAnswer[r] = "emptyCart" =>
            ~\E o \in orders : o.user = Shopper /\ o.key = cartReq[r].key /\ o.key # NoKey

\* An item added while a checkout runs "stays in the cart for a future checkout":
\* without exception.
NothingVanishes ==
    (\A r \in Requests : cartReq[r].op \in {"add", "checkout"}) =>
        \A p \in Products : Accounted(p, Added(p))

\* What was put in the cart stays there until it is ordered or removed, through racing
\* adds, retried, refused and replayed checkouts.
LinesAreKept ==
    [](NoAddLost /\ VanishesInWindowOnly) /\ OnlyOwnOrderClears
=============================================================================
