------------------------------ MODULE Checkout ------------------------------
(***************************************************************************)
(* Order creation in apiV2 (OrdersService.create): any number of HTTP      *)
(* requests run the same handler at once, each in a READ COMMITTED         *)
(* transaction on a connection of one bounded pool.  A conditional UPDATE  *)
(* of a product or coupon row takes that row's lock until the transaction  *)
(* ends; an INSERT of an idempotency key waits for another transaction     *)
(* that has inserted the same key.  The process may die at any point.      *)
(***************************************************************************)
EXTENDS OrderLedger, FiniteSetsExt

CONSTANTS
    Bodies,         \* the requests clients may send: a subset of Request
    Price,          \* [Products -> Nat]
    MinOrder,       \* [Coupons -> Nat], coupons.min_order_amount
    RedeemableBy,   \* [Users -> SUBSET Coupons]: codes that exist and are
                    \* global or of the user's organization
    PoolSize,       \* connections of the TypeORM pool
    MaxCrashes,     \* bound: process deaths
    MaxPatches      \* bound: PATCHes of order items

Request == [user : Users, key : Keys \cup {NoKey}, items : Seq(Line) \ {<<>>},
            coupon : Coupons \cup {NoCoupon}]

ASSUME CheckoutAssumption ==
    /\ Bodies \subseteq Request
    /\ Price \in [Products -> Nat]
    /\ MinOrder \in [Coupons -> Nat]
    /\ RedeemableBy \in [Users -> SUBSET Coupons]
    /\ PoolSize \in Nat
    /\ MaxCrashes \in Nat
    /\ MaxPatches \in Nat

VARIABLES
    req,        \* [Requests -> Request]: the body each request carries
    pc,         \* where its handler is
    pos,        \* line persistOrderAtomically is at
    subtotal,   \* its running total
    taken,      \* units its open transaction has taken, not yet committed
    redeemed,   \* its open transaction has incremented used_count
    answer,     \* the HTTP answer
    expired,    \* coupons past expires_at
    crashes, patches

handler == <<req, pc, pos, subtotal, taken, redeemed, answer>>
vars == <<ledger, handler, expired, crashes, patches>>

NoOrder == "noOrder"
NoUnits == [p \in Products |-> 0]

InTransaction == {"items", "coupon", "membership", "insert", "commit"}
Stages == {"idle", "lookup", "begin", "replay", "reserve", "done"} \cup InTransaction

Refusals == {"conflict", "notFound", "outOfStock", "badCoupon", "usedUp"}
Statuses == {"none", "created", "replayed", "error", "lost"} \cup Refusals

Answered(status, order) == [status |-> status, order |-> order]

Init ==
    /\ LedgerInit
    /\ req \in [Requests -> Bodies]
    /\ pc = [r \in Requests |-> "idle"]
    /\ pos = [r \in Requests |-> 1]
    /\ subtotal = [r \in Requests |-> 0]
    /\ taken = [r \in Requests |-> NoUnits]
    /\ redeemed = [r \in Requests |-> FALSE]
    /\ answer = [r \in Requests |-> Answered("none", NoOrder)]
    /\ expired = {}
    /\ crashes = 0
    /\ patches = 0

------------------------------------------------------------------------------
(***************************************************************************)
(* The database under the handler.                                         *)
(***************************************************************************)
LineOf(r) == req[r].items[pos[r]]
PastLastLine(r) == pos[r] > Len(req[r].items)   \* mutant: off by one
LastLine(r) == pos[r] = Len(req[r].items)

\* Mutants: a quantity check against a value read before the transaction, an
\* UPDATE that takes no lock, a key without its unique constraint.
StaleVisible(r, p) == stock[p]
NoStockLock(r, p) == FALSE
NoCouponLock(r, c) == FALSE
NoUniqueKey(r, k) == FALSE

\* What r's own transaction sees: the committed row less its own decrements.
Visible(r, p) == stock[p] - taken[r][p]

\* Another open transaction has updated the row, so its lock is taken.
StockLocked(r, p) == \E s \in Requests \ {r} : taken[s][p] > 0
CouponLocked(r, c) == \E s \in Requests \ {r} : redeemed[s] /\ req[s].coupon = c
KeyPending(r, k) ==
    k # NoKey /\ \E s \in Requests \ {r} : pc[s] = "commit" /\ req[s].key = k

\* r's next statement waits for a lock that s holds.
WaitsFor(r, s) ==
    /\ s # r
    /\ \/ /\ pc[r] = "items"
          /\ LineOf(r).product \in Products
          /\ Visible(r, LineOf(r).product) >= LineOf(r).quantity
          /\ taken[s][LineOf(r).product] > 0
       \/ /\ pc[r] = "coupon"
          /\ redeemed[s]
          /\ req[s].coupon = req[r].coupon
       \/ /\ pc[r] = "insert"
          /\ pc[s] = "commit"
          /\ req[r].key # NoKey
          /\ req[s].key = req[r].key

\* r is on a cycle of lock waits: its waits-for graph is closed under both ends.
Deadlocked(r) ==
    \E C \in SUBSET Requests :
        /\ r \in C
        /\ \A x \in C : \E y, z \in C : WaitsFor(x, y) /\ WaitsFor(z, x)

FreeConnection ==
    Cardinality({r \in Requests : pc[r] \in InTransaction}) < PoolSize

Goto(r, stage) == pc' = [pc EXCEPT ![r] = stage]

Finish(r, a) ==
    /\ Goto(r, "done")
    /\ answer' = [answer EXCEPT ![r] = a]

\* Ends r's transaction, whatever its outcome: the locks and own view are gone.
EndTransaction(r) ==
    /\ taken' = [taken EXCEPT ![r] = NoUnits]
    /\ redeemed' = [redeemed EXCEPT ![r] = FALSE]

\* Mutant: the decrements ran outside the transaction and stay.
FailWithoutRollback(r, status) ==
    /\ Finish(r, Answered(status, NoOrder))
    /\ EndTransaction(r)
    /\ stock' = [p \in Products |-> stock[p] - taken[r][p]]
    /\ UNCHANGED <<used, orders, req, pos, subtotal, expired, crashes, patches>>

\* An exception inside the transaction callback: rollback, then the error answer.
Fail(r, status) ==
    /\ Finish(r, Answered(status, NoOrder))
    /\ EndTransaction(r)
    /\ UNCHANGED <<ledger, req, pos, subtotal, expired, crashes, patches>>

(***************************************************************************)
(* Idempotency: the replay decision.                                       *)
(***************************************************************************)
\* Mutant: the owner of the key is not compared.
ReplayAnyUser(r, o) ==
    IF SameItems(o.items, req[r].items)
    THEN Answered("replayed", o.id)
    ELSE Answered("conflict", NoOrder)

\* Mutant: the lines are compared one by one, in the order they were sent in.
ReplaySameOrder(r, o) ==
    IF o.user = req[r].user /\ o.items = req[r].items
    THEN Answered("replayed", o.id)
    ELSE Answered("conflict", NoOrder)

ReplayOrConflict(r, o) ==
    IF o.user = req[r].user /\ SameItems(o.items, req[r].items)
    THEN Answered("replayed", o.id)
    ELSE Answered("conflict", NoOrder)

------------------------------------------------------------------------------
(***************************************************************************)
(* The handler, one action per statement it awaits.                        *)
(***************************************************************************)
Submit(r) ==
    /\ pc[r] = "idle"
    /\ Goto(r, IF req[r].key = NoKey THEN "begin" ELSE "lookup")
    /\ UNCHANGED <<ledger, req, pos, subtotal, taken, redeemed, answer,
                   expired, crashes, patches>>

\* findExistingByIdempotencyKey before the transaction.
LookUp(r) ==
    /\ pc[r] = "lookup"
    /\ FreeConnection
    /\ \/ /\ KeyFree(req[r].key)
          /\ Goto(r, "begin")
          /\ UNCHANGED answer
       \/ \E o \in orders : /\ o.key = req[r].key
                            /\ Finish(r, ReplayOrConflict(r, o))
    /\ UNCHANGED <<ledger, req, pos, subtotal, taken, redeemed,
                   expired, crashes, patches>>

Begin(r) ==
    /\ pc[r] = "begin"
    /\ FreeConnection
    /\ Goto(r, "items")
    /\ UNCHANGED <<ledger, req, pos, subtotal, taken, redeemed, answer,
                   expired, crashes, patches>>

\* The conditional UPDATE of one line matches and takes the row lock.
TakeItem(r) ==
    /\ pc[r] = "items"
    /\ LineOf(r).product \in Products
    /\ Visible(r, LineOf(r).product) >= LineOf(r).quantity
    /\ ~StockLocked(r, LineOf(r).product)
    /\ taken' = [taken EXCEPT ![r][LineOf(r).product] = @ + LineOf(r).quantity]
    /\ subtotal' = [subtotal EXCEPT
                        ![r] = @ + Price[LineOf(r).product] * LineOf(r).quantity]
    /\ IF LastLine(r)
       THEN /\ Goto(r, IF req[r].coupon = NoCoupon THEN "membership" ELSE "coupon")
            /\ UNCHANGED pos
       ELSE pos' = [pos EXCEPT ![r] = @ + 1] /\ UNCHANGED pc
    /\ UNCHANGED <<ledger, req, redeemed, answer, expired, crashes, patches>>

\* The row this transaction sees does not match: no lock is waited for.
OutOfStock(r) ==
    /\ pc[r] = "items"
    /\ LineOf(r).product \in Products
    /\ Visible(r, LineOf(r).product) < LineOf(r).quantity
    /\ Fail(r, "outOfStock")

ProductNotFound(r) ==
    /\ pc[r] = "items"
    /\ LineOf(r).product \notin Products
    /\ Fail(r, "notFound")

\* applyCoupon's checks before its UPDATE, in the code's order.
CouponRefused(r) ==
    /\ pc[r] = "coupon"
    /\ \/ req[r].coupon \notin RedeemableBy[req[r].user]
       \/ req[r].coupon \in expired
       \/ subtotal[r] < MinOrder[req[r].coupon]
    /\ Fail(r, "badCoupon")

CouponAccepted(r) ==
    /\ pc[r] = "coupon"
    /\ req[r].coupon \in RedeemableBy[req[r].user] \ expired
    /\ subtotal[r] >= MinOrder[req[r].coupon]

RedeemCoupon(r) ==
    /\ CouponAccepted(r)
    /\ used[req[r].coupon] < UsageLimit[req[r].coupon]
    /\ ~CouponLocked(r, req[r].coupon)
    /\ redeemed' = [redeemed EXCEPT ![r] = TRUE]
    /\ Goto(r, "membership")
    /\ UNCHANGED <<ledger, req, pos, subtotal, taken, answer,
                   expired, crashes, patches>>

CouponUsedUp(r) ==
    /\ CouponAccepted(r)
    /\ used[req[r].coupon] >= UsageLimit[req[r].coupon]
    /\ Fail(r, "usedUp")

\* Mutant: the read takes a second connection of the pool, as it once did.
ReadMembershipFromPool(r) ==
    /\ pc[r] = "membership"
    /\ FreeConnection
    /\ Goto(r, "insert")
    /\ UNCHANGED <<ledger, req, pos, subtotal, taken, redeemed, answer,
                   expired, crashes, patches>>

\* Read through the transaction's own manager: needs no second connection.
ReadMembership(r) ==
    /\ pc[r] = "membership"
    /\ Goto(r, "insert")
    /\ UNCHANGED <<ledger, req, pos, subtotal, taken, redeemed, answer,
                   expired, crashes, patches>>

InsertOrder(r) ==
    /\ pc[r] = "insert"
    /\ KeyFree(req[r].key)
    /\ ~KeyPending(r, req[r].key)
    /\ Goto(r, "commit")
    /\ UNCHANGED <<ledger, req, pos, subtotal, taken, redeemed, answer,
                   expired, crashes, patches>>

\* Unique violation: the transaction is rolled back and the key is read again.
DuplicateKey(r) ==
    /\ pc[r] = "insert"
    /\ ~KeyFree(req[r].key)
    /\ Goto(r, "replay")
    /\ EndTransaction(r)
    /\ UNCHANGED <<ledger, req, pos, subtotal, answer, expired, crashes, patches>>

NewOrder(r) == [id |-> r, user |-> req[r].user, key |-> req[r].key,
                items |-> req[r].items, coupon |-> req[r].coupon,
                units |-> taken[r]]

Commit(r) ==
    /\ pc[r] = "commit"
    /\ stock' = [p \in Products |-> stock[p] - taken[r][p]]
    /\ used' = [c \in Coupons |->
                    IF redeemed[r] /\ req[r].coupon = c THEN used[c] + 1 ELSE used[c]]
    /\ orders' = orders \cup {NewOrder(r)}
    /\ Goto(r, "reserve")
    /\ EndTransaction(r)
    /\ UNCHANGED <<req, pos, subtotal, answer, expired, crashes, patches>>

\* The catch branch of create: replay what the winner of the key committed.
ReplayAfterDuplicate(r) ==
    /\ pc[r] = "replay"
    /\ FreeConnection
    /\ \E o \in orders : /\ o.key = req[r].key
                         /\ Finish(r, ReplayOrConflict(r, o))
    /\ UNCHANGED <<ledger, req, pos, subtotal, taken, redeemed,
                   expired, crashes, patches>>

\* reserveInventory: the call to inventory-service never throws, but writing a
\* notification about a backorder may, after the order is already committed.
Reserve(r) ==
    /\ pc[r] = "reserve"
    /\ Finish(r, Answered("created", r)) \/ Finish(r, Answered("error", NoOrder))
    /\ UNCHANGED <<ledger, req, pos, subtotal, taken, redeemed,
                   expired, crashes, patches>>

------------------------------------------------------------------------------
(***************************************************************************)
(* The environment.                                                        *)
(***************************************************************************)
\* Postgres picks a transaction of a lock cycle as the victim.
AbortDeadlocked(r) ==
    /\ Deadlocked(r)
    /\ Fail(r, "error")

ExpireCoupon(c) ==
    /\ c \notin expired
    /\ expired' = expired \cup {c}
    /\ UNCHANGED <<ledger, handler, crashes, patches>>

\* PATCH /orders/:id/items/:itemId: the quantity of one line, nothing else.
PatchItem(o, i, q) ==
    /\ patches < MaxPatches
    /\ Amend(o, [o.items EXCEPT ![i].quantity = q])
    /\ patches' = patches + 1
    /\ UNCHANGED <<handler, expired, crashes>>

\* The process dies: Postgres rolls back what was open, no answer is sent.
Crash ==
    /\ crashes < MaxCrashes
    /\ crashes' = crashes + 1
    /\ LET running == {r \in Requests : pc[r] \notin {"idle", "done"}}
       IN  /\ pc' = [r \in Requests |-> IF r \in running THEN "done" ELSE pc[r]]
           /\ answer' = [r \in Requests |->
                            IF r \in running THEN Answered("lost", NoOrder)
                                             ELSE answer[r]]
    /\ taken' = [r \in Requests |-> NoUnits]
    /\ redeemed' = [r \in Requests |-> FALSE]
    /\ UNCHANGED <<ledger, req, pos, subtotal, expired, patches>>

Handle(r) ==
    \/ LookUp(r) \/ Begin(r)
    \/ TakeItem(r) \/ OutOfStock(r) \/ ProductNotFound(r)
    \/ CouponRefused(r) \/ RedeemCoupon(r) \/ CouponUsedUp(r)
    \/ ReadMembership(r) \/ InsertOrder(r) \/ DuplicateKey(r) \/ Commit(r)
    \/ ReplayAfterDuplicate(r) \/ Reserve(r) \/ AbortDeadlocked(r)

Next ==
    \/ \E r \in Requests : Submit(r) \/ Handle(r)
    \/ \E c \in Coupons : ExpireCoupon(c)
    \/ \E o \in orders : \E i \in DOMAIN o.items, q \in 1..MaxQuantity :
          PatchItem(o, i, q)
    \/ Crash

Spec == Init /\ [][Next]_vars

\* Node's event loop and Postgres keep serving every request that can be served.
FairSpec == Spec /\ \A r \in Requests : WF_vars(Handle(r))

------------------------------------------------------------------------------
(***************************************************************************)
(* Properties.                                                             *)
(***************************************************************************)
\* Every variable has its type.  Whether stock ever goes negative is not a
\* matter of type: NoOversell says it.
TypeOK ==
    /\ stock \in [Products -> Int]
    /\ used \in [Coupons -> Nat]
    /\ orders \subseteq Order
    /\ req \in [Requests -> Bodies]
    /\ pc \in [Requests -> Stages]
    /\ \A r \in Requests : pos[r] \in DOMAIN req[r].items
    /\ pos \in [Requests -> Nat]
    /\ subtotal \in [Requests -> Nat]
    /\ taken \in [Requests -> Units]
    /\ redeemed \in [Requests -> BOOLEAN]
    /\ answer \in [Requests -> [status : Statuses, order : Requests \cup {NoOrder}]]
    /\ expired \subseteq Coupons
    /\ crashes \in 0..MaxCrashes
    /\ patches \in 0..MaxPatches

\* "Two concurrent transactions racing the same low-stock product can never both
\* decrement past zero": committed stock never goes negative, and it covers what
\* any open transaction has taken, whichever of the others commit first.
NoOversell ==
    \A p \in Products :
        /\ stock[p] >= 0
        /\ \A r \in Requests : taken[r][p] <= stock[p]

\* Nothing is sold twice and nothing leaks: committed stock and the units of the
\* committed orders always add up to the initial stock, through rollbacks,
\* deadlock victims and crashes.  Until a PATCH, the units are the items'.
StockLedger ==
    /\ \A p \in Products :
          stock[p] + MapThenSumSet(LAMBDA o : o.units[p], orders) = InitialStock[p]
    /\ patches = 0 =>
          \A o \in orders, p \in Products :
              o.units[p] = MapThenSumSet(LAMBDA i : o.items[i].quantity,
                                         {i \in DOMAIN o.items : o.items[i].product = p})

OrdersWith(c) == {o \in orders : o.coupon = c}

\* A coupon is redeemed exactly once per order that carries it, counting the
\* open transactions, and never beyond usage_limit.
CouponLedger ==
    \A c \in Coupons :
        /\ used[c] = Cardinality(OrdersWith(c))
        /\ used[c] + Cardinality({r \in Requests : redeemed[r] /\ req[r].coupon = c})
              <= UsageLimit[c]

\* The unique idempotency key, not the pre-check, makes a concurrent duplicate
\* safe: one key never names two orders, whoever sends it and however often.
OneOrderPerKey ==
    \A a, b \in orders : a.key = b.key /\ a.key # NoKey => a = b

\* What the client is told is true of the database: 201 names the order this
\* request placed, 200 an order of the same user and key, and a 4xx means that
\* this request placed no order.
AnswersAreTrue ==
    \A r \in Requests :
        LET a == answer[r] IN
        /\ a.status = "created" =>
              /\ a.order = r
              /\ \E o \in orders : o.id = r /\ o.user = req[r].user /\ o.key = req[r].key
        /\ a.status = "replayed" =>
              \E o \in orders : /\ o.id = a.order /\ o.id # r
                                /\ o.user = req[r].user /\ o.key = req[r].key
        /\ a.status \in Refusals => \A o \in orders : o.id # r

\* "... already used with a different request body": whatever order the lines came
\* in and whoever committed meanwhile, a 409 means that the key's order has another
\* owner or came from other lines, unless a PATCH has edited an order since.
ConflictIsExplained ==
    \A r \in Requests :
        answer[r].status = "conflict" /\ patches = 0 =>
            \E o \in orders :
                /\ o.id # r /\ o.key = req[r].key
                /\ o.user = req[r].user => ~SameItems(req[o.id].items, req[r].items)

\* All or nothing: stock and coupon counters move only together with the order
\* that accounts for every unit of the move.
AllOrNothing ==
    [][ <<stock, used>>' # <<stock, used>> =>
          \E o \in orders' \ orders :
              /\ \A p \in Products : stock'[p] = stock[p] - o.units[p]
              /\ \A c \in Coupons :
                    used'[c] = used[c] + (IF c = o.coupon THEN 1 ELSE 0) ]_vars

\* Every request is answered: no transaction waits for a second connection of
\* the pool it already holds one of, and lock cycles are broken.
EveryRequestAnswered ==
    \A r \in Requests : pc[r] # "idle" ~> pc[r] = "done"

------------------------------------------------------------------------------
(***************************************************************************)
(* What texts of the repository say and concurrent requests break: not     *)
(* invariants of this model.  The README tells what happens.               *)
(***************************************************************************)
\* "A repeated key returns the order that key already produced": once a key has
\* its order, the same user's same body is not refused.
DuplicateIsReplayed ==
    \A r \in Requests, o \in orders :
        /\ o.id # r /\ o.key = req[r].key /\ o.key # NoKey
        /\ o.user = req[r].user /\ o.coupon = req[r].coupon
        /\ SameItems(o.items, req[r].items)
        => answer[r].status \notin Refusals

\* "... already used with a different request body" is told only to a client
\* whose body differs from the one that placed the order.
ConflictMeansDifferentBody ==
    \A r \in Requests, o \in orders :
        /\ answer[r].status = "conflict"
        /\ o.key = req[r].key /\ o.user = req[r].user
        => ~SameItems(req[o.id].items, req[r].items)
==============================================================================
