--------------------------- MODULE CheckoutProofs ---------------------------
(***************************************************************************)
(* Proofs about Checkout for every value of its constants.                 *)
(*                                                                         *)
(* The inductive invariant adds to the properties what the database        *)
(* guarantees between two statements: row locks are exclusive (StockLocks, *)
(* CouponLocks, KeyLocks), what a lock protects is still true of the       *)
(* committed row, and only a request past its commit has an order.         *)
(* The books of stock come after it, on top of FiniteSums, and last the    *)
(* cart, which takes an order as one step of the ledger.                   *)
(***************************************************************************)
EXTENDS Checkout, Cart, FiniteSums, TLAPS

\* Two open transactions never hold units of one product, nor more than exist.
StockLocks ==
    /\ \A p \in Products : stock[p] >= 0
    /\ \A r \in Requests, p \in Products : taken[r][p] <= stock[p]
    /\ \A r, s \in Requests : r # s =>
          \A p \in Products : taken[r][p] = 0 \/ taken[s][p] = 0

\* A redemption is open exactly from the coupon's UPDATE to the end of the
\* transaction, by one transaction, with one redemption left.
CouponLocks ==
    /\ \A r \in Requests :
          redeemed[r] <=> /\ pc[r] \in {"membership", "insert", "commit"}
                          /\ req[r].coupon # NoCoupon
    /\ \A r \in Requests :
          redeemed[r] => used[req[r].coupon] < UsageLimit[req[r].coupon]
    /\ \A r, s \in Requests :
          redeemed[r] /\ redeemed[s] /\ req[r].coupon = req[s].coupon => r = s

\* A key inserted but not committed is in no order and in no other transaction.
KeyLocks ==
    /\ \A r \in Requests : pc[r] = "commit" => KeyFree(req[r].key)
    /\ \A r, s \in Requests :
          /\ pc[r] = "commit" /\ pc[s] = "commit"
          /\ req[r].key = req[s].key /\ req[r].key # NoKey
          => r = s

\* An order belongs to a request that is past its commit, and to one only.
OrderIds ==
    /\ \A o \in orders : pc[o.id] \in {"reserve", "done"}
    /\ \A a, b \in orders : a.id = b.id => a = b
    /\ \A r \in Requests : pc[r] = "reserve" =>
          \E o \in orders : o.id = r /\ o.user = req[r].user /\ o.key = req[r].key
    /\ \A r \in Requests : pc[r] # "done" => answer[r].status = "none"

\* used_count is the number of orders that carry the coupon.
CouponCount ==
    /\ IsFiniteSet(orders)
    /\ \A c \in Coupons : used[c] = Cardinality(OrdersWith(c))
    /\ \A c \in Coupons : used[c] <= UsageLimit[c]

IInv ==
    /\ TypeOK
    /\ StockLocks
    /\ CouponLocks
    /\ KeyLocks
    /\ OrderIds
    /\ CouponCount
    /\ OneOrderPerKey
    /\ AnswersAreTrue

------------------------------------------------------------------------------
\* The line a handler is at is a line of its body.
LEMMA LineType ==
    ASSUME TypeOK, NEW r \in Requests
    PROVE  /\ req[r] \in Request
           /\ req[r].items \in Seq(Line)
           /\ LineOf(r) \in Line
           /\ LineOf(r).product \in Products \cup {NoProduct}
           /\ LineOf(r).quantity \in Nat \ {0}
<1>1. req[r] \in Request
    BY CheckoutAssumption DEF TypeOK
<1>2. req[r].items \in Seq(Line)
    BY <1>1 DEF Request
<1>3. pos[r] \in DOMAIN req[r].items
    BY DEF TypeOK
<1>4. LineOf(r) \in Line
    BY <1>2, <1>3 DEF LineOf
<1> QED
    BY <1>1, <1>2, <1>4, LedgerAssumption DEF Line

\* Every initial state has its types.
LEMMA InitType == Init => TypeOK
<1> SUFFICES ASSUME Init PROVE TypeOK
    OBVIOUS
<1>1. \A r \in Requests : pos[r] \in DOMAIN req[r].items
  <2> SUFFICES ASSUME NEW r \in Requests PROVE 1 \in DOMAIN req[r].items
      BY DEF Init
  <2>1. req[r] \in Request
      BY CheckoutAssumption DEF Init
  <2>2. req[r].items \in Seq(Line) /\ req[r].items # <<>>
      BY <2>1 DEF Request
  <2> QED BY <2>2
<1> QED
    BY <1>1, LedgerAssumption, CheckoutAssumption
    DEF Init, LedgerInit, TypeOK, NoUnits, Units, Stages, InTransaction, Answered,
        Statuses, Refusals

\* What a failing transaction leaves behind.
LEMMA FailType ==
    ASSUME TypeOK, NEW r \in Requests, NEW status \in Statuses, Fail(r, status)
    PROVE  TypeOK'
BY LedgerAssumption
DEF Fail, Finish, Goto, EndTransaction, Answered, TypeOK, ledger, NoUnits, Units, Stages

\* An order with one quantity edited is an order.
LEMMA AmendType ==
    ASSUME TypeOK, NEW o \in orders, NEW i \in DOMAIN o.items, NEW q \in 1..MaxQuantity
    PROVE  /\ [o.items EXCEPT ![i].quantity = q] \in Seq(Line)
           /\ [o EXCEPT !.items = [o.items EXCEPT ![i].quantity = q]] \in Order
<1>1. o \in Order /\ o.items \in Seq(Line)
    BY DEF TypeOK, Order
<1>2. o.items[i] \in Line
    BY <1>1
<1>3. [o.items[i] EXCEPT !.quantity = q] \in Line
    BY <1>2 DEF Line
<1>4. [o.items EXCEPT ![i] = [o.items[i] EXCEPT !.quantity = q]] \in Seq(Line)
    BY <1>1, <1>3
<1>5. [o.items EXCEPT ![i].quantity = q] \in Seq(Line)
    BY <1>4
<1> QED
    BY <1>1, <1>5 DEF Order

\* The order a request inserts is an order.
LEMMA NewOrderType ==
    ASSUME TypeOK, NEW r \in Requests
    PROVE  NewOrder(r) \in Order
BY LineType DEF NewOrder, Order, TypeOK, Request

\* No statement of POST /orders breaks a type.
LEMMA HandleType ==
    ASSUME TypeOK, NEW r \in Requests, Handle(r)
    PROVE  TypeOK'
<1> USE DEF ledger, Goto, Finish
<1>1. CASE LookUp(r) \/ ReplayAfterDuplicate(r) \/ Reserve(r)
  <2>1. \A o \in orders : ReplayOrConflict(r, o) \in
            [status : Statuses, order : Requests \cup {NoOrder}]
      BY DEF TypeOK, Order, ReplayOrConflict, Answered, Statuses, Refusals
  <2>2. \A s \in {"created", "error"}, x \in Requests \cup {NoOrder} :
            Answered(s, x) \in [status : Statuses, order : Requests \cup {NoOrder}]
      BY DEF Answered, Statuses
  <2>3. UNCHANGED <<ledger, req, pos, subtotal, taken, redeemed, expired, crashes, patches>>
      BY <1>1 DEF LookUp, ReplayAfterDuplicate, Reserve
  <2>4. pc' \in [Requests -> Stages]
      BY <1>1 DEF LookUp, ReplayAfterDuplicate, Reserve, TypeOK, Stages
  <2>5. \/ answer' = answer
        \/ \E o \in orders : answer' = [answer EXCEPT ![r] = ReplayOrConflict(r, o)]
        \/ \E s \in {"created", "error"}, x \in Requests \cup {NoOrder} :
              answer' = [answer EXCEPT ![r] = Answered(s, x)]
      BY <1>1 DEF LookUp, ReplayAfterDuplicate, Reserve
  <2>6. answer' \in [Requests -> [status : Statuses, order : Requests \cup {NoOrder}]]
      BY <2>1, <2>2, <2>5 DEF TypeOK
  <2> QED
      BY <2>3, <2>4, <2>6 DEF TypeOK
<1>2. CASE Begin(r) \/ ReadMembership(r) \/ InsertOrder(r)
    BY <1>2 DEF Begin, ReadMembership, InsertOrder, TypeOK, Stages, InTransaction
<1>3. CASE TakeItem(r)
  <2> DEFINE p == LineOf(r).product
             q == LineOf(r).quantity
  <2>1. p \in Products /\ q \in Nat /\ Price[p] * q \in Nat
      BY <1>3, LineType, CheckoutAssumption DEF TakeItem
  <2> HIDE DEF p, q
  <2>2. taken' = [taken EXCEPT ![r][p] = @ + q]
      BY <1>3 DEF TakeItem, p, q
  <2>3. taken' \in [Requests -> Units]
      BY <2>1, <2>2 DEF TypeOK, Units
  <2>4. subtotal' = [subtotal EXCEPT ![r] = @ + Price[p] * q]
      BY <1>3 DEF TakeItem, p, q
  <2>5. subtotal' \in [Requests -> Nat]
      BY <2>1, <2>4 DEF TypeOK
  <2>6. /\ pos' \in [Requests -> Nat]
        /\ \A s \in Requests : pos'[s] \in DOMAIN req'[s].items
    <3>1. req[r].items \in Seq(Line)
        BY LineType
    <3>2. ~LastLine(r) => pos[r] + 1 \in DOMAIN req[r].items
        BY <3>1 DEF TypeOK, LastLine
    <3>3. req' = req /\ (pos' = pos \/ pos' = [pos EXCEPT ![r] = @ + 1])
        BY <1>3 DEF TakeItem
    <3>4. pos' # pos => pos[r] + 1 \in DOMAIN req[r].items
        BY <1>3, <3>2 DEF TakeItem
    <3>5. pos \in [Requests -> Nat] /\ \A s \in Requests : pos[s] \in DOMAIN req[s].items
        BY DEF TypeOK
    <3>6. CASE pos' = pos
        BY <3>3, <3>5, <3>6
    <3>7. CASE pos' # pos
        BY <3>3, <3>4, <3>5, <3>7
    <3> QED
        BY <3>6, <3>7
  <2>7. pc' \in [Requests -> Stages]
      BY <1>3 DEF TakeItem, TypeOK, Stages, InTransaction
  <2> QED
      BY <1>3, <2>3, <2>5, <2>6, <2>7 DEF TakeItem, TypeOK
<1>4. CASE \/ OutOfStock(r) \/ ProductNotFound(r) \/ CouponRefused(r)
           \/ CouponUsedUp(r) \/ AbortDeadlocked(r)
    BY <1>4, FailType
    DEF OutOfStock, ProductNotFound, CouponRefused, CouponUsedUp, AbortDeadlocked,
        Statuses, Refusals
<1>5. CASE RedeemCoupon(r)
    BY <1>5 DEF RedeemCoupon, TypeOK, Stages, InTransaction
<1>6. CASE DuplicateKey(r)
    BY <1>6 DEF DuplicateKey, EndTransaction, TypeOK, Stages, NoUnits, Units
<1>7. CASE Commit(r)
  <2>1. stock' \in [Products -> Int]
      BY <1>7 DEF Commit, TypeOK, Units
  <2>2. used' \in [Coupons -> Nat]
      BY <1>7 DEF Commit, TypeOK
  <2>3. orders' \subseteq Order
      BY <1>7, NewOrderType DEF Commit, TypeOK
  <2>4. taken' \in [Requests -> Units] /\ redeemed' \in [Requests -> BOOLEAN]
      BY <1>7 DEF Commit, EndTransaction, TypeOK, NoUnits, Units
  <2>5. pc' \in [Requests -> Stages]
      BY <1>7 DEF Commit, TypeOK, Stages
  <2> QED
      BY <1>7, <2>1, <2>2, <2>3, <2>4, <2>5 DEF Commit, TypeOK
<1> QED
    BY <1>1, <1>2, <1>3, <1>4, <1>5, <1>6, <1>7 DEF Handle

\* Nor does any other step: arrivals, PATCHes, lock cycles, crashes.
LEMMA NextType ==
    ASSUME TypeOK, [Next]_vars
    PROVE  TypeOK'
<1>1. ASSUME NEW r \in Requests, Submit(r)
      PROVE  TypeOK'
    BY <1>1 DEF Submit, Goto, TypeOK, ledger, Stages, InTransaction
<1>2. ASSUME NEW r \in Requests, Handle(r)
      PROVE  TypeOK'
    BY <1>2, HandleType
<1>3. ASSUME NEW c \in Coupons, ExpireCoupon(c)
      PROVE  TypeOK'
    BY <1>3 DEF ExpireCoupon, TypeOK, ledger, handler
<1>4. ASSUME NEW o \in orders, NEW i \in DOMAIN o.items, NEW q \in 1..MaxQuantity,
             PatchItem(o, i, q)
      PROVE  TypeOK'
  <2> DEFINE lines == [o.items EXCEPT ![i].quantity = q]
  <2>0. [o EXCEPT !.items = lines] \in Order
      BY AmendType
  <2>1. orders' \subseteq Order
      BY <1>4, <2>0 DEF PatchItem, Amend, TypeOK
  <2>2. patches' \in 0..MaxPatches
      BY <1>4, CheckoutAssumption DEF PatchItem, TypeOK
  <2> QED
      BY <1>4, <2>1, <2>2 DEF PatchItem, Amend, handler, TypeOK
<1>5. CASE Crash
  <2>1. answer' \in [Requests -> [status : Statuses, order : Requests \cup {NoOrder}]]
      BY <1>5 DEF Crash, TypeOK, Answered, Statuses
  <2>2. pc' \in [Requests -> Stages]
      BY <1>5 DEF Crash, TypeOK, Stages
  <2>3. crashes' \in 0..MaxCrashes
      BY <1>5, CheckoutAssumption DEF Crash, TypeOK
  <2>4. taken' \in [Requests -> Units] /\ redeemed' \in [Requests -> BOOLEAN]
      BY <1>5 DEF Crash, NoUnits, Units
  <2> QED
      BY <1>5, <2>1, <2>2, <2>3, <2>4 DEF Crash, TypeOK, ledger
<1>6. CASE UNCHANGED vars
    BY <1>6 DEF vars, ledger, handler, TypeOK
<1> QED
    BY <1>1, <1>2, <1>3, <1>4, <1>5, <1>6 DEF Next

\* Every variable keeps its type, for any number of requests, products,
\* coupons, connections and crashes.
THEOREM TypeCorrect == Spec => []TypeOK
<1> QED
    BY InitType, NextType, PTL DEF Spec

------------------------------------------------------------------------------
\* A product's row lock is taken by its UPDATE and held to the end of the transaction.
LEMMA StockLocksStep ==
    ASSUME TypeOK, StockLocks, [Next]_vars
    PROVE  StockLocks'
<1> USE DEF StockLocks
<1> DEFINE Same == UNCHANGED <<stock, taken>>
<1>0. Same => StockLocks'
    OBVIOUS
<1>1. ASSUME NEW r \in Requests, stock' = stock, EndTransaction(r)
      PROVE  StockLocks'
    BY <1>1 DEF EndTransaction, TypeOK, NoUnits, Units
<1>2. ASSUME NEW r \in Requests, TakeItem(r)
      PROVE  StockLocks'
  <2> DEFINE p == LineOf(r).product
             q == LineOf(r).quantity
  <2>1. p \in Products /\ q \in Nat
      BY <1>2, LineType DEF TakeItem
  <2>2. /\ stock' = stock
        /\ taken' = [taken EXCEPT ![r][p] = @ + q]
        /\ stock[p] - taken[r][p] >= q
        /\ \A s \in Requests \ {r} : ~(taken[s][p] > 0)
      BY <1>2 DEF TakeItem, Visible, StockLocked, ledger
  <2> HIDE DEF p, q
  <2>3. taken \in [Requests -> [Products -> Nat]] /\ stock \in [Products -> Int]
      BY DEF TypeOK, Units
  <2>4. \A s \in Requests, x \in Products :
            taken'[s][x] = IF s = r /\ x = p THEN taken[s][x] + q ELSE taken[s][x]
      BY <2>1, <2>2, <2>3
  <2>5. \A s \in Requests \ {r} : taken[s][p] = 0
      BY <2>1, <2>2, <2>3
  <2>6. \A s \in Requests, x \in Products : taken'[s][x] <= stock'[x]
      BY <2>1, <2>2, <2>3, <2>4
  <2>7. \A s, t \in Requests : s # t =>
            \A x \in Products : taken'[s][x] = 0 \/ taken'[t][x] = 0
      BY <2>1, <2>3, <2>4, <2>5
  <2> QED
      BY <2>2, <2>6, <2>7
<1>3. ASSUME NEW r \in Requests, Commit(r)
      PROVE  StockLocks'
  <2>1. /\ \A p \in Products : stock'[p] = stock[p] - taken[r][p]
        /\ taken' = [taken EXCEPT ![r] = NoUnits]
      BY <1>3 DEF Commit, EndTransaction
  <2>2. taken \in [Requests -> [Products -> Nat]] /\ stock \in [Products -> Int]
      BY DEF TypeOK, Units
  <2>3. \A s \in Requests, x \in Products :
            taken'[s][x] = IF s = r THEN 0 ELSE taken[s][x]
      BY <2>1, <2>2 DEF NoUnits
  <2>4. \A p \in Products : stock'[p] >= 0
      BY <2>1, <2>2
  <2>5. \A s \in Requests, p \in Products : taken'[s][p] <= stock'[p]
    <3> SUFFICES ASSUME NEW s \in Requests, NEW p \in Products
                 PROVE  taken'[s][p] <= stock'[p]
        OBVIOUS
    <3>1. CASE s = r
        BY <3>1, <2>3, <2>4
    <3>2. CASE s # r
      <4>1. taken[s][p] = 0 \/ taken[r][p] = 0
          BY <3>2
      <4>2. taken[s][p] \in Nat /\ taken[r][p] \in Nat /\ stock[p] \in Int
          BY <2>2
      <4>3. taken'[s][p] = taken[s][p] /\ stock'[p] = stock[p] - taken[r][p]
          BY <3>2, <2>1, <2>3
      <4>4. taken[s][p] <= stock[p] /\ taken[r][p] <= stock[p]
          OBVIOUS
      <4> QED
          BY <4>1, <4>2, <4>3, <4>4
    <3> QED
        BY <3>1, <3>2
  <2> QED
      BY <2>3, <2>4, <2>5
<1>4. ASSUME NEW r \in Requests, Handle(r)
      PROVE  StockLocks'
  <2>1. CASE \/ LookUp(r) \/ Begin(r) \/ RedeemCoupon(r) \/ ReadMembership(r)
             \/ InsertOrder(r) \/ ReplayAfterDuplicate(r) \/ Reserve(r)
      BY <1>0, <2>1 DEF LookUp, Begin, RedeemCoupon, ReadMembership, InsertOrder,
                        ReplayAfterDuplicate, Reserve, ledger
  <2>2. CASE \/ OutOfStock(r) \/ ProductNotFound(r) \/ CouponRefused(r)
             \/ CouponUsedUp(r) \/ DuplicateKey(r) \/ AbortDeadlocked(r)
      BY <1>1, <2>2 DEF OutOfStock, ProductNotFound, CouponRefused, CouponUsedUp,
                        DuplicateKey, AbortDeadlocked, Fail, ledger
  <2> QED
      BY <1>2, <1>3, <1>4, <2>1, <2>2 DEF Handle
<1>5. CASE Crash
    BY <1>5 DEF Crash, ledger, NoUnits, TypeOK
<1>6. ASSUME NEW r \in Requests, Submit(r)
      PROVE  StockLocks'
    BY <1>0, <1>6 DEF Submit, ledger
<1>7. CASE \/ \E c \in Coupons : ExpireCoupon(c)
           \/ \E o \in orders : \E i \in DOMAIN o.items, q \in 1..MaxQuantity :
                 PatchItem(o, i, q)
    BY <1>0, <1>7 DEF ExpireCoupon, PatchItem, Amend, ledger, handler
<1>8. CASE UNCHANGED vars
    BY <1>0, <1>8 DEF vars, ledger, handler
<1> QED
    BY <1>4, <1>5, <1>6, <1>7, <1>8 DEF Next

\* The same of the coupon row, with a redemption left under it.
LEMMA CouponLocksStep ==
    ASSUME TypeOK, CouponLocks, [Next]_vars
    PROVE  CouponLocks'
<1> USE DEF CouponLocks
<1>t. /\ pc \in [Requests -> Stages]
      /\ redeemed \in [Requests -> BOOLEAN]
      /\ used \in [Coupons -> Nat]
      /\ \A r \in Requests : req[r].coupon \in Coupons \cup {NoCoupon}
    BY LineType DEF TypeOK, Request
<1> DEFINE Inside == {"membership", "insert", "commit"}
<1>1. ASSUME NEW r \in Requests, NEW stage \in Stages, Goto(r, stage),
             UNCHANGED <<used, req, redeemed>>, pc[r] \in Inside <=> stage \in Inside
      PROVE  CouponLocks'
    BY <1>1, <1>t DEF Goto
<1>2. ASSUME NEW r \in Requests, NEW stage \in Stages \ Inside, Goto(r, stage),
             UNCHANGED <<used, req>>, EndTransaction(r)
      PROVE  CouponLocks'
    BY <1>2, <1>t DEF Goto, EndTransaction
<1>3. ASSUME NEW r \in Requests, Handle(r)
      PROVE  CouponLocks'
  <2> USE DEF ledger
  <2>1. CASE \/ OutOfStock(r) \/ ProductNotFound(r) \/ CouponRefused(r)
             \/ CouponUsedUp(r) \/ AbortDeadlocked(r)
      BY <1>2, <2>1 DEF OutOfStock, ProductNotFound, CouponRefused, CouponUsedUp,
                        AbortDeadlocked, Fail, Finish, Stages
  <2>2. CASE DuplicateKey(r)
      BY <1>2, <2>2 DEF DuplicateKey, Stages
  <2>3. CASE LookUp(r)
    <3>1. CASE Goto(r, "begin")
        BY <1>1, <2>3, <3>1 DEF LookUp, Stages
    <3>2. CASE Goto(r, "done")
        BY <1>1, <2>3, <3>2 DEF LookUp, Stages
    <3> QED
        BY <2>3, <3>1, <3>2 DEF LookUp, Finish
  <2>4. CASE Begin(r) \/ ReadMembership(r) \/ InsertOrder(r)
      BY <1>1, <2>4 DEF Begin, ReadMembership, InsertOrder, Stages, InTransaction
  <2>5. CASE ReplayAfterDuplicate(r) \/ Reserve(r)
      BY <1>1, <2>5 DEF ReplayAfterDuplicate, Reserve, Finish, Stages
  <2>6. CASE TakeItem(r)
    <3>1. UNCHANGED <<used, req, redeemed>> /\ pc[r] = "items" /\ ~redeemed[r]
        BY <2>6, <1>t DEF TakeItem
    <3>2. CASE UNCHANGED pc
        BY <3>1, <3>2
    <3>3. CASE Goto(r, "coupon")
        BY <1>1, <3>1, <3>3 DEF Stages, InTransaction
    <3>4. CASE Goto(r, "membership") /\ req[r].coupon = NoCoupon
        BY <3>1, <3>4, <1>t DEF Goto
    <3> QED
        BY <2>6, <3>2, <3>3, <3>4 DEF TakeItem
  <2>7. CASE RedeemCoupon(r)
    <3>1. /\ pc' = [pc EXCEPT ![r] = "membership"]
          /\ redeemed' = [redeemed EXCEPT ![r] = TRUE]
          /\ UNCHANGED <<used, req>>
          /\ used[req[r].coupon] < UsageLimit[req[r].coupon]
          /\ \A s \in Requests \ {r} : ~(redeemed[s] /\ req[s].coupon = req[r].coupon)
        BY <2>7 DEF RedeemCoupon, Goto, CouponLocked
    <3>2. req[r].coupon \in Coupons
        BY <2>7, CheckoutAssumption, LineType DEF RedeemCoupon, CouponAccepted, Request
    <3>3. req[r].coupon # NoCoupon
        BY <3>2, LedgerAssumption
    <3> QED
        BY <3>1, <3>3, <1>t
  <2>8. CASE Commit(r)
    <3>1. /\ pc' = [pc EXCEPT ![r] = "reserve"]
          /\ redeemed' = [redeemed EXCEPT ![r] = FALSE]
          /\ UNCHANGED req
          /\ \A c \in Coupons :
                ~(redeemed[r] /\ req[r].coupon = c) => used'[c] = used[c]
        BY <2>8 DEF Commit, Goto, EndTransaction
    <3>2. ASSUME NEW s \in Requests, redeemed'[s]
          PROVE  used'[req'[s].coupon] < UsageLimit[req'[s].coupon]
      <4>1. s # r /\ redeemed[s]
          BY <3>1, <3>2, <1>t
      <4>2. ~(redeemed[r] /\ req[r].coupon = req[s].coupon)
          BY <4>1
      <4>3. req[s].coupon \in Coupons
          BY <4>1, <1>t
      <4> QED
          BY <3>1, <4>1, <4>2, <4>3
    <3> QED
        BY <3>1, <3>2, <1>t
  <2> QED
      BY <1>3, <2>1, <2>2, <2>3, <2>4, <2>5, <2>6, <2>7, <2>8 DEF Handle
<1>4. ASSUME NEW r \in Requests, Submit(r)
      PROVE  CouponLocks'
  <2>1. Goto(r, "begin") \/ Goto(r, "lookup")
      BY <1>4 DEF Submit
  <2> QED
      BY <1>1, <1>4, <2>1 DEF Submit, Stages, ledger
<1>5. CASE Crash
  <2>1. /\ \A r \in Requests : redeemed'[r] = FALSE
        /\ \A r \in Requests : pc'[r] \notin Inside
      BY <1>5 DEF Crash
  <2> QED
      BY <2>1
<1>6. CASE \/ \E c \in Coupons : ExpireCoupon(c)
           \/ \E o \in orders : \E i \in DOMAIN o.items, q \in 1..MaxQuantity :
                 PatchItem(o, i, q)
           \/ UNCHANGED vars
    BY <1>6 DEF ExpireCoupon, PatchItem, Amend, vars, ledger, handler
<1> QED
    BY <1>3, <1>4, <1>5, <1>6 DEF Next

------------------------------------------------------------------------------
\* The steps that neither add or edit an order nor insert a key.
Quiet ==
    /\ UNCHANGED <<stock, used, orders, req>>
    /\ \A s \in Requests : /\ pc'[s] = "commit" => pc[s] = "commit"
                           /\ pc'[s] = "reserve" => pc[s] = "reserve"
                           /\ pc[s] \in {"reserve", "done"} => pc'[s] \in {"reserve", "done"}

Patched ==
    \E o \in orders : \E i \in DOMAIN o.items, q \in 1..MaxQuantity : PatchItem(o, i, q)

\* A rollback changes no committed row.
LEMMA FailQuiet ==
    ASSUME TypeOK, NEW r \in Requests, NEW status, Fail(r, status)
    PROVE  Quiet
BY DEF Fail, Finish, Goto, Quiet, TypeOK, ledger

\* WaitsFor is only true of a request in a transaction.
LEMMA DeadlockStage ==
    ASSUME NEW r \in Requests, Deadlocked(r)
    PROVE  pc[r] \in {"items", "coupon", "insert"}
BY DEF Deadlocked, WaitsFor

\* What a step does to the orders: nothing, one insert or commit, or one PATCH.
LEMMA Shape ==
    ASSUME TypeOK, [Next]_vars
    PROVE  \/ Quiet
           \/ \E r \in Requests : Commit(r) \/ InsertOrder(r)
           \/ Patched
<1>1. ASSUME NEW r \in Requests, Handle(r)
      PROVE  Quiet \/ Commit(r) \/ InsertOrder(r)
  <2>1. CASE \/ OutOfStock(r) \/ ProductNotFound(r) \/ CouponRefused(r)
             \/ CouponUsedUp(r) \/ AbortDeadlocked(r)
      BY <2>1, FailQuiet DEF OutOfStock, ProductNotFound, CouponRefused, CouponUsedUp,
                             AbortDeadlocked
  <2>2. CASE LookUp(r) \/ ReplayAfterDuplicate(r) \/ Reserve(r)
      BY <2>2 DEF LookUp, ReplayAfterDuplicate, Reserve, Finish, Goto, Quiet, TypeOK, ledger
  <2>3. CASE Begin(r) \/ ReadMembership(r) \/ RedeemCoupon(r) \/ DuplicateKey(r)
      BY <2>3 DEF Begin, ReadMembership, RedeemCoupon, CouponAccepted, DuplicateKey, Goto,
                  Quiet, TypeOK, ledger
  <2>4. CASE TakeItem(r)
    <3>1. UNCHANGED <<stock, used, orders, req>> /\ pc[r] = "items"
        BY <2>4 DEF TakeItem, ledger
    <3>2. pc' = pc \/ pc' = [pc EXCEPT ![r] = "membership"]
                   \/ pc' = [pc EXCEPT ![r] = "coupon"]
        BY <2>4 DEF TakeItem, Goto
    <3> QED
        BY <3>1, <3>2 DEF Quiet, TypeOK
  <2> QED
      BY <1>1, <2>1, <2>2, <2>3, <2>4 DEF Handle
<1>2. ASSUME NEW r \in Requests, Submit(r)
      PROVE  Quiet
    BY <1>2 DEF Submit, Goto, Quiet, TypeOK, ledger
<1>3. CASE Crash
    BY <1>3 DEF Crash, Quiet, TypeOK, ledger
<1>4. CASE (\E c \in Coupons : ExpireCoupon(c)) \/ UNCHANGED vars
    BY <1>4 DEF ExpireCoupon, Quiet, vars, ledger, handler
<1> QED
    BY <1>1, <1>2, <1>3, <1>4 DEF Next, Patched

\* A PATCH replaces one order by a copy that differs in its items only.
LEMMA PatchShape ==
    ASSUME TypeOK, Patched
    PROVE  /\ UNCHANGED <<stock, used, req, pc, pos, answer, taken, redeemed>>
           /\ \E o \in orders : \E n \in Order :
                 /\ orders' = (orders \ {o}) \cup {n}
                 /\ n = [o EXCEPT !.items = n.items]
                 /\ /\ n.id = o.id /\ n.user = o.user /\ n.key = o.key
                    /\ n.coupon = o.coupon /\ n.units = o.units
<1> PICK o \in orders : \E i \in DOMAIN o.items, q \in 1..MaxQuantity : PatchItem(o, i, q)
    BY DEF Patched
<1> PICK i \in DOMAIN o.items, q \in 1..MaxQuantity : PatchItem(o, i, q)
    OBVIOUS
<1> DEFINE lines == [o.items EXCEPT ![i].quantity = q]
           n == [o EXCEPT !.items = lines]
<1>1. lines \in Seq(Line) /\ n \in Order
    BY AmendType
<1>2. o \in Order
    BY DEF TypeOK
<1>3. orders' = (orders \ {o}) \cup {n}
    BY DEF PatchItem, Amend
<1> HIDE DEF lines
<1>4. /\ n.items = lines
      /\ n.id = o.id /\ n.user = o.user /\ n.key = o.key
      /\ n.coupon = o.coupon /\ n.units = o.units
    BY <1>2 DEF Order
<1>5. UNCHANGED <<stock, used, req, pc, pos, answer, taken, redeemed>>
    BY DEF PatchItem, Amend, handler
<1> QED
    BY <1>1, <1>3, <1>4, <1>5

\* A key inserted and not committed stays free of committed orders.
LEMMA KeyLocksStep ==
    ASSUME TypeOK, KeyLocks, [Next]_vars
    PROVE  KeyLocks'
<1> USE DEF KeyLocks, KeyFree
<1>1. CASE Quiet
    BY <1>1 DEF Quiet, TypeOK
<1>2. CASE \E r \in Requests : InsertOrder(r)
    BY <1>2 DEF InsertOrder, KeyPending, Goto, TypeOK, ledger
<1>3. CASE \E r \in Requests : Commit(r)
  <2> PICK r \in Requests : Commit(r)
      BY <1>3
  <2>1. /\ pc' = [pc EXCEPT ![r] = "reserve"] /\ req' = req /\ pc[r] = "commit"
        /\ orders' = orders \cup {NewOrder(r)}
        /\ NewOrder(r).key = req[r].key
      BY DEF Commit, Goto, NewOrder
  <2>2. \A s \in Requests : pc'[s] = "commit" => s # r /\ pc[s] = "commit"
      BY <2>1 DEF TypeOK
  <2> QED
      BY <2>1, <2>2
<1>4. CASE Patched
    BY <1>4, PatchShape
<1> QED
    BY <1>1, <1>2, <1>3, <1>4, Shape

\* A commit brings a key no order has, and a PATCH keeps the keys.
LEMMA OneOrderPerKeyStep ==
    ASSUME TypeOK, KeyLocks, OneOrderPerKey, [Next]_vars
    PROVE  OneOrderPerKey'
<1> USE DEF OneOrderPerKey
<1>1. CASE Quiet \/ \E r \in Requests : InsertOrder(r)
    BY <1>1 DEF Quiet, InsertOrder, ledger
<1>2. CASE \E r \in Requests : Commit(r)
    BY <1>2 DEF Commit, NewOrder, KeyLocks, KeyFree
<1>3. CASE Patched
    BY <1>3, PatchShape
<1> QED
    BY <1>1, <1>2, <1>3, Shape

------------------------------------------------------------------------------
(***************************************************************************)
(* The ways a step may change the answer of a request x.                   *)
(***************************************************************************)
AnswerKept(x) ==
    /\ answer'[x] = answer[x]
    /\ pc'[x] = "done" => pc[x] = "done"
AnswerBroken(x) ==
    /\ pc'[x] = "done" /\ orders' = orders /\ req' = req
    /\ answer'[x].status \in {"lost", "error"}
AnswerRefused(x) ==
    /\ pc[x] \notin {"reserve", "done"} /\ pc'[x] = "done" /\ orders' = orders /\ req' = req
    /\ answer'[x].status \in Refusals
AnswerReplayed(x) ==
    /\ pc[x] \notin {"reserve", "done"} /\ pc'[x] = "done" /\ orders' = orders /\ req' = req
    /\ answer'[x].status = "replayed"
    /\ \E o \in orders : /\ answer'[x].order = o.id
                         /\ o.user = req[x].user /\ o.key = req[x].key
AnswerCreated(x) ==
    /\ pc[x] = "reserve" /\ pc'[x] = "done" /\ orders' = orders /\ req' = req
    /\ answer'[x] = Answered("created", x)

AnswerMove(x) ==
    \/ AnswerKept(x) \/ AnswerBroken(x) \/ AnswerRefused(x)
    \/ AnswerReplayed(x) \/ AnswerCreated(x)

\* A rollback answers a refusal or an error, and only its own request.
LEMMA FailAnswer ==
    ASSUME TypeOK, NEW r \in Requests, NEW status \in Refusals \cup {"error"},
           pc[r] \in InTransaction, Fail(r, status), NEW x \in Requests
    PROVE  AnswerMove(x)
<1>1. CASE x # r
    BY <1>1 DEF Fail, Finish, Goto, TypeOK, AnswerMove, AnswerKept
<1>2. CASE x = r
    BY <1>2 DEF Fail, Finish, Goto, TypeOK, AnswerMove, AnswerRefused, AnswerBroken,
                Answered, InTransaction, ledger
<1> QED
    BY <1>1, <1>2

\* A replay answers with the order that has the key, or 409.
LEMMA ReplayAnswer ==
    ASSUME TypeOK, NEW r \in Requests, NEW o \in orders, o.key = req[r].key,
           pc[r] \in {"lookup", "replay"}, Finish(r, ReplayOrConflict(r, o)),
           orders' = orders, req' = req, NEW x \in Requests
    PROVE  AnswerMove(x)
<1>1. CASE x # r
    BY <1>1 DEF Finish, Goto, TypeOK, AnswerMove, AnswerKept
<1>2. CASE x = r
  <2>1. pc'[r] = "done" /\ answer'[r] = ReplayOrConflict(r, o)
      BY DEF Finish, Goto, TypeOK
  <2>2. CASE o.user = req[r].user /\ SameItems(o.items, req[r].items)
    <3>1. answer'[r] = Answered("replayed", o.id)
        BY <2>1, <2>2 DEF ReplayOrConflict
    <3>2. AnswerReplayed(r)
        BY <2>1, <2>2, <3>1 DEF AnswerReplayed, Answered
    <3> QED
        BY <1>2, <3>2 DEF AnswerMove
  <2>3. CASE ~(o.user = req[r].user /\ SameItems(o.items, req[r].items))
    <3>1. answer'[r] = Answered("conflict", NoOrder)
        BY <2>1, <2>3 DEF ReplayOrConflict
    <3>2. AnswerRefused(r)
        BY <2>1, <3>1 DEF AnswerRefused, Answered, Refusals
    <3> QED
        BY <1>2, <3>2 DEF AnswerMove
  <2> QED
      BY <2>2, <2>3
<1> QED
    BY <1>1, <1>2

\* The ways in which the answer to a request can change in a step.
LEMMA AnswerShape ==
    ASSUME TypeOK, [Next]_vars, NEW x \in Requests
    PROVE  AnswerMove(x)
<1>1. ASSUME NEW r \in Requests, Handle(r)
      PROVE  AnswerMove(x)
  <2>1. CASE \/ OutOfStock(r) \/ ProductNotFound(r) \/ CouponRefused(r) \/ CouponUsedUp(r)
      BY <2>1, FailAnswer DEF OutOfStock, ProductNotFound, CouponRefused, CouponUsedUp,
                              CouponAccepted, InTransaction, Refusals
  <2>2. CASE AbortDeadlocked(r)
      BY <2>2, FailAnswer, DeadlockStage DEF AbortDeadlocked, InTransaction
  <2>3. CASE LookUp(r)
    <3>1. CASE Goto(r, "begin") /\ answer' = answer
        BY <3>1 DEF Goto, TypeOK, AnswerMove, AnswerKept
    <3>2. CASE \E o \in orders : o.key = req[r].key /\ Finish(r, ReplayOrConflict(r, o))
        BY <2>3, <3>2, ReplayAnswer DEF LookUp, ledger
    <3> QED
        BY <2>3, <3>1, <3>2 DEF LookUp
  <2>4. CASE ReplayAfterDuplicate(r)
      BY <2>4, ReplayAnswer DEF ReplayAfterDuplicate, ledger
  <2>5. CASE Reserve(r)
    <3>1. CASE x # r
        BY <2>5, <3>1 DEF Reserve, Finish, Goto, TypeOK, AnswerMove, AnswerKept
    <3>2. CASE x = r
        BY <2>5, <3>2 DEF Reserve, Finish, Goto, TypeOK, AnswerMove, AnswerCreated,
                          AnswerBroken, Answered, ledger
    <3> QED
        BY <3>1, <3>2
  <2>6. CASE \/ Begin(r) \/ RedeemCoupon(r) \/ ReadMembership(r) \/ InsertOrder(r)
             \/ DuplicateKey(r) \/ Commit(r)
    <3>1. answer' = answer /\ \E stage \in Stages \ {"done"} : Goto(r, stage)
        BY <2>6 DEF Begin, RedeemCoupon, ReadMembership, InsertOrder, DuplicateKey,
                    Commit, Stages, InTransaction
    <3> QED
        BY <3>1 DEF Goto, TypeOK, AnswerMove, AnswerKept
  <2>7. CASE TakeItem(r)
    <3>1. answer' = answer /\ (pc' = pc \/ Goto(r, "membership") \/ Goto(r, "coupon"))
        BY <2>7 DEF TakeItem
    <3> QED
        BY <3>1 DEF Goto, TypeOK, AnswerMove, AnswerKept
  <2> QED
      BY <1>1, <2>1, <2>2, <2>3, <2>4, <2>5, <2>6, <2>7 DEF Handle
<1>2. ASSUME NEW r \in Requests, Submit(r)
      PROVE  AnswerMove(x)
    BY <1>2 DEF Submit, Goto, TypeOK, AnswerMove, AnswerKept
<1>3. CASE Crash
    BY <1>3 DEF Crash, AnswerMove, AnswerKept, AnswerBroken, Answered, TypeOK, ledger
<1>4. CASE (\E c \in Coupons : ExpireCoupon(c)) \/ UNCHANGED vars
    BY <1>4 DEF ExpireCoupon, vars, handler, AnswerMove, AnswerKept
<1>5. CASE Patched
    BY <1>5, PatchShape DEF AnswerMove, AnswerKept
<1> QED
    BY <1>1, <1>2, <1>3, <1>4, <1>5 DEF Next, Patched

\* Only a commit adds an order, and its request never commits again.
LEMMA OrderIdsStep ==
    ASSUME TypeOK, OrderIds, [Next]_vars
    PROVE  OrderIds'
<1> USE DEF OrderIds
<1>1. \A r \in Requests : pc'[r] # "done" => answer'[r].status = "none"
  <2> SUFFICES ASSUME NEW r \in Requests, pc'[r] # "done"
               PROVE  answer'[r].status = "none"
      OBVIOUS
  <2>1. AnswerKept(r)
      BY AnswerShape DEF AnswerMove, AnswerBroken, AnswerRefused, AnswerReplayed,
                         AnswerCreated
  <2>2. pc[r] # "done"
    <3>1. \A s \in Requests : pc[s] = "done" => pc'[s] \in {"reserve", "done"}
        BY Shape, PatchShape DEF Quiet, Commit, InsertOrder, Goto, TypeOK
    <3>2. CASE pc'[r] = "reserve"
        BY Shape, PatchShape, <3>2 DEF Quiet, Commit, InsertOrder, Goto, TypeOK
    <3> QED
        BY <3>1, <3>2
  <2> QED
      BY <2>1, <2>2 DEF AnswerKept
<1>2. CASE Quiet
    BY <1>1, <1>2 DEF Quiet, TypeOK, Order
<1>3. CASE \E r \in Requests : InsertOrder(r)
    BY <1>1, <1>3 DEF InsertOrder, Goto, TypeOK, Order, ledger
<1>4. CASE \E r \in Requests : Commit(r)
  <2> PICK r \in Requests : Commit(r)
      BY <1>4
  <2>1. /\ pc' = [pc EXCEPT ![r] = "reserve"] /\ pc[r] = "commit" /\ req' = req
        /\ orders' = orders \cup {NewOrder(r)}
        /\ NewOrder(r).id = r /\ NewOrder(r).user = req[r].user
        /\ NewOrder(r).key = req[r].key
      BY DEF Commit, Goto, NewOrder
  <2>2. \A o \in orders : o.id # r /\ o.id \in Requests
      BY <2>1 DEF TypeOK, Order
  <2> QED
      BY <1>1, <2>1, <2>2 DEF TypeOK
<1>5. CASE Patched
    BY <1>1, <1>5, PatchShape
<1> QED
    BY <1>2, <1>3, <1>4, <1>5, Shape

\* used_count moves with the commit that adds an order with the coupon.
LEMMA CouponCountStep ==
    ASSUME TypeOK, CouponLocks, OrderIds, CouponCount, [Next]_vars
    PROVE  CouponCount'
<1> USE DEF CouponCount
<1>1. CASE Quiet \/ \E r \in Requests : InsertOrder(r)
  <2>1. UNCHANGED <<used, orders>>
      BY <1>1 DEF Quiet, InsertOrder, ledger
  <2> QED
      BY <2>1 DEF OrdersWith
<1>2. CASE \E r \in Requests : Commit(r)
  <2> PICK r \in Requests : Commit(r)
      BY <1>2
  <2> DEFINE n == NewOrder(r)
  <2>1. /\ orders' = orders \cup {n} /\ pc[r] = "commit"
        /\ used' = [c \in Coupons |-> IF redeemed[r] /\ req[r].coupon = c
                                      THEN used[c] + 1 ELSE used[c]]
        /\ n.id = r /\ n.coupon = req[r].coupon
      BY DEF Commit, NewOrder
  <2>2. n \notin orders
      BY <2>1 DEF OrderIds
  <2> HIDE DEF n
  <2>3. IsFiniteSet(orders')
      BY <2>1, FS_AddElement
  <2>4. ASSUME NEW c \in Coupons
        PROVE  used'[c] = Cardinality(OrdersWith(c)') /\ used'[c] <= UsageLimit[c]
    <3>1. CASE n.coupon = c
      <4>0. req[r].coupon = c /\ req[r].coupon # NoCoupon
          BY <2>1, <3>1, LedgerAssumption
      <4>1. redeemed[r] /\ used[c] < UsageLimit[c]
          BY <2>1, <4>0 DEF CouponLocks
      <4>2. OrdersWith(c)' = OrdersWith(c) \cup {n}
          BY <2>1, <3>1 DEF OrdersWith
      <4>3. IsFiniteSet(OrdersWith(c)) /\ n \notin OrdersWith(c)
          BY <2>2, FS_Subset DEF OrdersWith
      <4>4. Cardinality(OrdersWith(c)') = Cardinality(OrdersWith(c)) + 1
          BY <4>2, <4>3, FS_AddElement
      <4>5. used'[c] = used[c] + 1
          BY <2>1, <3>1, <4>1
      <4> QED
          BY <4>1, <4>4, <4>5, LedgerAssumption DEF TypeOK
    <3>2. CASE n.coupon # c
      <4>1. OrdersWith(c)' = OrdersWith(c) /\ used'[c] = used[c]
          BY <2>1, <3>2 DEF OrdersWith
      <4> QED
          BY <4>1
    <3> QED
        BY <3>1, <3>2
  <2> QED
      BY <2>3, <2>4
<1>3. CASE Patched
  <2> PICK o \in orders : \E n \in Order :
            orders' = (orders \ {o}) \cup {n} /\ n.id = o.id /\ n.coupon = o.coupon
      BY <1>3, PatchShape
  <2> PICK n \in Order :
            orders' = (orders \ {o}) \cup {n} /\ n.id = o.id /\ n.coupon = o.coupon
      OBVIOUS
  <2>1. used' = used
      BY <1>3, PatchShape
  <2>2. IsFiniteSet(orders \ {o}) /\ n \notin orders \ {o}
      BY FS_RemoveElement DEF OrderIds
  <2>3. IsFiniteSet(orders')
      BY <2>2, FS_AddElement
  <2>4. ASSUME NEW c \in Coupons
        PROVE  Cardinality(OrdersWith(c)') = Cardinality(OrdersWith(c))
    <3>1. CASE o.coupon = c
      <4>1. OrdersWith(c)' = (OrdersWith(c) \ {o}) \cup {n}
          BY <3>1 DEF OrdersWith
      <4>2. IsFiniteSet(OrdersWith(c)) /\ o \in OrdersWith(c)
          BY <3>1, FS_Subset DEF OrdersWith
      <4>3. /\ IsFiniteSet(OrdersWith(c) \ {o})
            /\ Cardinality(OrdersWith(c) \ {o}) = Cardinality(OrdersWith(c)) - 1
          BY <4>2, FS_RemoveElement
      <4>4. n \notin OrdersWith(c) \ {o}
          BY <2>2 DEF OrdersWith
      <4> DEFINE Rest == OrdersWith(c) \ {o}
      <4>r. IsFiniteSet(Rest) /\ n \notin Rest
          BY <4>3, <4>4
      <4>a. Cardinality(Rest \cup {n}) = Cardinality(Rest) + 1
        <5> HIDE DEF Rest
        <5> QED
            BY <4>r, FS_AddElement
      <4>5. Cardinality(OrdersWith(c)') = Cardinality(OrdersWith(c) \ {o}) + 1
          BY <4>1, <4>a
      <4>6. Cardinality(OrdersWith(c)) \in Nat
          BY <4>2, FS_CardinalityType
      <4> QED
          BY <4>3, <4>5, <4>6
    <3>2. CASE o.coupon # c
        BY <3>2 DEF OrdersWith
    <3> QED
        BY <3>1, <3>2
  <2> QED
      BY <2>1, <2>3, <2>4
<1> QED
    BY <1>1, <1>2, <1>3, Shape

\* Answers stay true while other requests commit and PATCH.
LEMMA AnswersStep ==
    ASSUME TypeOK, OrderIds, AnswersAreTrue, [Next]_vars
    PROVE  AnswersAreTrue'
<1> SUFFICES ASSUME NEW r \in Requests
             PROVE  LET a == answer'[r] IN
                    /\ a.status = "created" =>
                          /\ a.order = r
                          /\ \E o \in orders' : /\ o.id = r /\ o.user = req'[r].user
                                                /\ o.key = req'[r].key
                    /\ a.status = "replayed" =>
                          \E o \in orders' : /\ o.id = a.order /\ o.id # r
                                             /\ o.user = req'[r].user /\ o.key = req'[r].key
                    /\ a.status \in Refusals => \A o \in orders' : o.id # r
    BY DEF AnswersAreTrue
<1>1. CASE AnswerKept(r)
  <2>1. CASE Quiet \/ \E s \in Requests : InsertOrder(s)
      BY <1>1, <2>1 DEF AnswerKept, AnswersAreTrue, Quiet, InsertOrder, ledger
  <2>2. CASE \E s \in Requests : Commit(s)
    <3> PICK s \in Requests : Commit(s)
        BY <2>2
    <3>1. /\ orders' = orders \cup {NewOrder(s)} /\ NewOrder(s).id = s /\ req' = req
          /\ pc[s] = "commit"
        BY DEF Commit, NewOrder
    <3>2. answer[s].status = "none"
        BY <3>1 DEF OrderIds
    <3> QED
        BY <1>1, <3>1, <3>2 DEF AnswerKept, AnswersAreTrue, Refusals
  <2>3. CASE Patched
      BY <1>1, <2>3, PatchShape DEF AnswerKept, AnswersAreTrue
  <2> QED
      BY <2>1, <2>2, <2>3, Shape
<1>2. CASE AnswerBroken(r)
    BY <1>2 DEF AnswerBroken, Refusals
<1>3. CASE AnswerRefused(r)
    BY <1>3 DEF AnswerRefused, Refusals, OrderIds
<1>4. CASE AnswerReplayed(r)
    BY <1>4 DEF AnswerReplayed, Refusals, OrderIds
<1>5. CASE AnswerCreated(r)
    BY <1>5 DEF AnswerCreated, Answered, Refusals, OrderIds
<1> QED
    BY <1>1, <1>2, <1>3, <1>4, <1>5, AnswerShape DEF AnswerMove
------------------------------------------------------------------------------
\* The first state has no open transaction and no order.
LEMMA InitIInv == Init => IInv
<1> SUFFICES ASSUME Init PROVE IInv
    OBVIOUS
<1> USE DEF Init, LedgerInit
<1>1. TypeOK
    BY InitType
<1>2. StockLocks
    BY LedgerAssumption DEF StockLocks, NoUnits
<1>3. CouponLocks /\ KeyLocks /\ OrderIds /\ OneOrderPerKey
    BY DEF CouponLocks, KeyLocks, OrderIds, OneOrderPerKey, Answered
<1>4. AnswersAreTrue
    BY DEF AnswersAreTrue, Answered, Refusals
<1>5. CouponCount
  <2>1. \A c \in Coupons : OrdersWith(c) = {}
      BY DEF OrdersWith
  <2>2. \A c \in Coupons : used[c] = 0 /\ 0 <= UsageLimit[c]
      BY LedgerAssumption
  <2>3. IsFiniteSet({}) /\ Cardinality({}) = 0
      BY FS_EmptySet
  <2>4. \A c \in Coupons : Cardinality(OrdersWith(c)) = 0
      BY <2>1, <2>3
  <2>5. \A c \in Coupons : used[c] = Cardinality(OrdersWith(c)) /\ used[c] <= UsageLimit[c]
      BY <2>2, <2>4
  <2> QED
      BY <2>3, <2>5 DEF CouponCount
<1> QED
    BY <1>1, <1>2, <1>3, <1>4, <1>5 DEF IInv

\* The inductive invariant.
THEOREM Inductive == Spec => []IInv
<1>1. IInv /\ [Next]_vars => IInv'
    BY NextType, StockLocksStep, CouponLocksStep, KeyLocksStep, OrderIdsStep,
       CouponCountStep, OneOrderPerKeyStep, AnswersStep DEF IInv
<1> QED
    BY <1>1, InitIInv, PTL DEF Spec

\* No interleaving of orders, rollbacks and crashes sells more than the stock.
THEOREM StockNeverOversold == Spec => []NoOversell
<1>1. IInv => NoOversell
    BY DEF IInv, StockLocks, NoOversell
<1> QED
    BY <1>1, Inductive, PTL

\* The unique key makes concurrent duplicates safe: one order per key.
THEOREM KeysAreIdempotent == Spec => []OneOrderPerKey
<1>1. IInv => OneOrderPerKey
    BY DEF IInv
<1> QED
    BY <1>1, Inductive, PTL

\* Every answer sent is true of the committed orders.
THEOREM AnswersAreHonest == Spec => []AnswersAreTrue
<1>1. IInv => AnswersAreTrue
    BY DEF IInv
<1> QED
    BY <1>1, Inductive, PTL

\* used_count counts the orders with the coupon and stays within usage_limit,
\* counting the redemptions of open transactions.
THEOREM CouponsNeverOverused == Spec => []CouponLedger
<1>1. ASSUME IInv, NEW c \in Coupons
      PROVE  /\ used[c] = Cardinality(OrdersWith(c))
             /\ used[c] + Cardinality({r \in Requests : redeemed[r] /\ req[r].coupon = c})
                   <= UsageLimit[c]
  <2> DEFINE R == {r \in Requests : redeemed[r] /\ req[r].coupon = c}
  <2>1. /\ used[c] = Cardinality(OrdersWith(c)) /\ used[c] <= UsageLimit[c]
        /\ used[c] \in Nat /\ UsageLimit[c] \in Nat
      BY <1>1, LedgerAssumption DEF IInv, CouponCount, TypeOK
  <2>2. CASE R = {}
    <3>1. Cardinality(R) = 0
        BY <2>2, FS_EmptySet
    <3> HIDE DEF R
    <3>2. used[c] + Cardinality(R) <= UsageLimit[c]
        BY <2>1, <3>1
    <3> QED
        BY <2>1, <3>2 DEF R
  <2>3. CASE R # {}
    <3> PICK r \in R : TRUE
        BY <2>3
    <3>1. R = {r}
        BY <1>1 DEF IInv, CouponLocks
    <3>2. Cardinality(R) = 1
        BY <3>1, FS_Singleton
    <3>3. used[c] < UsageLimit[c]
        BY <1>1 DEF IInv, CouponLocks
    <3> QED
        BY <2>1, <3>2, <3>3
  <2> QED
      BY <2>2, <2>3
<1>2. IInv => CouponLedger
    BY <1>1 DEF CouponLedger
<1> QED
    BY <1>2, Inductive, PTL

\* Each step is a step of OrderLedger, or leaves the ledger as it is.
LEMMA LedgerStep ==
    ASSUME IInv, [Next]_vars
    PROVE  [LedgerNext]_ledger
<1> USE DEF IInv
<1>1. CASE Quiet \/ \E r \in Requests : InsertOrder(r)
    BY <1>1 DEF Quiet, InsertOrder, ledger
<1>2. CASE \E r \in Requests : Commit(r)
  <2> PICK r \in Requests : Commit(r)
      BY <1>2
  <2> DEFINE n == NewOrder(r)
  <2>1. /\ orders' = orders \cup {n} /\ pc[r] = "commit"
        /\ stock' = [p \in Products |-> stock[p] - taken[r][p]]
        /\ used' = [c \in Coupons |-> IF redeemed[r] /\ req[r].coupon = c
                                      THEN used[c] + 1 ELSE used[c]]
        /\ n.id = r /\ n.coupon = req[r].coupon /\ n.key = req[r].key
        /\ n.units = taken[r]
      BY DEF Commit, NewOrder
  <2>2. n \in Order
      BY NewOrderType
  <2> HIDE DEF n
  <2>3. Fresh(n)
      BY <2>1 DEF Fresh, OrderIds
  <2>4. \A p \in Products : n.units[p] <= stock[p]
      BY <2>1 DEF StockLocks
  <2>5. n.coupon # NoCoupon =>
            redeemed[r] /\ used[n.coupon] < UsageLimit[n.coupon]
      BY <2>1 DEF CouponLocks
  <2>6. KeyFree(n.key)
      BY <2>1 DEF KeyLocks
  <2>7. used' = [c \in Coupons |-> IF c = n.coupon THEN used[c] + 1 ELSE used[c]]
      BY <2>1, <2>5, LedgerAssumption
  <2>8. Place(n)
      BY <2>1, <2>3, <2>4, <2>5, <2>6, <2>7 DEF Place
  <2> QED
      BY <2>1, <2>2, <2>8 DEF LedgerNext
<1>3. CASE Patched
  <2> PICK o \in orders : \E n \in Order :
            orders' = (orders \ {o}) \cup {n} /\ n = [o EXCEPT !.items = n.items]
      BY <1>3, PatchShape
  <2> PICK n \in Order :
            orders' = (orders \ {o}) \cup {n} /\ n = [o EXCEPT !.items = n.items]
      OBVIOUS
  <2>1. UNCHANGED <<stock, used>> /\ n \in orders'
      BY <1>3, PatchShape
  <2>2. Amend(o, n.items)
      BY <2>1 DEF Amend
  <2> QED
      BY <2>1, <2>2 DEF LedgerNext
<1> QED
    BY <1>1, <1>2, <1>3, Shape

\* The interleaved transactions implement indivisible order placement.
THEOREM ImplementsLedger == Spec => LedgerSpec
<1>1. Init => LedgerInit
    BY DEF Init
<1>2. IInv /\ [Next]_vars => [LedgerNext]_ledger
    BY LedgerStep
<1> QED
    BY <1>1, <1>2, Inductive, PTL DEF Spec, LedgerSpec

\* Stock and coupon counters move only with the order that accounts for them.
THEOREM OrdersAreAllOrNothing == Spec => AllOrNothing
<1> DEFINE Explained ==
        <<stock, used>>' # <<stock, used>> =>
            \E o \in orders' \ orders :
                /\ \A p \in Products : stock'[p] = stock[p] - o.units[p]
                /\ \A c \in Coupons :
                      used'[c] = used[c] + (IF c = o.coupon THEN 1 ELSE 0)
<1>1. ASSUME IInv, [Next]_vars
      PROVE  Explained
  <2>1. CASE UNCHANGED <<stock, used>>
      BY <2>1
  <2>2. ASSUME NEW n \in orders', Place(n)
        PROVE  Explained
    <3>1. n \in orders' \ orders
        BY <2>2 DEF Place, Fresh
    <3>2. \A p \in Products : stock'[p] = stock[p] - n.units[p]
        BY <2>2 DEF Place
    <3>3. \A c \in Coupons : used'[c] = used[c] + (IF c = n.coupon THEN 1 ELSE 0)
        BY <1>1, <2>2 DEF Place, IInv, TypeOK
    <3> QED
        BY <3>1, <3>2, <3>3
  <2>3. [LedgerNext]_ledger
      BY <1>1, LedgerStep
  <2> QED
      BY <2>1, <2>2, <2>3 DEF LedgerNext, Amend, ledger
<1>2. IInv /\ [Next]_vars => [Explained]_vars
    BY <1>1
<1> HIDE DEF Explained
<1>3. Spec => [][Explained]_vars
    BY <1>2, Inductive, PTL DEF Spec
<1> QED
    BY <1>3 DEF AllOrNothing, Explained

------------------------------------------------------------------------------
(***************************************************************************)
(* What a 409 tells.                                                       *)
(***************************************************************************)
\* As long as nobody has edited an order, its lines are those of the body it came from.
Unedited == patches = 0 => \A o \in orders : o.items = req[o.id].items

\* A step leaves x without a 409, or x keeps the one it had, or x was refused by a replay
\* check that saw the order of its key.
Refuted(x) ==
    /\ orders' = orders /\ req' = req /\ pc[x] \notin {"reserve", "done"}
    /\ \E o \in orders :
          /\ o.key = req[x].key
          /\ o.user = req[x].user => ~SameItems(o.items, req[x].items)

ConflictMove(x) ==
    answer'[x].status = "conflict" => answer'[x] = answer[x] \/ Refuted(x)

LEMMA ReplayConflict ==
    ASSUME TypeOK, NEW r \in Requests, NEW o \in orders, o.key = req[r].key,
           pc[r] \in {"lookup", "replay"}, Finish(r, ReplayOrConflict(r, o)),
           orders' = orders, req' = req, NEW x \in Requests
    PROVE  ConflictMove(x)
<1>1. CASE x # r
    BY <1>1 DEF Finish, TypeOK, ConflictMove
<1>2. CASE x = r
  <2>1. answer'[r] = ReplayOrConflict(r, o)
      BY DEF Finish, TypeOK
  <2>2. CASE o.user = req[r].user /\ SameItems(o.items, req[r].items)
      BY <1>2, <2>1, <2>2 DEF ReplayOrConflict, Answered, ConflictMove
  <2>3. CASE ~(o.user = req[r].user /\ SameItems(o.items, req[r].items))
      BY <1>2, <2>3 DEF ConflictMove, Refuted
  <2> QED
      BY <2>2, <2>3
<1> QED
    BY <1>1, <1>2

LEMMA ConflictShape ==
    ASSUME TypeOK, [Next]_vars, NEW x \in Requests
    PROVE  ConflictMove(x)
<1>1. ASSUME NEW r \in Requests, Handle(r)
      PROVE  ConflictMove(x)
  <2>1. CASE \/ OutOfStock(r) \/ ProductNotFound(r) \/ CouponRefused(r)
             \/ CouponUsedUp(r) \/ AbortDeadlocked(r) \/ Reserve(r)
    <3>1. \E status \in {"outOfStock", "notFound", "badCoupon", "usedUp", "error", "created"},
             o \in Requests \cup {NoOrder} : Finish(r, Answered(status, o))
        BY <2>1 DEF OutOfStock, ProductNotFound, CouponRefused, CouponUsedUp,
                    AbortDeadlocked, Reserve, Fail
    <3> QED
        BY <3>1 DEF Finish, Answered, TypeOK, ConflictMove
  <2>2. CASE LookUp(r)
    <3>1. CASE answer' = answer
        BY <3>1 DEF ConflictMove
    <3>2. CASE \E o \in orders : o.key = req[r].key /\ Finish(r, ReplayOrConflict(r, o))
        BY <2>2, <3>2, ReplayConflict DEF LookUp, ledger
    <3> QED
        BY <2>2, <3>1, <3>2 DEF LookUp
  <2>3. CASE ReplayAfterDuplicate(r)
      BY <2>3, ReplayConflict DEF ReplayAfterDuplicate, ledger
  <2>4. CASE \/ Begin(r) \/ TakeItem(r) \/ RedeemCoupon(r) \/ ReadMembership(r)
             \/ InsertOrder(r) \/ DuplicateKey(r) \/ Commit(r)
      BY <2>4 DEF Begin, TakeItem, RedeemCoupon, ReadMembership, InsertOrder,
                  DuplicateKey, Commit, ConflictMove
  <2> QED
      BY <1>1, <2>1, <2>2, <2>3, <2>4 DEF Handle
<1>2. ASSUME NEW r \in Requests, Submit(r)
      PROVE  ConflictMove(x)
    BY <1>2 DEF Submit, ConflictMove
<1>3. CASE Crash
    BY <1>3 DEF Crash, Answered, ConflictMove
<1>4. CASE (\E c \in Coupons : ExpireCoupon(c)) \/ Patched \/ UNCHANGED vars
    BY <1>4, PatchShape DEF ExpireCoupon, vars, handler, ConflictMove
<1> QED
    BY <1>1, <1>2, <1>3, <1>4 DEF Next, Patched

\* Until a PATCH, an order stays as its commit wrote it.
LEMMA UneditedStep ==
    ASSUME TypeOK, OrderIds, Unedited, [Next]_vars, patches' = 0
    PROVE  /\ patches = 0 /\ Unedited'
           /\ req' = req /\ orders \subseteq orders'
<1>1. patches = 0 /\ ~Patched
  <2>1. patches \in Nat
      BY CheckoutAssumption DEF TypeOK
  <2>2. ~Patched
    <3>1. Patched => patches' = patches + 1
        BY DEF Patched, PatchItem
    <3> QED
        BY <2>1, <3>1
  <2>3. patches' = patches
      BY <2>2 DEF Next, Patched, Submit, Handle, LookUp, Begin, TakeItem, OutOfStock,
         ProductNotFound, CouponRefused, RedeemCoupon, CouponUsedUp, ReadMembership,
         InsertOrder, DuplicateKey, Commit, ReplayAfterDuplicate, Reserve, AbortDeadlocked,
         Fail, ExpireCoupon, Crash, vars
  <2> QED
      BY <2>2, <2>3
<1>2. CASE Quiet \/ \E r \in Requests : InsertOrder(r)
    BY <1>1, <1>2 DEF Quiet, InsertOrder, ledger, Unedited
<1>3. CASE \E r \in Requests : Commit(r)
    BY <1>1, <1>3 DEF Commit, NewOrder, Unedited
<1> QED
    BY <1>1, <1>2, <1>3, Shape

LEMMA ConflictStep ==
    ASSUME TypeOK, OrderIds, Unedited, ConflictIsExplained, [Next]_vars
    PROVE  Unedited' /\ ConflictIsExplained'
<1>1. CASE patches' # 0
    BY <1>1 DEF Unedited, ConflictIsExplained
<1>2. CASE patches' = 0
  <2>1. /\ patches = 0 /\ Unedited'
        /\ req' = req /\ orders \subseteq orders'
      BY <1>2, UneditedStep
  <2>2. ASSUME NEW x \in Requests, answer'[x].status = "conflict"
        PROVE  \E o \in orders' :
                  /\ o.id # x /\ o.key = req'[x].key
                  /\ o.user = req'[x].user => ~SameItems(req'[o.id].items, req'[x].items)
    <3>1. CASE answer'[x] = answer[x]
        BY <2>1, <2>2, <3>1 DEF ConflictIsExplained
    <3>2. CASE Refuted(x)
        BY <2>1, <3>2 DEF Refuted, Unedited, OrderIds
    <3> QED
        BY <2>2, <3>1, <3>2, ConflictShape DEF ConflictMove
  <2> QED
      BY <2>1, <2>2 DEF ConflictIsExplained
<1> QED
    BY <1>1, <1>2

\* "... already used with a different request body": a 409 means that the key's order has
\* another owner or came from other lines, until an order is edited.
THEOREM ConflictsAreExplained == Spec => []ConflictIsExplained
<1>1. Init => Unedited /\ ConflictIsExplained
    BY DEF Init, LedgerInit, Unedited, ConflictIsExplained, Answered
<1>2. IInv /\ Unedited /\ ConflictIsExplained /\ [Next]_vars
         => (Unedited /\ ConflictIsExplained)'
    BY ConflictStep DEF IInv
<1> QED
    BY <1>1, <1>2, Inductive, PTL DEF Spec

------------------------------------------------------------------------------
(***************************************************************************)
(* The stock ledger.                                                       *)
(***************************************************************************)
\* Units of p in a set of orders, and of some of the lines of a body.
Sold(p, S) == MapThenSumSet(LAMBDA o : o.units[p], S)
Ordered(lines, S) == MapThenSumSet(LAMBDA i : lines[i].quantity, S)
LinesOf(lines, p) == {i \in DOMAIN lines : lines[i].product = p}

\* Orders add up.
LEMMA SoldIs ==
    ASSUME NEW p \in Products, NEW S \in SUBSET Order, IsFiniteSet(S)
    PROVE  Sold(p, S) = SumOf([o \in Order |-> o.units[p]], S)
<1> DEFINE F == [o \in Order |-> o.units[p]]
           Rec(g) == g = [s \in SUBSET S |->
                             IF s = {} THEN 0
                             ELSE (CHOOSE x \in s : TRUE).units[p]
                                     + g[s \ {CHOOSE x \in s : TRUE}]]
<1>1. Sold(p, S) = (CHOOSE g : Rec(g))[S]
    BY DEF Sold, MapThenSumSet, MapThenFoldSet
<1>2. ASSUME NEW g PROVE Rec(g) <=> Sums(F, g, S)
  <2>1. ASSUME NEW s \in SUBSET S, s # {}
        PROVE  Pick(s).units[p] = F[Pick(s)]
      BY <2>1, PickIsIn
  <2> HIDE DEF F
  <2>2. [s \in SUBSET S |-> IF s = {} THEN 0 ELSE Pick(s).units[p] + g[s \ {Pick(s)}]]
           = [s \in SUBSET S |-> IF s = {} THEN 0 ELSE F[Pick(s)] + g[s \ {Pick(s)}]]
      BY <2>1
  <2> QED
      BY <2>2 DEF Sums, Pick
<1> HIDE DEF F, Rec
<1>3. PICK h : Rec(h) /\ Sold(p, S) = h[S]
  <2>1. \E g : Rec(g)
      BY <1>2, SumsExist
  <2> QED
      BY <1>1, <2>1
<1>4. Sums(F, h, S)
    BY <1>2, <1>3
<1>5. SumOf(F, S) = h[S]
    BY <1>4, SumOfIs
<1> QED
    BY <1>3, <1>5 DEF F

\* So do lines.
LEMMA OrderedIs ==
    ASSUME NEW lines \in Seq(Line), NEW S \in SUBSET DOMAIN lines, IsFiniteSet(S)
    PROVE  Ordered(lines, S) = SumOf([i \in DOMAIN lines |-> lines[i].quantity], S)
<1> DEFINE F == [i \in DOMAIN lines |-> lines[i].quantity]
           Rec(g) == g = [s \in SUBSET S |->
                             IF s = {} THEN 0
                             ELSE lines[CHOOSE x \in s : TRUE].quantity
                                     + g[s \ {CHOOSE x \in s : TRUE}]]
<1>1. Ordered(lines, S) = (CHOOSE g : Rec(g))[S]
    BY DEF Ordered, MapThenSumSet, MapThenFoldSet
<1>2. ASSUME NEW g PROVE Rec(g) <=> Sums(F, g, S)
  <2>1. ASSUME NEW s \in SUBSET S, s # {}
        PROVE  lines[Pick(s)].quantity = F[Pick(s)]
      BY <2>1, PickIsIn
  <2> HIDE DEF F
  <2>2. [s \in SUBSET S |-> IF s = {} THEN 0 ELSE lines[Pick(s)].quantity + g[s \ {Pick(s)}]]
           = [s \in SUBSET S |-> IF s = {} THEN 0 ELSE F[Pick(s)] + g[s \ {Pick(s)}]]
      BY <2>1
  <2> QED
      BY <2>2 DEF Sums, Pick
<1> HIDE DEF F, Rec
<1>3. PICK h : Rec(h) /\ Ordered(lines, S) = h[S]
  <2>1. \E g : Rec(g)
      BY <1>2, SumsExist
  <2> QED
      BY <1>1, <2>1
<1>4. Sums(F, h, S)
    BY <1>2, <1>3
<1>5. SumOf(F, S) = h[S]
    BY <1>4, SumOfIs
<1> QED
    BY <1>3, <1>5 DEF F

\* A set of orders loses what one of them carries away.
LEMMA SoldWith ==
    ASSUME NEW p \in Products, NEW S \in SUBSET Order, IsFiniteSet(S)
    PROVE  /\ Sold(p, {}) = 0
           /\ Sold(p, S) \in Int
           /\ \A o \in S : Sold(p, S) = o.units[p] + Sold(p, S \ {o})
<1> DEFINE F == [o \in Order |-> o.units[p]]
<1>1. \A o \in Order : F[o] = o.units[p] /\ F[o] \in Int
    BY DEF Order, Units
<1>2. \A T \in SUBSET S : Sold(p, T) = SumOf(F, T)
    BY SoldIs, FS_Subset
<1> HIDE DEF F
<1>3. SumOf(F, {}) = 0 /\ SumOf(F, S) \in Int
    BY <1>1, SumOfAt, SumOfType
<1>4. \A o \in S : SumOf(F, S) = F[o] + SumOf(F, S \ {o})
    BY <1>1, SumOfWithout
<1> QED
    BY <1>1, <1>2, <1>3, <1>4

\* So do lines.
LEMMA OrderedWith ==
    ASSUME NEW lines \in Seq(Line), NEW S \in SUBSET DOMAIN lines
    PROVE  /\ Ordered(lines, {}) = 0
           /\ Ordered(lines, S) \in Int
           /\ \A i \in S : Ordered(lines, S) = lines[i].quantity + Ordered(lines, S \ {i})
<1> DEFINE F == [i \in DOMAIN lines |-> lines[i].quantity]
<1>0. IsFiniteSet(S)
  <2>1. DOMAIN lines = 1..Len(lines) /\ Len(lines) \in Nat
      OBVIOUS
  <2> HIDE DEF F
  <2>2. IsFiniteSet(1..Len(lines))
      BY <2>1, FS_Interval
  <2> QED
      BY <2>1, <2>2, FS_Subset
<1>1. \A i \in DOMAIN lines : F[i] = lines[i].quantity /\ F[i] \in Int
  <2>1. \A i \in DOMAIN lines : lines[i] \in Line
      OBVIOUS
  <2> QED
      BY <2>1 DEF Line
<1>2. \A T \in SUBSET S : Ordered(lines, T) = SumOf(F, T)
    BY <1>0, OrderedIs, FS_Subset
<1> HIDE DEF F
<1>3. SumOf(F, {}) = 0 /\ SumOf(F, S) \in Int
    BY <1>0, <1>1, SumOfAt, SumOfType
<1>4. \A i \in S : SumOf(F, S) = F[i] + SumOf(F, S \ {i})
  <2>1. \A i \in S : F[i] \in Int
      BY <1>1
  <2> QED
      BY <1>0, <2>1, SumOfWithout
<1> QED
    BY <1>1, <1>2, <1>3, <1>4

\* The lines of p that r's open transaction is past.
LinesPast(r, p) ==
    {i \in LinesOf(req[r].items, p) :
        pc[r] \in InTransaction /\ (pc[r] = "items" => i < pos[r])}

\* What a transaction has taken is what the lines it is past ask for.
TakenSoFar ==
    /\ \A r \in Requests : pc[r] \in {"idle", "lookup", "begin"} => pos[r] = 1
    /\ \A r \in Requests, p \in Products :
          taken[r][p] = Ordered(req[r].items, LinesPast(r, p))

Balanced ==
    \A p \in Products : stock[p] + Sold(p, orders) = InitialStock[p]

SoldAsOrdered ==
    patches = 0 =>
        \A o \in orders, p \in Products : o.units[p] = Ordered(o.items, LinesOf(o.items, p))

Before == {"idle", "lookup", "begin"}

\* What a step does to the transaction of x: it ends it, goes on without touching the
\* stock, or takes the line it is at.
TransactionMove(x) ==
    /\ req' = req
    /\ pc'[x] \in Before => pc[x] \in Before /\ pos'[x] = pos[x]
    /\ \/ taken'[x] = NoUnits /\ pc'[x] \notin InTransaction
       \/ /\ taken'[x] = taken[x] /\ pos'[x] = pos[x]
          /\ \/ pc'[x] = pc[x]
             \/ {pc[x], pc'[x]} \cap InTransaction = {}
             \/ {pc[x], pc'[x]} \subseteq InTransaction \ {"items"}
             \/ pc[x] = "begin" /\ pc'[x] = "items"
       \/ TakeItem(x)

LEMMA TransactionShape ==
    ASSUME TypeOK, [Next]_vars, NEW x \in Requests
    PROVE  TransactionMove(x)
<1> USE DEF TransactionMove, Before, InTransaction, Goto, Finish
<1>1. ASSUME NEW r \in Requests, Handle(r)
      PROVE  TransactionMove(x)
  <2>1. CASE \/ OutOfStock(r) \/ ProductNotFound(r) \/ CouponRefused(r)
             \/ CouponUsedUp(r) \/ AbortDeadlocked(r)
    <3>1. \E s \in Statuses : Fail(r, s)
        BY <2>1 DEF OutOfStock, ProductNotFound, CouponRefused, CouponUsedUp,
                    AbortDeadlocked, Statuses, Refusals
    <3> QED
        BY <3>1 DEF Fail, EndTransaction, TypeOK
  <2>2. CASE DuplicateKey(r) \/ Commit(r)
      BY <2>2 DEF DuplicateKey, Commit, EndTransaction, TypeOK
  <2>3. CASE LookUp(r) \/ ReplayAfterDuplicate(r) \/ Reserve(r)
    <3>1. /\ UNCHANGED <<req, taken, pos>>
          /\ \E to \in {"begin", "done"} : pc' = [pc EXCEPT ![r] = to]
          /\ pc[r] \in {"lookup", "replay", "reserve"}
        BY <2>3 DEF LookUp, ReplayAfterDuplicate, Reserve
    <3>2. pc[r] = "lookup" \/ pc' = [pc EXCEPT ![r] = "done"]
        BY <2>3 DEF LookUp, ReplayAfterDuplicate, Reserve
    <3> QED
        BY <3>1, <3>2 DEF TypeOK
  <2>4. CASE Begin(r) \/ RedeemCoupon(r) \/ ReadMembership(r) \/ InsertOrder(r)
    <3>1. /\ UNCHANGED <<req, taken, pos>>
          /\ \/ pc[r] = "begin" /\ pc' = [pc EXCEPT ![r] = "items"]
             \/ pc[r] = "coupon" /\ pc' = [pc EXCEPT ![r] = "membership"]
             \/ pc[r] = "membership" /\ pc' = [pc EXCEPT ![r] = "insert"]
             \/ pc[r] = "insert" /\ pc' = [pc EXCEPT ![r] = "commit"]
        BY <2>4 DEF Begin, RedeemCoupon, CouponAccepted, ReadMembership, InsertOrder
    <3> QED
        BY <3>1 DEF TypeOK
  <2>5. CASE TakeItem(r)
      BY <2>5 DEF TakeItem, TypeOK
  <2> QED
      BY <1>1, <2>1, <2>2, <2>3, <2>4, <2>5 DEF Handle
<1>2. ASSUME NEW r \in Requests, Submit(r)
      PROVE  TransactionMove(x)
    BY <1>2 DEF Submit, TypeOK
<1>3. CASE Crash
    BY <1>3 DEF Crash, TypeOK
<1>4. CASE (\E c \in Coupons : ExpireCoupon(c)) \/ Patched \/ UNCHANGED vars
    BY <1>4, PatchShape DEF ExpireCoupon, vars, handler
<1> QED
    BY <1>1, <1>2, <1>3, <1>4 DEF Next, Patched

LEMMA TakenStep ==
    ASSUME TypeOK, TakenSoFar, [Next]_vars
    PROVE  TakenSoFar'
<1>1. ASSUME NEW x \in Requests, NEW p \in Products
      PROVE  taken'[x][p] = Ordered(req'[x].items, LinesPast(x, p)')
  <2> DEFINE lines == req[x].items
  <2>0. /\ TransactionMove(x) /\ req' = req
        /\ lines \in Seq(Line)
        /\ taken[x][p] = Ordered(lines, LinesPast(x, p))
        /\ pc[x] \in Before => pos[x] = 1
      BY TransactionShape, LineType DEF TransactionMove, TakenSoFar, Before
  <2>1. Ordered(lines, {}) = 0
      BY <2>0, OrderedWith
  <2>2. CASE taken'[x] = NoUnits /\ pc'[x] \notin InTransaction
    <3>1. LinesPast(x, p)' = {}
        BY <2>2 DEF LinesPast
    <3> QED
        BY <2>0, <2>1, <2>2, <3>1 DEF NoUnits
  <2>3. CASE /\ taken'[x] = taken[x] /\ pos'[x] = pos[x]
             /\ \/ pc'[x] = pc[x]
                \/ {pc[x], pc'[x]} \cap InTransaction = {}
                \/ {pc[x], pc'[x]} \subseteq InTransaction \ {"items"}
                \/ pc[x] = "begin" /\ pc'[x] = "items"
    <3>1. LinesPast(x, p)' = LinesPast(x, p)
      <4>1. CASE pc'[x] = pc[x] \/ {pc[x], pc'[x]} \cap InTransaction = {}
                 \/ {pc[x], pc'[x]} \subseteq InTransaction \ {"items"}
          BY <2>0, <2>3, <4>1 DEF LinesPast
      <4>2. CASE pc[x] = "begin" /\ pc'[x] = "items"
        <5>1. pos'[x] = 1
            BY <2>0, <2>3, <4>2 DEF Before
        <5>2. \A i \in DOMAIN lines : ~(i < 1)
            BY <2>0
        <5> QED
            BY <2>0, <4>2, <5>1, <5>2 DEF LinesPast, LinesOf, InTransaction
      <4> QED
          BY <2>3, <4>1, <4>2
    <3> QED
        BY <2>0, <2>3, <3>1
  <2>4. CASE TakeItem(x)
    <3> DEFINE k == pos[x]
               q == LineOf(x).quantity
               Old == LinesPast(x, p)
               New == LinesPast(x, p)'
    <3>1. /\ k \in DOMAIN lines /\ LineOf(x) = lines[k] /\ q \in Nat
          /\ DOMAIN lines = 1..Len(lines) /\ Len(lines) \in Nat
        BY <2>0, LineType DEF TypeOK, LineOf
    <3>2. Old = {i \in LinesOf(lines, p) : i < k}
        BY <2>4 DEF TakeItem, LinesPast, InTransaction
    <3>3. New = {i \in LinesOf(lines, p) : i <= k}
      <4>1. CASE LastLine(x)
        <5>1. pc'[x] \in {"membership", "coupon"} /\ k = Len(lines)
            BY <2>4, <4>1 DEF TakeItem, Goto, TypeOK, LastLine
        <5>2. New = LinesOf(lines, p)
            BY <2>0, <5>1 DEF LinesPast, InTransaction
        <5>3. \A i \in DOMAIN lines : i <= k
            BY <3>1, <5>1
        <5> QED
            BY <5>2, <5>3 DEF LinesOf
      <4>2. CASE ~LastLine(x)
        <5>1. pc'[x] = "items" /\ pos'[x] = k + 1
            BY <2>4, <4>2 DEF TakeItem, TypeOK
        <5>2. New = {i \in LinesOf(lines, p) : i < k + 1}
            BY <2>0, <5>1 DEF LinesPast, InTransaction
        <5>3. \A i \in DOMAIN lines : i < k + 1 <=> i <= k
            BY <3>1
        <5> QED
            BY <5>2, <5>3 DEF LinesOf
      <4> QED
          BY <4>1, <4>2
    <3>4. /\ taken'[x][p] = IF p = LineOf(x).product THEN taken[x][p] + q ELSE taken[x][p]
          /\ taken[x][p] \in Int
        BY <2>4 DEF TakeItem, TypeOK, Units
    <3>5. New \in SUBSET DOMAIN lines /\ Old \in SUBSET DOMAIN lines
        BY <3>2, <3>3 DEF LinesOf
    <3> HIDE DEF Old, New
    <3>6. CASE p = LineOf(x).product
      <4>1. k \in New /\ New \ {k} = Old
        <5>1. k \in LinesOf(lines, p)
            BY <3>1, <3>6 DEF LinesOf
        <5>2. \A i \in LinesOf(lines, p) : i \in Int
            BY <3>1 DEF LinesOf
        <5>3. k \in New
            BY <3>1, <3>3, <5>1
        <5> HIDE DEF k, lines
        <5>4. \A i \in LinesOf(lines, p) : (i <= k /\ i # k) <=> i < k
            BY <3>1, <5>2
        <5> QED
            BY <3>2, <3>3, <5>3, <5>4
      <4>2. Ordered(lines, New) = lines[k].quantity + Ordered(lines, New \ {k})
          BY <2>0, <3>5, <4>1, OrderedWith
      <4>3. taken[x][p] = Ordered(lines, Old)
          BY <2>0 DEF Old
      <4>4. lines[k].quantity = q
          BY <3>1
      <4>5. taken'[x][p] = taken[x][p] + q
          BY <3>4, <3>6
      <4> HIDE DEF q, k, lines
      <4>6. Ordered(lines, New) = q + Ordered(lines, Old)
          BY <4>1, <4>2, <4>4
      <4>7. taken[x][p] \in Int /\ q \in Int
          BY <3>1, <3>4
      <4>8. taken'[x][p] = Ordered(lines, New)
          BY <4>3, <4>5, <4>6, <4>7
      <4> QED
          BY <2>0, <4>8 DEF New, lines
    <3>7. CASE p # LineOf(x).product
      <4>1. New = Old
          BY <3>1, <3>2, <3>3, <3>7 DEF LinesOf
      <4> QED
          BY <2>0, <3>4, <3>7, <4>1 DEF Old, New
    <3> QED
        BY <3>6, <3>7
  <2> QED
      BY <2>0, <2>2, <2>3, <2>4 DEF TransactionMove
<1>2. ASSUME NEW x \in Requests, pc'[x] \in Before
      PROVE  pos'[x] = 1
    BY <1>2, TransactionShape DEF TransactionMove, TakenSoFar, Before
<1> QED
    BY <1>1, <1>2 DEF TakenSoFar, Before

\* Only a commit moves stock into orders; a PATCH carries the units over.
LEMMA BalancedStep ==
    ASSUME TypeOK, OrderIds, CouponCount, Balanced, [Next]_vars
    PROVE  Balanced'
<1> SUFFICES ASSUME NEW p \in Products
             PROVE  stock'[p] + Sold(p, orders') = InitialStock[p]
    BY DEF Balanced
<1>0. /\ orders \in SUBSET Order /\ IsFiniteSet(orders)
      /\ stock[p] + Sold(p, orders) = InitialStock[p]
      /\ stock[p] \in Int /\ Sold(p, orders) \in Int
    BY SoldWith DEF TypeOK, CouponCount, Balanced
<1>1. CASE Quiet \/ \E r \in Requests : InsertOrder(r)
    BY <1>0, <1>1 DEF Quiet, InsertOrder, ledger
<1>2. ASSUME NEW r \in Requests, Commit(r)
      PROVE  stock'[p] + Sold(p, orders') = InitialStock[p]
  <2> DEFINE n == NewOrder(r)
  <2>1. /\ n \in Order /\ n.units[p] = taken[r][p] /\ taken[r][p] \in Int
        /\ stock'[p] = stock[p] - taken[r][p]
        /\ orders' = orders \cup {n}
      BY <1>2, NewOrderType DEF Commit, NewOrder, TypeOK, Units
  <2>2. n \notin orders
      BY <1>2 DEF Commit, OrderIds, NewOrder
  <2> HIDE DEF n
  <2>3. /\ orders' \in SUBSET Order /\ IsFiniteSet(orders')
        /\ n \in orders' /\ orders' \ {n} = orders
      BY <1>0, <2>1, <2>2, FS_AddElement
  <2>4. Sold(p, orders') = n.units[p] + Sold(p, orders)
      BY <2>3, SoldWith
  <2> QED
      BY <1>0, <2>1, <2>4
<1>3. CASE Patched
  <2>1. PICK o \in orders, n \in Order :
            /\ orders' = (orders \ {o}) \cup {n}
            /\ n = [o EXCEPT !.items = n.items]
            /\ n.id = o.id /\ n.units = o.units
      BY <1>3, PatchShape
  <2>2. stock' = stock
      BY <1>3, PatchShape
  <2> DEFINE rest == orders \ {o}
  <2>3. n \notin rest
      BY <2>1 DEF OrderIds
  <2>4. /\ orders' \in SUBSET Order
        /\ n \in orders' /\ orders' \ {n} = rest
      BY <1>0, <2>1, <2>3
  <2>5. IsFiniteSet(orders')
    <3>1. IsFiniteSet(rest)
        BY <1>0, FS_Subset
    <3> HIDE DEF rest
    <3>2. IsFiniteSet(rest \cup {n})
        BY <3>1, FS_AddElement
    <3> QED
        BY <2>1, <3>2 DEF rest
  <2>6. /\ Sold(p, orders') = n.units[p] + Sold(p, rest)
        /\ Sold(p, orders) = o.units[p] + Sold(p, rest)
      BY <1>0, <2>4, <2>5, SoldWith
  <2> QED
      BY <1>0, <2>1, <2>2, <2>6
<1> QED
    BY <1>1, <1>2, <1>3, Shape

\* What is committed is what the lines asked for, until one is edited.
LEMMA SoldAsOrderedStep ==
    ASSUME TypeOK, OrderIds, Unedited, TakenSoFar, SoldAsOrdered, [Next]_vars
    PROVE  SoldAsOrdered'
<1> SUFFICES ASSUME patches' = 0, NEW o \in orders', NEW p \in Products
             PROVE  o.units[p] = Ordered(o.items, LinesOf(o.items, p))
    BY DEF SoldAsOrdered
<1>0. patches = 0
    BY UneditedStep
<1>1. CASE o \in orders
    BY <1>0, <1>1 DEF SoldAsOrdered
<1>2. CASE o \notin orders
  <2>1. ~Patched
    <3>1. patches \in Nat
        BY CheckoutAssumption DEF TypeOK
    <3>2. Patched => patches' = patches + 1
        BY DEF Patched, PatchItem
    <3> QED
        BY <1>0, <3>1, <3>2
  <2>2. PICK r \in Requests : Commit(r)
      BY <1>2, <2>1, Shape DEF Quiet, InsertOrder, ledger
  <2>3. o = NewOrder(r) /\ pc[r] = "commit"
      BY <1>2, <2>2 DEF Commit
  <2>4. o.units = taken[r] /\ o.items = req[r].items
      BY <2>3 DEF NewOrder
  <2>5. LinesPast(r, p) = LinesOf(req[r].items, p)
      BY <2>3 DEF LinesPast, LinesOf, InTransaction
  <2>6. taken[r][p] = Ordered(req[r].items, LinesPast(r, p))
      BY DEF TakenSoFar
  <2> QED
      BY <2>4, <2>5, <2>6
<1> QED
    BY <1>1, <1>2

LedgerInv == Unedited /\ TakenSoFar /\ Balanced /\ SoldAsOrdered

LEMMA InitLedger == Init => LedgerInv
<1> SUFFICES ASSUME Init PROVE LedgerInv
    OBVIOUS
<1>1. TakenSoFar
  <2> SUFFICES ASSUME NEW r \in Requests, NEW p \in Products
               PROVE  taken[r][p] = Ordered(req[r].items, LinesPast(r, p))
      BY DEF Init, TakenSoFar
  <2>1. LinesPast(r, p) = {}
      BY DEF Init, LinesPast, InTransaction
  <2>2. Ordered(req[r].items, {}) = 0
      BY InitType, LineType, OrderedWith
  <2> QED
      BY <2>1, <2>2 DEF Init, NoUnits
<1>2. Balanced
  <2> SUFFICES ASSUME NEW p \in Products
               PROVE  stock[p] + Sold(p, orders) = InitialStock[p]
      BY DEF Balanced
  <2>1. Sold(p, {}) = 0
      BY SoldWith, FS_EmptySet
  <2>2. stock[p] = InitialStock[p] /\ InitialStock[p] \in Int /\ orders = {}
      BY LedgerAssumption DEF Init, LedgerInit
  <2> QED
      BY <2>1, <2>2
<1> QED
    BY <1>1, <1>2 DEF Init, LedgerInit, LedgerInv, Unedited, SoldAsOrdered

\* Nothing is sold twice and nothing leaks: committed stock and the units of the committed
\* orders always add up to the initial stock, and until a PATCH the units are the items'.
THEOREM NothingLeaks == Spec => []StockLedger
<1>1. IInv /\ LedgerInv /\ [Next]_vars => LedgerInv'
  <2> SUFFICES ASSUME IInv, LedgerInv, [Next]_vars PROVE LedgerInv'
      OBVIOUS
  <2>1. TypeOK /\ OrderIds /\ CouponCount /\ Unedited /\ TakenSoFar /\ Balanced /\ SoldAsOrdered
      BY DEF IInv, LedgerInv
  <2>2. Unedited'
    <3>1. CASE patches' = 0
        BY <2>1, <3>1, UneditedStep
    <3>2. CASE patches' # 0
        BY <3>2 DEF Unedited
    <3> QED
        BY <3>1, <3>2
  <2>3. TakenSoFar' /\ Balanced' /\ SoldAsOrdered'
      BY <2>1, TakenStep, BalancedStep, SoldAsOrderedStep
  <2> QED
      BY <2>2, <2>3 DEF LedgerInv
<1>2. LedgerInv => StockLedger
    BY DEF LedgerInv, Balanced, SoldAsOrdered, StockLedger, Sold, Ordered, LinesOf
<1> QED
    BY <1>1, <1>2, InitLedger, Inductive, PTL DEF Spec

------------------------------------------------------------------------------
(***************************************************************************)
(* The cart takes an order as one step of the ledger: Cart over the stock, *)
(* used and orders that Checkout is proved to keep as OrderLedger says,    *)
(* with handlers and lines of its own.  First its keys.                    *)
(***************************************************************************)
\* No two orders share a key, and whoever was given an order under a key has one.
CartKeys ==
    /\ cartPc \in [Requests -> CartStages] /\ cartAnswer \in [Requests -> CartAnswers]
    /\ \A a, b \in orders : a.key = b.key /\ a.key # NoKey => a = b
    /\ \A r \in Requests :
          cartPc[r] = "created" \/ cartAnswer[r] \in {"created", "replayed"} =>
              cartReq[r].key = NoKey \/ \E o \in orders : o.key = cartReq[r].key

\* What a step of r may do to its stage, its answer and the orders.
CartStep(r) ==
    /\ cartReq' = cartReq
    /\ \E to \in CartStages, said \in CartAnswers :
          /\ cartPc' = [cartPc EXCEPT ![r] = to]
          /\ cartAnswer' = [cartAnswer EXCEPT ![r] = said]
          /\ \/ /\ orders' = orders /\ to # "created"
                /\ said \in {"created", "replayed"} =>
                      \/ said = cartAnswer[r] \/ cartPc[r] = "created"
                      \/ Holders(r) # {}
             \/ /\ said = cartAnswer[r]
                /\ \E o : /\ orders' = orders \cup {o} /\ KeyFree(o.key)
                          /\ o.key = cartReq[r].key

\* Its handlers do no more.
LEMMA CartMoves ==
    ASSUME CartKeys, NEW r \in Requests, CartSubmit(r) \/ CartHandle(r)
    PROVE  CartStep(r)
<1>a. /\ cartPc \in [Requests -> CartStages] /\ cartAnswer \in [Requests -> CartAnswers]
      /\ cartAnswer = [cartAnswer EXCEPT ![r] = cartAnswer[r]] /\ cartAnswer[r] \in CartAnswers
    BY DEF CartKeys
<1> DEFINE On == cartReq' = cartReq /\ orders' = orders
           Goes(to) == On /\ CartGoto(r, to) /\ cartAnswer' = cartAnswer
           Ends(said) == On /\ CartFinish(r, said)
<1>g. ASSUME NEW to \in CartStages, to # "created", Goes(to) PROVE CartStep(r)
    BY <1>g, <1>a DEF CartStep, CartGoto
<1>f. ASSUME NEW said \in CartAnswers, Ends(said),
             \/ said \notin {"created", "replayed"}
             \/ cartPc[r] = "created" \/ Holders(r) # {}
      PROVE  CartStep(r)
  <2>1. /\ cartPc' = [cartPc EXCEPT ![r] = "done"]
        /\ cartAnswer' = [cartAnswer EXCEPT ![r] = said]
      BY <1>f DEF CartFinish, CartGoto
  <2>2. "done" \in CartStages \ {"created"}
      BY DEF CartStages
  <2> QED
      BY <1>f, <2>1, <2>2 DEF CartStep
<1>h. ASSUME NEW o \in Holders(r), NEW same, Ends(ReplayOf(r, o, same))
      PROVE  CartStep(r)
  <2>1. ReplayOf(r, o, same) = "replayed" \/ ReplayOf(r, o, same) = "conflict"
      BY DEF ReplayOf
  <2>2. Ends("replayed") \/ Ends("conflict")
      BY <1>h, <2>1
  <2>3. "replayed" \in CartAnswers /\ "conflict" \in CartAnswers /\ Holders(r) # {}
      BY DEF CartAnswers
  <2> QED
      BY <1>f, <2>2, <2>3
<1>1. CASE CartSubmit(r)
  <2>1. \E to \in {"find", "read", "lookup"} : Goes(to)
      BY <1>1 DEF CartSubmit, ledger
  <2> QED
      BY <2>1, <1>g DEF CartStages
<1>2. CASE FindForAdd(r) \/ InsertLost(r)
  <2>1. \E to \in {"insert", "increment", "merge"} : Goes(to)
      BY <1>2 DEF FindForAdd, InsertLost, ledger
  <2> QED
      BY <2>1, <1>g DEF CartStages
<1>3. CASE \/ Increment(r) \/ InsertLine(r) \/ Merge(r)
           \/ SaveUpdate(r) \/ SaveInsert(r) \/ DeleteLine(r)
  <2>1. \E said \in {"ok", "error"} : Ends(said)
      BY <1>3 DEF Increment, InsertLine, Merge, SaveUpdate,
                  SaveInsert, DeleteLine, ledger
  <2> QED
      BY <2>1, <1>f DEF CartAnswers
<1>4. CASE FindOwnItem(r) \/ SaveSelect(r)
  <2>1. \/ \E to \in {"save", "delete", "saveInsert", "saveUpdate"} : Goes(to)
        \/ \E said \in {"ok", "notFound"} : Ends(said)
      BY <1>4 DEF FindOwnItem, SaveSelect, ledger
  <2> QED
      BY <2>1, <1>f, <1>g DEF CartAnswers, CartStages
<1>5. CASE CartLookUp(r) \/ PreCheck(r)
  <2>1. \/ \E to \in {"read", "place"} : Goes(to)
        \/ \E o \in Holders(r), same \in BOOLEAN : Ends(ReplayOf(r, o, same))
      BY <1>5 DEF CartLookUp, PreCheck, ledger
  <2> QED
      BY <2>1, <1>g, <1>h DEF CartStages
<1>6. CASE ReadCart(r)
  <2>1. Ends("emptyCart") \/ \E to \in {"place", "precheck"} : Goes(to)
      BY <1>6 DEF ReadCart, ledger
  <2> QED
      BY <2>1, <1>f, <1>g DEF CartAnswers, CartStages
<1>7. CASE PlaceOrder(r)
  <2>1. PICK o : o = SnapshotOrder(r) /\ Place(o)
      BY <1>7 DEF PlaceOrder
  <2>2. o.key = cartReq[r].key
      BY <2>1 DEF SnapshotOrder
  <2>3. /\ cartPc' = [cartPc EXCEPT ![r] = "created"] /\ cartReq' = cartReq
        /\ cartAnswer' = cartAnswer
      BY <1>7 DEF PlaceOrder, CartGoto
  <2>4. orders' = orders \cup {o} /\ KeyFree(o.key)
      BY <2>1 DEF Place
  <2>5. "created" \in CartStages
      BY DEF CartStages
  <2> QED
      BY <1>a, <2>2, <2>3, <2>4, <2>5 DEF CartStep
<1>8. CASE PlaceFails(r)
  <2>1. Ends("outOfStock") \/ \E o \in Holders(r) : Ends(ReplayOf(r, o, TRUE))
      BY <1>8 DEF PlaceFails, ledger
  <2> QED
      BY <2>1, <1>f, <1>h DEF CartAnswers
<1>9. CASE ClearCart(r)
  <2>1. cartPc[r] = "created" /\ (Ends("created") \/ Ends("error"))
      BY <1>9 DEF ClearCart, ledger
  <2> QED
      BY <2>1, <1>f DEF CartAnswers
<1> QED
    BY <1>1, <1>2, <1>3, <1>4, <1>5, <1>6, <1>7, <1>8, <1>9 DEF CartHandle

\* A retried checkout never charges twice (OneCheckoutPerKey): CartService.checkout looks
\* the key up, OrdersService.create looks it up again, the unique constraint decides; what
\* is answered 200 or 201 under a key stands for its one order, however the retries race.
THEOREM CartsAreOrderedOnce == CartSpec => []OneCheckoutPerKey
<1>1. CartInit => CartKeys
    BY DEF CartInit, LedgerInit, CartKeys, CartStages, CartAnswers
<1>2. CartKeys /\ [CartNext]_(cartVars) => CartKeys'
  <2> SUFFICES ASSUME CartKeys, [CartNext]_(cartVars) PROVE CartKeys'
      OBVIOUS
  <2>1. CASE UNCHANGED cartVars
      BY <2>1 DEF cartVars, ledger, CartKeys
  <2>2. ASSUME NEW r \in Requests, CartStep(r) PROVE CartKeys'
    <3>1. PICK to \in CartStages, said \in CartAnswers :
              /\ cartPc' = [cartPc EXCEPT ![r] = to]
              /\ cartAnswer' = [cartAnswer EXCEPT ![r] = said]
              /\ \/ /\ orders' = orders /\ to # "created"
                    /\ said \in {"created", "replayed"} =>
                          \/ said = cartAnswer[r] \/ cartPc[r] = "created"
                          \/ Holders(r) # {}
                 \/ /\ said = cartAnswer[r]
                    /\ \E o : /\ orders' = orders \cup {o} /\ KeyFree(o.key)
                              /\ o.key = cartReq[r].key
        BY <2>2 DEF CartStep
    <3>2. cartReq' = cartReq
        BY <2>2 DEF CartStep
    <3>3. /\ cartPc' \in [Requests -> CartStages] /\ cartAnswer' \in [Requests -> CartAnswers]
          /\ \A s \in Requests : cartPc'[s] = IF s = r THEN to ELSE cartPc[s]
          /\ \A s \in Requests : cartAnswer'[s] = IF s = r THEN said ELSE cartAnswer[s]
        BY <3>1 DEF CartKeys
    <3>4. CASE orders' = orders
      <4>1. Holders(r) # {} => \E o \in orders : o.key = cartReq[r].key
          BY DEF Holders
      <4>2. (\E o : orders' = orders \cup {o} /\ o.key = cartReq[r].key) =>
                \E o \in orders : o.key = cartReq[r].key
          BY <3>4
      <4> QED
          BY <3>1, <3>2, <3>3, <3>4, <4>1, <4>2 DEF CartKeys
    <3>5. CASE orders' # orders
      <4>1. PICK o : /\ orders' = orders \cup {o} /\ KeyFree(o.key)
                     /\ o.key = cartReq[r].key
          BY <3>1, <3>5
      <4>2. \A a, b \in orders' : a.key = b.key /\ a.key # NoKey => a = b
          BY <4>1 DEF KeyFree, CartKeys
      <4> QED
          BY <3>2, <3>3, <4>1, <4>2, <3>1, <3>5 DEF CartKeys
    <3> QED
        BY <3>4, <3>5
  <2> QED
      BY <2>1, <2>2, CartMoves DEF CartNext
<1>3. CartKeys => OneCheckoutPerKey
  <2> SUFFICES ASSUME CartKeys PROVE OneCheckoutPerKey
      OBVIOUS
  <2>1. ASSUME NEW k \in Keys, NEW r \in Requests, cartReq[r].key = k,
               cartAnswer[r] \in {"created", "replayed"}
        PROVE  Cardinality({o \in orders : o.key = k}) = 1
    <3>1. k # NoKey
        BY LedgerAssumption
    <3>2. PICK o \in orders : o.key = k
        BY <2>1, <3>1 DEF CartKeys
    <3>3. {x \in orders : x.key = k} = {o}
        BY <3>1, <3>2 DEF CartKeys
    <3>4. Cardinality({o}) = 1
        BY FS_Singleton
    <3> QED
        BY <3>3, <3>4
  <2> QED
      BY <2>1 DEF OneCheckoutPerKey
<1> QED
    BY <1>1, <1>2, <1>3, PTL DEF CartSpec

------------------------------------------------------------------------------
(***************************************************************************)
(* The lines of the cart.  An id names the product of its line for good,   *)
(* so that what a request found is still of that product when it acts.     *)
(***************************************************************************)
\* An id tells the product of its line: a line of the beginning, or of the add it names.
Tells(row) ==
    IF row.id \in Requests
    THEN cartPc[row.id] = "done" /\ row.product = cartReq[row.id].product
    ELSE \E i \in InitialRows : i.id = row.id /\ i.product = row.product

\* UNIQUE (cart, product), which holds of every copy too.
OneLineEach(lines) == \A a, b \in lines : a.product = b.product => a = b

LinesTell ==
    /\ OneLineEach(rows) /\ \A row \in rows : Tells(row)
    /\ \A r \in Requests : OneLineEach(copy[r]) /\ \A row \in copy[r] : Tells(row)

\* Where a request stands tells what it asked for, and what it holds.
CartStageTells ==
    \A r \in Requests :
        /\ cartPc[r] # "done" => cartAnswer[r] = "none"
        /\ cartPc[r] = "find" => cartReq[r].op # "checkout"
        /\ cartPc[r] \in {"insert", "increment", "merge"} => cartReq[r].op = "add"
        /\ cartPc[r] = "increment" => \A row \in copy[r] : row.product = cartReq[r].product
        /\ cartPc[r] \in {"save", "saveUpdate", "saveInsert"} =>
              cartReq[r].op = "update" /\ copy[r] # {}
        /\ cartPc[r] = "delete" => cartReq[r].op = "remove"
        /\ cartPc[r] \in {"lookup", "read", "precheck", "place", "created"} =>
              cartReq[r].op = "checkout"
        /\ cartPc[r] = "created" => \E o \in orders : o.id = r

\* Sums are over finite sets, of natural numbers.
Summable ==
    /\ IsFiniteSet(orders) /\ \A o \in orders : o.units \in Units
    /\ IsFiniteSet({r \in Requests : cartAnswer[r] = "ok"})
    /\ late \subseteq {r \in Requests : cartAnswer[r] = "ok"}

CartInv == CartTypeOK /\ LinesTell /\ CartStageTells /\ Summable

\* While requests only add, the lines are what there was and what was sent.
OnlyAdds == \A r \in Requests : cartReq[r].op = "add"

AddsAddUp ==
    OnlyAdds =>
        \A p \in Products : QuantityOf(p, rows) = QuantityOf(p, InitialRows) + Sent(Added(p))

\* What the cart must answer for, of product p.
Due(p) == QuantityOf(p, InitialRows) + Sent(Added(p) \ late)

OnlyAddsAndCheckouts == \A r \in Requests : cartReq[r].op \in {"add", "checkout"}

\* While a checkout holds a copy nothing more falls due: what it read is in its copy or
\* was ordered, and what it placed is ordered.
HeldOrOrdered ==
    OnlyAddsAndCheckouts =>
        \A p \in Products :
            /\ QuantityOf(p, rows) + Bought(p) >= Due(p)
            /\ \A r \in Requests :
                  /\ cartPc[r] \in {"precheck", "place"} =>
                        QuantityOf(p, copy[r]) + Bought(p) >= Due(p)
                  /\ cartPc[r] = "created" => Bought(p) >= Due(p)

\* The units of a product are those of its one line.
LEMMA QuantityIs ==
    ASSUME NEW lines \in SUBSET Row, OneLineEach(lines), NEW p
    PROVE  /\ QuantityOf(p, lines) \in Nat
           /\ \A row \in lines : row.product = p => QuantityOf(p, lines) = row.quantity
           /\ (\A row \in lines : row.product # p) => QuantityOf(p, lines) = 0
<1> DEFINE F == [row \in lines |-> row.quantity]
           S == {row \in lines : row.product = p}
<1>1. QuantityOf(p, lines) = SumFunctionOnSet(F, S)
  BY DEF QuantityOf
<1>2. \A row \in S : F[row] = row.quantity /\ F[row] \in Nat
  BY DEF Row
<1>3. S = {} \/ \E row \in S : S = {row}
  BY DEF OneLineEach
<1>4. \A row \in lines : row.product = p <=> row \in S
  OBVIOUS
<1> HIDE DEF F, S
<1>5. IsFiniteSet(S)
  <2>1. CASE S = {}
    BY <2>1, FS_EmptySet
  <2>2. CASE \E row \in S : S = {row}
    <3>1. PICK row : S = {row}
      BY <2>2
    <3>2. IsFiniteSet({row})
      BY FS_Singleton
    <3> QED BY <3>1, <3>2
  <2> QED BY <1>3, <2>1, <2>2
<1>6. /\ SumFunctionOnSet(F, {}) = 0
      /\ \A row \in S : SumFunctionOnSet(F, S) = F[row] + SumFunctionOnSet(F, S \ {row})
  <2>1. \A row \in S : F[row] \in Int
    BY <1>2
  <2> QED BY <1>5, <2>1, SumWithout
<1>7. CASE S = {}
  BY <1>1, <1>4, <1>6, <1>7
<1>8. CASE S # {}
  <2>1. PICK row \in S : S = {row}
    BY <1>3, <1>8
  <2>2. S \ {row} = {}
    BY <2>1
  <2>3. QuantityOf(p, lines) = row.quantity /\ row.quantity \in Nat
    BY <1>1, <1>2, <1>6, <2>2
  <2>4. row \in lines /\ row.product = p /\ \A x \in lines : x.product = p => x = row
    BY <1>4, <2>1 DEF S
  <2> QED BY <2>3, <2>4
<1> QED BY <1>7, <1>8

\* One atomic increment of the line of p, or of none.
LEMMA IncrementedIs ==
    ASSUME rows \subseteq Row, OneLineEach(rows), NEW p, NEW targets,
           targets = Of(p) \/ targets = {}, NEW q \in Nat \ {0}, NEW after,
           after = Incremented(targets, q)
    PROVE  /\ after \subseteq Row /\ OneLineEach(after)
           /\ \A new \in after : \E row \in rows : row.id = new.id /\ row.product = new.product
           /\ \A x : QuantityOf(x, after)
                        = QuantityOf(x, rows) + (IF x = p /\ targets # {} THEN q ELSE 0)
<1> DEFINE Up(row) == IF row \in targets THEN [row EXCEPT !.quantity = @ + q] ELSE row
<1>1. after = {Up(row) : row \in rows}
  BY DEF Incremented
<1>2. \A row \in rows : /\ Up(row) \in Row
                        /\ Up(row).id = row.id /\ Up(row).product = row.product
                        /\ Up(row).quantity = row.quantity
                              + (IF row.product = p /\ targets # {} THEN q ELSE 0)
  BY DEF Row, Of
<1> HIDE DEF Up
<1>3. after \subseteq Row
  BY <1>1, <1>2
<1>4. OneLineEach(after)
  BY <1>1, <1>2 DEF OneLineEach
<1>5. ASSUME NEW x
      PROVE  QuantityOf(x, after)
                = QuantityOf(x, rows) + (IF x = p /\ targets # {} THEN q ELSE 0)
  <2>1. CASE \A row \in rows : row.product # x
    <3>1. \A new \in after : new.product # x
      BY <1>1, <1>2, <2>1
    <3>2. QuantityOf(x, after) = 0 /\ QuantityOf(x, rows) = 0
      BY <1>3, <1>4, <2>1, <3>1, QuantityIs
    <3>3. ~(x = p /\ targets # {})
      BY <2>1 DEF Of
    <3> QED BY <3>2, <3>3
  <2>2. ASSUME NEW row \in rows, row.product = x
        PROVE  QuantityOf(x, after)
                  = QuantityOf(x, rows) + (IF x = p /\ targets # {} THEN q ELSE 0)
    <3>1. QuantityOf(x, rows) = row.quantity
      BY <2>2, QuantityIs
    <3>2. Up(row) \in after /\ Up(row).product = x
      BY <1>1, <1>2, <2>2
    <3>3. QuantityOf(x, after) = Up(row).quantity
      BY <1>3, <1>4, <3>2, QuantityIs
    <3> QED BY <1>2, <2>2, <3>1, <3>3
  <2> QED BY <2>1, <2>2
<1> QED BY <1>1, <1>2, <1>3, <1>4, <1>5

\* A request steps alone, reads the cart or keeps its copy, and ends once.
LEMMA CartFrame ==
    ASSUME CartTypeOK, NEW r \in Requests, CartSubmit(r) \/ CartHandle(r)
    PROVE  /\ cartReq' = cartReq /\ cartPc[r] # "done"
           /\ \E to \in CartStages, said \in CartAnswers, lines \in (SUBSET rows) \cup {copy[r]} :
                 /\ cartPc' = [cartPc EXCEPT ![r] = to]
                 /\ cartAnswer' = [cartAnswer EXCEPT ![r] = said]
                 /\ copy' = [copy EXCEPT ![r] = lines]
                 /\ to # "done" => said = cartAnswer[r]
                 /\ lines # copy[r] => cartPc[r] \in {"find", "read"}
<1> DEFINE Ends(said) == CartFinish(r, said) /\ cartReq' = cartReq /\ copy' = copy
           Goes(to) == /\ CartGoto(r, to)
                       /\ cartReq' = cartReq /\ cartAnswer' = cartAnswer /\ copy' = copy
           Holds(to, lines) == /\ CartGoto(r, to) /\ copy' = [copy EXCEPT ![r] = lines]
                               /\ cartReq' = cartReq /\ cartAnswer' = cartAnswer
           Result ==
             \E to \in CartStages, said \in CartAnswers, lines \in (SUBSET rows) \cup {copy[r]} :
                 /\ cartPc' = [cartPc EXCEPT ![r] = to]
                 /\ cartAnswer' = [cartAnswer EXCEPT ![r] = said]
                 /\ copy' = [copy EXCEPT ![r] = lines]
                 /\ to # "done" => said = cartAnswer[r]
                 /\ lines # copy[r] => cartPc[r] \in {"find", "read"}
<1>a. /\ cartAnswer = [cartAnswer EXCEPT ![r] = cartAnswer[r]] /\ cartAnswer[r] \in CartAnswers
      /\ copy = [copy EXCEPT ![r] = copy[r]]
    BY DEF CartTypeOK
<1>e. ASSUME NEW said \in CartAnswers, Ends(said) PROVE Result
  <2>1. /\ cartPc' = [cartPc EXCEPT ![r] = "done"]
        /\ cartAnswer' = [cartAnswer EXCEPT ![r] = said]
    BY <1>e DEF CartFinish, CartGoto
  <2>2. "done" \in CartStages
    BY DEF CartStages
  <2> QED BY <1>a, <1>e, <2>1, <2>2
<1>g. ASSUME NEW to \in CartStages, Goes(to) PROVE Result
    BY <1>a, <1>g DEF CartGoto
<1>h. ASSUME NEW to \in CartStages, NEW lines \in SUBSET rows, Holds(to, lines),
             cartPc[r] \in {"find", "read"}
      PROVE  Result
    BY <1>a, <1>h DEF CartGoto
<1> HIDE DEF Ends, Goes, Holds, Result
<1>1. CASE CartSubmit(r)
  <2>1. \E to \in {"find", "read", "lookup"} : Goes(to)
      BY <1>1 DEF CartSubmit, Goes
  <2>2. Result
      BY <2>1, <1>g DEF CartStages
  <2> QED BY <1>1, <2>2 DEF CartSubmit, Result
<1>2. CASE FindForAdd(r)
  <2>1. \E to \in {"insert", "increment"} : Holds(to, Of(cartReq[r].product))
      BY <1>2 DEF FindForAdd, Holds
  <2>2. Of(cartReq[r].product) \in SUBSET rows /\ cartPc[r] = "find"
      BY <1>2 DEF Of, FindForAdd
  <2>3. Result
      BY <2>1, <2>2, <1>h DEF CartStages
  <2> QED BY <2>2, <2>3, <1>2 DEF FindForAdd, Result
<1>3. CASE InsertLost(r)
  <2>1. Goes("merge")
      BY <1>3 DEF InsertLost, Goes
  <2>2. Result
      BY <2>1, <1>g DEF CartStages
  <2> QED BY <1>3, <2>2 DEF InsertLost, Result
<1>4. CASE \/ Increment(r) \/ InsertLine(r) \/ Merge(r)
           \/ SaveUpdate(r) \/ SaveInsert(r) \/ DeleteLine(r)
  <2>1. \E said \in {"ok", "error"} : Ends(said)
      BY <1>4 DEF Increment, InsertLine, Merge, SaveUpdate, SaveInsert, DeleteLine, Ends
  <2>2. cartPc[r] # "done" /\ cartReq' = cartReq
      BY <1>4 DEF Increment, InsertLine, Merge, SaveUpdate, SaveInsert, DeleteLine
  <2>3. Result
      BY <2>1, <1>e DEF CartAnswers
  <2> QED BY <2>2, <2>3 DEF Result
<1>5. CASE FindOwnItem(r)
  <2>1. \/ \E to \in {"save", "delete"}, row \in Of(cartReq[r].product) : Holds(to, {row})
        \/ Ends("notFound")
      BY <1>5 DEF FindOwnItem, Holds, Ends
  <2>2. Of(cartReq[r].product) \subseteq rows /\ cartPc[r] = "find"
      BY <1>5 DEF Of, FindOwnItem
  <2>3. Result
      BY <2>1, <2>2, <1>e, <1>h DEF CartStages, CartAnswers
  <2> QED BY <2>2, <2>3, <1>5 DEF FindOwnItem, Result
<1>6. CASE SaveSelect(r)
  <2>1. Ends("ok") \/ \E to \in {"saveInsert", "saveUpdate"} : Goes(to)
      BY <1>6 DEF SaveSelect, Ends, Goes
  <2>2. Result
      BY <2>1, <1>e, <1>g DEF CartStages, CartAnswers
  <2> QED BY <1>6, <2>2 DEF SaveSelect, Result
<1>7. CASE CartLookUp(r) \/ PreCheck(r) \/ PlaceFails(r)
  <2>1. \/ \E to \in {"read", "place"} : Goes(to)
        \/ \E said \in {"replayed", "conflict", "outOfStock"} : Ends(said)
      BY <1>7 DEF CartLookUp, PreCheck, PlaceFails, ReplayOf, Ends, Goes
  <2>2. cartPc[r] # "done" /\ cartReq' = cartReq
      BY <1>7 DEF CartLookUp, PreCheck, PlaceFails
  <2>3. Result
      BY <2>1, <1>e, <1>g DEF CartStages, CartAnswers
  <2> QED BY <2>2, <2>3 DEF Result
<1>8. CASE ReadCart(r)
  <2>1. \/ Holds("place", rows) \/ Holds("precheck", rows)
        \/ /\ CartFinish(r, "emptyCart") /\ cartReq' = cartReq
           /\ copy' = [copy EXCEPT ![r] = rows]
      BY <1>8 DEF ReadCart, Holds
  <2>2. cartPc[r] = "read" /\ cartReq' = cartReq
      BY <1>8 DEF ReadCart
  <2>3. CASE CartFinish(r, "emptyCart") /\ copy' = [copy EXCEPT ![r] = rows]
    <3>1. /\ cartPc' = [cartPc EXCEPT ![r] = "done"]
          /\ cartAnswer' = [cartAnswer EXCEPT ![r] = "emptyCart"]
      BY <2>3 DEF CartFinish, CartGoto
    <3>2. "done" \in CartStages /\ "emptyCart" \in CartAnswers
      BY DEF CartStages, CartAnswers
    <3> QED BY <2>2, <2>3, <3>1, <3>2 DEF Result
  <2>4. "place" \in CartStages /\ "precheck" \in CartStages /\ rows \in SUBSET rows
      BY DEF CartStages
  <2>5. ASSUME Holds("place", rows) \/ Holds("precheck", rows) PROVE Result
      BY <2>2, <2>4, <2>5, <1>h
  <2> QED BY <2>1, <2>2, <2>3, <2>5 DEF Result
<1>9. CASE PlaceOrder(r)
  <2>1. Goes("created") /\ cartPc[r] # "done"
      BY <1>9 DEF PlaceOrder, Goes
  <2>2. Result
      BY <2>1, <1>g DEF CartStages
  <2> QED BY <2>1, <2>2 DEF Goes, Result
<1>10. CASE ClearCart(r)
  <2>1. (Ends("created") \/ Ends("error")) /\ cartPc[r] # "done"
      BY <1>10 DEF ClearCart, Ends
  <2>2. Result
      BY <2>1, <1>e DEF CartAnswers
  <2> QED BY <2>1, <2>2 DEF Ends, Result
<1> QED BY <1>1, <1>2, <1>3, <1>4, <1>5, <1>6, <1>7, <1>8, <1>9, <1>10 DEF CartHandle

\* Two rows with one id are lines of one product.
LEMMA IdTells ==
    ASSUME NEW a, NEW b, Tells(a), Tells(b), a.id = b.id
    PROVE  a.product = b.product
  BY CartAssumption DEF Tells

\* The rows an increment finds by the ids of its copy are the line of its product, if there.
LEMMA IncrementTargets ==
    ASSUME CartInv, NEW r \in Requests, cartPc[r] = "increment", NEW targets,
           targets = {row \in rows : \E c \in copy[r] : c.id = row.id}
    PROVE  targets = Of(cartReq[r].product) \/ targets = {}
<1>1. ASSUME NEW row \in targets
      PROVE  targets = Of(cartReq[r].product)
  <2>1. \A x \in targets : x \in rows /\ x.product = cartReq[r].product
    <3> SUFFICES ASSUME NEW x \in targets
                 PROVE  x \in rows /\ x.product = cartReq[r].product
      OBVIOUS
    <3>1. PICK c \in copy[r] : c.id = x.id
      OBVIOUS
    <3>2. Tells(c) /\ Tells(x) /\ c.product = cartReq[r].product
      BY DEF CartInv, LinesTell, CartStageTells
    <3> QED BY <3>1, <3>2, IdTells
  <2>2. \A x, y \in rows : x.product = y.product => x = y
    BY DEF CartInv, LinesTell, OneLineEach
  <2> QED BY <1>1, <2>1, <2>2 DEF Of
<1> QED BY <1>1

\* What an add does to a line that is there.
Increments(r) ==
    /\ cartReq[r].op = "add"
    /\ \E targets \in {Of(cartReq[r].product), {}} :
          /\ rows' = Incremented(targets, cartReq[r].quantity)
          /\ CartFinish(r, IF targets = {} THEN "error" ELSE "ok")
    /\ UNCHANGED <<orders, cartReq, copy>>

\* An add increments that line, or finds none.
LEMMA AddIncrements ==
    ASSUME CartInv, NEW r \in Requests, Increment(r) \/ Merge(r)
    PROVE  Increments(r)
<1>1. CASE Increment(r)
  <2> DEFINE targets == {row \in rows : \E c \in copy[r] : c.id = row.id}
  <2>1. /\ cartPc[r] = "increment"
        /\ rows' = Incremented(targets, cartReq[r].quantity)
        /\ CartFinish(r, IF targets = {} THEN "error" ELSE "ok")
        /\ UNCHANGED <<orders, cartReq, copy>>
    BY <1>1 DEF Increment, ledger
  <2>2. targets = Of(cartReq[r].product) \/ targets = {}
    BY <2>1, IncrementTargets
  <2>3. cartReq[r].op = "add"
    BY <2>1 DEF CartInv, CartStageTells
  <2> HIDE DEF targets
  <2> QED BY <2>1, <2>2, <2>3 DEF Increments
<1>2. CASE Merge(r)
  <2>1. cartReq[r].op = "add"
    BY <1>2 DEF Merge, CartInv, CartStageTells
  <2> QED BY <1>2, <2>1 DEF Merge, Increments, ledger
<1> QED BY <1>1, <1>2

\* What becomes of the lines.
LEMMA RowsMove ==
    ASSUME CartInv, NEW r \in Requests, CartSubmit(r) \/ CartHandle(r)
    PROVE  \/ rows' = rows
           \/ Increments(r) \/ InsertLine(r)
           \/ SaveUpdate(r) \/ SaveInsert(r) \/ DeleteLine(r)
           \/ ClearCart(r) /\ rows' = {}
<1>1. CASE CartSubmit(r) \/ FindForAdd(r) \/ InsertLost(r) \/ FindOwnItem(r) \/ SaveSelect(r)
  BY <1>1 DEF CartSubmit, FindForAdd, InsertLost, FindOwnItem, SaveSelect
<1>2. CASE \/ CartLookUp(r) \/ ReadCart(r) \/ PreCheck(r) \/ PlaceOrder(r) \/ PlaceFails(r)
           \/ ClearCart(r)
  BY <1>2 DEF CartLookUp, ReadCart, PreCheck, PlaceOrder, PlaceFails, ClearCart
<1> QED BY <1>1, <1>2, AddIncrements DEF CartHandle

\* The lines stay lines, one of each product, and their ids tell it.
LEMMA RowsKept ==
    ASSUME CartInv, NEW r \in Requests, CartSubmit(r) \/ CartHandle(r)
    PROVE  /\ rows' \subseteq Row /\ OneLineEach(rows')
           /\ \A row : Tells(row) => Tells(row)'
           /\ \A row \in rows' : Tells(row)'
<1>1. /\ rows \subseteq Row /\ OneLineEach(rows) /\ \A row \in rows : Tells(row)
      /\ copy[r] \subseteq Row /\ \A row \in copy[r] : Tells(row)
      /\ cartReq[r] \in Body
  BY DEF CartInv, CartTypeOK, LinesTell
<1>2. /\ cartReq' = cartReq /\ cartPc[r] # "done"
      /\ \E to : cartPc' = [cartPc EXCEPT ![r] = to]
  BY CartFrame DEF CartInv
<1>3. \A row : Tells(row) => Tells(row)'
  BY <1>2 DEF Tells, CartInv, CartTypeOK
<1> SUFFICES rows' \subseteq Row /\ OneLineEach(rows') /\ \A row \in rows' : Tells(row)'
  BY <1>3
<1>4. CASE rows' = rows
  BY <1>1, <1>3, <1>4
<1>5. CASE Increments(r)
  <2>1. cartReq[r].quantity \in Nat \ {0}
    BY <1>1 DEF Body
  <2>2. PICK targets : /\ targets = Of(cartReq[r].product) \/ targets = {}
                       /\ rows' = Incremented(targets, cartReq[r].quantity)
    BY <1>5 DEF Increments
  <2>3. /\ rows' \subseteq Row /\ OneLineEach(rows')
        /\ \A new \in rows' : \E row \in rows : row.id = new.id /\ row.product = new.product
    <3>1. PICK q, after : q = cartReq[r].quantity /\ after = rows'
      OBVIOUS
    <3>2. PICK p : targets = Of(p) \/ targets = {}
      BY <2>2
    <3>3. q \in Nat \ {0} /\ after = Incremented(targets, q)
      BY <2>1, <2>2, <3>1
    <3>4. /\ after \subseteq Row /\ OneLineEach(after)
          /\ \A new \in after : \E row \in rows : row.id = new.id /\ row.product = new.product
      BY <1>1, <3>2, <3>3, IncrementedIs
    <3> QED BY <3>1, <3>4
  <2>4. \A new \in rows' : Tells(new)
    BY <1>1, <2>3 DEF Tells
  <2> QED BY <1>3, <2>3, <2>4
<1>6. CASE InsertLine(r)
  <2>0. PICK new : new = [id |-> r, product |-> cartReq[r].product,
                          quantity |-> cartReq[r].quantity]
    OBVIOUS
  <2>1. rows' = rows \cup {new} /\ \A row \in rows : row.product # cartReq[r].product
    BY <1>6, <2>0 DEF InsertLine, Of
  <2>2. new \in Row /\ new.id = r /\ new.product = cartReq[r].product
    BY <1>1, <2>0 DEF Body, Row, RowIds
  <2>3. cartPc'[r] = "done"
    BY <1>6 DEF InsertLine, CartFinish, CartGoto, CartInv, CartTypeOK
  <2>4. Tells(new)'
    BY <1>2, <2>2, <2>3 DEF Tells
  <2>5. OneLineEach(rows')
    BY <1>1, <2>1, <2>2 DEF OneLineEach
  <2> QED BY <1>1, <1>3, <2>1, <2>2, <2>4, <2>5
<1>7. CASE SaveUpdate(r)
  <2> DEFINE Up(row) == IF row.id = FoundRow(r).id
                        THEN [row EXCEPT !.quantity = cartReq[r].quantity] ELSE row
  <2>1. rows' = {Up(row) : row \in rows}
    BY <1>7 DEF SaveUpdate
  <2>2. \A row \in rows : Up(row) \in Row /\ Up(row).id = row.id /\ Up(row).product = row.product
    BY <1>1 DEF Row, Body
  <2> HIDE DEF Up
  <2>3. \A new \in rows' : Tells(new)
    BY <1>1, <2>1, <2>2 DEF Tells
  <2> QED BY <1>1, <1>3, <2>1, <2>2, <2>3 DEF OneLineEach
<1>8. CASE SaveInsert(r)
  <2>0. PICK row, new : /\ row = FoundRow(r)
                        /\ new = [row EXCEPT !.quantity = cartReq[r].quantity]
    OBVIOUS
  <2>1. row \in copy[r]
    BY <1>8, <2>0 DEF SaveInsert, FoundRow, CartInv, CartStageTells
  <2>2. /\ new \in Row /\ new.id = row.id /\ new.product = row.product
    BY <1>1, <2>0, <2>1 DEF Row, Body
  <2>3. \/ rows' = rows
        \/ rows' = rows \cup {new} /\ \A x \in rows : x.product # row.product
    BY <1>8, <2>0 DEF SaveInsert, Of
  <2>4. Tells(new)
    BY <1>1, <2>1, <2>2 DEF Tells
  <2>5. OneLineEach(rows')
    BY <1>1, <2>2, <2>3 DEF OneLineEach
  <2> QED BY <1>1, <1>3, <2>2, <2>3, <2>4, <2>5
<1>9. CASE DeleteLine(r)
  BY <1>1, <1>3, <1>9 DEF DeleteLine, OneLineEach
<1>10. CASE rows' = {}
  BY <1>10 DEF OneLineEach
<1> QED BY <1>4, <1>5, <1>6, <1>7, <1>8, <1>9, <1>10, RowsMove

\* What becomes of the orders: one more, of the units of the copy.
LEMMA OrdersMove ==
    ASSUME CartInv, NEW r \in Requests, CartSubmit(r) \/ CartHandle(r)
    PROVE  \/ orders' = orders
           \/ /\ PlaceOrder(r)
              /\ \E o : /\ orders' = orders \cup {o} /\ o \notin orders /\ o.id = r
                        /\ o.units = [p \in Products |-> QuantityOf(p, copy[r])]
                        /\ o.units \in Units
<1>1. CASE PlaceOrder(r)
  <2>1. PICK o : o = SnapshotOrder(r)
    OBVIOUS
  <2>2. /\ o.id = r /\ o.units = [p \in Products |-> QuantityOf(p, copy[r])]
    BY <2>1 DEF SnapshotOrder
  <2>3. orders' = orders \cup {o} /\ \A x \in orders : x.id # o.id
    BY <1>1, <2>1 DEF PlaceOrder, Place, Fresh
  <2>4. copy[r] \in SUBSET Row /\ OneLineEach(copy[r])
    BY DEF CartInv, CartTypeOK, LinesTell
  <2>5. \A p : QuantityOf(p, copy[r]) \in Nat
    BY <2>4, QuantityIs
  <2> QED BY <1>1, <2>2, <2>3, <2>5 DEF Units
<1>2. CASE CartSubmit(r) \/ FindForAdd(r) \/ InsertLost(r) \/ FindOwnItem(r) \/ SaveSelect(r)
  BY <1>2 DEF CartSubmit, FindForAdd, InsertLost, FindOwnItem, SaveSelect, ledger
<1>3. CASE \/ Increment(r) \/ InsertLine(r) \/ Merge(r)
           \/ SaveUpdate(r) \/ SaveInsert(r) \/ DeleteLine(r)
  BY <1>3 DEF Increment, InsertLine, Merge, SaveUpdate, SaveInsert, DeleteLine, ledger
<1>4. CASE CartLookUp(r) \/ ReadCart(r) \/ PreCheck(r) \/ PlaceFails(r) \/ ClearCart(r)
  BY <1>4 DEF CartLookUp, ReadCart, PreCheck, PlaceFails, ClearCart, ledger
<1> QED BY <1>1, <1>2, <1>3, <1>4 DEF CartHandle

\* Stock is counted.
LEMMA StockCounted ==
    ASSUME CartInv, NEW r \in Requests, CartSubmit(r) \/ CartHandle(r)
    PROVE  stock' \in [Products -> Int]
<1>0. stock \in [Products -> Int]
  BY DEF CartInv, CartTypeOK
<1>1. CASE PlaceOrder(r)
  <2>1. SnapshotOrder(r).units \in Units
    <3>1. copy[r] \in SUBSET Row /\ OneLineEach(copy[r])
      BY DEF CartInv, CartTypeOK, LinesTell
    <3>2. \A p : QuantityOf(p, copy[r]) \in Nat
      BY <3>1, QuantityIs
    <3> QED BY <3>2 DEF SnapshotOrder, Units
  <2>2. PICK units \in Units : stock' = [p \in Products |-> stock[p] - units[p]]
    BY <1>1, <2>1 DEF PlaceOrder, Place
  <2> QED BY <1>0, <2>2 DEF Units
<1>2. CASE CartSubmit(r) \/ FindForAdd(r) \/ InsertLost(r) \/ FindOwnItem(r) \/ SaveSelect(r)
  BY <1>0, <1>2 DEF CartSubmit, FindForAdd, InsertLost, FindOwnItem, SaveSelect, ledger
<1>3. CASE \/ Increment(r) \/ InsertLine(r) \/ Merge(r)
           \/ SaveUpdate(r) \/ SaveInsert(r) \/ DeleteLine(r)
  BY <1>0, <1>3 DEF Increment, InsertLine, Merge, SaveUpdate, SaveInsert, DeleteLine, ledger
<1>4. CASE CartLookUp(r) \/ ReadCart(r) \/ PreCheck(r) \/ PlaceFails(r) \/ ClearCart(r)
  BY <1>0, <1>4 DEF CartLookUp, ReadCart, PreCheck, PlaceFails, ClearCart, ledger
<1> QED BY <1>1, <1>2, <1>3, <1>4 DEF CartHandle

\* The stage a request goes to tells what it is to tell.
LEMMA StageReached ==
    ASSUME CartInv, NEW r \in Requests, CartSubmit(r) \/ CartHandle(r)
    PROVE  /\ cartPc'[r] = "find" => cartReq[r].op # "checkout"
           /\ cartPc'[r] \in {"insert", "increment", "merge"} => cartReq[r].op = "add"
           /\ cartPc'[r] = "increment" => copy'[r] = Of(cartReq[r].product)
           /\ cartPc'[r] \in {"save", "saveUpdate", "saveInsert"} =>
                 cartReq[r].op = "update" /\ copy'[r] # {}
           /\ cartPc'[r] = "delete" => cartReq[r].op = "remove"
           /\ cartPc'[r] \in {"lookup", "read", "precheck", "place", "created"} =>
                 cartReq[r].op = "checkout"
           /\ cartPc'[r] = "created" => PlaceOrder(r)
<1> USE DEF CartInv, CartTypeOK, CartGoto, CartFinish
<1>1. CASE CartSubmit(r)
  BY <1>1 DEF CartSubmit
<1>2. CASE FindForAdd(r)
  BY <1>2 DEF FindForAdd
<1>3. CASE \/ Increment(r) \/ InsertLine(r) \/ Merge(r)
           \/ SaveUpdate(r) \/ SaveInsert(r) \/ DeleteLine(r)
  <2>1. cartPc' = [cartPc EXCEPT ![r] = "done"]
    BY <1>3 DEF Increment, InsertLine, Merge, SaveUpdate, SaveInsert, DeleteLine
  <2> QED BY <2>1
<1>4. CASE InsertLost(r)
  BY <1>4 DEF InsertLost, CartStageTells
<1>5. CASE FindOwnItem(r)
  BY <1>5 DEF FindOwnItem
<1>6. CASE SaveSelect(r)
  BY <1>6 DEF SaveSelect, CartStageTells
<1>7. CASE CartLookUp(r) \/ PreCheck(r)
  <2>1. cartReq[r].op = "checkout"
    BY <1>7 DEF CartLookUp, PreCheck, CartStageTells
  <2>2. cartPc'[r] \in {"done", "read", "place"}
    BY <1>7 DEF CartLookUp, PreCheck
  <2> QED BY <2>1, <2>2
<1>8. CASE ReadCart(r)
  <2>1. cartReq[r].op = "checkout"
    BY <1>8 DEF ReadCart, CartStageTells
  <2>2. cartPc'[r] \in {"done", "precheck", "place"}
    BY <1>8 DEF ReadCart
  <2> QED BY <2>1, <2>2
<1>9. CASE PlaceOrder(r)
  <2>1. cartReq[r].op = "checkout"
    BY <1>9 DEF PlaceOrder, CartStageTells
  <2>2. cartPc'[r] = "created"
    BY <1>9 DEF PlaceOrder
  <2> QED BY <1>9, <2>1, <2>2
<1>10. CASE PlaceFails(r) \/ ClearCart(r)
  <2>1. cartPc'[r] = "done"
    BY <1>10 DEF PlaceFails, ClearCart
  <2> QED BY <2>1
<1> QED BY <1>1, <1>2, <1>3, <1>4, <1>5, <1>6, <1>7, <1>8, <1>9, <1>10 DEF CartHandle

\* The invariant holds at first, and each step keeps it.
LEMMA CartInitInv == CartInit => CartInv
<1> SUFFICES ASSUME CartInit PROVE CartInv
  OBVIOUS
<1>1. CartTypeOK
  BY CartAssumption, LedgerAssumption
  DEF CartInit, LedgerInit, CartTypeOK, Row, RowIds, CartStages, CartAnswers
<1>2. LinesTell
  BY CartAssumption DEF CartInit, LinesTell, OneLineEach, Tells
<1>3. CartStageTells
  BY DEF CartInit, CartStageTells
<1>4. {r \in Requests : cartAnswer[r] = "ok"} = {}
  BY DEF CartInit
<1>5. Summable
  BY <1>4, FS_EmptySet DEF CartInit, LedgerInit, Summable
<1> QED BY <1>1, <1>2, <1>3, <1>5 DEF CartInv

LEMMA CartInvStep ==
    ASSUME CartInv, [CartNext]_cartVars
    PROVE  CartInv'
<1>1. CASE UNCHANGED cartVars
  BY <1>1 DEF cartVars, ledger, CartInv, CartTypeOK, LinesTell, OneLineEach, Tells, CartStageTells,
              Summable
<1>2. ASSUME NEW r \in Requests, CartSubmit(r) \/ CartHandle(r),
             late' = late \/ (cartAnswer'[r] = "ok" /\ late' = late \cup {r})
      PROVE  CartInv'
  <2>1. PICK to \in CartStages, said \in CartAnswers, lines \in (SUBSET rows) \cup {copy[r]} :
                 /\ cartPc' = [cartPc EXCEPT ![r] = to]
                 /\ cartAnswer' = [cartAnswer EXCEPT ![r] = said]
                 /\ copy' = [copy EXCEPT ![r] = lines]
                 /\ to # "done" => said = cartAnswer[r]
    BY <1>2, CartFrame DEF CartInv
  <2>2. cartReq' = cartReq /\ cartPc[r] # "done"
    BY <1>2, CartFrame DEF CartInv
  <2>3. /\ cartPc' \in [Requests -> CartStages] /\ cartPc'[r] = to
        /\ \A s \in Requests \ {r} : cartPc'[s] = cartPc[s]
        /\ cartAnswer' \in [Requests -> CartAnswers] /\ cartAnswer'[r] = said
        /\ \A s \in Requests \ {r} : cartAnswer'[s] = cartAnswer[s]
        /\ lines \subseteq Row /\ copy' \in [Requests -> SUBSET Row] /\ copy'[r] = lines
        /\ \A s \in Requests \ {r} : copy'[s] = copy[s]
    BY <2>1 DEF CartInv, CartTypeOK
  <2>4. /\ rows' \subseteq Row /\ OneLineEach(rows')
        /\ \A row : Tells(row) => Tells(row)'
        /\ \A row \in rows' : Tells(row)'
    BY <1>2, RowsKept
  <2>5. CartTypeOK'
    BY <1>2, <2>2, <2>3, <2>4, StockCounted DEF CartTypeOK, CartInv
  <2>6. LinesTell'
    <3>1. OneLineEach(lines) /\ \A row \in lines : Tells(row)
      BY DEF CartInv, LinesTell, OneLineEach
    <3>2. ASSUME NEW s \in Requests
          PROVE  OneLineEach(copy'[s]) /\ \A row \in copy'[s] : Tells(row)'
      <4>1. CASE s = r
        BY <2>3, <2>4, <3>1, <4>1
      <4>2. CASE s # r
        BY <2>3, <2>4, <4>2 DEF CartInv, LinesTell
      <4> QED BY <4>1, <4>2
    <3> QED BY <2>4, <3>2 DEF LinesTell, OneLineEach
  <2>7. \/ orders' = orders
        \/ /\ PlaceOrder(r)
           /\ \E o : /\ orders' = orders \cup {o} /\ o.id = r /\ o.units \in Units
    BY <1>2, OrdersMove
  <2>8. CartStageTells'
    <3>1. orders \subseteq orders' /\ (PlaceOrder(r) => \E o \in orders' : o.id = r)
      <4>1. PlaceOrder(r) => \E o \in orders' : o.id = r
        BY DEF PlaceOrder, Place, SnapshotOrder
      <4> QED BY <2>7, <4>1
    <3>2. ASSUME NEW s \in Requests \ {r}
          PROVE  cartPc'[s] = "increment" => \A row \in copy'[s] : row.product = cartReq[s].product
      BY <2>3 DEF CartInv, CartStageTells
    <3>3. cartPc'[r] = "increment" => \A row \in copy'[r] : row.product = cartReq[r].product
      BY <1>2, StageReached DEF Of
    <3>4. to # "done" => said = "none"
      BY <2>1, <2>2 DEF CartInv, CartStageTells
    <3>5. ASSUME NEW s \in Requests
          PROVE  /\ cartPc'[s] # "done" => cartAnswer'[s] = "none"
                 /\ cartPc'[s] = "find" => cartReq'[s].op # "checkout"
                 /\ cartPc'[s] \in {"insert", "increment", "merge"} => cartReq'[s].op = "add"
                 /\ cartPc'[s] \in {"save", "saveUpdate", "saveInsert"} =>
                       cartReq'[s].op = "update" /\ copy'[s] # {}
                 /\ cartPc'[s] = "delete" => cartReq'[s].op = "remove"
                 /\ cartPc'[s] \in {"lookup", "read", "precheck", "place", "created"} =>
                       cartReq'[s].op = "checkout"
                 /\ cartPc'[s] = "created" => \E o \in orders' : o.id = s
      <4>1. CASE s = r
        BY <1>2, <2>2, <2>3, <3>1, <3>4, <4>1, StageReached
      <4>2. CASE s # r
        BY <2>2, <2>3, <3>1, <4>2 DEF CartInv, CartStageTells
      <4> QED BY <4>1, <4>2
    <3> QED BY <2>2, <3>2, <3>3, <3>5 DEF CartStageTells
  <2>9. Summable'
    <3>1. IsFiniteSet(orders')
      BY <2>7, FS_AddElement DEF CartInv, Summable
    <3>2. \A o \in orders' : o.units \in Units
      BY <2>7 DEF CartInv, Summable
    <3> DEFINE T == {s \in Requests : cartAnswer[s] = "ok"}
               U == {s \in Requests : cartAnswer'[s] = "ok"}
    <3>3. IsFiniteSet(T \cup {r}) /\ late \subseteq T
      BY FS_AddElement DEF CartInv, Summable
    <3>4. U \subseteq T \cup {r} /\ T \subseteq U
      <4>1. cartAnswer[r] = "none"
        BY <2>2 DEF CartInv, CartStageTells
      <4> QED BY <2>3, <4>1
    <3>5. r \in U <=> cartAnswer'[r] = "ok"
      OBVIOUS
    <3> HIDE DEF T
    <3>6. IsFiniteSet(U)
      BY <3>3, <3>4, FS_Subset
    <3>7. late' \subseteq U
      BY <1>2, <3>3, <3>4, <3>5
    <3> QED BY <3>1, <3>2, <3>6, <3>7 DEF Summable, Units
  <2> QED BY <2>5, <2>6, <2>8, <2>9 DEF CartInv
<1>3. ASSUME CartNext PROVE CartInv'
  <2>1. PICK r \in Requests :
            /\ CartSubmit(r) \/ CartHandle(r)
            /\ late' = IF cartAnswer'[r] = "ok" /\ cartReq[r].op = "add" /\ Clearing # {}
                       THEN late \cup {r} ELSE late
    BY <1>3 DEF CartNext
  <2>2. late' = late \/ (cartAnswer'[r] = "ok" /\ late' = late \cup {r})
    BY <2>1
  <2> QED BY <1>2, <2>1, <2>2
<1> QED BY <1>1, <1>3

------------------------------------------------------------------------------
(***************************************************************************)
(* The books of the cart.                                                  *)
(***************************************************************************)
\* What answered adds sent.
LEMMA SentIs ==
    ASSUME CartTypeOK, NEW adds \in SUBSET Requests, IsFiniteSet(adds)
    PROVE  /\ Sent(adds) \in Nat
           /\ \A r \in Requests \ adds : Sent(adds \cup {r}) = Sent(adds) + cartReq[r].quantity
<1> DEFINE F == [r \in Requests |-> cartReq[r].quantity]
<1>1. \A r \in Requests : F[r] = cartReq[r].quantity /\ F[r] \in Nat
  BY DEF CartTypeOK, Body
<1>2. \A S : Sent(S) = SumFunctionOnSet(F, S)
  BY DEF Sent
<1> HIDE DEF F
<1>3. Sent(adds) \in Nat
  BY <1>1, <1>2, SumNat
<1>4. ASSUME NEW r \in Requests \ adds
      PROVE  Sent(adds \cup {r}) = Sent(adds) + cartReq[r].quantity
  <2> DEFINE T == adds \cup {r}
  <2>1. IsFiniteSet(T) /\ T \subseteq Requests /\ r \in T /\ T \ {r} = adds
    BY FS_AddElement
  <2> HIDE DEF T
  <2>2. \A y \in T : F[y] \in Int
    BY <1>1, <2>1
  <2>3. SumFunctionOnSet(F, T) = F[r] + SumFunctionOnSet(F, T \ {r})
    BY <2>1, <2>2, SumWithout
  <2>4. F[r] = cartReq[r].quantity /\ F[r] \in Nat
    BY <1>1
  <2>5. Sent(T) = F[r] + Sent(adds)
    BY <1>2, <2>1, <2>3
  <2>6. Sent(T) = Sent(adds) + cartReq[r].quantity
    BY <1>3, <2>4, <2>5
  <2> QED BY <2>6 DEF T
<1> QED BY <1>3, <1>4

\* What was ordered, and one order more.
LEMMA BoughtIs ==
    ASSUME Summable, NEW p \in Products
    PROVE  /\ Bought(p) \in Nat
           /\ orders' = orders => Bought(p)' = Bought(p)
           /\ \A o : orders' = orders \cup {o} /\ o \notin orders /\ o.units \in Units =>
                         Bought(p)' = Bought(p) + o.units[p]
<1> DEFINE F == [o \in orders |-> o.units[p]]
<1>1. Bought(p) = SumFunctionOnSet(F, orders)
  BY DEF Bought, SumFunction
<1>2. \A o \in orders : F[o] = o.units[p] /\ F[o] \in Nat
  BY DEF Summable, Units
<1>3. Bought(p) \in Nat
  BY <1>1, <1>2, SumNat DEF Summable
<1>4. ASSUME NEW o, orders' = orders \cup {o}, o \notin orders, o.units \in Units
      PROVE  Bought(p)' = Bought(p) + o.units[p]
  <2> DEFINE T == orders \cup {o}
             G == [x \in T |-> x.units[p]]
  <2>1. Bought(p)' = SumFunctionOnSet(G, T)
    BY <1>4 DEF Bought, SumFunction
  <2>2. \A x \in T : G[x] = x.units[p] /\ G[x] \in Int
    BY <1>4 DEF Summable, Units
  <2>3. \A x \in orders : F[x] = G[x]
    OBVIOUS
  <2> HIDE DEF F, G
  <2>4. /\ IsFiniteSet(orders) /\ IsFiniteSet(T)
        /\ \A x \in orders : F[x] \in Int
    BY <1>2, FS_AddElement DEF Summable
  <2>5. /\ orders \ {o} = T \ {o} /\ o \in T
        /\ \A x \in orders \ {o} : F[x] = G[x]
    BY <1>4, <2>3
  <2> HIDE DEF T
  <2>6. SumFunctionOnSet(G, T)
          = SumFunctionOnSet(F, orders) - (IF o \in orders THEN F[o] ELSE 0)
                                        + (IF o \in T THEN G[o] ELSE 0)
    BY <2>2, <2>4, <2>5, SumMoved
  <2>7. SumFunctionOnSet(F, orders) \in Nat /\ G[o] = o.units[p] /\ G[o] \in Int
    BY <1>1, <1>3, <2>2, <2>5
  <2> QED BY <1>1, <1>4, <2>1, <2>5, <2>6, <2>7
<1>5. orders' = orders => Bought(p)' = Bought(p)
  BY DEF Bought
<1> QED BY <1>3, <1>4, <1>5

\* While nobody updates or removes a line: an add that is done,
AddsUnits(r) ==
    /\ cartReq[r].op = "add" /\ cartAnswer'[r] = "ok"
    /\ orders' = orders /\ cartPc'[r] = "done"
    /\ \A p : QuantityOf(p, rows') = QuantityOf(p, rows)
                 + (IF p = cartReq[r].product THEN cartReq[r].quantity ELSE 0)
\* a step between two that count,
MovesNothing(r) ==
    /\ rows' = rows /\ orders' = orders /\ cartAnswer'[r] # "ok"
    /\ cartPc'[r] \notin {"precheck", "created"}
    /\ cartPc'[r] = "place" => cartPc[r] = "precheck" /\ copy'[r] = copy[r]
\* a checkout that reads the cart, places its order, clears the cart.
HoldsCart(r) ==
    /\ rows' = rows /\ orders' = orders /\ cartAnswer'[r] # "ok"
    /\ cartPc'[r] \in {"precheck", "place"} /\ copy'[r] = rows
OrdersCopy(r) ==
    /\ rows' = rows /\ cartAnswer'[r] # "ok"
    /\ cartPc[r] = "place" /\ cartPc'[r] = "created"
    /\ \A p \in Products : Bought(p)' = Bought(p) + QuantityOf(p, copy[r])
EmptiesCart(r) ==
    /\ rows' = {} /\ orders' = orders /\ cartAnswer'[r] # "ok"
    /\ cartPc[r] = "created" /\ cartPc'[r] = "done"

\* There are no other steps then.
LEMMA UnitsMove ==
    ASSUME CartInv, NEW r \in Requests, cartReq[r].op \in {"add", "checkout"},
           CartSubmit(r) \/ CartHandle(r)
    PROVE  \/ AddsUnits(r) \/ MovesNothing(r)
           \/ cartReq[r].op = "checkout" /\ (HoldsCart(r) \/ OrdersCopy(r) \/ EmptiesCart(r))
<1> USE DEF CartGoto, CartFinish
<1>0. /\ cartPc \in [Requests -> CartStages] /\ cartAnswer \in [Requests -> CartAnswers]
      /\ cartReq[r] \in Body /\ rows \subseteq Row /\ OneLineEach(rows)
      /\ copy \in [Requests -> SUBSET Row]
      /\ cartPc[r] # "done" => cartAnswer[r] = "none"
  BY DEF CartInv, CartTypeOK, CartStageTells, LinesTell
<1>1. CASE CartSubmit(r)
  BY <1>0, <1>1 DEF CartSubmit, MovesNothing, ledger
<1>2. CASE FindForAdd(r)
  BY <1>0, <1>2 DEF FindForAdd, MovesNothing, ledger
<1>3. CASE InsertLost(r)
  BY <1>0, <1>3 DEF InsertLost, MovesNothing, ledger
<1>4. CASE Increments(r)
  <2>1. PICK targets : /\ targets = Of(cartReq[r].product) \/ targets = {}
                       /\ rows' = Incremented(targets, cartReq[r].quantity)
                       /\ CartFinish(r, IF targets = {} THEN "error" ELSE "ok")
    BY <1>4 DEF Increments
  <2>2. cartReq[r].op = "add" /\ orders' = orders /\ cartPc'[r] = "done"
    BY <1>0, <1>4 DEF Increments
  <2>3. CASE targets = {}
    <3>1. rows' = rows
      BY <2>1, <2>3 DEF Incremented
    <3>2. cartAnswer'[r] = "error"
      BY <1>0, <2>1, <2>3
    <3> QED BY <2>2, <3>1, <3>2 DEF MovesNothing
  <2>4. CASE targets # {}
    <3>1. cartAnswer'[r] = "ok"
      BY <1>0, <2>1, <2>4
    <3>2. PICK p, q, after : p = cartReq[r].product /\ q = cartReq[r].quantity /\ after = rows'
      OBVIOUS
    <3>3. q \in Nat \ {0} /\ after = Incremented(targets, q)
          /\ (targets = Of(p) \/ targets = {})
      BY <1>0, <2>1, <3>2 DEF Body
    <3>4. \A x : QuantityOf(x, after)
                    = QuantityOf(x, rows) + (IF x = p /\ targets # {} THEN q ELSE 0)
      BY <1>0, <3>3, IncrementedIs
    <3> QED BY <2>2, <2>4, <3>1, <3>2, <3>4 DEF AddsUnits
  <2> QED BY <2>3, <2>4
<1>5. CASE InsertLine(r)
  <2>1. PICK p, q, new : /\ p = cartReq[r].product /\ q = cartReq[r].quantity
                         /\ new = [id |-> r, product |-> p, quantity |-> q]
    OBVIOUS
  <2>2. /\ cartReq[r].op = "add"
        /\ rows' = rows \cup {new} /\ \A row \in rows : row.product # p
        /\ orders' = orders /\ cartPc'[r] = "done" /\ cartAnswer'[r] = "ok"
    BY <1>0, <1>5, <2>1 DEF InsertLine, Of, ledger, CartInv, CartStageTells
  <2>3. new \in Row /\ new.product = p /\ new.quantity = q /\ q \in Nat
    BY <1>0, <2>1 DEF Body, Row, RowIds
  <2>4. PICK after : after = rows \cup {new}
    OBVIOUS
  <2>5. after \in SUBSET Row /\ OneLineEach(after) /\ rows \in SUBSET Row
    BY <1>0, <2>2, <2>3, <2>4 DEF OneLineEach
  <2>6. ASSUME NEW x
        PROVE  QuantityOf(x, after) = QuantityOf(x, rows) + (IF x = p THEN q ELSE 0)
    <3>1. CASE x = p
      <4>1. QuantityOf(x, rows) = 0
        BY <1>0, <2>2, <2>5, <3>1, QuantityIs
      <4>2. QuantityOf(x, after) = q
        BY <2>3, <2>4, <2>5, <3>1, QuantityIs
      <4> QED BY <2>3, <3>1, <4>1, <4>2
    <3>2. CASE x # p /\ \E row \in rows : row.product = x
      <4>1. PICK row \in rows : row.product = x
        BY <3>2
      <4>2. QuantityOf(x, rows) = row.quantity /\ QuantityOf(x, rows) \in Nat
        BY <1>0, <2>5, <4>1, QuantityIs
      <4>3. QuantityOf(x, after) = row.quantity
        BY <2>4, <2>5, <4>1, QuantityIs
      <4> QED BY <3>2, <4>2, <4>3
    <3>3. CASE x # p /\ \A row \in rows : row.product # x
      <4>1. \A row \in after : row.product # x
        BY <2>3, <2>4, <3>3
      <4>2. QuantityOf(x, rows) = 0 /\ QuantityOf(x, after) = 0
        BY <1>0, <2>5, <3>3, <4>1, QuantityIs
      <4> QED BY <3>3, <4>2
    <3> QED BY <3>1, <3>2, <3>3
  <2> QED BY <2>1, <2>2, <2>4, <2>6 DEF AddsUnits
<1>6. CASE CartLookUp(r) \/ PlaceFails(r)
  <2>1. /\ rows' = rows /\ orders' = orders /\ copy' = copy
        /\ \/ cartPc'[r] = "done" /\ cartAnswer'[r] \in {"replayed", "conflict", "outOfStock"}
           \/ cartPc'[r] = "read" /\ cartAnswer'[r] = cartAnswer[r] /\ cartPc[r] # "done"
    BY <1>0, <1>6 DEF CartLookUp, PlaceFails, ReplayOf, ledger
  <2> QED BY <1>0, <2>1 DEF MovesNothing
<1>7. CASE PreCheck(r)
  <2>1. /\ rows' = rows /\ orders' = orders /\ copy' = copy /\ cartPc[r] = "precheck"
        /\ \/ cartPc'[r] = "done" /\ cartAnswer'[r] \in {"replayed", "conflict"}
           \/ cartPc'[r] = "place" /\ cartAnswer'[r] = cartAnswer[r]
    BY <1>0, <1>7 DEF PreCheck, ReplayOf, ledger
  <2> QED BY <1>0, <2>1 DEF MovesNothing
<1>8. CASE ReadCart(r)
  <2>1. /\ rows' = rows /\ orders' = orders /\ copy'[r] = rows /\ cartPc[r] = "read"
        /\ \/ cartPc'[r] = "done" /\ cartAnswer'[r] = "emptyCart"
           \/ cartPc'[r] \in {"precheck", "place"} /\ cartAnswer'[r] = cartAnswer[r]
    BY <1>0, <1>8 DEF ReadCart, ledger
  <2>2. cartReq[r].op = "checkout"
    BY <2>1 DEF CartInv, CartStageTells
  <2> QED BY <1>0, <2>1, <2>2 DEF MovesNothing, HoldsCart
<1>9. CASE PlaceOrder(r)
  <2>1. /\ rows' = rows /\ cartPc[r] = "place" /\ cartPc'[r] = "created"
        /\ cartAnswer'[r] = cartAnswer[r]
    BY <1>0, <1>9 DEF PlaceOrder
  <2>2. cartReq[r].op = "checkout"
    BY <2>1 DEF CartInv, CartStageTells
  <2>3. orders' # orders
    BY <1>9 DEF PlaceOrder, Place, Fresh
  <2>4. PICK o : /\ orders' = orders \cup {o} /\ o \notin orders
                 /\ o.units = [p \in Products |-> QuantityOf(p, copy[r])] /\ o.units \in Units
    BY <2>3, OrdersMove
  <2>5. \A p \in Products : Bought(p)' = Bought(p) + QuantityOf(p, copy[r])
    BY <2>4, BoughtIs DEF CartInv
  <2> QED BY <1>0, <2>1, <2>2, <2>5 DEF OrdersCopy
<1>10. CASE ClearCart(r)
  <2>1. /\ rows' \in {rows, {}} /\ orders' = orders
        /\ cartPc[r] = "created" /\ cartPc'[r] = "done"
        /\ cartAnswer'[r] \in {"created", "error"}
    BY <1>0, <1>10 DEF ClearCart, ledger
  <2>2. cartReq[r].op = "checkout"
    BY <2>1 DEF CartInv, CartStageTells
  <2> QED BY <2>1, <2>2 DEF MovesNothing, EmptiesCart
<1>11. CASE Increment(r) \/ Merge(r)
  BY <1>4, <1>11, AddIncrements
<1>12. ~(SaveSelect(r) \/ SaveUpdate(r) \/ SaveInsert(r) \/ DeleteLine(r) \/ FindOwnItem(r))
  BY DEF SaveSelect, SaveUpdate, SaveInsert, DeleteLine, FindOwnItem, CartInv, CartStageTells
<1> QED BY <1>1, <1>2, <1>3, <1>5, <1>6, <1>7, <1>8, <1>9, <1>10, <1>11, <1>12 DEF CartHandle

\* What falls due with a step: what an add that is done sent, unless it is late.
LEMMA DueMoves ==
    ASSUME CartInv, NEW r \in Requests, CartSubmit(r) \/ CartHandle(r), NEW p,
           late' = IF cartAnswer'[r] = "ok" /\ cartReq[r].op = "add" /\ Clearing # {}
                   THEN late \cup {r} ELSE late
    PROVE  /\ Sent(Added(p)) \in Nat /\ Sent(Added(p) \ late) \in Nat
           /\ LET adds == /\ cartAnswer'[r] = "ok" /\ cartReq[r].op = "add"
                          /\ cartReq[r].product = p
              IN  /\ Sent(Added(p))' = Sent(Added(p))
                                          + (IF adds THEN cartReq[r].quantity ELSE 0)
                  /\ Sent(Added(p) \ late)'
                        = Sent(Added(p) \ late)
                             + (IF adds /\ Clearing = {} THEN cartReq[r].quantity ELSE 0)
<1> DEFINE adds == cartAnswer'[r] = "ok" /\ cartReq[r].op = "add" /\ cartReq[r].product = p
<1>1. /\ cartReq' = cartReq /\ cartPc[r] # "done"
      /\ \E said : cartAnswer' = [cartAnswer EXCEPT ![r] = said]
  BY CartFrame DEF CartInv
<1>2. cartAnswer[r] = "none" /\ cartAnswer \in [Requests -> CartAnswers]
  BY <1>1 DEF CartInv, CartStageTells, CartTypeOK
<1>3. \A S : Sent(S)' = Sent(S)
  BY <1>1 DEF Sent
<1>4. PICK A, B, C, D : /\ A = Added(p) /\ B = Added(p) \ late
                        /\ C = Added(p)' /\ D = (Added(p) \ late)'
  OBVIOUS
<1>5. C = (IF adds THEN A \cup {r} ELSE A) /\ r \notin A
  BY <1>1, <1>2, <1>4 DEF Added
<1>6. late \subseteq {s \in Requests : cartAnswer[s] = "ok"}
      /\ IsFiniteSet({s \in Requests : cartAnswer[s] = "ok"})
  BY DEF CartInv, Summable
<1>7. A \in SUBSET Requests /\ A \subseteq {s \in Requests : cartAnswer[s] = "ok"}
  BY <1>4 DEF Added
<1>8. B \in SUBSET Requests /\ B \subseteq {s \in Requests : cartAnswer[s] = "ok"} /\ r \notin B
  BY <1>4, <1>5, <1>7
<1>9. r \notin late
  BY <1>2, <1>6
<1>10. D = IF adds /\ Clearing = {} THEN B \cup {r} ELSE B
  <2>1. D = C \ late'
    BY <1>4
  <2>2. CASE adds /\ Clearing = {}
    <3>1. late' = late
      BY <2>2
    <3> QED BY <1>4, <1>5, <1>9, <2>1, <2>2, <3>1
  <2>3. CASE adds /\ Clearing # {}
    <3>1. late' = late \cup {r}
      BY <2>3
    <3> QED BY <1>4, <1>5, <1>9, <2>1, <2>3, <3>1
  <2>4. CASE ~adds
    <3>1. late' \ {r} = late \ {r}
      OBVIOUS
    <3> QED BY <1>4, <1>5, <2>1, <2>4, <3>1
  <2> QED BY <2>2, <2>3, <2>4
<1> HIDE DEF adds
<1>11. IsFiniteSet(A) /\ IsFiniteSet(B)
  BY <1>6, <1>7, <1>8, FS_Subset
<1>12. CartTypeOK
  BY DEF CartInv
<1>13. /\ Sent(A) \in Nat /\ Sent(A \cup {r}) = Sent(A) + cartReq[r].quantity
       /\ Sent(B) \in Nat /\ Sent(B \cup {r}) = Sent(B) + cartReq[r].quantity
  BY <1>5, <1>7, <1>8, <1>11, <1>12, SentIs
<1>14. Sent(C) = Sent(A) + (IF adds THEN cartReq[r].quantity ELSE 0)
  BY <1>5, <1>13
<1>15. Sent(D) = Sent(B) + (IF adds /\ Clearing = {} THEN cartReq[r].quantity ELSE 0)
  BY <1>10, <1>13
<1>16. Sent(Added(p))' = Sent(C) /\ Sent(Added(p) \ late)' = Sent(D)
  BY <1>1, <1>4 DEF Sent
<1> QED BY <1>4, <1>13, <1>14, <1>15, <1>16 DEF adds

\* The lines as they were: their units of a product, at all times the same number.
LEMMA UnitsAtFirst == \A p : QuantityOf(p, InitialRows) \in Nat
<1>1. InitialRows \in SUBSET Row /\ OneLineEach(InitialRows)
  BY CartAssumption DEF Row, RowIds, OneLineEach
<1> QED BY <1>1, QuantityIs

\* The two books are kept by each step.
LEMMA AddsAddUpStep ==
    ASSUME CartInv, AddsAddUp, [CartNext]_cartVars
    PROVE  AddsAddUp'
<1>1. CASE UNCHANGED cartVars
  BY <1>1 DEF cartVars, AddsAddUp, OnlyAdds, Sent, Added
<1>2. ASSUME NEW r \in Requests, CartSubmit(r) \/ CartHandle(r),
             late' = IF cartAnswer'[r] = "ok" /\ cartReq[r].op = "add" /\ Clearing # {}
                     THEN late \cup {r} ELSE late
      PROVE  AddsAddUp'
  <2> SUFFICES ASSUME OnlyAdds', NEW p \in Products
               PROVE  QuantityOf(p, rows') = QuantityOf(p, InitialRows) + Sent(Added(p))'
    BY DEF AddsAddUp
  <2>1. OnlyAdds
    BY <1>2, CartFrame DEF CartInv, OnlyAdds
  <2>2. cartReq[r].op = "add" /\ cartReq[r].quantity \in Nat
    BY <2>1 DEF OnlyAdds, CartInv, CartTypeOK, Body
  <2>3. QuantityOf(p, rows) = QuantityOf(p, InitialRows) + Sent(Added(p))
    BY <2>1 DEF AddsAddUp
  <2>4. QuantityOf(p, InitialRows) \in Nat
    BY UnitsAtFirst
  <2>5. AddsUnits(r) \/ MovesNothing(r)
    BY <1>2, <2>2, UnitsMove
  <2>6. Sent(Added(p)) \in Nat
        /\ Sent(Added(p))' = Sent(Added(p))
             + (IF cartAnswer'[r] = "ok" /\ cartReq[r].product = p THEN cartReq[r].quantity ELSE 0)
    BY <1>2, <2>2, DueMoves
  <2> QED BY <2>2, <2>3, <2>4, <2>5, <2>6 DEF AddsUnits, MovesNothing
<1> QED BY <1>1, <1>2 DEF CartNext

LEMMA HeldOrOrderedStep ==
    ASSUME CartInv, HeldOrOrdered, [CartNext]_cartVars
    PROVE  HeldOrOrdered'
<1>1. CASE UNCHANGED cartVars
  BY <1>1 DEF cartVars, ledger, HeldOrOrdered, OnlyAddsAndCheckouts, Due, Sent, Added, Bought
<1>2. ASSUME NEW r \in Requests, CartSubmit(r) \/ CartHandle(r),
             late' = IF cartAnswer'[r] = "ok" /\ cartReq[r].op = "add" /\ Clearing # {}
                     THEN late \cup {r} ELSE late
      PROVE  HeldOrOrdered'
  <2> SUFFICES ASSUME OnlyAddsAndCheckouts', NEW p \in Products
               PROVE  /\ QuantityOf(p, rows') + Bought(p)' >= Due(p)'
                      /\ \A s \in Requests :
                            /\ cartPc'[s] \in {"precheck", "place"} =>
                                  QuantityOf(p, copy'[s]) + Bought(p)' >= Due(p)'
                            /\ cartPc'[s] = "created" => Bought(p)' >= Due(p)'
    BY DEF HeldOrOrdered
  <2>1. OnlyAddsAndCheckouts
    BY <1>2, CartFrame DEF CartInv, OnlyAddsAndCheckouts
  <2>2. PICK bought, due, had : bought = Bought(p) /\ due = Due(p) /\ had = QuantityOf(p, rows)
    OBVIOUS
  <2>3. PICK newBought, newDue, has :
            newBought = Bought(p)' /\ newDue = Due(p)' /\ has = QuantityOf(p, rows')
    OBVIOUS
  <2>4. /\ had + bought >= due
        /\ \A s \in Requests :
              /\ cartPc[s] \in {"precheck", "place"} => QuantityOf(p, copy[s]) + bought >= due
              /\ cartPc[s] = "created" => bought >= due
    BY <2>1, <2>2 DEF HeldOrOrdered
  <2>5. /\ bought \in Nat /\ (orders' = orders => newBought = bought)
    BY <2>2, <2>3, BoughtIs DEF CartInv
  <2>6. /\ due \in Nat /\ cartReq[r].quantity \in Nat
        /\ newDue = due + (IF /\ cartAnswer'[r] = "ok" /\ cartReq[r].op = "add"
                              /\ cartReq[r].product = p /\ Clearing = {}
                           THEN cartReq[r].quantity ELSE 0)
    <3>1. QuantityOf(p, InitialRows) \in Nat
      BY UnitsAtFirst
    <3>2. cartReq[r].quantity \in Nat
      BY DEF CartInv, CartTypeOK, Body
    <3>3. /\ Sent(Added(p) \ late) \in Nat
          /\ Sent(Added(p) \ late)'
                = Sent(Added(p) \ late)
                    + (IF /\ cartAnswer'[r] = "ok" /\ cartReq[r].op = "add"
                          /\ cartReq[r].product = p /\ Clearing = {}
                       THEN cartReq[r].quantity ELSE 0)
      BY <1>2, DueMoves
    <3>4. newDue = QuantityOf(p, InitialRows) + Sent(Added(p) \ late)'
      BY <2>3 DEF Due
    <3>5. due = QuantityOf(p, InitialRows) + Sent(Added(p) \ late)
      BY <2>2 DEF Due
    <3> QED BY <3>1, <3>2, <3>3, <3>4, <3>5
  <2>7. had \in Nat /\ \A s \in Requests : QuantityOf(p, copy[s]) \in Nat
    <3>1. /\ rows \in SUBSET Row /\ OneLineEach(rows)
          /\ \A s \in Requests : copy[s] \in SUBSET Row /\ OneLineEach(copy[s])
      BY DEF CartInv, CartTypeOK, LinesTell
    <3> QED BY <2>2, <3>1, QuantityIs
  <2>8. \A s \in Requests \ {r} : cartPc'[s] = cartPc[s] /\ copy'[s] = copy[s]
    BY <1>2, CartFrame DEF CartInv, CartTypeOK
  <2>9. cartReq[r].op \in {"add", "checkout"}
    BY <2>1 DEF OnlyAddsAndCheckouts
  <2>10. CASE AddsUnits(r)
    <3>1. /\ has = had + (IF p = cartReq[r].product THEN cartReq[r].quantity ELSE 0)
          /\ newBought = bought /\ cartPc'[r] = "done"
      BY <2>2, <2>3, <2>5, <2>10 DEF AddsUnits
    <3>2. has + newBought >= newDue
      BY <2>4, <2>5, <2>6, <2>7, <3>1
    <3>3. ASSUME NEW s \in Requests, cartPc'[s] \in {"precheck", "place", "created"}
          PROVE  /\ newDue = due /\ cartPc'[s] = cartPc[s] /\ copy'[s] = copy[s]
      <4>1. s # r
        BY <3>1, <3>3
      <4>2. Clearing # {}
        BY <2>8, <3>3, <4>1 DEF Clearing
      <4> QED BY <2>6, <2>8, <4>1, <4>2
    <3> QED BY <2>3, <2>4, <3>1, <3>2, <3>3
  <2>11. CASE MovesNothing(r)
    <3>1. /\ has = had /\ newBought = bought /\ newDue = due
          /\ cartPc'[r] \notin {"precheck", "created"}
          /\ cartPc'[r] = "place" => cartPc[r] = "precheck" /\ copy'[r] = copy[r]
      BY <2>2, <2>3, <2>5, <2>6, <2>11 DEF MovesNothing
    <3>2. ASSUME NEW s \in Requests
          PROVE  /\ cartPc'[s] \in {"precheck", "place"} =>
                       QuantityOf(p, copy'[s]) + newBought >= newDue
                 /\ cartPc'[s] = "created" => newBought >= newDue
      <4>1. CASE s = r
        BY <2>4, <3>1, <4>1
      <4>2. CASE s # r
        BY <2>4, <2>8, <3>1, <4>2
      <4> QED BY <4>1, <4>2
    <3> QED BY <2>3, <2>4, <3>1, <3>2
  <2>12. CASE HoldsCart(r) /\ cartReq[r].op = "checkout"
    <3>1. /\ has = had /\ newBought = bought /\ newDue = due
          /\ cartPc'[r] # "created" /\ QuantityOf(p, copy'[r]) = had
      BY <2>2, <2>3, <2>5, <2>6, <2>12 DEF HoldsCart
    <3>2. ASSUME NEW s \in Requests
          PROVE  /\ cartPc'[s] \in {"precheck", "place"} =>
                       QuantityOf(p, copy'[s]) + newBought >= newDue
                 /\ cartPc'[s] = "created" => newBought >= newDue
      <4>1. CASE s = r
        BY <2>4, <3>1, <4>1
      <4>2. CASE s # r
        BY <2>4, <2>8, <3>1, <4>2
      <4> QED BY <4>1, <4>2
    <3> QED BY <2>3, <2>4, <3>1, <3>2
  <2>13. CASE OrdersCopy(r) /\ cartReq[r].op = "checkout"
    <3>1. PICK q : q = QuantityOf(p, copy[r])
      OBVIOUS
    <3>2. /\ has = had /\ newBought = bought + q /\ newDue = due
          /\ cartPc[r] = "place" /\ cartPc'[r] = "created" /\ q \in Nat
      BY <2>2, <2>3, <2>6, <2>7, <2>13, <3>1 DEF OrdersCopy
    <3>3. newBought >= newDue /\ newBought >= bought
      BY <2>4, <2>5, <2>6, <3>1, <3>2
    <3>4. ASSUME NEW s \in Requests
          PROVE  /\ cartPc'[s] \in {"precheck", "place"} =>
                       QuantityOf(p, copy'[s]) + newBought >= newDue
                 /\ cartPc'[s] = "created" => newBought >= newDue
      <4>1. CASE s = r
        BY <3>2, <3>3, <4>1
      <4>2. CASE s # r
        <5>1. PICK held : held = QuantityOf(p, copy[s]) /\ held \in Nat
          BY <2>7
        <5>2. QuantityOf(p, copy'[s]) = held /\ cartPc'[s] = cartPc[s]
          BY <2>8, <4>2, <5>1
        <5>3. cartPc[s] \in {"precheck", "place"} => held + newBought >= newDue
          BY <2>4, <2>5, <2>6, <3>2, <5>1
        <5> QED BY <3>3, <5>2, <5>3
      <4> QED BY <4>1, <4>2
    <3>5. has + newBought >= newDue
      BY <2>5, <2>6, <2>7, <3>2, <3>3
    <3> QED BY <2>3, <3>4, <3>5
  <2>14. CASE EmptiesCart(r) /\ cartReq[r].op = "checkout"
    <3>1. /\ newBought = bought /\ newDue = due
          /\ cartPc[r] = "created" /\ cartPc'[r] = "done" /\ rows' = {}
      BY <2>5, <2>6, <2>14 DEF EmptiesCart
    <3>2. has = 0
      <4>1. {} \in SUBSET Row /\ OneLineEach({})
        BY DEF OneLineEach
      <4>2. QuantityOf(p, {}) = 0
        BY <4>1, QuantityIs
      <4> QED BY <2>3, <3>1, <4>2
    <3>3. has + newBought >= newDue
      BY <2>4, <2>5, <2>6, <3>1, <3>2
    <3>4. ASSUME NEW s \in Requests
          PROVE  /\ cartPc'[s] \in {"precheck", "place"} =>
                       QuantityOf(p, copy'[s]) + newBought >= newDue
                 /\ cartPc'[s] = "created" => newBought >= newDue
      <4>1. CASE s = r
        BY <3>1, <4>1
      <4>2. CASE s # r
        BY <2>4, <2>8, <3>1, <4>2
      <4> QED BY <4>1, <4>2
    <3> QED BY <2>3, <3>3, <3>4
  <2> QED BY <1>2, <2>9, <2>10, <2>11, <2>12, <2>13, <2>14, UnitsMove
<1> QED BY <1>1, <1>2 DEF CartNext

\* The inductive invariant and the books hold always.
LEMMA CartInvariance == CartSpec => [](CartInv /\ AddsAddUp /\ HeldOrOrdered)
<1>1. CartInit => AddsAddUp /\ HeldOrOrdered
  <2> SUFFICES ASSUME CartInit PROVE AddsAddUp /\ HeldOrOrdered
    OBVIOUS
  <2>1. CartTypeOK /\ Summable /\ rows = InitialRows
    BY CartInitInv DEF CartInv, CartInit
  <2>2. \A p : Added(p) = {} /\ Added(p) \ late = {}
    BY DEF CartInit, Added
  <2>3. Sent({}) = 0
    <3> DEFINE F == [r \in Requests |-> cartReq[r].quantity]
    <3>1. Sent({}) = SumFunctionOnSet(F, {})
      BY DEF Sent
    <3>2. \A y \in {} : F[y] \in Int
      OBVIOUS
    <3> HIDE DEF F
    <3>3. SumFunctionOnSet(F, {}) = 0
      BY <3>2, FS_EmptySet, SumWithout
    <3> QED BY <3>1, <3>3
  <2>4. \A p \in Products : Bought(p) \in Nat
    BY <2>1, BoughtIs
  <2>5. \A p : QuantityOf(p, rows) = QuantityOf(p, InitialRows) /\ QuantityOf(p, InitialRows) \in Nat
    BY <2>1, UnitsAtFirst
  <2>6. AddsAddUp
    BY <2>2, <2>3, <2>5 DEF AddsAddUp
  <2>7. \A r \in Requests : cartPc[r] = "idle"
    BY DEF CartInit
  <2>8. \A p : Due(p) = QuantityOf(p, InitialRows)
    BY <2>2, <2>3, <2>5 DEF Due
  <2>9. \A p \in Products : QuantityOf(p, rows) + Bought(p) >= Due(p)
    BY <2>4, <2>5, <2>8
  <2>10. HeldOrOrdered
    BY <2>7, <2>9 DEF HeldOrOrdered
  <2> QED BY <2>6, <2>10
<1>2. CartInv /\ AddsAddUp /\ HeldOrOrdered /\ [CartNext]_cartVars
         => (CartInv /\ AddsAddUp /\ HeldOrOrdered)'
  BY CartInvStep, AddsAddUpStep, HeldOrOrderedStep
<1> QED BY <1>1, <1>2, CartInitInv, PTL DEF CartSpec

\* Every variable of Cart keeps its type.
THEOREM CartTypeCorrect == CartSpec => []CartTypeOK
<1>1. CartInv => CartTypeOK
  BY DEF CartInv
<1> QED BY <1>1, CartInvariance, PTL

\* A step by which a line goes.
LEMMA LineGoes ==
    ASSUME CartInv, NEW r \in Requests, CartSubmit(r) \/ CartHandle(r),
           NEW row \in rows, \A x \in rows' : x.id # row.id
    PROVE  /\ cartAnswer'[r] # cartAnswer[r]
           /\ \/ cartReq[r].op = "remove" /\ row.id \in {c.id : c \in copy[r]}
              \/ cartReq[r].op = "checkout" /\ \E o \in orders : o.id = r
<1>0. /\ cartAnswer \in [Requests -> CartAnswers] /\ rows \subseteq Row /\ OneLineEach(rows)
      /\ cartReq[r] \in Body
      /\ cartPc[r] # "done" => cartAnswer[r] = "none"
  BY DEF CartInv, CartTypeOK, CartStageTells, LinesTell
<1>1. rows' # rows
  OBVIOUS
<1>2. ~Increments(r)
  <2> SUFFICES ASSUME Increments(r) PROVE FALSE
    OBVIOUS
  <2>1. PICK targets : rows' = Incremented(targets, cartReq[r].quantity)
    BY DEF Increments
  <2> DEFINE Up(x) == IF x \in targets THEN [x EXCEPT !.quantity = @ + cartReq[r].quantity]
                      ELSE x
  <2>2. Up(row) \in rows'
    BY <2>1 DEF Incremented
  <2>3. Up(row).id = row.id
    BY <1>0 DEF Row
  <2> QED BY <2>2, <2>3
<1>3. ~InsertLine(r) /\ ~SaveInsert(r)
  BY <1>1 DEF InsertLine, SaveInsert
<1>4. ~SaveUpdate(r)
  <2> SUFFICES ASSUME SaveUpdate(r) PROVE FALSE
    OBVIOUS
  <2> DEFINE Up(x) == IF x.id = FoundRow(r).id
                      THEN [x EXCEPT !.quantity = cartReq[r].quantity] ELSE x
  <2>1. Up(row) \in rows'
    BY DEF SaveUpdate
  <2>2. Up(row).id = row.id
    BY <1>0 DEF Row
  <2> QED BY <2>1, <2>2
<1>5. CASE DeleteLine(r)
  <2>1. cartAnswer'[r] = "ok" /\ cartPc[r] = "delete"
    BY <1>0, <1>5 DEF DeleteLine, CartFinish
  <2>2. row \in UNION {WithId(c.id) : c \in copy[r]}
    BY <1>5 DEF DeleteLine
  <2>3. \E c \in copy[r] : c.id = row.id
    BY <2>2 DEF WithId
  <2> QED BY <1>0, <2>1, <2>3 DEF CartInv, CartStageTells
<1>6. CASE ClearCart(r)
  <2>1. cartAnswer'[r] \in {"created", "error"} /\ cartPc[r] = "created"
    BY <1>0, <1>6 DEF ClearCart, CartFinish
  <2> QED BY <1>0, <2>1 DEF CartInv, CartStageTells
<1> QED BY <1>1, <1>2, <1>3, <1>4, <1>5, <1>6, RowsMove

\* LinesAreKept: what was put in the cart stays there until it is ordered or removed.  While
\* requests only add, the cart holds what they sent; with checkouts, refused, failed and
\* replayed ones too, only an add answered while a checkout held a copy can vanish; a line
\* goes only by its own remove or by a checkout that placed an order.
THEOREM LinesStay == CartSpec => LinesAreKept
<1>1. CartInv /\ AddsAddUp => NoAddLost
  <2> SUFFICES ASSUME CartInv, AddsAddUp, OnlyAdds, NEW p \in Products
               PROVE  /\ Cardinality(Of(p)) <= 1
                      /\ QuantityOf(p, rows) = QuantityOf(p, InitialRows) + Sent(Added(p))
    BY DEF NoAddLost, OnlyAdds
  <2>1. Of(p) = {} \/ \E row \in rows : Of(p) = {row}
    BY DEF Of, CartInv, LinesTell, OneLineEach
  <2>2. Cardinality(Of(p)) = 0 \/ Cardinality(Of(p)) = 1
    BY <2>1, FS_EmptySet, FS_Singleton
  <2> QED BY <2>2 DEF AddsAddUp
<1>2. HeldOrOrdered => VanishesInWindowOnly
  BY DEF HeldOrOrdered, VanishesInWindowOnly, OnlyAddsAndCheckouts, Accounted, Due
<1> DEFINE Goes == \A row \in rows :
                      WithId(row.id)' = {} =>
                          \E r \in Requests :
                              /\ cartAnswer'[r] # cartAnswer[r]
                              /\ \/ cartReq[r].op = "remove" /\ row.id \in {c.id : c \in copy[r]}
                                 \/ cartReq[r].op = "checkout" /\ \E o \in orders : o.id = r
<1>3. ASSUME CartInv, [CartNext]_cartVars PROVE Goes
  <2> SUFFICES ASSUME NEW row \in rows, WithId(row.id)' = {}
               PROVE  \E r \in Requests :
                          /\ cartAnswer'[r] # cartAnswer[r]
                          /\ \/ cartReq[r].op = "remove" /\ row.id \in {c.id : c \in copy[r]}
                             \/ cartReq[r].op = "checkout" /\ \E o \in orders : o.id = r
    OBVIOUS
  <2>1. \A x \in rows' : x.id # row.id
    BY DEF WithId
  <2>2. ~UNCHANGED cartVars
    BY <2>1 DEF cartVars
  <2>3. PICK r \in Requests : CartSubmit(r) \/ CartHandle(r)
    BY <1>3, <2>2 DEF CartNext
  <2> QED BY <1>3, <2>1, <2>3, LineGoes
<1>4. CartInv /\ [CartNext]_cartVars => [Goes]_cartVars
  BY <1>3
<1> HIDE DEF Goes
<1>5. CartSpec => [][Goes]_cartVars
  BY <1>4, CartInvariance, PTL DEF CartSpec
<1>6. CartSpec => OnlyOwnOrderClears
  BY <1>5 DEF OnlyOwnOrderClears, Goes
<1>7. CartSpec => [](NoAddLost /\ VanishesInWindowOnly)
  BY <1>1, <1>2, CartInvariance, PTL
<1> QED BY <1>6, <1>7, PTL DEF LinesAreKept
=============================================================================
