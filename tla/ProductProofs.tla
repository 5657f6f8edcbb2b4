---------------------------- MODULE ProductProofs ----------------------------
(***************************************************************************)
(* What PATCHes and the reviews of products keep, for every value of the   *)
(* constants: any number of requests, users, products and crashes, any     *)
(* bodies, any clock and any size of a page and of a limit.                *)
(***************************************************************************)
EXTENDS Catalog, Reviews, FiniteSetTheorems, SequenceTheorems, TLAPS

------------------------------------------------------------------------------
(***************************************************************************)
(* Catalog.  What the properties need is what a save has in hand: a PATCH  *)
(* that nobody overlapped holds the row as it is, with its own columns     *)
(* assigned; one whose SELECT came too late for that is stale, and then    *)
(* the row's history is no longer claimed.  The two halves about price     *)
(* drops follow the notifier from the UPDATE to the last user.             *)
(***************************************************************************)
Saving == {"select", "write"}
Notifying == {"orders", "reviews", "tell"}

\* Whoever has not finished has not answered.
NotAnswered == \A r \in Requests : pc[r] # "done" => answer[r] = "none"

\* What the save of a PATCH has in hand, before its SELECT and after.
BeforeSelect(r) ==
    /\ pc[r] \in {"idle", "select"} => r \notin stale
    /\ pc[r] = "select" /\ r \notin overlapped =>
          row # Gone /\ mine[r] = Assigned(row, req[r].set) /\ previous[r] = row.price

AfterSelect(r) ==
    /\ pc[r] = "write" /\ r \notin stale =>
          /\ found[r] # Gone
          /\ mine[r] = Assigned(found[r], req[r].set)
    /\ pc[r] = "write" /\ r \notin overlapped =>
          r \notin stale /\ found[r] = row /\ previous[r] = row.price

InHand == \A r \in Requests : BeforeSelect(r) /\ AfterSelect(r)

\* While no save was stale, versions only grow: no ETag served is ahead of the row.
TagsAreBehind ==
    stale = {} /\ row # Gone =>
        \A s \in served : s.version <= row.version /\ (s.version = row.version => s = row)

\* A PATCH with If-Match that nobody overlapped works on what some client was given.
TaggedIsServed ==
    \A r \in Requests :
        pc[r] \in Saving /\ req[r].tagged /\ r \notin overlapped /\ stale = {} => row \in served

\* The notifier of a PATCH that nobody overlapped: it runs if the price fell, whoever is
\* concerned is still to be asked for, to be told, or told once.
Notified(r) ==
    /\ pc[r] \notin Notifying \cup {"done"} => r \notin fell
    /\ pc[r] \in Notifying => r \in fell
    /\ r \notin fell => \A u \in Users : told[r][u] = 0
    /\ pc[r] = "orders" => audience[r] \subseteq orderers \cup reviewers
    /\ pc[r] = "reviews" => audience[r] \subseteq toTell[r] \cup reviewers
    /\ pc[r] = "tell" => /\ \A u \in toTell[r] : told[r][u] = 0
                         /\ \A u \in audience[r] \ toTell[r] : told[r][u] = 1
    /\ answer[r] = "ok" /\ r \in fell => \A u \in audience[r] : told[r][u] = 1

AllNotified == \A r \in Requests \ overlapped : Notified(r)

\* Nobody is told before the notifier runs, and what it quotes are prices there were.
Quote(r) ==
    /\ previous[r] \in prices
    /\ mine[r].price \in prices \/ r \in missed
    /\ mine[r].price < previous[r]

Quoted(r) ==
    /\ pc[r] \in Saving => previous[r] \in prices
    /\ pc[r] = "write" /\ found[r] # Gone => found[r].price \in prices
    /\ pc[r] \in Notifying => Quote(r)
    /\ pc[r] \notin {"tell", "done"} => \A u \in Users : told[r][u] = 0
    /\ \A u \in Users : told[r][u] > 0 => Quote(r)

AllQuoted == (row # Gone => row.price \in prices) /\ \A r \in Requests : Quoted(r)

IInv ==
    /\ TypeOK /\ NotAnswered /\ InHand
    /\ OrderedProductStays /\ StockIsKept
    /\ TagsAreBehind /\ TaggedIsServed
    /\ AllNotified /\ AllQuoted

------------------------------------------------------------------------------
(***************************************************************************)
(* Rows.                                                                   *)
(***************************************************************************)
LEMMA BodyShape ==
    ASSUME NEW b \in Bodies
    PROVE  /\ b.op \in {"patch", "order", "remove", "reset"}
           /\ b.user \in Users /\ b.tagged \in BOOLEAN
           /\ DOMAIN b.set \subseteq Columns
           /\ \A c \in DOMAIN b.set : b.set[c] \in (IF c = "name" THEN STRING ELSE Nat)
BY CatalogAssumption

LEMMA RowIsThere == ASSUME NEW w \in Row PROVE w # Gone
BY CatalogAssumption

\* An entity with a PATCH's columns assigned is a row, of the version that was read.
LEMMA AssignedRow ==
    ASSUME NEW b \in Bodies, NEW w \in Row
    PROVE  LET own == Assigned(w, b.set)
           IN  /\ own \in Row /\ own.version = w.version
               /\ \A c \in Columns \ DOMAIN b.set : own[c] = w[c]
<1> DEFINE own == Assigned(w, b.set)
<1>1. DOMAIN w = Columns \cup {"version"}
  BY DEF Row, Columns
<1>2. DOMAIN b.set \subseteq Columns
  BY BodyShape
<1>3. own = [c \in Columns \cup {"version"} |-> IF c \in DOMAIN b.set THEN b.set[c] ELSE w[c]]
  BY <1>1, <1>2 DEF Assigned
<1>4. own.price \in Nat /\ own.stock \in Nat /\ own.name \in STRING
  BY <1>3, BodyShape DEF Columns, Row
<1>5. own.version = w.version
  BY <1>2, <1>3 DEF Columns
<1>6. own = [price |-> own.price, stock |-> own.stock, name |-> own.name,
             version |-> own.version]
  BY <1>3 DEF Columns
<1>7. own \in Row
  BY <1>4, <1>5, <1>6 DEF Row
<1> QED BY <1>3, <1>5, <1>7

\* A row after an UPDATE.
LEMMA SavedRow ==
    ASSUME NEW w \in Row, NEW was \in Row, NEW own \in Row, NEW v \in Nat \ {0}
    PROVE  LET new == [Saved(w, was, own) EXCEPT !.version = v]
           IN  /\ new \in Row /\ new.version = v
               /\ \A c \in Columns : new[c] = IF own[c] # was[c] THEN own[c] ELSE w[c]
<1> DEFINE saved == Saved(w, was, own)
           new == [saved EXCEPT !.version = v]
<1>1. DOMAIN w = Columns \cup {"version"}
  BY DEF Row, Columns
<1>2. saved = [c \in Columns \cup {"version"} |-> IF own[c] # was[c] THEN own[c] ELSE w[c]]
  BY <1>1 DEF Saved
<1>3. new = [price |-> saved.price, stock |-> saved.stock, name |-> saved.name, version |-> v]
  BY <1>2 DEF Columns
<1>4. saved.price \in Nat /\ saved.stock \in Nat /\ saved.name \in STRING
  BY <1>2 DEF Columns, Row
<1>5. new \in Row
  BY <1>3, <1>4 DEF Row
<1> QED BY <1>2, <1>3, <1>5 DEF Columns

LEMMA BumpedRow ==
    ASSUME row \in Row, NEW stock \in Nat
    PROVE  LET new == Bumped(stock)
           IN  /\ new \in Row /\ new.version = row.version + 1
               /\ new.stock = stock /\ new.price = row.price
<1> DEFINE new == Bumped(stock)
<1>0. row = [price |-> row.price, stock |-> row.stock, name |-> row.name,
             version |-> row.version]
  BY DEF Row
<1>5. DOMAIN row = {"price", "stock", "name", "version"}
  BY <1>0
<1>4. new = [c \in DOMAIN row |-> IF c = "version" THEN row.version + 1
                                 ELSE IF c = "stock" THEN stock ELSE row[c]]
  BY <1>5 DEF Bumped
<1>1. new = [price |-> row.price, stock |-> stock, name |-> row.name,
             version |-> row.version + 1]
  BY <1>4, <1>5
<1>2. row.price \in Nat /\ row.name \in STRING /\ row.version + 1 \in Nat \ {0}
  BY DEF Row
<1>3. new \in Row
  BY <1>1, <1>2 DEF Row
<1> QED BY <1>1, <1>3

------------------------------------------------------------------------------
(***************************************************************************)
(* Steps.                                                                  *)
(***************************************************************************)
LEMMA Steps ==
    ASSUME [Next]_vars
    PROVE  \/ \E r \in Requests : Patch(r) \/ Others(r)
           \/ Get \/ Crash
           \/ UNCHANGED vars
BY DEF Next

\* What a PATCH reads, of one body under one tag.
Read(r, b, tag) ==
    /\ b.op = "patch" /\ Receive(r, b)
    /\ UNCHANGED <<row, orderers, reviewers, told, crashes, found, toTell, history>>
    /\ \/ /\ row = Gone \/ ~Matches(tag)
          /\ Finish(r, "notFound") \/ Finish(r, "preconditionFailed")
          /\ UNCHANGED <<mine, previous>>
       \/ /\ row # Gone /\ Matches(tag)
          /\ mine' = [mine EXCEPT ![r] = Assigned(row, b.set)]
          /\ previous' = [previous EXCEPT ![r] = row.price]
          /\ Goto(r, "select")

LEMMA ReadShape ==
    ASSUME NEW r \in Requests, ReadForPatch(r)
    PROVE  \E b \in Bodies : \E tag \in Tags(b) : Read(r, b, tag)
BY DEF ReadForPatch, Read

Writes(r) == row # Gone /\ Differs(r, Columns \cup {"version"})

\* What an UPDATE writes.
LEMMA UpdateShape ==
    ASSUME TypeOK, NEW r \in Requests, Update(r), Writes(r)
    PROVE  /\ row \in Row /\ row' \in Row /\ found[r] \in Row
           /\ \A c \in Columns :
                 row'[c] = IF mine[r][c] # found[r][c] THEN mine[r][c] ELSE row[c]
           /\ row'.version \in Versions(r)
           /\ WriteRow(r, row') /\ Fall(r, row')
           /\ expected' = IF "stock" \in DOMAIN req[r].set /\ Differs(r, {"stock"})
                          THEN row'.stock ELSE expected
<1>1. row \in Row /\ found[r] \in Row /\ mine[r] \in Row
  BY DEF TypeOK, Update, Writes
<1>2. PICK v \in Versions(r) :
          LET new == [Updated(r) EXCEPT !.version = v] IN
          /\ WriteRow(r, new)
          /\ Fall(r, new)
          /\ expected' = IF "stock" \in DOMAIN req[r].set /\ Differs(r, {"stock"})
                         THEN new.stock ELSE expected
  BY DEF Update, Writes
<1>3. v \in Nat \ {0}
  BY <1>1, <1>2 DEF Versions, Row
<1>4. row' = [Updated(r) EXCEPT !.version = v]
  BY <1>2 DEF WriteRow
<1>5. /\ row' \in Row /\ row'.version = v
      /\ \A c \in Columns : row'[c] = IF mine[r][c] # found[r][c] THEN mine[r][c] ELSE row[c]
  BY <1>1, <1>3, <1>4, SavedRow DEF Updated
<1> QED BY <1>1, <1>2, <1>4, <1>5

LEMMA NoUpdate ==
    ASSUME NEW r \in Requests, Update(r), ~Writes(r)
    PROVE  UNCHANGED <<row, served, prices, expected, overlapped, fell, audience>>
BY DEF Update, Writes

\* What is inserted anew.
LEMMA ReinsertShape ==
    ASSUME TypeOK, NEW r \in Requests, Reinsert(r), row = Gone
    PROVE  /\ row' \in Row /\ row'.price = mine[r].price
           /\ WriteRow(r, row')
<1> DEFINE new == [mine[r] EXCEPT !.version = 1]
<1>1. mine[r] \in Row
  BY DEF TypeOK
<1>2. new \in Row /\ new.price = mine[r].price
  BY <1>1 DEF Row
<1>3. WriteRow(r, new)
  BY DEF Reinsert
<1>4. row' = new
  BY <1>3 DEF WriteRow
<1> QED BY <1>2, <1>3, <1>4

------------------------------------------------------------------------------
(***************************************************************************)
(* Types.                                                                  *)
(***************************************************************************)
LEMMA InitTypes == Init => TypeOK /\ NotAnswered
<1> SUFFICES ASSUME Init PROVE TypeOK /\ NotAnswered
  OBVIOUS
<1>1. (CHOOSE b \in Bodies : TRUE) \in Bodies
  BY CatalogAssumption
<1>2. Product.price \in Nat /\ Product.stock \in Nat
  BY CatalogAssumption DEF Row
<1> QED BY <1>1, <1>2, CatalogAssumption DEF Init, TypeOK, NotAnswered

\* Moving on or finishing.
PcTypes ==
    /\ pc \in [Requests -> {"idle", "select", "write", "orders", "reviews", "tell",
                            "delete", "resetOrders", "done"}]
    /\ answer \in [Requests -> {"none", "ok", "notFound", "preconditionFailed", "error",
                                "conflict", "refused"}]
    /\ NotAnswered

LEMMA Moves ==
    ASSUME TypeOK, NotAnswered, NEW r \in Requests,
           \/ \E to \in {"select", "write", "orders", "reviews", "tell", "delete",
                          "resetOrders"} : pc[r] # "done" /\ Goto(r, to)
           \/ \E a \in {"ok", "notFound", "preconditionFailed", "error", "conflict",
                         "refused"} : Finish(r, a)
    PROVE  PcTypes'
<1> USE DEF TypeOK, NotAnswered, PcTypes, Goto, Finish
<1>1. ASSUME NEW to \in {"select", "write", "orders", "reviews", "tell", "delete",
                          "resetOrders"}, pc[r] # "done", Goto(r, to)
      PROVE  PcTypes'
  BY <1>1
<1>2. ASSUME NEW a \in {"ok", "notFound", "preconditionFailed", "error", "conflict",
                         "refused"}, Finish(r, a)
      PROVE  PcTypes'
  BY <1>2
<1> QED BY <1>1, <1>2

LEMMA StepTypes ==
    ASSUME TypeOK, NotAnswered, [Next]_vars
    PROVE  TypeOK' /\ NotAnswered'
<1> USE DEF TypeOK, NotAnswered, Goto, Finish, Receive, saver, history
<1>1. ASSUME NEW r \in Requests, ReadForPatch(r) PROVE TypeOK' /\ NotAnswered'
  <2>1. PICK b \in Bodies : \E tag \in Tags(b) : Read(r, b, tag)
    BY <1>1, ReadShape
  <2>2. PICK tag \in Tags(b) : Read(r, b, tag)
    BY <2>1
  <2>5. PcTypes' /\ req' \in [Requests -> Bodies]
    BY <2>2, Moves DEF Read
  <2>3. CASE row = Gone \/ ~Matches(tag)
    BY <2>2, <2>3, <2>5 DEF Read, PcTypes
  <2>4. CASE row # Gone /\ Matches(tag)
    <3>1. row \in Row /\ row.price \in Nat
      BY <2>4 DEF Row
    <3>2. Assigned(row, b.set) \in Row
      BY <3>1, AssignedRow
    <3>3. \/ UNCHANGED <<mine, previous>>
          \/ /\ mine' = [mine EXCEPT ![r] = Assigned(row, b.set)]
             /\ previous' = [previous EXCEPT ![r] = row.price]
      BY <2>2 DEF Read
    <3>6. PICK own \in Row : \/ UNCHANGED <<mine, previous>>
                              \/ /\ mine' = [mine EXCEPT ![r] = own]
                                 /\ previous' = [previous EXCEPT ![r] = row.price]
      BY <3>2, <3>3
    <3>4. mine' \in [Requests -> Row] /\ previous' \in [Requests -> Nat]
      <4>1. mine \in [Requests -> Row] /\ previous \in [Requests -> Nat]
        OBVIOUS
      <4>2. CASE UNCHANGED <<mine, previous>>
        BY <4>1, <4>2
      <4>3. CASE /\ mine' = [mine EXCEPT ![r] = own]
                 /\ previous' = [previous EXCEPT ![r] = row.price]
        BY <3>1, <4>1, <4>3
      <4> QED BY <3>6, <4>2, <4>3
    <3>5. UNCHANGED <<row, orderers, reviewers, told, crashes, found, toTell, history>>
      BY <2>2 DEF Read
    <3> QED BY <2>5, <3>4, <3>5 DEF PcTypes
  <2> QED BY <2>3, <2>4
<1>2. ASSUME NEW r \in Requests, Select(r) PROVE TypeOK' /\ NotAnswered'
  BY <1>2 DEF Select
<1>3. ASSUME NEW r \in Requests, Update(r) PROVE TypeOK' /\ NotAnswered'
  <2>1. /\ UNCHANGED <<orderers, reviewers, told, req, crashes, saver, stale>>
        /\ missed' \subseteq missed \cup {r}
        /\ pc[r] = "write"
    BY <1>3 DEF Update
  <2>2. pc' \in [Requests -> {"idle", "select", "write", "orders", "reviews", "tell",
                              "delete", "resetOrders", "done"}]
        /\ answer' \in [Requests -> {"none", "ok", "notFound", "preconditionFailed", "error",
                                     "conflict", "refused"}]
        /\ NotAnswered'
    <3>1. \/ pc' = [pc EXCEPT ![r] = "orders"] /\ answer' = answer
          \/ pc' = [pc EXCEPT ![r] = "done"] /\ answer' = [answer EXCEPT ![r] = "ok"]
      BY <1>3 DEF Update, AfterSave
    <3>2. CASE pc' = [pc EXCEPT ![r] = "orders"] /\ answer' = answer
      BY <2>1, <3>2
    <3>3. CASE pc' = [pc EXCEPT ![r] = "done"] /\ answer' = [answer EXCEPT ![r] = "ok"]
      BY <2>1, <3>3
    <3> QED BY <3>1, <3>2, <3>3
  <2>3. CASE Writes(r)
    <3>1. /\ row' \in Row /\ WriteRow(r, row') /\ Fall(r, row')
          /\ expected' = row'.stock \/ expected' = expected
      BY <1>3, <2>3, UpdateShape
    <3>2. row'.price \in Nat /\ row'.stock \in Nat
      BY <3>1 DEF Row
    <3>3. served' \subseteq Row /\ prices' \subseteq Nat /\ overlapped' \subseteq Requests
      BY <3>1, <3>2 DEF WriteRow, Overlap
    <3>4. fell' \subseteq Requests /\ audience' \in [Requests -> SUBSET Users]
      BY <3>1 DEF Fall
    <3> QED BY <2>1, <2>2, <3>1, <3>2, <3>3, <3>4
  <2>4. CASE ~Writes(r)
    BY <1>3, <2>1, <2>2, <2>4, NoUpdate
  <2> QED BY <2>3, <2>4
<1>4. ASSUME NEW r \in Requests, Reinsert(r) PROVE TypeOK' /\ NotAnswered'
  <2>1. CASE row = Gone
    <3>1. row' \in Row /\ WriteRow(r, row')
      BY <1>4, <2>1, ReinsertShape
    <3>2. row'.price \in Nat
      BY <3>1 DEF Row
    <3>3. served' \subseteq Row /\ prices' \subseteq Nat /\ overlapped' \subseteq Requests
      BY <3>1, <3>2 DEF WriteRow, Overlap
    <3> QED BY <1>4, <2>1, <3>1, <3>3 DEF Reinsert, AfterSave
  <2>2. CASE row # Gone
    BY <1>4, <2>2 DEF Reinsert
  <2> QED BY <2>1, <2>2
<1>5. ASSUME NEW r \in Requests, AskOrders(r) \/ AskReviews(r) PROVE TypeOK' /\ NotAnswered'
  <2>1. PcTypes'
    BY <1>5, Moves DEF AskOrders, AskReviews
  <2>2. toTell' \in [Requests -> SUBSET Users]
    BY <1>5 DEF AskOrders, AskReviews, Both
  <2>3. UNCHANGED <<row, orderers, reviewers, told, req, crashes, mine, found, previous, history>>
    BY <1>5 DEF AskOrders, AskReviews
  <2> QED BY <2>1, <2>2, <2>3 DEF PcTypes
<1>6. ASSUME NEW r \in Requests, Tell(r) PROVE TypeOK' /\ NotAnswered'
  <2>1. PICK u \in toTell[r] :
            /\ told' = [told EXCEPT ![r][u] = @ + 1]
            /\ toTell' = [toTell EXCEPT ![r] = @ \ {u}]
            /\ IF toTell[r] = {u} THEN Finish(r, "ok") ELSE UNCHANGED <<pc, answer>>
    BY <1>6 DEF Tell
  <2>2. u \in Users /\ told[r] \in [Users -> Nat]
    BY DEF TypeOK
  <2>3. told' \in [Requests -> [Users -> Nat]]
    BY <2>1, <2>2
  <2>4. toTell' \in [Requests -> SUBSET Users]
    BY <2>1
  <2>5. PcTypes'
    <3>1. CASE toTell[r] = {u}
      BY <2>1, <3>1, Moves
    <3>2. CASE toTell[r] # {u}
      BY <2>1, <3>2 DEF PcTypes
    <3> QED BY <3>1, <3>2
  <2> QED BY <1>6, <2>3, <2>4, <2>5 DEF Tell, PcTypes
<1>7. ASSUME NEW r \in Requests, FindForRemove(r) PROVE TypeOK' /\ NotAnswered'
  <2>1. PcTypes'
    BY <1>7, Moves DEF FindForRemove
  <2> QED BY <1>7, <2>1 DEF FindForRemove, PcTypes
<1>14. ASSUME NEW r \in Requests, Delete(r) PROVE TypeOK' /\ NotAnswered'
  <2>1. PcTypes'
    BY <1>14, Moves DEF Delete
  <2> QED BY <1>14, <2>1 DEF Delete, Overlap, PcTypes
<1>8. ASSUME NEW r \in Requests, Order(r) PROVE TypeOK' /\ NotAnswered'
  <2>1. PICK b \in Bodies :
            /\ req' = [req EXCEPT ![r] = b]
            /\ \/ UNCHANGED <<row, orderers, expected, overlapped>>
               \/ /\ Available /\ row' = Bumped(row.stock - 1)
                  /\ orderers' = orderers \cup {b.user}
                  /\ expected' = expected - 1
                  /\ Overlap(r)
    BY <1>8 DEF Order
  <2>2. ASSUME Available PROVE Bumped(row.stock - 1) \in Row
    <3>1. row \in Row /\ row.stock - 1 \in Nat
      BY <2>2 DEF Available, Row
    <3> QED BY <3>1, BumpedRow
  <2>3. /\ row' \in Row \cup {Gone} /\ orderers' \subseteq Users /\ expected' \in Int
        /\ req' \in [Requests -> Bodies] /\ overlapped' \subseteq Requests
    BY <2>1, <2>2, BodyShape DEF Overlap
  <2>4. PcTypes'
    BY <1>8, Moves DEF Order
  <2> QED BY <1>8, <2>3, <2>4 DEF Order, PcTypes
<1>9. ASSUME NEW r \in Requests, ResetStock(r) PROVE TypeOK' /\ NotAnswered'
  <2>1. ASSUME row # Gone PROVE Bumped(Baseline) \in Row
    BY <2>1, BumpedRow, CatalogAssumption
  <2>2. PcTypes'
    BY <1>9, Moves DEF ResetStock
  <2>3. /\ row' \in Row \cup {Gone} /\ expected' \in Int
        /\ req' \in [Requests -> Bodies] /\ overlapped' \subseteq Requests
    BY <1>9, <2>1, CatalogAssumption DEF ResetStock, Overlap
  <2> QED BY <1>9, <2>2, <2>3 DEF ResetStock, PcTypes
<1>10. ASSUME NEW r \in Requests, ResetOrders(r) PROVE TypeOK' /\ NotAnswered'
  BY <1>10 DEF ResetOrders
<1>11. ASSUME Get PROVE TypeOK' /\ NotAnswered'
  BY <1>11 DEF Get
<1>12. ASSUME Crash PROVE TypeOK' /\ NotAnswered'
  BY <1>12, CatalogAssumption DEF Crash
<1>13. ASSUME UNCHANGED vars PROVE TypeOK' /\ NotAnswered'
  BY <1>13 DEF vars
<1> QED BY <1>1, <1>2, <1>3, <1>4, <1>5, <1>6, <1>7, <1>8, <1>9, <1>10, <1>11, <1>12, <1>13,
           <1>14, Steps DEF Patch, Others

\* Every variable has its type, whatever is sent and whoever crashes.
THEOREM TypeCorrect == Spec => []TypeOK
<1>1. TypeOK /\ NotAnswered /\ [Next]_vars => (TypeOK /\ NotAnswered)'
  BY StepTypes
<1> QED BY <1>1, InitTypes, PTL DEF Spec
------------------------------------------------------------------------------
(***************************************************************************)
(* A request's step is its own.                                            *)
(***************************************************************************)
Acts(s) == Patch(s) \/ Others(s)

\* The history only grows.
LEMMA HistoryGrows ==
    ASSUME [Next]_vars
    PROVE  /\ served \subseteq served' /\ prices \subseteq prices' /\ stale \subseteq stale'
           /\ overlapped \subseteq overlapped' /\ missed \subseteq missed'
           /\ fell \subseteq fell'
<1> USE DEF history
<1>1. ASSUME NEW s \in Requests, ReadForPatch(s)
      PROVE  UNCHANGED history
  BY <1>1 DEF ReadForPatch
<1>2. ASSUME NEW s \in Requests,
             AskOrders(s) \/ AskReviews(s) \/ Tell(s) \/ FindForRemove(s)
      PROVE  UNCHANGED history
  BY <1>2 DEF AskOrders, AskReviews, Tell, FindForRemove
<1>3. ASSUME NEW s \in Requests, Select(s)
      PROVE  stale \subseteq stale'
             /\ UNCHANGED <<served, prices, overlapped, missed, fell>>
  BY <1>3 DEF Select
<1>4. ASSUME NEW s \in Requests, Update(s) \/ Reinsert(s)
      PROVE  /\ served \subseteq served' /\ prices \subseteq prices' /\ stale' = stale
             /\ overlapped \subseteq overlapped' /\ missed \subseteq missed'
             /\ fell \subseteq fell'
  BY <1>4 DEF Update, Reinsert, WriteRow, Overlap, Fall
<1>5. ASSUME NEW s \in Requests, Delete(s) \/ Order(s) \/ ResetStock(s) \/ ResetOrders(s)
      PROVE  /\ overlapped \subseteq overlapped'
             /\ UNCHANGED <<served, prices, stale, missed, fell>>
  BY <1>5 DEF Delete, Order, ResetStock, ResetOrders, Overlap
<1>6. Get \/ Crash \/ UNCHANGED vars =>
          served \subseteq served' /\ UNCHANGED <<prices, stale, overlapped, missed, fell>>
  BY DEF Get, Crash, vars
<1> QED BY <1>1, <1>2, <1>3, <1>4, <1>5, <1>6, Steps DEF Patch, Others

\* A request's step leaves every other request where it was; if it writes the row, it
\* runs through the saves in progress.
LEMMA Elsewhere ==
    ASSUME TypeOK, NEW s \in Requests, Acts(s), NEW x \in Requests \ {s}
    PROVE  /\ pc'[x] = pc[x] /\ answer'[x] = answer[x] /\ req'[x] = req[x]
           /\ mine'[x] = mine[x] /\ found'[x] = found[x] /\ previous'[x] = previous[x]
           /\ toTell'[x] = toTell[x] /\ told'[x] = told[x]
           /\ x \in stale' <=> x \in stale
           /\ x \in missed' <=> x \in missed
           /\ x \in fell' <=> x \in fell
           /\ row' = row \/ (pc[x] \in Saving => x \in overlapped')
<1> USE DEF TypeOK, Goto, Finish, Receive, saver, history, Saving
<1>1. CASE ReadForPatch(s)
  BY <1>1 DEF ReadForPatch
<1>2. CASE Select(s) \/ AskOrders(s) \/ AskReviews(s) \/ Tell(s)
  BY <1>2 DEF Select, AskOrders, AskReviews, Tell
<1>3. CASE Update(s) \/ Reinsert(s)
  BY <1>3 DEF Update, Reinsert, AfterSave, WriteRow, Overlap, Fall
<1>4. CASE FindForRemove(s) \/ Delete(s)
  BY <1>4 DEF FindForRemove, Delete, Overlap
<1>5. CASE Order(s) \/ ResetStock(s) \/ ResetOrders(s)
  BY <1>5 DEF Order, ResetStock, ResetOrders, Overlap
<1> QED BY <1>1, <1>2, <1>3, <1>4, <1>5 DEF Acts, Patch, Others

\* What a request does to its own place in a save.
LEMMA Arrival ==
    ASSUME TypeOK, NEW s \in Requests, Acts(s)
    PROVE  /\ pc[s] # "done" /\ pc'[s] # "idle"
           /\ s \in overlapped' <=> s \in overlapped
           /\ pc'[s] = "select" =>
                 \E b \in Bodies : \E tag \in Tags(b) :
                     Read(s, b, tag) /\ row # Gone /\ Matches(tag)
           /\ pc'[s] = "write" => Select(s)
<1> USE DEF TypeOK, Goto, Finish, Receive, saver, history
<1>1. CASE ReadForPatch(s)
  <2>1. PICK b \in Bodies : \E tag \in Tags(b) : Read(s, b, tag)
    BY <1>1, ReadShape
  <2>2. PICK tag \in Tags(b) : Read(s, b, tag)
    BY <2>1
  <2>3. /\ pc[s] = "idle" /\ overlapped' = overlapped /\ pc'[s] \in {"done", "select"}
        /\ pc'[s] = "select" => row # Gone /\ Matches(tag)
    BY <2>2 DEF Read
  <2> QED BY <2>2, <2>3
<1>2. CASE Select(s) \/ AskOrders(s) \/ AskReviews(s) \/ Tell(s)
  BY <1>2 DEF Select, AskOrders, AskReviews, Tell
<1>3. CASE Update(s) \/ Reinsert(s)
  <2>1. CASE Update(s)
    <3>1. overlapped' = overlapped \/ Overlap(s)
      BY <2>1 DEF Update, WriteRow
    <3>2. AfterSave(s) /\ pc[s] = "write"
      BY <2>1 DEF Update
    <3>3. pc'[s] \in {"orders", "done"}
      BY <3>2 DEF AfterSave
    <3> QED BY <3>1, <3>2, <3>3 DEF Overlap
  <2>2. CASE Reinsert(s)
    <3>1. overlapped' = overlapped \/ Overlap(s)
      BY <2>2 DEF Reinsert, WriteRow
    <3>2. pc[s] = "write" /\ pc'[s] \in {"orders", "done"}
      BY <2>2 DEF Reinsert, AfterSave
    <3> QED BY <3>1, <3>2 DEF Overlap
  <2> QED BY <1>3, <2>1, <2>2
<1>4. CASE FindForRemove(s) \/ Delete(s)
  BY <1>4 DEF FindForRemove, Delete, Overlap
<1>5. CASE Order(s) \/ ResetStock(s) \/ ResetOrders(s)
  BY <1>5 DEF Order, ResetStock, ResetOrders, Overlap
<1> QED BY <1>1, <1>2, <1>3, <1>4, <1>5 DEF Acts, Patch, Others

\* A crash or a read by a client leaves the requests' work where it was.
LEMMA Outside ==
    ASSUME TypeOK, Get \/ Crash \/ UNCHANGED vars
    PROVE  /\ UNCHANGED <<row, orderers, reviewers, told, req, answer, saver, prices,
                          expected, stale, overlapped, missed, fell, audience>>
           /\ \A x \in Requests : pc'[x] = pc[x] \/ pc'[x] = "done"
           /\ \A x \in Requests : pc[x] = "done" => pc'[x] = "done"
BY DEF TypeOK, Get, Crash, vars, saver, history

------------------------------------------------------------------------------
(***************************************************************************)
(* What a save has in hand.                                                *)
(***************************************************************************)
LEMMA InHandStep ==
    ASSUME TypeOK, TypeOK', InHand, [Next]_vars
    PROVE  InHand'
<1> USE DEF Saving
<1>1. ASSUME NEW s \in Requests, Acts(s), NEW x \in Requests \ {s}
      PROVE  BeforeSelect(x)' /\ AfterSelect(x)'
  <2>1. BeforeSelect(x) /\ AfterSelect(x)
    BY DEF InHand
  <2> QED BY <1>1, <2>1, Elsewhere, HistoryGrows DEF BeforeSelect, AfterSelect
<1>2. ASSUME NEW s \in Requests, Acts(s)
      PROVE  BeforeSelect(s)'
  <2>2. pc'[s] # "idle"
    BY <1>2, Arrival
  <2> SUFFICES ASSUME pc'[s] = "select"
               PROVE  s \notin stale' /\ row' # Gone
                      /\ mine'[s] = Assigned(row', req'[s].set)
                      /\ previous'[s] = row'.price
    BY <2>2 DEF BeforeSelect
  <2>3. BeforeSelect(s)
    BY DEF InHand
  <2>1. PICK b \in Bodies, tag \in UNION {Tags(c) : c \in Bodies} :
            Read(s, b, tag) /\ row # Gone /\ Matches(tag)
    BY <1>2, Arrival
  <2> QED BY <2>1, <2>3 DEF Read, Receive, TypeOK, Finish, history, BeforeSelect
<1>3. ASSUME NEW s \in Requests, Acts(s)
      PROVE  AfterSelect(s)'
  <2> SUFFICES ASSUME pc'[s] = "write"
               PROVE  AfterSelect(s)'
    BY DEF AfterSelect
  <2>1. Select(s)
    BY <1>3, Arrival
  <2>2. BeforeSelect(s)
    BY DEF InHand
  <2> QED BY <2>1, <2>2 DEF Select, TypeOK, BeforeSelect, AfterSelect
<1>4. ASSUME Get \/ Crash \/ UNCHANGED vars PROVE InHand'
  <2>1. /\ UNCHANGED <<row, req, mine, found, previous, stale, overlapped>>
        /\ \A x \in Requests : pc'[x] = pc[x] \/ pc'[x] = "done"
    BY <1>4, Outside DEF saver
  <2> QED BY <2>1 DEF InHand, BeforeSelect, AfterSelect
<1> QED BY <1>1, <1>2, <1>3, <1>4, Steps DEF InHand, Acts
------------------------------------------------------------------------------
(***************************************************************************)
(* The row.                                                                *)
(***************************************************************************)
\* Every way the row, its orders and the ledger of its stock change.
Kept == UNCHANGED <<row, expected>> /\ orderers' \subseteq orderers

Written(r) == Update(r) /\ Writes(r) /\ UNCHANGED <<orderers, stale>>

Revived(r) == Reinsert(r) /\ row = Gone /\ UNCHANGED <<orderers, stale>>

Removed == /\ orderers = {} /\ row' = Gone
           /\ UNCHANGED <<orderers, expected, stale, served>>

Sold(b) == /\ Available /\ row' = Bumped(row.stock - 1)
           /\ orderers' = orderers \cup {b.user}
           /\ expected' = expected - 1
           /\ UNCHANGED <<stale, served>>

Restocked == /\ row # Gone /\ row' = Bumped(Baseline)
             /\ expected' = Baseline
             /\ UNCHANGED <<orderers, stale, served>>

LEMMA RowSteps ==
    ASSUME TypeOK, [Next]_vars
    PROVE  \/ Kept
           \/ \E r \in Requests : Written(r) \/ Revived(r)
           \/ Removed
           \/ \E b \in Bodies : Sold(b)
           \/ Restocked
<1> USE DEF history, saver
<1>1. ASSUME NEW r \in Requests, ReadForPatch(r) \/ Select(r) PROVE Kept
  BY <1>1 DEF ReadForPatch, Select, Kept
<1>2. ASSUME NEW r \in Requests, Update(r) PROVE Kept \/ Written(r)
  BY <1>2, NoUpdate DEF Update, Kept, Written
<1>3. ASSUME NEW r \in Requests, Reinsert(r) PROVE Kept \/ Revived(r)
  BY <1>3 DEF Reinsert, Kept, Revived
<1>4. ASSUME NEW r \in Requests,
             AskOrders(r) \/ AskReviews(r) \/ Tell(r) \/ FindForRemove(r) \/ ResetOrders(r)
      PROVE  Kept
  BY <1>4 DEF AskOrders, AskReviews, Tell, FindForRemove, ResetOrders, Kept
<1>5. ASSUME NEW r \in Requests, Delete(r) PROVE Kept \/ Removed
  BY <1>5 DEF Delete, NobodyOrdered, Kept, Removed
<1>6. ASSUME NEW r \in Requests, Order(r) PROVE Kept \/ \E b \in Bodies : Sold(b)
  BY <1>6 DEF Order, Kept, Sold
<1>7. ASSUME NEW r \in Requests, ResetStock(r) PROVE Kept \/ Restocked
  BY <1>7 DEF ResetStock, Kept, Restocked
<1>8. Get \/ Crash \/ UNCHANGED vars => Kept
  BY DEF Get, Crash, vars, Kept
<1> QED BY <1>1, <1>2, <1>3, <1>4, <1>5, <1>6, <1>7, <1>8, Steps DEF Patch, Others

\* What the UPDATE of a save that is not stale leaves behind.
LEMMA WrittenFresh ==
    ASSUME TypeOK, InHand, NEW r \in Requests, Written(r), r \notin stale
    PROVE  /\ row \in Row /\ row' \in Row
           /\ row'.version = row.version + 1
           /\ row'.stock = IF "stock" \in DOMAIN req[r].set /\ Differs(r, {"stock"})
                           THEN row'.stock ELSE row.stock
<1>1. /\ found[r] \in Row /\ req[r] \in Bodies
      /\ mine[r] = Assigned(found[r], req[r].set)
  BY DEF TypeOK, InHand, AfterSelect, Written, Update
<1>2. /\ mine[r].version = found[r].version
      /\ "stock" \notin DOMAIN req[r].set => mine[r].stock = found[r].stock
  BY <1>1, AssignedRow DEF Columns
<1>3. Versions(r) = {row.version + 1}
  BY <1>2 DEF Versions, Differs
<1>4. /\ row \in Row /\ row' \in Row /\ row'.version \in Versions(r)
      /\ row'.stock = IF mine[r].stock # found[r].stock THEN mine[r].stock ELSE row.stock
  BY UpdateShape DEF Written, Columns
<1>5. Differs(r, {"stock"}) <=> mine[r].stock # found[r].stock
  BY DEF Differs
<1> QED BY <1>2, <1>3, <1>4, <1>5

\* Only a stale save brings a removed product back.
LEMMA RevivedIsStale ==
    ASSUME InHand, NEW r \in Requests, Revived(r)
    PROVE  stale # {} /\ stale' # {}
BY DEF InHand, AfterSelect, Revived, Reinsert

LEMMA StockStep ==
    ASSUME TypeOK, TypeOK', InHand, OrderedProductStays, StockIsKept, [Next]_vars
    PROVE  OrderedProductStays' /\ StockIsKept'
<1>1. CASE Kept
  <2>1. stale' = {} => stale = {}
    BY HistoryGrows
  <2> QED BY <1>1, <2>1 DEF Kept, OrderedProductStays, StockIsKept
<1>2. ASSUME NEW r \in Requests, Written(r)
      PROVE  OrderedProductStays' /\ StockIsKept'
  <2>1. row' \in Row /\ row # Gone
        /\ expected' = IF "stock" \in DOMAIN req[r].set /\ Differs(r, {"stock"})
                       THEN row'.stock ELSE expected
    BY <1>2, UpdateShape DEF Written, Writes
  <2>2. OrderedProductStays'
    BY <2>1, RowIsThere DEF OrderedProductStays
  <2>3. ASSUME stale' = {} PROVE row'.stock = expected'
    <3>1. stale = {} /\ row.stock = expected
      BY <1>2, <2>1, <2>3 DEF Written, StockIsKept
    <3> QED BY <1>2, <2>1, <3>1, WrittenFresh
  <2> QED BY <2>2, <2>3 DEF StockIsKept
<1>3. ASSUME NEW r \in Requests, Revived(r)
      PROVE  OrderedProductStays' /\ StockIsKept'
  <2>1. row' \in Row /\ stale' # {}
    BY <1>3, RevivedIsStale, ReinsertShape DEF Revived
  <2> QED BY <2>1, RowIsThere DEF OrderedProductStays, StockIsKept
<1>4. CASE Removed
  BY <1>4 DEF Removed, OrderedProductStays, StockIsKept
<1>5. ASSUME NEW b \in Bodies, Sold(b)
      PROVE  OrderedProductStays' /\ StockIsKept'
  <2>1. row \in Row /\ row.stock - 1 \in Nat /\ row # Gone
    BY <1>5 DEF Sold, Available, TypeOK, Row
  <2>2. row' \in Row /\ row'.stock = row.stock - 1
    BY <1>5, <2>1, BumpedRow DEF Sold
  <2> QED BY <1>5, <2>1, <2>2, RowIsThere DEF Sold, OrderedProductStays, StockIsKept
<1>6. CASE Restocked
  <2>1. row' \in Row /\ row'.stock = Baseline
    BY <1>6, BumpedRow, CatalogAssumption DEF Restocked, TypeOK
  <2> QED BY <1>6, <2>1, RowIsThere DEF Restocked, OrderedProductStays, StockIsKept
<1> QED BY <1>1, <1>2, <1>3, <1>4, <1>5, <1>6, RowSteps

------------------------------------------------------------------------------
(***************************************************************************)
(* Tags.                                                                   *)
(***************************************************************************)
\* What was served besides: nothing, the row as it is, or the row as it has been written.
LEMMA ServedSteps ==
    ASSUME TypeOK, [Next]_vars
    PROVE  \/ served' = served
           \/ row # Gone /\ row' = row /\ served' = served \cup {row}
           \/ \E r \in Requests : Written(r) \/ Revived(r)
<1> USE DEF history, saver
<1>1. ASSUME NEW r \in Requests, Update(r) \/ Reinsert(r)
      PROVE  served' = served \/ Written(r) \/ Revived(r)
  BY <1>1, NoUpdate DEF Update, Reinsert, Written, Revived
<1>2. ASSUME NEW r \in Requests, ReadForPatch(r) \/ Select(r) \/ AskOrders(r)
                                 \/ AskReviews(r) \/ Tell(r) \/ Others(r)
      PROVE  served' = served
  BY <1>2 DEF ReadForPatch, Select, AskOrders, AskReviews, Tell, Others, FindForRemove,
              Delete, Order, ResetStock, ResetOrders
<1> QED BY <1>1, <1>2, Steps DEF Patch, Get, Crash, vars

\* A row of the next version is ahead of everything that was served.
LEMMA Ahead ==
    ASSUME TypeOK, TagsAreBehind, stale = {}, row # Gone, row' \in Row,
           row'.version = row.version + 1, served' \subseteq served \cup {row'}
    PROVE  TagsAreBehind'
<1>1. row \in Row /\ row.version \in Nat
  BY DEF TypeOK, Row
<1>2. ASSUME NEW s \in served PROVE s.version < row'.version
  <2>1. s \in Row /\ s.version \in Nat /\ s.version <= row.version
    BY <1>2 DEF TypeOK, Row, TagsAreBehind
  <2> QED BY <1>1, <2>1
<1>3. row'.version \in Nat
  BY <1>1
<1>4. ASSUME NEW s \in served'
      PROVE  s.version <= row'.version /\ (s.version = row'.version => s = row')
  <2>1. CASE s = row'
    BY <1>3, <2>1
  <2>2. CASE s \in served
    <3>1. s.version \in Nat
      BY <2>2 DEF TypeOK, Row
    <3> QED BY <1>2, <1>3, <2>2, <3>1
  <2> QED BY <2>1, <2>2
<1> QED BY <1>4 DEF TagsAreBehind

LEMMA TagsStep ==
    ASSUME TypeOK, TypeOK', InHand, TagsAreBehind, [Next]_vars
    PROVE  TagsAreBehind'
<1> SUFFICES ASSUME stale' = {}, row' # Gone
             PROVE  TagsAreBehind'
  BY DEF TagsAreBehind
<1>1. stale = {}
  BY HistoryGrows
<1>2. CASE Kept
  <2>1. row' = row /\ row \in Row
    BY <1>2 DEF Kept, TypeOK
  <2>2. CASE served' \subseteq served \cup {row}
    <3>1. row.version \in Nat
      BY <2>1 DEF Row
    <3> QED BY <1>1, <2>1, <2>2, <3>1 DEF TagsAreBehind
  <2>3. ASSUME NEW r \in Requests, Written(r)
        PROVE  served' \subseteq served \cup {row}
    BY <2>1, <2>3, UpdateShape DEF Written, WriteRow
  <2>4. ASSUME NEW r \in Requests, Revived(r)
        PROVE  FALSE
    BY <2>1, <2>4, RowIsThere DEF Revived
  <2> QED BY <2>2, <2>3, <2>4, ServedSteps
<1>3. ASSUME NEW r \in Requests, Written(r)
      PROVE  TagsAreBehind'
  <2>1. row' \in Row /\ row'.version = row.version + 1
    BY <1>1, <1>3, WrittenFresh
  <2>2. served' \subseteq served \cup {row'} /\ row # Gone
    BY <1>3, UpdateShape DEF Written, WriteRow, Writes
  <2> QED BY <1>1, <2>1, <2>2, Ahead
<1>4. ASSUME NEW r \in Requests, Revived(r)
      PROVE  FALSE
  BY <1>1, <1>4, RevivedIsStale
<1>5. CASE Removed
  BY <1>5 DEF Removed
<1>6. ASSUME NEW b \in Bodies, Sold(b)
      PROVE  TagsAreBehind'
  <2>1. row \in Row /\ row.stock - 1 \in Nat /\ row # Gone
    BY <1>6 DEF Sold, Available, TypeOK, Row
  <2>2. row' \in Row /\ row'.version = row.version + 1
    BY <1>6, <2>1, BumpedRow DEF Sold
  <2> QED BY <1>1, <1>6, <2>1, <2>2, Ahead DEF Sold
<1>7. CASE Restocked
  <2>1. row \in Row /\ row # Gone
    BY <1>7 DEF Restocked, TypeOK
  <2>2. row' \in Row /\ row'.version = row.version + 1
    BY <1>7, <2>1, BumpedRow, CatalogAssumption DEF Restocked
  <2> QED BY <1>1, <1>7, <2>1, <2>2, Ahead DEF Restocked
<1> QED BY <1>2, <1>3, <1>4, <1>5, <1>6, <1>7, RowSteps

LEMMA TaggedStep ==
    ASSUME TypeOK, TypeOK', TagsAreBehind, TaggedIsServed, [Next]_vars
    PROVE  TaggedIsServed'
<1>0. served \subseteq served' /\ overlapped \subseteq overlapped'
      /\ (stale' = {} => stale = {})
  BY HistoryGrows
<1>1. ASSUME NEW s \in Requests, Acts(s), NEW x \in Requests \ {s},
             pc'[x] \in Saving, req'[x].tagged, x \notin overlapped', stale' = {}
      PROVE  row' \in served'
  <2>1. pc[x] \in Saving /\ req[x].tagged /\ row' = row
    BY <1>1, Elsewhere
  <2> QED BY <1>0, <1>1, <2>1 DEF TaggedIsServed
<1>2. ASSUME NEW s \in Requests, Acts(s), pc'[s] = "select", req'[s].tagged, stale' = {}
      PROVE  row' \in served'
  <2>1. PICK b \in Bodies : \E tag \in Tags(b) : Read(s, b, tag) /\ row # Gone /\ Matches(tag)
    BY <1>2, Arrival
  <2>2. PICK tag \in Tags(b) : Read(s, b, tag) /\ Matches(tag)
    BY <2>1
  <2>3. b.tagged /\ row' = row /\ served' = served /\ stale' = stale
    BY <1>2, <2>2 DEF Read, Receive, TypeOK, history
  <2>4. PICK z \in served : z.version = tag
    BY <2>3, <2>2 DEF Tags
  <2>5. tag \in Nat
    BY <2>4 DEF TypeOK, Row
  <2>6. z.version = row.version
    BY <2>2, <2>4, <2>5, CatalogAssumption DEF Matches
  <2> QED BY <1>2, <2>1, <2>3, <2>6 DEF TagsAreBehind
<1>3. ASSUME NEW s \in Requests, Acts(s), pc'[s] = "write", req'[s].tagged,
             s \notin overlapped', stale' = {}
      PROVE  row' \in served'
  <2>1. Select(s)
    BY <1>3, Arrival
  <2>2. pc[s] = "select" /\ row' = row /\ req' = req
    BY <2>1 DEF Select
  <2> QED BY <1>0, <1>3, <2>2 DEF TaggedIsServed, Saving
<1>4. ASSUME Get \/ Crash \/ UNCHANGED vars
      PROVE  TaggedIsServed'
  <2>1. /\ UNCHANGED <<row, req, stale, overlapped>>
        /\ \A x \in Requests : pc'[x] = pc[x] \/ pc'[x] = "done"
    BY <1>4, Outside
  <2> QED BY <1>0, <2>1 DEF TaggedIsServed, Saving
<1>5. CASE \E s \in Requests : Acts(s)
  BY <1>1, <1>2, <1>3, <1>5 DEF TaggedIsServed, Saving
<1> QED BY <1>4, <1>5, Steps DEF Acts
------------------------------------------------------------------------------
(***************************************************************************)
(* The notifier.                                                           *)
(***************************************************************************)
\* How a request changes whom another's drop concerns, and who ordered or reviewed: it
\* adds its own drop, and whoever is not concerned any more is dropped everywhere.
LEMMA AudienceSteps ==
    ASSUME TypeOK, NEW s \in Requests, Acts(s), NEW x \in Requests,
           x # s \/ ~Update(s)
    PROVE  /\ audience'[x] \subseteq audience[x]
           /\ audience'[x] \cap orderers \subseteq orderers' \cup reviewers'
           /\ audience'[x] \cap reviewers \subseteq reviewers'
<1> USE DEF TypeOK, history
<1>1. CASE ReadForPatch(s) \/ Select(s) \/ AskOrders(s) \/ AskReviews(s) \/ Tell(s)
           \/ FindForRemove(s) \/ Order(s) \/ ResetStock(s) \/ Reinsert(s)
  <2>1. orderers \subseteq orderers' /\ reviewers' = reviewers /\ audience' = audience
    BY <1>1 DEF ReadForPatch, Select, AskOrders, AskReviews, Tell, FindForRemove, Order,
                ResetStock, Reinsert
  <2> QED BY <2>1
<1>2. CASE Update(s)
  <2>1. audience'[x] = audience[x] /\ UNCHANGED <<orderers, reviewers>>
    BY <1>2 DEF Update, Fall
  <2> QED BY <2>1
<1>3. CASE Delete(s)
  <2>1. \/ UNCHANGED <<audience, orderers, reviewers>>
        \/ audience'[x] = {}
    BY <1>3 DEF Delete
  <2> QED BY <2>1
<1>4. CASE ResetOrders(s)
  <2>1. /\ orderers' = orderers \ {LoadUser} /\ reviewers' = reviewers
        /\ audience'[x] = audience[x] \ ({LoadUser} \ reviewers)
    BY <1>4 DEF ResetOrders
  <2> QED BY <2>1
<1> QED BY <1>1, <1>2, <1>3, <1>4 DEF Acts, Patch, Others

\* A save that nobody overlapped lowers the price exactly when its notifier runs.
LEMMA FallsAsTold ==
    ASSUME TypeOK, InHand, NEW r \in Requests, Update(r), r \notin overlapped, r \notin fell
    PROVE  /\ r \in fell' <=> pc'[r] = "orders"
           /\ r \in fell' => audience'[r] = orderers \cup reviewers
<1>1. /\ r \notin stale /\ found[r] = row /\ row # Gone /\ row \in Row
      /\ mine[r] = Assigned(row, req[r].set) /\ previous[r] = row.price
      /\ req[r] \in Bodies /\ mine[r] \in Row
  BY DEF InHand, AfterSelect, Update, TypeOK
<1>2. /\ mine[r].price \in Nat /\ row.price \in Nat
      /\ "price" \notin DOMAIN req[r].set => mine[r].price = row.price
  BY <1>1, AssignedRow DEF Row, Columns
<1>3. Dropped(r) <=> mine[r].price < row.price
  BY <1>1 DEF Dropped
<1>4. mine[r].price < row.price => "price" \in DOMAIN req[r].set /\ Writes(r)
  BY <1>1, <1>2 DEF Writes, Differs, Columns
<1>5. pc'[r] = "orders" <=> mine[r].price < row.price
  BY <1>2, <1>3, <1>4 DEF Update, AfterSave, Goto, Finish, TypeOK
<1>6. CASE Writes(r)
  <2>1. row'.price = mine[r].price /\ Fall(r, row')
    BY <1>1, <1>6, UpdateShape DEF Columns
  <2>2. r \in fell' <=> mine[r].price < row.price
    BY <1>1, <2>1 DEF Fall
  <2>3. r \in fell' => audience'[r] = orderers \cup reviewers
    BY <2>1 DEF Fall, TypeOK
  <2> QED BY <1>5, <2>2, <2>3
<1>7. CASE ~Writes(r)
  BY <1>4, <1>5, <1>7, NoUpdate
<1> QED BY <1>6, <1>7

LEMMA NotifiedElsewhere ==
    ASSUME TypeOK, NEW s \in Requests, Acts(s), NEW x \in Requests \ {s}, Notified(x)
    PROVE  Notified(x)'
<1>1. /\ pc'[x] = pc[x] /\ answer'[x] = answer[x] /\ toTell'[x] = toTell[x]
      /\ told'[x] = told[x] /\ (x \in fell' <=> x \in fell)
  BY Elsewhere
<1>2. /\ audience'[x] \subseteq audience[x]
      /\ audience'[x] \cap orderers \subseteq orderers' \cup reviewers'
      /\ audience'[x] \cap reviewers \subseteq reviewers'
  BY AudienceSteps
<1>3. audience[x] \subseteq orderers \cup reviewers =>
          audience'[x] \subseteq orderers' \cup reviewers'
  BY <1>2
<1>4. audience[x] \subseteq toTell[x] \cup reviewers =>
          audience'[x] \subseteq toTell[x] \cup reviewers'
  BY <1>2
<1> QED BY <1>1, <1>2, <1>3, <1>4 DEF Notified

LEMMA NotifiedOwn ==
    ASSUME TypeOK, NotAnswered, NotAnswered', InHand, AllQuoted,
           NEW s \in Requests, Acts(s), s \notin overlapped, Notified(s)
    PROVE  Notified(s)'
<1> USE DEF TypeOK, Goto, Finish, Receive, saver, history, Notifying
<1>0. pc[s] # "done" /\ answer[s] = "none"
  BY Arrival DEF NotAnswered
<1>1. CASE ReadForPatch(s)
  <2>1. PICK b \in Bodies : \E tag \in Tags(b) : Read(s, b, tag)
    BY <1>1, ReadShape
  <2>2. /\ pc[s] = "idle" /\ pc'[s] \in {"done", "select"}
        /\ UNCHANGED <<told, fell, audience>>
        /\ answer'[s] # "ok"
    BY <1>0, <2>1 DEF Read
  <2> QED BY <2>2 DEF Notified
<1>2. CASE Select(s)
  BY <1>0, <1>2 DEF Select, Notified
<1>3. CASE Update(s)
  <2>1. /\ pc[s] = "write" /\ s \notin fell /\ \A u \in Users : told[s][u] = 0
        /\ UNCHANGED told /\ pc'[s] \in {"orders", "done"}
    BY <1>3 DEF Update, Notified, AfterSave
  <2>2. UNCHANGED <<orderers, reviewers>>
    BY <1>3 DEF Update
  <2>3. /\ s \in fell' <=> pc'[s] = "orders"
        /\ s \in fell' => audience'[s] = orderers \cup reviewers
    BY <1>3, <2>1, FallsAsTold
  <2>4. pc'[s] = "orders" => answer'[s] = "none"
    BY DEF NotAnswered
  <2> QED BY <2>1, <2>2, <2>3, <2>4 DEF Notified
<1>4. CASE Reinsert(s)
  <2>1. found[s] = Gone /\ pc[s] = "write"
    BY <1>4 DEF Reinsert
  <2> QED BY <2>1 DEF InHand, AfterSelect
<1>5. CASE AskOrders(s)
  BY <1>0, <1>5 DEF AskOrders, Notified
<1>6. CASE AskReviews(s)
  <2>1. /\ s \in fell /\ pc[s] = "reviews" /\ fell' = fell /\ audience' = audience
        /\ told' = told /\ toTell'[s] = Both(s)
    BY <1>6 DEF AskReviews, Notified
  <2>5. \/ pc'[s] = "done" /\ Both(s) = {}
        \/ pc'[s] = "tell" /\ answer'[s] = "none"
    <3>1. CASE Both(s) = {}
      BY <1>6, <3>1 DEF AskReviews
    <3>2. CASE Both(s) # {}
      BY <1>0, <1>6, <3>2 DEF AskReviews
    <3> QED BY <3>1, <3>2
  <2>2. audience[s] \subseteq Both(s)
    BY <2>1 DEF Notified, Both
  <2>3. \A u \in Users : told[s][u] = 0
    BY <2>1 DEF AllQuoted, Quoted
  <2>4. Both(s) \subseteq Users
    BY DEF Both
  <2> QED BY <2>1, <2>2, <2>3, <2>4, <2>5 DEF Notified
<1>7. CASE Tell(s)
  <2>1. PICK u \in toTell[s] :
            /\ told' = [told EXCEPT ![s][u] = @ + 1]
            /\ toTell' = [toTell EXCEPT ![s] = @ \ {u}]
            /\ IF toTell[s] = {u} THEN Finish(s, "ok") ELSE UNCHANGED <<pc, answer>>
    BY <1>7 DEF Tell
  <2>2. pc[s] = "tell" /\ s \in fell /\ fell' = fell /\ audience' = audience
    BY <1>7 DEF Tell, Notified
  <2>3. told[s] \in [Users -> Nat] /\ u \in Users /\ told[s][u] = 0
    BY <2>2 DEF Notified
  <2>4. told'[s] = [told[s] EXCEPT ![u] = @ + 1] /\ toTell'[s] = toTell[s] \ {u}
    BY <2>1
  <2>5. told'[s][u] = 1 /\ \A z \in Users \ {u} : told'[s][z] = told[s][z]
    BY <2>3, <2>4
  <2>6. /\ \A z \in toTell'[s] : told'[s][z] = 0
        /\ \A z \in audience[s] \ toTell'[s] : told'[s][z] = 1
    BY <2>2, <2>4, <2>5 DEF Notified
  <2>7. \/ pc'[s] = "tell" /\ answer'[s] = "none"
        \/ pc'[s] = "done" /\ toTell'[s] = {}
    <3>1. CASE toTell[s] = {u}
      BY <2>1, <2>4, <3>1
    <3>2. CASE toTell[s] # {u}
      BY <1>0, <2>1, <2>2, <3>2
    <3> QED BY <3>1, <3>2
  <2> QED BY <2>2, <2>6, <2>7 DEF Notified
<1>8. CASE FindForRemove(s)
  BY <1>0, <1>8 DEF FindForRemove, Notified
<1>9. CASE Delete(s)
  BY <1>0, <1>9 DEF Delete, Notified
<1>10. CASE Order(s)
  BY <1>0, <1>10 DEF Order, Notified
<1>11. CASE ResetStock(s)
  BY <1>0, <1>11 DEF ResetStock, Notified
<1>12. CASE ResetOrders(s)
  BY <1>0, <1>12 DEF ResetOrders, Notified
<1> QED BY <1>1, <1>2, <1>3, <1>4, <1>5, <1>6, <1>7, <1>8, <1>9, <1>10, <1>11, <1>12
        DEF Acts, Patch, Others

LEMMA NotifiedStep ==
    ASSUME TypeOK, NotAnswered, NotAnswered', InHand, AllQuoted, AllNotified, [Next]_vars
    PROVE  AllNotified'
<1>1. ASSUME NEW s \in Requests, Acts(s), NEW x \in Requests \ overlapped'
      PROVE  Notified(x)'
  <2>1. x \notin overlapped /\ Notified(x)
    BY <1>1, HistoryGrows DEF AllNotified
  <2> QED BY <1>1, <2>1, NotifiedElsewhere, NotifiedOwn
<1>2. ASSUME Get \/ Crash \/ UNCHANGED vars
      PROVE  AllNotified'
  <2>1. /\ UNCHANGED <<orderers, reviewers, told, answer, toTell, overlapped, fell, audience>>
        /\ \A x \in Requests : pc'[x] = pc[x] \/ pc'[x] = "done"
    BY <1>2, Outside DEF saver
  <2> QED BY <2>1 DEF AllNotified, Notified, Notifying
<1> QED BY <1>1, <1>2, Steps DEF AllNotified, Acts
------------------------------------------------------------------------------
(***************************************************************************)
(* The prices quoted.                                                      *)
(***************************************************************************)
LEMMA PriceStep ==
    ASSUME TypeOK, TypeOK', row # Gone => row.price \in prices, [Next]_vars
    PROVE  row' # Gone => row'.price \in prices'
<1>1. prices \subseteq prices'
  BY HistoryGrows
<1>2. CASE Kept
  BY <1>1, <1>2 DEF Kept
<1>3. ASSUME NEW r \in Requests, Written(r) PROVE row'.price \in prices'
  BY <1>3, UpdateShape DEF Written, WriteRow
<1>4. ASSUME NEW r \in Requests, Revived(r) PROVE row'.price \in prices'
  BY <1>4, ReinsertShape DEF Revived, WriteRow
<1>5. CASE Removed
  BY <1>5 DEF Removed
<1>6. ASSUME NEW b \in Bodies, Sold(b) PROVE row'.price \in prices'
  <2>1. row \in Row /\ row.stock - 1 \in Nat /\ row # Gone
    BY <1>6 DEF Sold, Available, TypeOK, Row
  <2>2. row'.price = row.price
    BY <1>6, <2>1, BumpedRow DEF Sold
  <2> QED BY <1>1, <2>1, <2>2
<1>7. CASE Restocked
  <2>1. row'.price = row.price /\ row # Gone
    BY <1>7, BumpedRow, CatalogAssumption DEF Restocked, TypeOK
  <2> QED BY <1>1, <2>1
<1> QED BY <1>2, <1>3, <1>4, <1>5, <1>6, <1>7, RowSteps

LEMMA QuotedElsewhere ==
    ASSUME TypeOK, [Next]_vars, NEW s \in Requests, Acts(s), NEW x \in Requests \ {s}, Quoted(x)
    PROVE  Quoted(x)'
<1>1. /\ pc'[x] = pc[x] /\ mine'[x] = mine[x] /\ found'[x] = found[x]
      /\ previous'[x] = previous[x] /\ told'[x] = told[x]
  BY Elsewhere
<1>2. prices \subseteq prices' /\ missed \subseteq missed'
  BY HistoryGrows
<1> QED BY <1>1, <1>2 DEF Quoted, Quote

\* What the UPDATE, or the INSERT, of a save leaves to be quoted.
LEMMA SavedIsQuotable ==
    ASSUME TypeOK, [Next]_vars, NEW s \in Requests, Update(s) \/ Reinsert(s), Quoted(s),
           pc'[s] = "orders"
    PROVE  Quote(s)'
<1> USE DEF TypeOK, Goto, Finish, saver
<1>1. /\ pc[s] = "write" /\ previous[s] \in prices /\ UNCHANGED <<mine, previous>>
      /\ found[s] # Gone => found[s].price \in prices
  BY DEF Update, Reinsert, Quoted, Saving
<1>2. prices \subseteq prices' /\ missed \subseteq missed'
  BY HistoryGrows
<1>3. mine[s].price < previous[s]
  BY <1>1 DEF Update, Reinsert, AfterSave, Dropped
<1>4. mine[s].price \in prices' \/ s \in missed'
  <2>1. CASE Update(s) /\ row = Gone
    BY <2>1 DEF Update
  <2>2. CASE Update(s) /\ row # Gone /\ mine[s].price = found[s].price
    BY <1>1, <1>2, <2>2 DEF Update
  <2>3. CASE Update(s) /\ row # Gone /\ mine[s].price # found[s].price
    <3>1. Writes(s)
      BY <2>3 DEF Writes, Differs, Columns
    <3>2. row'.price = mine[s].price /\ WriteRow(s, row')
      BY <2>3, <3>1, UpdateShape DEF Columns
    <3> QED BY <3>2 DEF WriteRow
  <2>4. CASE Reinsert(s)
    <3>1. row = Gone
      BY <1>1, <2>4 DEF Reinsert
    <3> QED BY <2>4, <3>1, ReinsertShape DEF WriteRow
  <2> QED BY <2>1, <2>2, <2>3, <2>4
<1> QED BY <1>1, <1>2, <1>3, <1>4 DEF Quote

LEMMA QuotedOwn ==
    ASSUME TypeOK, AllQuoted, [Next]_vars, NEW s \in Requests, Acts(s)
    PROVE  Quoted(s)'
<1> USE DEF TypeOK, Goto, Finish, Receive, saver, history, Saving, Notifying
<1>0. Quoted(s) /\ (row # Gone => row.price \in prices)
  BY DEF AllQuoted
<1>1. CASE ReadForPatch(s)
  <2>1. PICK b \in Bodies : \E tag \in Tags(b) : Read(s, b, tag)
    BY <1>1, ReadShape
  <2>2. /\ pc[s] = "idle" /\ pc'[s] \in {"done", "select"}
        /\ UNCHANGED <<told, prices>>
        /\ pc'[s] = "select" => row # Gone /\ previous'[s] = row.price
    BY <2>1 DEF Read
  <2>3. \A u \in Users : told'[s][u] = 0
    BY <1>0, <2>2 DEF Quoted
  <2> QED BY <1>0, <2>2, <2>3 DEF Quoted
<1>2. CASE Select(s)
  <2>1. /\ pc[s] = "select" /\ pc'[s] = "write" /\ found'[s] = row
        /\ UNCHANGED <<told, prices, previous>>
    BY <1>2 DEF Select
  <2> QED BY <1>0, <2>1 DEF Quoted
<1>3. CASE Update(s) \/ Reinsert(s)
  <2>1. /\ pc[s] = "write" /\ pc'[s] \in {"orders", "done"}
        /\ UNCHANGED told
    BY <1>3 DEF Update, Reinsert, AfterSave
  <2>2. \A u \in Users : told'[s][u] = 0
    BY <1>0, <2>1 DEF Quoted
  <2>3. pc'[s] = "orders" => Quote(s)'
    BY <1>0, <1>3, SavedIsQuotable
  <2> QED BY <2>1, <2>2, <2>3 DEF Quoted
<1>4. CASE AskOrders(s) \/ AskReviews(s)
  <2>1. /\ pc[s] \in {"orders", "reviews"} /\ pc'[s] \in {"reviews", "tell", "done"}
        /\ UNCHANGED <<told, mine, previous, prices, missed>>
    BY <1>4 DEF AskOrders, AskReviews
  <2>2. Quote(s)
    BY <1>0, <2>1 DEF Quoted
  <2>3. Quote(s)'
    BY <2>1, <2>2 DEF Quote
  <2>4. \A u \in Users : told'[s][u] = 0
    BY <1>0, <2>1 DEF Quoted
  <2> QED BY <2>1, <2>3, <2>4 DEF Quoted
<1>5. CASE Tell(s)
  <2>1. /\ pc[s] = "tell" /\ pc'[s] \in {"tell", "done"}
        /\ UNCHANGED <<mine, previous, prices, missed>>
    BY <1>5 DEF Tell
  <2>2. Quote(s)
    BY <1>0, <2>1 DEF Quoted
  <2>3. Quote(s)'
    BY <2>1, <2>2 DEF Quote
  <2> QED BY <2>1, <2>3 DEF Quoted
<1>6. CASE Others(s)
  <2>1. /\ pc[s] \in {"idle", "delete", "resetOrders"}
        /\ pc'[s] \in {"delete", "resetOrders", "done"}
        /\ UNCHANGED told
    BY <1>6 DEF Others, FindForRemove, Delete, Order, ResetStock, ResetOrders
  <2>2. \A u \in Users : told'[s][u] = 0
    BY <1>0, <2>1 DEF Quoted
  <2> QED BY <2>1, <2>2 DEF Quoted
<1> QED BY <1>1, <1>2, <1>3, <1>4, <1>5, <1>6 DEF Acts, Patch

LEMMA QuotedStep ==
    ASSUME TypeOK, TypeOK', AllQuoted, [Next]_vars
    PROVE  AllQuoted'
<1>1. row' # Gone => row'.price \in prices'
  BY PriceStep DEF AllQuoted
<1>2. ASSUME NEW s \in Requests, Acts(s), NEW x \in Requests
      PROVE  Quoted(x)'
  BY <1>2, QuotedElsewhere, QuotedOwn DEF AllQuoted
<1>3. ASSUME Get \/ Crash \/ UNCHANGED vars, NEW x \in Requests
      PROVE  Quoted(x)'
  <2>1. /\ UNCHANGED <<told, mine, found, previous, prices, missed>>
        /\ pc'[x] = pc[x] \/ pc'[x] = "done"
    BY <1>3, Outside DEF saver
  <2>2. Quoted(x)
    BY DEF AllQuoted
  <2> QED BY <2>1, <2>2 DEF Quoted, Quote, Saving, Notifying
<1> QED BY <1>1, <1>2, <1>3, Steps DEF AllQuoted, Acts

------------------------------------------------------------------------------
(***************************************************************************)
(* The theorems.                                                           *)
(***************************************************************************)
LEMMA InitIInv == Init => IInv
<1> SUFFICES ASSUME Init PROVE IInv
  OBVIOUS
<1>1. TypeOK /\ NotAnswered
  BY InitTypes
<1>2. InHand /\ TaggedIsServed
  BY DEF Init, InHand, BeforeSelect, AfterSelect, TaggedIsServed, Saving
<1>3. OrderedProductStays /\ StockIsKept /\ TagsAreBehind
  BY DEF Init, OrderedProductStays, StockIsKept, TagsAreBehind
<1>4. \A r \in Requests : pc[r] = "idle" /\ answer[r] = "none"
                          /\ \A u \in Users : told[r][u] = 0
  BY DEF Init
<1>5. AllNotified
  BY <1>4 DEF Init, AllNotified, Notified, Notifying
<1>6. AllQuoted
  <2>1. row.price \in prices
    BY DEF Init
  <2> QED BY <1>4, <2>1 DEF AllQuoted, Quoted, Saving, Notifying
<1> QED BY <1>1, <1>2, <1>3, <1>5, <1>6 DEF IInv

LEMMA StepIInv == IInv /\ [Next]_vars => IInv'
<1> SUFFICES ASSUME IInv, [Next]_vars PROVE IInv'
  OBVIOUS
<1>1. TypeOK /\ TypeOK' /\ NotAnswered /\ NotAnswered'
  BY StepTypes DEF IInv
<1>2. InHand /\ InHand'
  BY <1>1, InHandStep DEF IInv
<1>3. OrderedProductStays' /\ StockIsKept'
  BY <1>1, <1>2, StockStep DEF IInv
<1>4. TagsAreBehind'
  BY <1>1, <1>2, TagsStep DEF IInv
<1>5. TaggedIsServed'
  BY <1>1, TaggedStep DEF IInv
<1>6. AllNotified'
  BY <1>1, <1>2, NotifiedStep DEF IInv
<1>7. AllQuoted'
  BY <1>1, QuotedStep DEF IInv
<1> QED BY <1>1, <1>2, <1>3, <1>4, <1>5, <1>6, <1>7 DEF IInv

THEOREM Invariance == Spec => []IInv
<1> QED BY InitIInv, StepIInv, PTL DEF Spec

\* An order item keeps its product, and no sale, restock or reset is undone by a save
\* whose SELECT found what it had read: repository.save against the decrement of an order,
\* the removal and the load reset, however many overlap.
THEOREM SalesStay == Spec => []SalesAreKept
<1>1. IInv => SalesAreKept
  BY DEF IInv, SalesAreKept
<1> QED BY <1>1, Invariance, PTL

\* An ETag a client holds stands for one content as long as no save was stale, and a PATCH
\* under If-Match changes what its client has seen unless somebody writes during it.
THEOREM TagsTell == Spec => TagsAreTrue
<1>1. IInv => EtagTellsContent
  BY DEF IInv, TagsAreBehind, EtagTellsContent
<1>2. IInv /\ [Next]_vars =>
          [ \A r \in Requests :
                /\ pc[r] = "write" /\ row' # row /\ pc'[r] # "write" /\ req[r].tagged
                /\ r \notin overlapped /\ stale = {}
                => \E s \in served : s = row ]_vars
  BY DEF IInv, TaggedIsServed, Saving
<1>3. Spec => []EtagTellsContent
  BY <1>1, Invariance, PTL
<1>4. Spec => PatchOfWhatWasSeen
  BY <1>2, Invariance, PTL DEF Spec, PatchOfWhatWasSeen
<1> QED BY <1>3, <1>4, PTL DEF TagsAreTrue

\* A price drop is told exactly when a PATCH that nobody overlapped lowered the price, once
\* to everybody it still concerns when the request is answered; and every notification, of
\* whatever PATCHes, quotes prices that were real, but for an UPDATE that met no row.
THEOREM DropsAreHonest == Spec => []DropsAreTrue
<1>1. IInv => DropsAreTold
  BY DEF IInv, AllNotified, Notified, DropsAreTold
<1>2. IInv => QuotesAreReal
  BY DEF IInv, AllQuoted, Quoted, Quote, QuotesAreReal
<1> QED BY <1>1, <1>2, Invariance, PTL DEF DropsAreTrue

------------------------------------------------------------------------------
(***************************************************************************)
(* Reviews.  An author hears of the answer because the request that found  *)
(* none stored has the notification to make until it made it or a crash    *)
(* cut it off; the limiter is honest because it remembers each create it   *)
(* let through for a whole window; and a walk is sound because its cursor  *)
(* parts the reviews it has given from those it has yet to give.           *)
(***************************************************************************)
ReviewStages == {"idle", "find", "begin", "insert", "page", "findReview", "select", "update",
                 "notify", "done"}
ReviewAnswers == {"none", "tooMany", "notFound", "created", "conflict", "error", "ok"}
Hit == [by : ReviewRequests, at : Nat]

ReviewTypes ==
    /\ clock \in 0..MaxClock /\ restarts \in 0..MaxEvents
    /\ products \subseteq Products /\ IsFiniteSet(Products \ products)
    /\ reviews \in [ReviewRequests -> Review \cup {None}]
    /\ repliesTold \in [ReviewRequests -> Nat]
    /\ hits \in [Pairs -> SUBSET Hit]
    /\ reviewReq \in [ReviewRequests -> ReviewBody]
    /\ reviewPc \in [ReviewRequests -> ReviewStages]
    /\ reviewAnswer \in [ReviewRequests -> ReviewAnswers]
    /\ stamp \in [ReviewRequests -> Nat]
    /\ target \in [ReviewRequests -> ReviewRequests \cup {None}]
    /\ first \in [ReviewRequests -> BOOLEAN]
    /\ cursor \in [ReviewRequests -> Cursor \cup {None}]
    /\ seen \in [ReviewRequests -> Seq(ReviewRequests)]
    /\ before \in [ReviewRequests -> SUBSET ReviewRequests]
    /\ admitted \in [ReviewRequests -> Nat \cup {None}]
    /\ promised \in [Pairs -> Nat \cup {None}]
    /\ edit \subseteq ReviewRequests

\* Nothing is dated in the future.
InPast ==
    /\ \A c \in ReviewRequests : reviews[c] # None => reviews[c].at <= clock
    /\ \A r \in ReviewRequests : stamp[r] <= clock
    /\ \A k \in Pairs : \A hit \in hits[k] : hit.at <= Ms(clock)

Asks(r, op) == reviewReq[r].op = op

\* Where a request stands tells what it asked for, and what it has not done yet.
StageTells ==
    \A r \in ReviewRequests :
        /\ reviewPc[r] = "idle" =>
              /\ target[r] = None /\ ~first[r] /\ seen[r] = <<>> /\ cursor[r] = None
              /\ before[r] = {} /\ admitted[r] = None
        /\ reviewPc[r] \in {"begin", "insert"} => Asks(r, "create")
        /\ reviewPc[r] = "find" => Asks(r, "create") \/ Asks(r, "walk")
        /\ reviewPc[r] = "page" => Asks(r, "walk")
        /\ reviewPc[r] \in {"findReview", "select", "update", "notify"} =>
              target[r] # None /\ Asks(r, "reply")
        /\ reviewPc[r] # "done" => reviewAnswer[r] = "none" /\ reviews[r] = None
        /\ reviewPc[r] = "findReview" => ~first[r]
        /\ target[r] # None => Asks(r, "reply")

\* Only reviews that are there are answered, walked over or waited for.
OnlyWritten ==
    \A r, c \in ReviewRequests :
        target[r] = c \/ c \in before[r] \/ (\E i \in DOMAIN seen[r] : seen[r][i] = c) =>
            reviewPc[c] = "done"

TypesAndStages == ReviewTypes /\ InPast /\ StageTells /\ OnlyWritten

Missing(c) == reviews[c] = None

\* Somebody has told the author, is about to, or was cut off.
IsKnown(c) ==
    \/ repliesTold[c] > 0
    \/ \E r \in ReviewRequests : target[r] = c /\ reviewPc[r] = "notify"
    \/ c \in cut

\* The replies that told the author.
Telling(c) == {r \in ReviewRequests : target[r] = c /\ first[r] /\ reviewAnswer[r] = "ok"}

RepliesAreTold ==
    /\ \A c \in ReviewRequests :
          /\ ~Missing(c) /\ reviews[c].reply # None => IsKnown(c)
          /\ repliesTold[c] = Cardinality(Telling(c))
    /\ \A r \in ReviewRequests :
          /\ reviewPc[r] \in {"select", "update"} /\ ~first[r] =>
                Missing(target[r]) \/ reviews[target[r]].reply # None
          /\ reviewPc[r] = "notify" => first[r]
          /\ first[r] => r \notin edit
          /\ r \in edit => /\ target[r] # None
                           /\ Missing(target[r]) \/ reviews[target[r]].reply # None

\* The guard remembers every create it let through in the last window.
HitsRemember ==
    /\ \A r \in ReviewRequests : admitted[r] # None =>
          /\ admitted[r] <= Ms(clock)
          /\ Ms(clock) - admitted[r] < Window =>
                [by |-> r, at |-> admitted[r]] \in hits[Key(reviewReq[r])]
    /\ \A k \in Pairs :
          /\ IsFiniteSet(hits[k])
          /\ promised[k] # None => \A hit \in hits[k] : hit.at + Window <= promised[k]

Once(c, s) == \E i \in DOMAIN s : s[i] = c /\ \A j \in DOMAIN s : s[j] = c => j = i
Never(c, s) == \A i \in DOMAIN s : s[i] # c

Aside(c, p) ==
    /\ ~Missing(c)
    /\ \A d \in ReviewRequests : d # c /\ ReviewOf(d, p) => ~SameMs(c, d)

\* How far the cursor is, a walk has returned the reviews that are alone in their
\* millisecond, each once.
CursorTells ==
    \A r \in ReviewRequests : \A c \in before[r] :
        /\ Asks(r, "walk") /\ reviewReq[c].product = reviewReq[r].product
        /\ Aside(c, reviewReq[r].product) =>
              /\ reviewAnswer[r] = "ok" => Once(c, seen[r])
              /\ reviewPc[r] \in {"find", "page"} =>
                    IF cursor[r] # None /\ Ms(reviews[c].at) <= cursor[r].ms
                    THEN /\ Once(c, seen[r])
                         /\ Ms(reviews[c].at) = cursor[r].ms => reviews[c].id <= cursor[r].id
                    ELSE Never(c, seen[r])

\* A cursor is that of the last review returned; one of another product came after one
\* of its millisecond.
Traced(r) ==
    \A i \in DOMAIN seen[r] :
        \/ reviewReq[seen[r][i]].product = reviewReq[r].product
        \/ \E j \in 1..(i-1) : SameMs(seen[r][i], seen[r][j])

CursorIsLast ==
    \A r \in ReviewRequests :
        /\ cursor[r] # None =>
              LET c == seen[r][Len(seen[r])] IN
              /\ seen[r] # <<>>
              /\ Missing(c) \/ Ms(reviews[c].at) = cursor[r].ms
        /\ (\A i \in DOMAIN seen[r] : ~Missing(seen[r][i])) => Traced(r)

ReviewsInv ==
    /\ TypesAndStages /\ RepliesAreTold /\ HitsRemember /\ RateBound
    /\ CursorTells /\ CursorIsLast
\* A later time is in no earlier millisecond.
LEMMA MsGrows ==
    /\ \A s \in Nat : Ms(s) \in Nat
    /\ \A s, t \in Nat : s <= t => Ms(s) <= Ms(t)
<1>1. Micros \in Nat \ {0}
  BY ReviewsAssumption
<1>2. ASSUME NEW s \in Nat PROVE Ms(s) \in Nat
  BY <1>1, <1>2, Z3 DEF Ms
<1>3. ASSUME NEW s \in Nat, NEW t \in Nat, s <= t PROVE Ms(s) <= Ms(t)
  BY <1>1, <1>3, Z3 DEF Ms
<1> QED BY <1>2, <1>3

\* What a query answers: every review it selects, once, in the order of the query.
LEMMA AnswersAre ==
    ASSUME NEW p, NEW after, NEW fetched \in Answers(p, after)
    PROVE  /\ fetched \in Seq(ReviewRequests) /\ Len(fetched) \in Nat
           /\ DOMAIN fetched = 1..Len(fetched)
           /\ \A i \in 1..Len(fetched) : fetched[i] \in Selected(p, after)
           /\ \A i, j \in 1..Len(fetched) : i < j => Precedes(fetched[i], fetched[j])
           /\ \A i, j \in 1..Len(fetched) : i # j => fetched[i] # fetched[j]
           /\ \A c \in Selected(p, after) : \E i \in 1..Len(fetched) : fetched[i] = c
<1> DEFINE S == Selected(p, after)
           n == Cardinality(S)
<1>1. S \subseteq ReviewRequests
  BY DEF Selected
<1>2. IsFiniteSet(S)
  BY <1>1, FS_Subset, ReviewsAssumption
<1>3. n \in Nat
  BY <1>2, FS_CardinalityType
<1>4. /\ fetched \in [1..n -> S]
      /\ \A i, j \in 1..n : i # j => fetched[i] # fetched[j]
      /\ \A i, j \in DOMAIN fetched : i < j => Precedes(fetched[i], fetched[j])
  BY DEF Answers, SetToSeqs, InOrder
<1> HIDE DEF S, n
<1>5. fetched \in Seq(S) /\ Len(fetched) = n /\ DOMAIN fetched = 1..n
  BY <1>3, <1>4
<1>6. fetched \in Seq(ReviewRequests)
  BY <1>1, <1>5, SeqMonotonic
<1>7. \A c \in S : \E i \in 1..n : fetched[i] = c
  <2>1. fetched \in Injection(1..n, S)
    BY <1>4 DEF Injection, IsInjective
  <2>2. IsFiniteSet(1..n) /\ Cardinality(1..n) = n
    <3>1. Cardinality(1..n) = IF 1 > n THEN 0 ELSE n - 1 + 1
      BY <1>3, FS_Interval
    <3> QED BY <1>3, <3>1, FS_Interval
  <2>3. Cardinality(1..n) = Cardinality(S)
    BY <2>2 DEF n
  <2>4. fetched \in Surjection(1..n, S)
    BY <1>2, <2>1, <2>3, FS_Injection
  <2> QED BY <2>4 DEF Surjection
<1> QED BY <1>3, <1>4, <1>5, <1>6, <1>7 DEF S

\* The first reviews of an answer.
LEMMA FirstOf ==
    ASSUME NEW s \in Seq(ReviewRequests), NEW m \in 1..Len(s)
    PROVE  LET t == SubSeq(s, 1, m)
           IN  /\ t \in Seq(ReviewRequests) /\ Len(t) = m /\ DOMAIN t = 1..m
               /\ t # <<>> /\ \A i \in 1..m : t[i] = s[i]
<1> DEFINE t == SubSeq(s, 1, m)
<1>1. /\ m \in Nat \ {0} /\ Len(s) \in Nat /\ DOMAIN s = 1..Len(s)
      /\ \A i \in 1..m : s[i] \in ReviewRequests
  BY LenProperties, ElementOfSeq
<1>2. /\ t \in Seq(ReviewRequests) /\ Len(t) = IF 1 <= m THEN m - 1 + 1 ELSE 0
      /\ \A i \in 1..(m - 1 + 1) : t[i] = s[1 + i - 1]
  <2>1. m \in Int /\ 1 \in Int
    BY <1>1
  <2> QED BY <1>1, <2>1, SubSeqProperties
<1>3. Len(t) = m /\ \A i \in 1..m : i \in 1..(m - 1 + 1) /\ 1 + i - 1 = i
  BY <1>1, <1>2
<1> HIDE DEF t
<1>4. DOMAIN t = 1..m
  BY <1>2, <1>3, LenProperties
<1>5. t # <<>>
  BY <1>1, <1>3, EmptySeq
<1> QED BY <1>2, <1>3, <1>4, <1>5 DEF t

\* What a page does: it gives the first of the reviews the query selects, or all.
LEMMA PageGives ==
    ASSUME ReviewTypes, NEW r \in ReviewRequests, Page(r)
    PROVE  \E given \in Seq(ReviewRequests) :
        LET chosen == Selected(reviewReq[r].product, cursor[r])
            last == given[Len(given)]
        IN  /\ reviewPc[r] = "page"
            /\ seen' = [seen EXCEPT ![r] = @ \o given]
            /\ \A i \in DOMAIN given : given[i] \in chosen
            /\ \A i, j \in DOMAIN given : i # j => given[i] # given[j]
            /\ \A i, j \in DOMAIN given : i < j => Precedes(given[i], given[j])
            /\ \/ /\ given # <<>>
                  /\ \A c \in chosen :
                        \/ \E i \in DOMAIN given : given[i] = c
                        \/ Precedes(last, c)
                  /\ cursor' = [cursor EXCEPT ![r] =
                                  [ms |-> Ms(reviews[last].at), id |-> reviews[last].id]]
                  /\ MoveTo(r, "find")
               \/ /\ \A c \in chosen : \E i \in DOMAIN given : given[i] = c
                  /\ AnswerWith(r, "ok")
                  /\ cursor' = [cursor EXCEPT ![r] = None]
            /\ UNCHANGED <<clock, restarts, rows, hits, reviewReq, stamp, target,
                           first, recalled>>
<1> DEFINE chosen == Selected(reviewReq[r].product, cursor[r])
           limit == reviewReq[r].limit
<1>1. PICK fetched \in Answers(reviewReq[r].product, cursor[r]) :
            LET last == reviews[LastGiven(fetched, limit)] IN
            /\ reviewPc[r] = "page"
            /\ IF Len(fetched) > limit
               THEN /\ seen' = [seen EXCEPT ![r] = @ \o SubSeq(fetched, 1, limit)]
                    /\ cursor' = [cursor EXCEPT ![r] = [ms |-> Ms(last.at), id |-> last.id]]
                    /\ MoveTo(r, "find")
               ELSE /\ seen' = [seen EXCEPT ![r] = @ \o fetched]
                    /\ AnswerWith(r, "ok")
                    /\ cursor' = [cursor EXCEPT ![r] = None]
            /\ UNCHANGED <<clock, restarts, rows, hits, reviewReq, stamp, target,
                           first, recalled>>
  BY DEF Page
<1>2. limit \in Nat \ {0}
  BY DEF ReviewTypes, ReviewBody
<1>3. /\ fetched \in Seq(ReviewRequests) /\ Len(fetched) \in Nat
      /\ DOMAIN fetched = 1..Len(fetched)
      /\ \A i \in 1..Len(fetched) : fetched[i] \in chosen
      /\ \A i, j \in 1..Len(fetched) : i < j => Precedes(fetched[i], fetched[j])
      /\ \A i, j \in 1..Len(fetched) : i # j => fetched[i] # fetched[j]
      /\ \A c \in chosen : \E i \in 1..Len(fetched) : fetched[i] = c
  BY AnswersAre
<1> HIDE DEF chosen, limit
<1>4. CASE Len(fetched) > limit
  <2> DEFINE given == SubSeq(fetched, 1, limit)
  <2>1. limit \in 1..Len(fetched) /\ limit + 1 \in 1..Len(fetched)
    BY <1>2, <1>3, <1>4
  <2>2. /\ given \in Seq(ReviewRequests) /\ Len(given) = limit /\ DOMAIN given = 1..limit
        /\ given # <<>> /\ \A i \in 1..limit : given[i] = fetched[i]
    BY <1>3, <2>1, FirstOf
  <2> HIDE DEF given
  <2>3. 1..limit \subseteq 1..Len(fetched) /\ limit \in 1..limit
    BY <1>2, <1>3, <1>4
  <2>4. \A c \in chosen : (\E i \in DOMAIN given : given[i] = c) \/ Precedes(given[Len(given)], c)
    <3> SUFFICES ASSUME NEW c \in chosen
                 PROVE  (\E i \in DOMAIN given : given[i] = c) \/ Precedes(given[Len(given)], c)
      OBVIOUS
    <3>1. PICK i \in 1..Len(fetched) : fetched[i] = c
      BY <1>3
    <3>2. CASE i <= limit
      <4>1. i \in 1..limit
        BY <1>2, <1>3, <3>1, <3>2
      <4> QED BY <2>2, <3>1, <4>1
    <3>3. CASE i > limit
      <4>1. Precedes(fetched[limit], fetched[i])
        BY <1>3, <2>1, <3>1, <3>3
      <4> QED BY <2>2, <2>3, <3>1, <4>1
    <3> QED BY <1>2, <1>3, <3>2, <3>3
  <2>5. /\ \A i \in DOMAIN given : given[i] \in chosen
        /\ \A i, j \in DOMAIN given : i # j => given[i] # given[j]
        /\ \A i, j \in DOMAIN given : i < j => Precedes(given[i], given[j])
    BY <1>3, <2>2, <2>3
  <2>6. LastGiven(fetched, limit) = given[Len(given)]
    BY <2>2, <2>3 DEF LastGiven
  <2>7. /\ seen' = [seen EXCEPT ![r] = @ \o given]
        /\ cursor' = [cursor EXCEPT ![r] = [ms |-> Ms(reviews[given[Len(given)]].at),
                                            id |-> reviews[given[Len(given)]].id]]
        /\ MoveTo(r, "find")
    BY <1>1, <1>4, <2>6 DEF given
  <2>8. /\ reviewPc[r] = "page"
        /\ UNCHANGED <<clock, restarts, rows, hits, reviewReq, stamp, target, first, recalled>>
    BY <1>1
  <2> QED BY <2>2, <2>4, <2>5, <2>7, <2>8 DEF chosen
<1>5. CASE ~(Len(fetched) > limit)
  BY <1>1, <1>3, <1>5 DEF chosen
<1> QED BY <1>4, <1>5

\* Concatenation, spelled out.
LEMMA JoinIs ==
    ASSUME NEW s \in Seq(ReviewRequests), NEW t \in Seq(ReviewRequests)
    PROVE  /\ s \o t \in Seq(ReviewRequests)
           /\ Len(s) \in Nat /\ Len(t) \in Nat /\ Len(s \o t) = Len(s) + Len(t)
           /\ DOMAIN s = 1..Len(s) /\ DOMAIN t = 1..Len(t)
           /\ DOMAIN (s \o t) = 1..(Len(s) + Len(t))
           /\ \A i \in 1..Len(s) : (s \o t)[i] = s[i] /\ s[i] \in ReviewRequests
           /\ \A i \in 1..Len(t) : (s \o t)[Len(s) + i] = t[i] /\ t[i] \in ReviewRequests
<1> DEFINE u == s \o t
<1>1. /\ Len(s) \in Nat /\ DOMAIN s = 1..Len(s) /\ Len(t) \in Nat /\ DOMAIN t = 1..Len(t)
      /\ \A i \in 1..Len(s) : s[i] \in ReviewRequests
      /\ \A i \in 1..Len(t) : t[i] \in ReviewRequests
  BY LenProperties, ElementOfSeq
<1>2. /\ u \in Seq(ReviewRequests) /\ Len(u) = Len(s) + Len(t)
      /\ \A i \in 1..(Len(s) + Len(t)) : u[i] = IF i <= Len(s) THEN s[i] ELSE t[i - Len(s)]
  BY ConcatProperties
<1> HIDE DEF u
<1>3. DOMAIN u = 1..(Len(s) + Len(t))
  BY <1>2, LenProperties
<1> DEFINE m == Len(s)
           n == Len(t)
<1> HIDE DEF m, n
<1>4. m \in Nat /\ n \in Nat
  BY <1>1 DEF m, n
<1>5. \A i \in 1..(m + n) : u[i] = IF i <= m THEN s[i] ELSE t[i - m]
  BY <1>2 DEF m, n
<1>6. \A i \in 1..m : u[i] = s[i]
  BY <1>4, <1>5
<1>7. \A i \in 1..n : u[m + i] = t[i]
  <2> SUFFICES ASSUME NEW i \in 1..n PROVE u[m + i] = t[i]
    OBVIOUS
  <2> DEFINE k == m + i
  <2>1. k \in 1..(m + n) /\ ~(k <= m) /\ k - m = i
    BY <1>4
  <2> HIDE DEF k
  <2>2. u[k] = t[k - m]
    BY <1>5, <2>1
  <2> QED BY <2>1, <2>2 DEF k
<1> QED BY <1>1, <1>2, <1>3, <1>6, <1>7 DEF m, n, u

------------------------------------------------------------------------------
(***************************************************************************)
(* Types.                                                                  *)
(***************************************************************************)
LEMMA ReviewsInitInv == ReviewsInit => ReviewsInv
<1> SUFFICES ASSUME ReviewsInit PROVE ReviewsInv
  OBVIOUS
<1> USE DEF ReviewsInit
<1>1. PICK id \in Injection(Seeded, Ids) :
          reviews = [r \in ReviewRequests |->
              IF r \in Seeded THEN [at |-> 0, id |-> id[r], reply |-> None] ELSE None]
  OBVIOUS
<1>2. \A r \in Seeded : id[r] \in Ids /\ id[r] \in Nat
  BY ReviewsAssumption DEF Injection
<1>3. ReviewTypes
  <2>1. reviews \in [ReviewRequests -> Review \cup {None}]
    BY <1>1, <1>2 DEF Review
  <2>2. reviewReq \in [ReviewRequests -> ReviewBody]
    <3>1. (CHOOSE b \in ReviewBodies : TRUE) \in ReviewBody
      BY ReviewsAssumption
    <3> QED BY <3>1, ReviewsAssumption
  <2>3. IsFiniteSet(Products \ products)
    <3>1. Products \ products = {}
      OBVIOUS
    <3> QED BY <3>1, FS_EmptySet
  <2>4. /\ clock \in 0..MaxClock /\ restarts \in 0..MaxEvents
        /\ seen \in [ReviewRequests -> Seq(ReviewRequests)]
    BY ReviewsAssumption, EmptySeq
  <2>5. /\ reviewPc \in [ReviewRequests -> ReviewStages]
        /\ reviewAnswer \in [ReviewRequests -> ReviewAnswers]
    BY DEF ReviewStages, ReviewAnswers
  <2> QED BY <2>1, <2>2, <2>3, <2>4, <2>5 DEF ReviewTypes
<1>4. /\ \A c \in ReviewRequests : ~Missing(c) => /\ reviews[c].at = 0 /\ reviews[c].reply = None
                                                  /\ c \in Seeded
      /\ \A r \in ReviewRequests : seen[r] = <<>> /\ DOMAIN seen[r] = {}
  BY <1>1 DEF Missing
<1>5. InPast
  <2>1. Ms(clock) \in Nat
    BY <1>3, MsGrows DEF ReviewTypes
  <2> QED BY <1>4, <2>1 DEF InPast, Missing
<1>6. StageTells /\ OnlyWritten
  BY <1>4, ReviewsAssumption DEF StageTells, OnlyWritten, Asks, Missing
<1>7. RepliesAreTold
  <2>1. \A c \in ReviewRequests : Telling(c) = {}
    BY DEF Telling
  <2>2. \A c \in ReviewRequests : repliesTold[c] = Cardinality(Telling(c))
    BY <2>1, FS_EmptySet
  <2> QED BY <1>4, <2>2 DEF RepliesAreTold
<1>8. HitsRemember /\ RateBound
  BY FS_EmptySet DEF HitsRemember, RateBound
<1>9. CursorTells /\ CursorIsLast
  BY <1>4 DEF CursorTells, CursorIsLast, Traced
<1> QED BY <1>3, <1>5, <1>6, <1>7, <1>8, <1>9 DEF ReviewsInv, TypesAndStages

\* The clock stands for a millisecond.
LEMMA ClockIs ==
    ASSUME ReviewTypes
    PROVE  clock \in Nat /\ Ms(clock) \in Nat
<1>1. clock \in 0..MaxClock /\ MaxClock \in Nat
  BY ReviewsAssumption DEF ReviewTypes
<1>2. clock \in Nat
  BY <1>1
<1> QED BY <1>2, MsGrows

\* Whether there is room is a question about one event more.
LEMMA EventsLeft ==
    ASSUME ReviewTypes, EventLeft
    PROVE  restarts + 1 \in 0..MaxEvents
<1>1. Cardinality(Products \ products) \in Nat
  BY FS_CardinalityType DEF ReviewTypes
<1> QED BY <1>1, ReviewsAssumption DEF ReviewTypes, EventLeft

\* A reply changes nothing else of a review.
LEMMA ReplyStored ==
    ASSUME NEW x \in Review, NEW r \in ReviewRequests
    PROVE  LET y == [x EXCEPT !.reply = r]
           IN  y \in Review /\ y.at = x.at /\ y.id = x.id /\ y.reply = r /\ y # None
BY ReviewsAssumption DEF Review

LEMMA ReviewTypesKept ==
    ASSUME ReviewTypes, InPast, StageTells, [ReviewsNext]_reviewVars
    PROVE  ReviewTypes'
<1> USE DEF ReviewTypes, rows, handler, recalled, MoveTo, AnswerWith, Take, ReviewStages,
            ReviewAnswers
<1>1. ASSUME NEW r \in ReviewRequests, Guard(r) PROVE ReviewTypes'
  <2>1. PICK b \in ReviewBodies :
            LET recent == Recent(Key(b))
                full == IsFull(recent)
            IN  /\ b.op = "create"
                /\ Take(r, b)
                /\ IF full
                   THEN /\ AnswerWith(r, "tooMany")
                        /\ promised' = [promised EXCEPT ![Key(b)] =
                                          IF @ = None THEN Ms(clock) + Window ELSE @]
                        /\ UNCHANGED <<hits, admitted>>
                   ELSE /\ MoveTo(r, "find")
                        /\ hits' = [hits EXCEPT ![Key(b)] =
                                      recent \cup {[by |-> r, at |-> Ms(clock)]}]
                        /\ promised' = [promised EXCEPT ![Key(b)] = None]
                        /\ admitted' = [admitted EXCEPT ![r] = Ms(clock)]
                /\ UNCHANGED <<target, before, edit>>
    BY <1>1 DEF Guard
  <2>2. b \in ReviewBody /\ Window \in Nat /\ Ms(clock) \in Nat
    BY ReviewsAssumption, ClockIs
  <2>3. promised' \in [Pairs -> Nat \cup {None}]
    <3> DEFINE v == IF promised[Key(b)] = None THEN Ms(clock) + Window ELSE promised[Key(b)]
    <3>1. Key(b) \in Pairs
      BY <2>2 DEF Key, Pairs, ReviewBody
    <3>2. v \in Nat \cup {None}
      BY <2>2, <3>1
    <3>3. \/ promised' = [promised EXCEPT ![Key(b)] = v]
          \/ promised' = [promised EXCEPT ![Key(b)] = None]
      BY <2>1
    <3> HIDE DEF v
    <3> QED BY <3>2, <3>3
  <2>4. hits' \in [Pairs -> SUBSET Hit]
    <3>1. [by |-> r, at |-> Ms(clock)] \in Hit
      BY <2>2 DEF Hit
    <3>2. CASE hits' = [hits EXCEPT ![Key(b)] =
                                Recent(Key(b)) \cup {[by |-> r, at |-> Ms(clock)]}]
      <4>1. Key(b) \in Pairs
        BY <2>2 DEF Key, Pairs, ReviewBody
      <4> QED BY <3>1, <3>2, <4>1 DEF Recent
    <3> QED BY <2>1, <3>2
  <2>5. admitted' \in [ReviewRequests -> Nat \cup {None}]
    <3>1. admitted' = admitted \/ admitted' = [admitted EXCEPT ![r] = Ms(clock)]
      BY <2>1
    <3> QED BY <2>2, <3>1
  <2>6. reviewReq' \in [ReviewRequests -> ReviewBody]
    BY <2>1, <2>2
  <2>7. /\ reviewPc' \in [ReviewRequests -> ReviewStages]
        /\ reviewAnswer' \in [ReviewRequests -> ReviewAnswers]
    BY <2>1
  <2> QED BY <2>1, <2>3, <2>4, <2>5, <2>6, <2>7
<1>2. ASSUME NEW r \in ReviewRequests, FindProduct(r) \/ Begin(r) PROVE ReviewTypes'
  <2>1. clock \in Nat
    BY ClockIs
  <2>2. CASE FindProduct(r)
    BY <2>2 DEF FindProduct
  <2>3. CASE Begin(r)
    BY <2>1, <2>3 DEF Begin
  <2> QED BY <1>2, <2>2, <2>3
<1>3. ASSUME NEW r \in ReviewRequests, Insert(r) PROVE ReviewTypes'
  <2>1. reviews' \in [ReviewRequests -> Review \cup {None}]
    <3>1. CASE \E id \in Ids : reviews' = [reviews EXCEPT ![r] =
                                             [at |-> stamp[r], id |-> id, reply |-> None]]
      BY <3>1 DEF Review
    <3> QED BY <1>3, <3>1 DEF Insert
  <2>2. /\ reviewPc' \in [ReviewRequests -> ReviewStages]
        /\ reviewAnswer' \in [ReviewRequests -> ReviewAnswers]
        /\ stamp' \in [ReviewRequests -> Nat]
    BY <1>3 DEF Insert
  <2> QED BY <1>3, <2>1, <2>2 DEF Insert
<1>4. ASSUME NEW r \in ReviewRequests, Walk(r) \/ Reply(r) PROVE ReviewTypes'
  <2>1. PICK b \in ReviewBodies : Take(r, b)
    BY <1>4 DEF Walk, Reply
  <2>2. b \in ReviewBody
    BY ReviewsAssumption
  <2>3. CASE Walk(r)
    BY <2>1, <2>2, <2>3 DEF Walk
  <2>4. CASE Reply(r)
    BY <2>1, <2>2, <2>4 DEF Reply
  <2> QED BY <1>4, <2>3, <2>4
<1>5. ASSUME NEW r \in ReviewRequests, Page(r) PROVE ReviewTypes'
  <2>1. PICK given \in Seq(ReviewRequests) :
        LET chosen == Selected(reviewReq[r].product, cursor[r])
            last == given[Len(given)]
        IN  /\ reviewPc[r] = "page"
            /\ seen' = [seen EXCEPT ![r] = @ \o given]
            /\ \A i \in DOMAIN given : given[i] \in chosen
            /\ \A i, j \in DOMAIN given : i # j => given[i] # given[j]
            /\ \A i, j \in DOMAIN given : i < j => Precedes(given[i], given[j])
            /\ \/ /\ given # <<>>
                  /\ \A c \in chosen :
                        \/ \E i \in DOMAIN given : given[i] = c
                        \/ Precedes(last, c)
                  /\ cursor' = [cursor EXCEPT ![r] =
                                  [ms |-> Ms(reviews[last].at), id |-> reviews[last].id]]
                  /\ MoveTo(r, "find")
               \/ /\ \A c \in chosen : \E i \in DOMAIN given : given[i] = c
                  /\ AnswerWith(r, "ok")
                  /\ cursor' = [cursor EXCEPT ![r] = None]
            /\ UNCHANGED <<clock, restarts, rows, hits, reviewReq, stamp, target,
                           first, recalled>>
    BY <1>5, PageGives
  <2>2. seen' \in [ReviewRequests -> Seq(ReviewRequests)]
    BY <2>1, JoinIs
  <2>3. cursor' \in [ReviewRequests -> Cursor \cup {None}]
    <3>1. CASE given # <<>> /\ cursor' = [cursor EXCEPT ![r] =
                      [ms |-> Ms(reviews[given[Len(given)]].at), id |-> reviews[given[Len(given)]].id]]
      <4>1. Len(given) \in DOMAIN given
        BY <3>1, EmptySeq, LenProperties
      <4>2. reviews[given[Len(given)]] \in Review
        BY <2>1, <4>1 DEF Selected
      <4> QED BY <3>1, <4>2, MsGrows DEF Review, Cursor
    <3> QED BY <2>1, <3>1
  <2>4. /\ reviewPc' \in [ReviewRequests -> ReviewStages]
        /\ reviewAnswer' \in [ReviewRequests -> ReviewAnswers]
    BY <2>1
  <2> QED BY <2>1, <2>2, <2>3, <2>4
<1>6. ASSUME NEW r \in ReviewRequests, FindReview(r) \/ SelectReview(r) \/ Notify(r)
      PROVE  ReviewTypes'
  <2>1. CASE FindReview(r)
    BY <2>1 DEF FindReview, IsFirstReply
  <2>2. CASE SelectReview(r)
    BY <2>2 DEF SelectReview
  <2>3. CASE Notify(r)
    <3>1. repliesTold' \in [ReviewRequests -> Nat]
      BY <2>3 DEF Notify, StageTells
    <3> QED BY <2>3, <3>1 DEF Notify
  <2> QED BY <1>6, <2>1, <2>2, <2>3
<1>7. ASSUME NEW r \in ReviewRequests, UpdateReview(r) PROVE ReviewTypes'
  <2>1. reviews' \in [ReviewRequests -> Review \cup {None}]
    BY <1>7, ReplyStored DEF UpdateReview
  <2> QED BY <1>7, <2>1 DEF UpdateReview
<1>8. CASE Tick
  BY <1>8, ReviewsAssumption DEF Tick
<1>9. ASSUME NEW p \in Products, RemoveProduct(p) PROVE ReviewTypes'
  <2>1. Products \ products' = (Products \ products) \cup {p}
    BY <1>9 DEF RemoveProduct
  <2>2. IsFiniteSet(Products \ products')
    <3> DEFINE S == Products \ products
    <3>1. IsFiniteSet(S)
      OBVIOUS
    <3> HIDE DEF S
    <3>2. IsFiniteSet(S \cup {p})
      BY <3>1, FS_AddElement
    <3> QED BY <2>1, <3>2 DEF S
  <2>3. reviews' \in [ReviewRequests -> Review \cup {None}]
    BY <1>9 DEF RemoveProduct
  <2> QED BY <1>9, <2>2, <2>3 DEF RemoveProduct
<1>10. CASE Restart
  BY <1>10, EventsLeft DEF Restart
<1>11. CASE UNCHANGED reviewVars
  BY <1>11 DEF reviewVars
<1> QED BY <1>1, <1>2, <1>3, <1>4, <1>5, <1>6, <1>7, <1>8, <1>9, <1>10, <1>11
        DEF ReviewsNext, Handle

------------------------------------------------------------------------------
(***************************************************************************)
(* What each kind of step leaves alone.                                    *)
(***************************************************************************)
\* A handler works on its own variables.
LEMMA ReviewHandlerFrame ==
    ASSUME ReviewTypes, NEW r \in ReviewRequests, Handle(r)
    PROVE  /\ UNCHANGED <<clock, restarts, products, cut>>
           /\ \A q \in ReviewRequests \ {r} :
                 /\ reviewReq'[q] = reviewReq[q] /\ reviewPc'[q] = reviewPc[q]
                 /\ reviewAnswer'[q] = reviewAnswer[q] /\ stamp'[q] = stamp[q]
                 /\ target'[q] = target[q] /\ first'[q] = first[q]
                 /\ cursor'[q] = cursor[q] /\ seen'[q] = seen[q]
                 /\ before'[q] = before[q] /\ admitted'[q] = admitted[q]
           /\ reviewPc[r] # "done" /\ reviewPc'[r] # "idle"
           /\ reviewPc[r] # "idle" =>
                 UNCHANGED <<reviewReq, hits, target, before, admitted, promised, edit>>
<1> USE DEF ReviewTypes, rows, handler, recalled, MoveTo, AnswerWith, Take
<1>1. CASE Guard(r)
  BY <1>1 DEF Guard
<1>2. CASE FindProduct(r) \/ Begin(r)
  BY <1>2 DEF FindProduct, Begin
<1>3. CASE Insert(r)
  BY <1>3 DEF Insert
<1>4. CASE Walk(r)
  BY <1>4 DEF Walk
<1>5. CASE Page(r)
  BY <1>5 DEF Page
<1>6. CASE Reply(r)
  BY <1>6 DEF Reply
<1>7. CASE FindReview(r) \/ SelectReview(r)
  BY <1>7 DEF FindReview, SelectReview
<1>8. CASE UpdateReview(r) \/ Notify(r)
  BY <1>8 DEF UpdateReview, Notify
<1> QED BY <1>1, <1>2, <1>3, <1>4, <1>5, <1>6, <1>7, <1>8 DEF Handle

\* A row keeps its time and its id as long as it is there, and a reply is never taken back.
Stays(c) ==
    /\ reviews'[c].at = reviews[c].at /\ reviews'[c].id = reviews[c].id
    /\ reviews[c].reply # None => reviews'[c].reply # None

LEMMA RowsOfHandlers ==
    ASSUME ReviewTypes, StageTells, NEW r \in ReviewRequests, Handle(r),
           NEW c \in ReviewRequests
    PROVE  /\ ~Missing(c) => reviews'[c] # None /\ Stays(c)
           /\ Missing(c) /\ reviews'[c] # None =>
                 /\ c = r /\ reviewPc[r] = "insert" /\ Insert(r)
                 /\ reviews'[c].at = stamp[r] /\ reviews'[c].reply = None
<1> USE DEF rows, Missing
<1>1. CASE Insert(r)
  <2>1. reviews[r] = None
    BY <1>1 DEF Insert, StageTells
  <2>2. reviews' = reviews \/ \E id \in Ids :
            reviews' = [reviews EXCEPT ![r] = [at |-> stamp[r], id |-> id, reply |-> None]]
    BY <1>1 DEF Insert
  <2>3. c # r => reviews'[c] = reviews[c]
    BY <2>2 DEF ReviewTypes
  <2>4. reviews'[r] # None => reviews'[r].at = stamp[r] /\ reviews'[r].reply = None
    BY <2>1, <2>2 DEF ReviewTypes
  <2> QED BY <1>1, <2>1, <2>3, <2>4 DEF Insert, Stays
<1>2. CASE UpdateReview(r)
  <2>1. reviews'[c] = IF c = target[r] /\ reviews[c] # None
                      THEN [reviews[c] EXCEPT !.reply = r] ELSE reviews[c]
    BY <1>2 DEF UpdateReview
  <2>2. reviews[c] # None => reviews[c] \in Review
    BY DEF ReviewTypes
  <2>3. r # None
    BY ReviewsAssumption
  <2> QED BY <2>1, <2>2, <2>3, ReplyStored DEF Stays
<1>3. CASE ~Insert(r) /\ ~UpdateReview(r)
  <2>1. reviews' = reviews
    BY <1>3 DEF Handle, Guard, FindProduct, Begin, Walk, Page, Reply, FindReview, SelectReview,
                Notify, Take
  <2> QED BY <2>1 DEF Stays
<1> QED BY <1>1, <1>2, <1>3

\* The same of every step; only RemoveProduct takes rows, and then those of a product.
LEMMA RowsOfSteps ==
    ASSUME ReviewTypes, StageTells, [ReviewsNext]_reviewVars
    PROVE  \A c \in ReviewRequests :
              /\ ~Missing(c) /\ reviews'[c] # None => Stays(c)
              /\ Missing(c) /\ reviews'[c] # None =>
                    /\ reviewPc[c] = "insert" /\ Insert(c)
                    /\ reviews'[c].at = stamp[c] /\ reviews'[c].reply = None
              /\ ~Missing(c) /\ reviews'[c] = None =>
                    \A d \in ReviewRequests :
                        reviewReq[d].product = reviewReq[c].product => reviews'[d] = None
<1>1. ASSUME NEW r \in ReviewRequests, Handle(r), NEW c \in ReviewRequests
      PROVE  /\ ~Missing(c) /\ reviews'[c] # None => Stays(c)
             /\ Missing(c) /\ reviews'[c] # None =>
                    /\ reviewPc[c] = "insert" /\ Insert(c)
                    /\ reviews'[c].at = stamp[c] /\ reviews'[c].reply = None
             /\ ~(~Missing(c) /\ reviews'[c] = None)
  BY <1>1, RowsOfHandlers
<1>2. ASSUME NEW p \in Products, RemoveProduct(p), NEW c \in ReviewRequests
      PROVE  reviews'[c] = IF ReviewOf(c, p) THEN None ELSE reviews[c]
  BY <1>2 DEF RemoveProduct
<1>3. ASSUME NEW p \in Products, RemoveProduct(p), NEW c \in ReviewRequests
      PROVE  /\ ~Missing(c) /\ reviews'[c] # None => Stays(c)
             /\ ~(Missing(c) /\ reviews'[c] # None)
             /\ ~Missing(c) /\ reviews'[c] = None =>
                    \A d \in ReviewRequests :
                        reviewReq[d].product = reviewReq[c].product => reviews'[d] = None
  BY <1>2, <1>3 DEF ReviewOf, Missing, Stays
<1>4. ASSUME Tick \/ Restart \/ UNCHANGED reviewVars, NEW c \in ReviewRequests
      PROVE  reviews'[c] = reviews[c]
  BY <1>4 DEF Tick, Restart, reviewVars, rows
<1> QED BY <1>1, <1>3, <1>4 DEF ReviewsNext, Missing, Stays

LEMMA InPastKept ==
    ASSUME ReviewTypes, InPast, StageTells, [ReviewsNext]_reviewVars
    PROVE  InPast'
<1>1. clock \in Nat /\ Ms(clock) \in Nat
  BY ClockIs
<1>2. clock' \in Nat /\ clock <= clock' /\ Ms(clock)' = Ms(clock') /\ Ms(clock) <= Ms(clock')
  <2>1. clock' = clock \/ clock' = clock + 1
    <3>1. ASSUME NEW r \in ReviewRequests, Handle(r) PROVE clock' = clock
      BY <3>1, ReviewHandlerFrame
    <3> QED BY <3>1 DEF ReviewsNext, Tick, RemoveProduct, Restart, reviewVars
  <2>2. clock' \in Nat /\ clock <= clock'
    BY <1>1, <2>1
  <2> QED BY <1>1, <2>2, MsGrows DEF Ms
<1>3. \A c \in ReviewRequests : reviews'[c] # None => reviews'[c].at <= clock'
  <2> SUFFICES ASSUME NEW c \in ReviewRequests, reviews'[c] # None
               PROVE  reviews'[c].at <= clock'
    OBVIOUS
  <2>1. CASE Missing(c)
    BY <1>1, <1>2, <2>1, RowsOfSteps DEF InPast, ReviewTypes
  <2>2. CASE ~Missing(c)
    <3>1. reviews[c].at \in Nat /\ reviews[c].at <= clock
      BY <2>2 DEF Missing, InPast, ReviewTypes, Review
    <3> QED BY <1>1, <1>2, <2>2, <3>1, RowsOfSteps DEF Stays
  <2> QED BY <2>1, <2>2
<1>4. \A r \in ReviewRequests : stamp'[r] <= clock'
  <2> SUFFICES ASSUME NEW q \in ReviewRequests PROVE stamp'[q] <= clock'
    OBVIOUS
  <2>1. stamp'[q] = stamp[q] \/ stamp'[q] = 0 \/ stamp'[q] = clock
    <3>1. ASSUME NEW r \in ReviewRequests, Handle(r)
          PROVE  stamp'[q] = stamp[q] \/ stamp'[q] = 0 \/ stamp'[q] = clock
      <4>1. CASE r = q
        BY <3>1, <4>1 DEF Handle, Guard, FindProduct, Begin, Insert, Walk, Page, Reply,
              FindReview, SelectReview, UpdateReview, Notify, Take, ReviewTypes
      <4> QED BY <3>1, <4>1, ReviewHandlerFrame
    <3> QED BY <3>1 DEF ReviewsNext, Tick, RemoveProduct, Restart, reviewVars, handler
  <2> QED BY <1>1, <1>2, <2>1 DEF InPast, ReviewTypes
<1>5. \A k \in Pairs : \A hit \in hits'[k] : hit.at <= Ms(clock')
  <2> SUFFICES ASSUME NEW k \in Pairs, NEW hit \in hits'[k] PROVE hit.at <= Ms(clock')
    OBVIOUS
  <2>1. hit \in hits[k] \/ hit.at = Ms(clock)
    <3>1. ASSUME NEW r \in ReviewRequests, Handle(r) PROVE hit \in hits[k] \/ hit.at = Ms(clock)
      <4>1. CASE Guard(r)
        <5>1. PICK b \in ReviewBodies : \/ UNCHANGED hits
                                        \/ hits' = [hits EXCEPT ![Key(b)] = Recent(Key(b))
                                                      \cup {[by |-> r, at |-> Ms(clock)]}]
          BY <4>1 DEF Guard
        <5>2. CASE UNCHANGED hits
          BY <5>2
        <5>3. CASE hits' = [hits EXCEPT ![Key(b)] = Recent(Key(b))
                                          \cup {[by |-> r, at |-> Ms(clock)]}]
          <6>1. k # Key(b) => hits'[k] = hits[k]
            BY <5>3 DEF ReviewTypes
          <6>2. k = Key(b) => hits'[k] = Recent(k) \cup {[by |-> r, at |-> Ms(clock)]}
            BY <5>3 DEF ReviewTypes
          <6> QED BY <6>1, <6>2 DEF Recent
        <5> QED BY <5>1, <5>2, <5>3
      <4>2. CASE ~Guard(r)
        BY <3>1, <4>2 DEF Handle, FindProduct, Begin, Insert, Walk, Page, Reply,
              FindReview, SelectReview, UpdateReview, Notify
      <4> QED BY <4>1, <4>2
    <3> QED BY <3>1 DEF ReviewsNext, Tick, RemoveProduct, Restart, reviewVars
  <2>2. hit.at \in Nat /\ hit.at <= Ms(clock)
    <3>1. CASE hit \in hits[k]
      <4>1. hit \in Hit
        BY <3>1 DEF ReviewTypes
      <4> QED BY <3>1, <4>1 DEF InPast, Hit
    <3>2. CASE hit.at = Ms(clock)
      BY <1>1, <3>2
    <3> QED BY <2>1, <3>1, <3>2
  <2>3. Ms(clock') \in Nat
    BY <1>2, MsGrows
  <2> QED BY <1>1, <1>2, <2>2, <2>3
<1> QED BY <1>2, <1>3, <1>4, <1>5 DEF InPast

\* What StageTells says of one request.
StageOf(r) ==
    /\ reviewPc[r] = "idle" =>
          /\ target[r] = None /\ ~first[r] /\ seen[r] = <<>> /\ cursor[r] = None
          /\ before[r] = {} /\ admitted[r] = None
    /\ reviewPc[r] \in {"begin", "insert"} => Asks(r, "create")
    /\ reviewPc[r] = "find" => Asks(r, "create") \/ Asks(r, "walk")
    /\ reviewPc[r] = "page" => Asks(r, "walk")
    /\ reviewPc[r] \in {"findReview", "select", "update", "notify"} =>
          target[r] # None /\ Asks(r, "reply")
    /\ reviewPc[r] # "done" => reviewAnswer[r] = "none" /\ reviews[r] = None
    /\ reviewPc[r] = "findReview" => ~first[r]
    /\ target[r] # None => Asks(r, "reply")

LEMMA StageTellsKept ==
    ASSUME ReviewTypes, StageTells, [ReviewsNext]_reviewVars
    PROVE  StageTells'
<1>1. ASSUME NEW q \in ReviewRequests PROVE StageOf(q)
  BY DEF StageTells, StageOf
<1>2. ASSUME NEW q \in ReviewRequests, reviewPc[q] # "done", ~Insert(q)
      PROVE  reviews'[q] = None
  BY <1>2, RowsOfSteps DEF StageTells, Missing
<1>3. ASSUME NEW r \in ReviewRequests, Handle(r), NEW q \in ReviewRequests \ {r}
      PROVE  StageOf(q)'
  <2>1. reviewPc[q] # "done" => reviews'[q] = None
    BY <1>3, RowsOfHandlers DEF StageTells, Missing
  <2> QED BY <1>1, <1>3, <2>1, ReviewHandlerFrame DEF StageOf, Asks
<1>4. ASSUME NEW r \in ReviewRequests, Handle(r) PROVE StageOf(r)'
  <2> USE DEF ReviewTypes, MoveTo, AnswerWith, Take, rows, recalled, StageOf, Asks
  <2>0. StageOf(r)
    BY <1>1
  <2>1. CASE Guard(r)
    <3>1. PICK b \in ReviewBodies :
              /\ b.op = "create" /\ Take(r, b)
              /\ \/ AnswerWith(r, "tooMany")
                 \/ MoveTo(r, "find")
              /\ UNCHANGED target
      BY <2>1 DEF Guard
    <3> QED BY <2>0, <3>1
  <2>2. CASE FindProduct(r)
    <3>1. /\ reviewPc[r] = "find" /\ reviewPc'[r] \in {"begin", "page", "done"}
          /\ reviewPc'[r] = "begin" => reviewReq[r].op = "create"
          /\ reviewPc'[r] = "page" => reviewReq[r].op # "create"
          /\ reviewPc'[r] # "done" => reviewAnswer' = reviewAnswer
          /\ UNCHANGED <<reviewReq, target, reviews>>
      BY <2>2 DEF FindProduct
    <3> HIDE DEF ReviewTypes
    <3> QED BY <2>0, <3>1
  <2>3. CASE Begin(r)
    <3>1. /\ reviewPc[r] = "begin" /\ reviewPc'[r] = "insert"
          /\ UNCHANGED <<reviewReq, reviewAnswer, target, reviews>>
      BY <2>3 DEF Begin
    <3> HIDE DEF ReviewTypes
    <3> QED BY <2>0, <3>1
  <2>4. CASE Insert(r)
    <3>1. /\ reviewPc'[r] = "done" /\ UNCHANGED <<reviewReq, target>>
      BY <2>4 DEF Insert
    <3> HIDE DEF ReviewTypes
    <3> QED BY <2>0, <3>1
  <2>5. CASE Walk(r)
    <3>1. PICK b \in ReviewBodies :
              b.op = "walk" /\ Take(r, b) /\ MoveTo(r, "find") /\ UNCHANGED target
      BY <2>5 DEF Walk
    <3> QED BY <2>0, <3>1
  <2>6. CASE Page(r)
    <3>1. /\ reviewPc[r] = "page" /\ reviewPc'[r] \in {"find", "done"}
          /\ reviewPc'[r] # "done" => reviewAnswer' = reviewAnswer
          /\ UNCHANGED <<reviewReq, target, reviews>>
      BY <2>6 DEF Page
    <3> HIDE DEF ReviewTypes
    <3> QED BY <2>0, <3>1
  <2>7. CASE Reply(r)
    <3>1. PICK b \in ReviewBodies, c \in ReviewRequests :
              /\ b.op = "reply" /\ Take(r, b) /\ target' = [target EXCEPT ![r] = c]
              /\ MoveTo(r, "findReview")
      BY <2>7 DEF Reply
    <3>2. c # None
      BY ReviewsAssumption
    <3> QED BY <2>0, <3>1, <3>2
  <2>8. CASE FindReview(r)
    BY <2>0, <2>8 DEF FindReview
  <2>9. CASE SelectReview(r)
    BY <2>0, <2>9 DEF SelectReview
  <2>10. CASE UpdateReview(r)
    <3>1. reviews'[r] = None
      BY <2>0, <2>10 DEF UpdateReview
    <3> QED BY <2>0, <2>10, <3>1 DEF UpdateReview
  <2>11. CASE Notify(r)
    BY <2>0, <2>11 DEF Notify
  <2> QED BY <1>4, <2>1, <2>2, <2>3, <2>4, <2>5, <2>6, <2>7, <2>8, <2>9, <2>10, <2>11 DEF Handle
<1>5. ASSUME NEW p \in Products, RemoveProduct(p), NEW q \in ReviewRequests PROVE StageOf(q)'
  <2>1. reviewPc[q] # "done" => reviews'[q] = None
    BY <1>1, <1>5 DEF RemoveProduct, StageOf
  <2> QED BY <1>1, <1>5, <2>1 DEF RemoveProduct, handler, recalled, StageOf, Asks
<1>6. ASSUME Restart, NEW q \in ReviewRequests PROVE StageOf(q)'
  <2>1. /\ reviewPc'[q] = IF reviewPc[q] = "idle" THEN "idle" ELSE "done"
        /\ admitted'[q] = None
    BY <1>6 DEF Restart
  <2> QED BY <1>1, <1>6, <2>1 DEF Restart, rows, StageOf, Asks
<1>7. ASSUME Tick \/ UNCHANGED reviewVars, NEW q \in ReviewRequests PROVE StageOf(q)'
  BY <1>1, <1>7 DEF Tick, reviewVars, rows, handler, recalled, StageOf, Asks
<1>8. \A q \in ReviewRequests : StageOf(q)'
  BY <1>3, <1>4, <1>5, <1>6, <1>7 DEF ReviewsNext
<1> QED BY <1>8 DEF StageTells, StageOf

\* What OnlyWritten says of two requests.
Uses(r, c) == target[r] = c \/ c \in before[r] \/ \E i \in DOMAIN seen[r] : seen[r][i] = c

LEMMA OnlyWrittenKept ==
    ASSUME TypesAndStages, [ReviewsNext]_reviewVars
    PROVE  OnlyWritten'
<1> USE DEF TypesAndStages
<1>1. ASSUME NEW r \in ReviewRequests, NEW c \in ReviewRequests, Uses(r, c)
      PROVE  reviewPc[c] = "done"
  BY <1>1 DEF OnlyWritten, Uses
<1>2. ASSUME NEW c \in ReviewRequests, ~Missing(c) PROVE reviewPc[c] = "done"
  BY <1>2 DEF StageTells, Missing
<1>3. ASSUME NEW c \in ReviewRequests, reviewPc[c] = "done" PROVE reviewPc'[c] = "done"
  <2>1. ASSUME NEW r \in ReviewRequests, Handle(r) PROVE reviewPc'[c] = "done"
    BY <1>3, <2>1, ReviewHandlerFrame
  <2>2. CASE Restart
    BY <1>3, <2>2 DEF Restart
  <2> QED BY <1>3, <2>1, <2>2 DEF ReviewsNext, Tick, RemoveProduct, reviewVars, handler
<1>4. ASSUME NEW r \in ReviewRequests, NEW c \in ReviewRequests, Uses(r, c)'
      PROVE  Uses(r, c) \/ ~Missing(c)
  <2>1. ASSUME NEW q \in ReviewRequests \ {r}, Handle(q) PROVE Uses(r, c)
    BY <1>4, <2>1, ReviewHandlerFrame DEF Uses
  <2>2. CASE Handle(r)
    <3> USE DEF ReviewTypes, Take, recalled
    <3>1. CASE Guard(r)
      BY <1>4, <3>1 DEF Guard, Uses
    <3>2. CASE Walk(r)
      <4>1. PICK b \in ReviewBodies :
                /\ before' = [before EXCEPT ![r] =
                                 {d \in ReviewRequests : ReviewOf(d, b.product)}]
                /\ UNCHANGED <<target, seen>>
        BY <3>2 DEF Walk
      <4> QED BY <1>4, <4>1 DEF Uses, ReviewOf, Missing
    <3>3. CASE Reply(r)
      <4>1. PICK d \in {d \in ReviewRequests : reviews[d] # None} :
                target' = [target EXCEPT ![r] = d] /\ UNCHANGED <<before, seen>>
        BY <3>3 DEF Reply
      <4> QED BY <1>4, <4>1 DEF Uses, Missing
    <3>4. CASE Page(r)
      <4>1. PICK given \in Seq(ReviewRequests) :
                /\ seen' = [seen EXCEPT ![r] = @ \o given]
                /\ \A i \in DOMAIN given :
                      given[i] \in Selected(reviewReq[r].product, cursor[r])
                /\ UNCHANGED <<target, before>>
        BY <3>4, PageGives
      <4>2. seen[r] \in Seq(ReviewRequests) /\ seen'[r] = seen[r] \o given
        BY <4>1
      <4>3. ASSUME NEW i \in DOMAIN seen'[r], seen'[r][i] = c PROVE Uses(r, c) \/ ~Missing(c)
        <5> DEFINE m == Len(seen[r])
                   n == Len(given)
                   u == seen[r] \o given
        <5>1. /\ m \in Nat /\ n \in Nat
              /\ DOMAIN seen[r] = 1..m /\ DOMAIN given = 1..n /\ DOMAIN u = 1..(m + n)
              /\ \A j \in 1..m : u[j] = seen[r][j]
              /\ \A j \in 1..n : u[m + j] = given[j]
          BY <4>2, JoinIs
        <5> HIDE DEF m, n, u
        <5>2. i \in 1..(m + n) /\ u[i] = c
          BY <4>2, <4>3, <5>1 DEF u
        <5>3. CASE i <= m
          <6>1. i \in 1..m
            BY <5>1, <5>2, <5>3
          <6> QED BY <5>1, <5>2, <6>1 DEF Uses
        <5>4. CASE ~(i <= m)
          <6>1. i - m \in 1..n /\ m + (i - m) = i
            BY <5>1, <5>2, <5>4
          <6>2. given[i - m] = c
            BY <5>1, <5>2, <6>1
          <6>3. c \in Selected(reviewReq[r].product, cursor[r])
            BY <4>1, <5>1, <6>1, <6>2
          <6> QED BY <6>3 DEF Selected, Missing
        <5> QED BY <5>3, <5>4
      <4> QED BY <1>4, <4>1, <4>3 DEF Uses
    <3>5. CASE ~(Guard(r) \/ Walk(r) \/ Reply(r) \/ Page(r))
      BY <1>4, <2>2, <3>5 DEF Handle, FindProduct, Begin, Insert, FindReview, SelectReview,
            UpdateReview, Notify, Uses
    <3> QED BY <3>1, <3>2, <3>3, <3>4, <3>5
  <2>3. CASE Tick \/ Restart \/ UNCHANGED reviewVars \/ \E p \in Products : RemoveProduct(p)
    BY <1>4, <2>3 DEF Tick, Restart, reviewVars, RemoveProduct, handler, recalled, Uses
  <2> QED BY <2>1, <2>2, <2>3 DEF ReviewsNext
<1>5. \A r, c \in ReviewRequests : Uses(r, c)' => reviewPc'[c] = "done"
  BY <1>1, <1>2, <1>3, <1>4
<1> QED BY <1>5 DEF OnlyWritten, Uses

------------------------------------------------------------------------------
(***************************************************************************)
(* Replies.                                                                *)
(***************************************************************************)
Stored(c) == Missing(c) \/ reviews[c].reply # None

\* A review somebody works on does not get back to having no reply.
LEMMA StoredStays ==
    ASSUME TypesAndStages, [ReviewsNext]_reviewVars,
           NEW r \in ReviewRequests, target[r] # None, Stored(target[r])
    PROVE  Stored(target[r])' \/ target'[r] # target[r]
<1> SUFFICES ASSUME target'[r] = target[r] PROVE Stored(target[r])'
  OBVIOUS
<1> DEFINE c == target[r]
<1>1. c \in ReviewRequests /\ reviewPc[c] = "done"
  BY DEF TypesAndStages, ReviewTypes, OnlyWritten
<1>2. reviews'[c] = None \/ reviews'[c].reply # None
  BY <1>1, RowsOfSteps DEF Stored, TypesAndStages, Missing, Stays
<1> QED BY <1>2 DEF Stored, Missing

\* Whoever was told stays told, and a crash notes whom it cut off.
LEMMA KnownStays ==
    ASSUME TypesAndStages, [ReviewsNext]_reviewVars, NEW c \in ReviewRequests, IsKnown(c)
    PROVE  IsKnown(c)'
<1> USE DEF TypesAndStages, ReviewTypes
<1>1. ASSUME NEW r \in ReviewRequests, Handle(r) PROVE IsKnown(c)'
  <2>1. CASE Notify(r)
    <3>1. target[r] \in ReviewRequests
      BY <2>1 DEF Notify, StageTells
    <3>2. repliesTold'[c] = IF c = target[r] THEN repliesTold[c] + 1 ELSE repliesTold[c]
      BY <2>1, <3>1 DEF Notify
    <3>3. \A q \in ReviewRequests \ {r} : target'[q] = target[q] /\ reviewPc'[q] = reviewPc[q]
      BY <1>1, ReviewHandlerFrame
    <3>4. cut' = cut
      BY <1>1, ReviewHandlerFrame
    <3>5. repliesTold[c] \in Nat
      OBVIOUS
    <3>6. CASE c = target[r] \/ repliesTold[c] > 0
      <4>1. repliesTold'[c] > 0
        BY <3>2, <3>5, <3>6
      <4> QED BY <4>1 DEF IsKnown
    <3>7. CASE c # target[r] /\ ~(repliesTold[c] > 0)
      BY <3>3, <3>4, <3>7 DEF IsKnown
    <3> QED BY <3>6, <3>7
  <2>2. CASE ~Notify(r)
    <3>1. repliesTold' = repliesTold
      BY <1>1, <2>2 DEF Handle, Guard, FindProduct, Begin, Insert, Walk, Page, Reply, FindReview,
            SelectReview, UpdateReview, Take, rows
    <3>2. reviewPc[r] # "notify"
      BY <1>1, <2>2 DEF Handle, Guard, FindProduct, Begin, Insert, Walk, Page, Reply, FindReview,
            SelectReview, UpdateReview, Take
    <3>3. \A q \in ReviewRequests \ {r} : target'[q] = target[q] /\ reviewPc'[q] = reviewPc[q]
      BY <1>1, ReviewHandlerFrame
    <3>4. cut' = cut
      BY <1>1, ReviewHandlerFrame
    <3> QED BY <3>1, <3>2, <3>3, <3>4 DEF IsKnown
  <2> QED BY <2>1, <2>2
<1>2. CASE Restart
  BY <1>2 DEF Restart, rows, IsKnown
<1>3. CASE Tick \/ UNCHANGED reviewVars \/ \E p \in Products : RemoveProduct(p)
  BY <1>3 DEF Tick, RemoveProduct, reviewVars, rows, handler, recalled, IsKnown
<1> QED BY <1>1, <1>2, <1>3 DEF ReviewsNext

\* Only a notification adds to those that told the author.
LEMMA TellingGrows ==
    ASSUME TypesAndStages, RepliesAreTold, [ReviewsNext]_reviewVars, NEW c \in ReviewRequests
    PROVE  repliesTold'[c] = Cardinality(Telling(c)')
<1> USE DEF TypesAndStages, ReviewTypes
<1>0. IsFiniteSet(Telling(c)) /\ repliesTold[c] = Cardinality(Telling(c))
  BY FS_Subset, ReviewsAssumption DEF Telling, RepliesAreTold
<1> DEFINE Tells(q) == target[q] = c /\ first[q] /\ reviewAnswer[q] = "ok"
<1>1. ASSUME NEW r \in ReviewRequests, Handle(r) PROVE repliesTold'[c] = Cardinality(Telling(c)')
  <2>0. \A q \in ReviewRequests \ {r} : Tells(q)' <=> Tells(q)
    <3> HIDE DEF ReviewTypes
    <3>1. \A q \in ReviewRequests \ {r} : /\ target'[q] = target[q] /\ first'[q] = first[q]
                                         /\ reviewAnswer'[q] = reviewAnswer[q]
      BY <1>1, ReviewHandlerFrame
    <3> QED BY <3>1
  <2>1. CASE Notify(r)
    <3>1. /\ target[r] \in ReviewRequests /\ first[r] /\ reviewAnswer[r] = "none"
          /\ target' = target /\ first' = first /\ reviewAnswer'[r] = "ok"
          /\ repliesTold'[c] = IF c = target[r] THEN repliesTold[c] + 1 ELSE repliesTold[c]
      BY <2>1 DEF Notify, StageTells, RepliesAreTold, AnswerWith
    <3>2. CASE c = target[r]
      <4>1. Telling(c)' = Telling(c) \cup {r} /\ r \notin Telling(c)
        BY <2>0, <3>1, <3>2 DEF Telling
      <4> DEFINE S == Telling(c)
      <4>2. IsFiniteSet(S) /\ r \notin S
        BY <1>0, <4>1
      <4> HIDE DEF S
      <4>3. Cardinality(S \cup {r}) = Cardinality(S) + 1
        BY <4>2, FS_AddElement
      <4> QED BY <1>0, <3>1, <3>2, <4>1, <4>3 DEF S
    <3>3. CASE c # target[r]
      <4>1. Telling(c)' = Telling(c)
        BY <2>0, <3>1, <3>3 DEF Telling
      <4> QED BY <1>0, <3>1, <3>3, <4>1
    <3> QED BY <3>2, <3>3
  <2>2. CASE ~Notify(r)
    <3>1. repliesTold' = repliesTold
      BY <1>1, <2>2 DEF Handle, Guard, FindProduct, Begin, Insert, Walk, Page, Reply, FindReview,
            SelectReview, UpdateReview, Take, rows
    <3>2. ~Tells(r) /\ ~Tells(r)'
      <4>1. reviewAnswer[r] # "ok"
        BY <1>1, ReviewHandlerFrame DEF StageTells
      <4>2. ASSUME reviewAnswer'[r] = "ok" PROVE Page(r) \/ (UpdateReview(r) /\ ~first[r])
        <5> USE DEF MoveTo, AnswerWith
        <5>1. ~Guard(r)
          BY <4>1, <4>2 DEF Guard
        <5>2. ~FindProduct(r) /\ ~Begin(r) /\ ~Insert(r)
          BY <4>1, <4>2 DEF FindProduct, Begin, Insert
        <5>3. ~Walk(r) /\ ~Reply(r)
          BY <4>1, <4>2 DEF Walk, Reply
        <5>4. ~FindReview(r) /\ ~SelectReview(r)
          BY <4>1, <4>2 DEF FindReview, SelectReview
        <5>5. UpdateReview(r) => ~first[r]
          BY <4>1, <4>2 DEF UpdateReview
        <5> QED BY <1>1, <2>2, <5>1, <5>2, <5>3, <5>4, <5>5 DEF Handle
      <4>3. Page(r) => target'[r] = None
        BY DEF Page, StageTells, Asks
      <4>4. UpdateReview(r) => first' = first
        BY DEF UpdateReview
      <4>5. c # None
        BY ReviewsAssumption
      <4> QED BY <4>1, <4>2, <4>3, <4>4, <4>5
    <3>3. Telling(c)' = Telling(c)
      BY <2>0, <3>2 DEF Telling
    <3> QED BY <1>0, <3>1, <3>3
  <2> QED BY <2>1, <2>2
<1>2. CASE Tick \/ Restart \/ UNCHANGED reviewVars \/ \E p \in Products : RemoveProduct(p)
  <2>1. repliesTold' = repliesTold /\ target' = target /\ first' = first
        /\ reviewAnswer' = reviewAnswer
    BY <1>2 DEF Tick, Restart, RemoveProduct, reviewVars, rows, handler
  <2>2. Telling(c)' = Telling(c)
    BY <2>1 DEF Telling
  <2> QED BY <1>0, <2>1, <2>2
<1> QED BY <1>1, <1>2 DEF ReviewsNext

LEMMA RepliesKept ==
    ASSUME TypesAndStages, RepliesAreTold, [ReviewsNext]_reviewVars
    PROVE  RepliesAreTold'
<1> USE DEF TypesAndStages, ReviewTypes
<1>1. ASSUME NEW c \in ReviewRequests, reviews'[c] # None, reviews'[c].reply # None
      PROVE  IsKnown(c)'
  <2>1. CASE ~Missing(c) /\ reviews[c].reply # None
    BY <2>1, KnownStays DEF RepliesAreTold
  <2>2. CASE Missing(c) \/ reviews[c].reply = None
    <3>1. ~Missing(c)
      BY <1>1, RowsOfSteps
    <3>2. reviews'[c] # reviews[c]
      BY <1>1, <2>2, <3>1
    <3>3. PICK r \in ReviewRequests : UpdateReview(r) /\ c = target[r]
      <4>1. ASSUME NEW r \in ReviewRequests, Handle(r) PROVE UpdateReview(r) /\ c = target[r]
        <5>1. ~Insert(r)
          <6>1. Insert(r) => reviews[r] = None
            BY DEF Insert, StageTells
          <6>2. c # r => ~Insert(r)
            BY <3>2 DEF Insert
          <6> QED BY <3>1, <6>1, <6>2 DEF Missing
        <5>2. UpdateReview(r)
          BY <3>2, <4>1, <5>1 DEF Handle, Guard, FindProduct, Begin, Walk, Page, Reply,
                FindReview, SelectReview, Notify, Take, rows
        <5> QED BY <3>2, <5>2 DEF UpdateReview
      <4>2. ~(Tick \/ Restart \/ UNCHANGED reviewVars)
        BY <3>2 DEF Tick, Restart, reviewVars, rows
      <4>3. ASSUME NEW p \in Products, RemoveProduct(p) PROVE FALSE
        BY <1>1, <3>2, <4>3 DEF RemoveProduct
      <4> QED BY <4>1, <4>2, <4>3 DEF ReviewsNext
    <3>4. CASE first[r]
      <4>1. reviewPc'[r] = "notify" /\ target'[r] = c
        BY <3>3, <3>4 DEF UpdateReview, MoveTo
      <4> QED BY <4>1 DEF IsKnown
    <3>5. CASE ~first[r]
      BY <2>2, <3>1, <3>3, <3>5 DEF UpdateReview, RepliesAreTold
    <3> QED BY <3>4, <3>5
  <2> QED BY <2>1, <2>2
<1>2. \A c \in ReviewRequests : repliesTold'[c] = Cardinality(Telling(c)')
  BY TellingGrows
<1> DEFINE Claims(r) ==
        /\ reviewPc[r] \in {"select", "update"} /\ ~first[r] => Stored(target[r])
        /\ reviewPc[r] = "notify" => first[r]
        /\ first[r] => r \notin edit
        /\ r \in edit => target[r] # None /\ Stored(target[r])
<1>3. \A r \in ReviewRequests : Claims(r)
  BY DEF RepliesAreTold, Stored
<1>4. ASSUME NEW r \in ReviewRequests,
             target'[r] = target[r], first'[r] = first[r], r \in edit' => r \in edit,
             reviewPc'[r] \in {"select", "update", "notify"} => reviewPc'[r] = reviewPc[r]
      PROVE  Claims(r)'
  <2>1. reviewPc[r] \in {"select", "update"} => target[r] # None
    BY DEF StageTells
  <2>2. target[r] # None /\ Stored(target[r]) => Stored(target[r])'
    BY <1>4, StoredStays
  <2> QED BY <1>3, <1>4, <2>1, <2>2
<1>5. ASSUME NEW r \in ReviewRequests, Handle(r), NEW q \in ReviewRequests \ {r}
      PROVE  Claims(q)'
  <2>1. q \in edit' => q \in edit
    <3>1. Reply(r) => edit' = edit \/ edit' = edit \cup {r}
      BY DEF Reply
    <3>2. Guard(r) \/ Walk(r) => edit' = edit
      BY DEF Guard, Walk
    <3>3. ~(Reply(r) \/ Guard(r) \/ Walk(r)) => edit' = edit
      BY <1>5 DEF Handle, FindProduct, Begin, Insert, Page, FindReview, SelectReview,
            UpdateReview, Notify, recalled
    <3> QED BY <1>5, <3>1, <3>2, <3>3
  <2>2. /\ target'[q] = target[q] /\ first'[q] = first[q] /\ reviewPc'[q] = reviewPc[q]
    BY <1>5, ReviewHandlerFrame
  <2> QED BY <1>4, <2>1, <2>2
<1>6. ASSUME NEW r \in ReviewRequests, Handle(r) PROVE Claims(r)'
  <2> USE DEF MoveTo, AnswerWith, Take, rows, recalled
  <2>1. CASE Guard(r)
    <3>1. /\ target' = target /\ first' = first /\ edit' = edit
          /\ reviewPc'[r] \notin {"select", "update", "notify"}
      BY <2>1 DEF Guard
    <3> QED BY <1>4, <3>1
  <2>2. CASE FindProduct(r) \/ Begin(r) \/ Insert(r) \/ Page(r)
    <3>1. /\ target' = target /\ first' = first /\ edit' = edit
          /\ reviewPc'[r] \notin {"select", "update", "notify"}
      BY <2>2 DEF FindProduct, Begin, Insert, Page
    <3> QED BY <1>4, <3>1
  <2>3. CASE Walk(r)
    <3>1. /\ target' = target /\ first' = first /\ edit' = edit
          /\ reviewPc'[r] \notin {"select", "update", "notify"}
      BY <2>3 DEF Walk
    <3> QED BY <1>4, <3>1
  <2>4. CASE Reply(r)
    <3>1. PICK c \in {c \in ReviewRequests : reviews[c] # None} :
              /\ target' = [target EXCEPT ![r] = c] /\ UNCHANGED <<first, reviews>>
              /\ edit' = IF reviews[c].reply # None THEN edit \cup {r} ELSE edit
              /\ reviewPc' = [reviewPc EXCEPT ![r] = "findReview"] /\ reviewPc[r] = "idle"
      BY <2>4 DEF Reply
    <3>2. ~first[r] /\ target[r] = None
      BY <3>1 DEF StageTells
    <3>3. r \notin edit
      BY <1>3, <3>2
    <3>4. c # None /\ target'[r] = c
      BY <3>1, ReviewsAssumption
    <3>5. r \in edit' => Stored(c)'
      BY <3>1, <3>3 DEF Stored, Missing
    <3>6. r \in edit' => Stored(target[r])'
      BY <3>4, <3>5 DEF Stored, Missing
    <3>7. reviewPc'[r] = "findReview" /\ ~first'[r]
      BY <3>1, <3>2
    <3> QED BY <3>4, <3>6, <3>7
  <2>5. CASE FindReview(r)
    <3>1. /\ target[r] # None /\ ~first[r] /\ target' = target /\ edit' = edit
          /\ reviews' = reviews
      BY <2>5 DEF FindReview, StageTells
    <3>2. CASE Missing(target[r])
      <4>1. first' = first /\ reviewPc'[r] = "done"
        BY <2>5, <3>2 DEF FindReview, Missing
      <4> QED BY <1>4, <3>1, <4>1
    <3>3. CASE ~Missing(target[r])
      <4>1. first'[r] = (reviews[target[r]].reply = None) /\ reviewPc'[r] = "select"
        BY <2>5, <3>3 DEF FindReview, Missing, IsFirstReply
      <4>2. Stored(target[r]) <=> reviews[target[r]].reply # None
        BY <3>3 DEF Stored
      <4>3. Stored(target[r])' <=> Stored(target[r])
        BY <3>1 DEF Stored, Missing
      <4>4. first'[r] <=> ~Stored(target[r])
        BY <4>1, <4>2
      <4>5. r \in edit' => Stored(target[r])
        BY <1>3, <3>1
      <4>6. target'[r] # None
        BY <3>1
      <4> QED BY <4>1, <4>3, <4>4, <4>5, <4>6
    <3> QED BY <3>2, <3>3
  <2>6. CASE SelectReview(r)
    <3>1. /\ target' = target /\ first' = first /\ edit' = edit /\ reviews' = reviews
          /\ reviewPc[r] = "select" /\ reviewPc'[r] \in {"update", "done"}
      BY <2>6 DEF SelectReview
    <3>2. Stored(target[r])' <=> Stored(target[r])
      BY <3>1 DEF Stored, Missing
    <3> QED BY <1>3, <3>1, <3>2
  <2>7. CASE UpdateReview(r)
    <3>1. /\ target' = target /\ first' = first /\ edit' = edit
          /\ reviewPc'[r] = IF first[r] THEN "notify" ELSE "done"
      BY <2>7 DEF UpdateReview
    <3>2. target[r] # None
      BY <2>7 DEF UpdateReview, StageTells
    <3>3. Stored(target[r]) => Stored(target[r])'
      BY <3>1, <3>2, StoredStays
    <3> QED BY <1>3, <3>1, <3>3
  <2>8. CASE Notify(r)
    <3>1. /\ target' = target /\ first' = first /\ edit' = edit /\ reviewPc'[r] = "done"
      BY <2>8 DEF Notify
    <3> QED BY <1>4, <3>1
  <2> QED BY <1>6, <2>1, <2>2, <2>3, <2>4, <2>5, <2>6, <2>7, <2>8 DEF Handle
<1>7. ASSUME Tick \/ Restart \/ UNCHANGED reviewVars \/ \E p \in Products : RemoveProduct(p),
             NEW r \in ReviewRequests
      PROVE  Claims(r)'
  <2>1. /\ target' = target /\ first' = first /\ edit' = edit
        /\ reviewPc'[r] \in {"select", "update", "notify"} => reviewPc'[r] = reviewPc[r]
    <3>1. CASE Restart
      BY <3>1 DEF Restart
    <3>2. CASE ~Restart
      BY <1>7, <3>2 DEF Tick, RemoveProduct, reviewVars, handler, recalled
    <3> QED BY <3>1, <3>2
  <2> QED BY <1>4, <2>1
<1>8. \A r \in ReviewRequests : Claims(r)'
  BY <1>5, <1>6, <1>7 DEF ReviewsNext
<1> QED BY <1>1, <1>2, <1>8 DEF RepliesAreTold, Stored, Missing

------------------------------------------------------------------------------
(***************************************************************************)
(* The rate limiter.                                                       *)
(***************************************************************************)
\* What the guard does: it refuses, or lets pass and remembers.
LEMMA GuardDoes ==
    ASSUME ReviewTypes, NEW r \in ReviewRequests, Guard(r)
    PROVE  \E k \in Pairs :
              /\ reviewPc[r] = "idle" /\ Key(reviewReq'[r]) = k
              /\ \A q \in ReviewRequests \ {r} : reviewReq'[q] = reviewReq[q]
              /\ \/ /\ Cardinality(Recent(k)) >= MaxRequests
                    /\ promised' = [promised EXCEPT ![k] =
                                      IF @ = None THEN Ms(clock) + Window ELSE @]
                    /\ UNCHANGED <<hits, admitted>>
                 \/ /\ ~(Cardinality(Recent(k)) >= MaxRequests)
                    /\ reviewAnswer'[r] = reviewAnswer[r]
                    /\ hits' = [hits EXCEPT ![k] =
                                  Recent(k) \cup {[by |-> r, at |-> Ms(clock)]}]
                    /\ promised' = [promised EXCEPT ![k] = None]
                    /\ admitted' = [admitted EXCEPT ![r] = Ms(clock)]
<1>1. PICK b \in ReviewBodies :
          LET recent == Recent(Key(b))
              full == IsFull(recent)
          IN  /\ b.op = "create"
              /\ Take(r, b)
              /\ IF full
                 THEN /\ AnswerWith(r, "tooMany")
                      /\ promised' = [promised EXCEPT ![Key(b)] =
                                        IF @ = None THEN Ms(clock) + Window ELSE @]
                      /\ UNCHANGED <<hits, admitted>>
                 ELSE /\ MoveTo(r, "find")
                      /\ hits' = [hits EXCEPT ![Key(b)] =
                                    recent \cup {[by |-> r, at |-> Ms(clock)]}]
                      /\ promised' = [promised EXCEPT ![Key(b)] = None]
                      /\ admitted' = [admitted EXCEPT ![r] = Ms(clock)]
              /\ UNCHANGED <<target, before, edit>>
  BY DEF Guard
<1>2. b \in ReviewBody
  BY ReviewsAssumption
<1>3. Key(b) \in Pairs
  BY <1>2 DEF Key, Pairs, ReviewBody
<1>4. /\ reviewPc[r] = "idle" /\ reviewReq'[r] = b
      /\ \A q \in ReviewRequests \ {r} : reviewReq'[q] = reviewReq[q]
  BY <1>1 DEF Take, ReviewTypes
<1>5. Key(reviewReq'[r]) = Key(b)
  BY <1>4
<1> DEFINE k == Key(b)
<1>6. CASE IsFull(Recent(k))
  <2>1. /\ Cardinality(Recent(k)) >= MaxRequests
        /\ promised' = [promised EXCEPT ![k] = IF @ = None THEN Ms(clock) + Window ELSE @]
        /\ UNCHANGED <<hits, admitted>>
    BY <1>1, <1>6 DEF IsFull
  <2> QED BY <1>3, <1>4, <1>5, <2>1
<1>7. CASE ~IsFull(Recent(k))
  <2>1. /\ ~(Cardinality(Recent(k)) >= MaxRequests)
        /\ reviewAnswer'[r] = reviewAnswer[r]
        /\ hits' = [hits EXCEPT ![k] = Recent(k) \cup {[by |-> r, at |-> Ms(clock)]}]
        /\ promised' = [promised EXCEPT ![k] = None]
        /\ admitted' = [admitted EXCEPT ![r] = Ms(clock)]
    BY <1>1, <1>7 DEF IsFull, MoveTo
  <2> QED BY <1>3, <1>4, <1>5, <2>1
<1> QED BY <1>6, <1>7

\* Nothing else touches what the guard keeps, but the clock and a restart.
LEMMA LimiterFrame ==
    ASSUME ReviewTypes, StageTells, [ReviewsNext]_reviewVars
    PROVE  \/ \E r \in ReviewRequests : Guard(r) /\ clock' = clock
           \/ Restart
           \/ /\ UNCHANGED <<hits, admitted, promised>>
              /\ clock' = clock \/ clock' = clock + 1
              /\ \A r \in ReviewRequests : admitted[r] # None => reviewReq'[r] = reviewReq[r]
<1>1. ASSUME NEW r \in ReviewRequests, Handle(r), ~Guard(r)
      PROVE  /\ UNCHANGED <<hits, admitted, promised>> /\ clock' = clock
             /\ \A q \in ReviewRequests : admitted[q] # None => reviewReq'[q] = reviewReq[q]
  <2>1. UNCHANGED <<hits, admitted, promised>>
    BY <1>1 DEF Handle, FindProduct, Begin, Insert, Walk, Page, Reply, FindReview, SelectReview,
          UpdateReview, Notify, recalled
  <2>2. \A q \in ReviewRequests : reviewPc[q] # "idle" => reviewReq'[q] = reviewReq[q]
    BY <1>1, ReviewHandlerFrame
  <2> QED BY <1>1, <2>1, <2>2, ReviewHandlerFrame DEF StageTells
<1>2. ASSUME NEW r \in ReviewRequests, Handle(r), Guard(r) PROVE clock' = clock
  BY <1>2, ReviewHandlerFrame
<1>3. Tick \/ UNCHANGED reviewVars \/ (\E p \in Products : RemoveProduct(p)) =>
          /\ UNCHANGED <<hits, admitted, promised, reviewReq>>
          /\ clock' = clock \/ clock' = clock + 1
  BY DEF Tick, RemoveProduct, reviewVars, handler, recalled
<1> QED BY <1>1, <1>2, <1>3 DEF ReviewsNext

LEMMA HitsRememberKept ==
    ASSUME TypesAndStages, HitsRemember, [ReviewsNext]_reviewVars
    PROVE  HitsRemember'
<1> USE DEF TypesAndStages
<1>0. clock \in Nat /\ Ms(clock) \in Nat /\ Window \in Nat \ {0}
  BY ClockIs, ReviewsAssumption
<1> DEFINE now == Ms(clock)
           now2 == Ms(clock')
           Recalled(r) == admitted[r] # None =>
              /\ admitted[r] <= Ms(clock)
              /\ Ms(clock) - admitted[r] < Window =>
                    [by |-> r, at |-> admitted[r]] \in hits[Key(reviewReq[r])]
           Held(k) == /\ IsFiniteSet(hits[k])
                      /\ promised[k] # None => \A hit \in hits[k] : hit.at + Window <= promised[k]
<1>1. (\A r \in ReviewRequests : Recalled(r)) /\ (\A k \in Pairs : Held(k))
  BY DEF HitsRemember
<1>2. \A r \in ReviewRequests : admitted[r] \in Nat \cup {None}
  BY DEF ReviewTypes
<1>3. \A k \in Pairs : \A hit \in hits[k] : hit.at \in Nat /\ hit.at <= now
  BY DEF ReviewTypes, InPast, Hit
<1>4. ASSUME NEW r \in ReviewRequests, Guard(r), clock' = clock PROVE HitsRemember'
  <2>1. PICK k \in Pairs :
              /\ reviewPc[r] = "idle" /\ Key(reviewReq'[r]) = k
              /\ \A q \in ReviewRequests \ {r} : reviewReq'[q] = reviewReq[q]
              /\ \/ /\ Cardinality(Recent(k)) >= MaxRequests
                    /\ promised' = [promised EXCEPT ![k] =
                                      IF @ = None THEN Ms(clock) + Window ELSE @]
                    /\ UNCHANGED <<hits, admitted>>
                 \/ /\ ~(Cardinality(Recent(k)) >= MaxRequests)
                    /\ reviewAnswer'[r] = reviewAnswer[r]
                    /\ hits' = [hits EXCEPT ![k] =
                                  Recent(k) \cup {[by |-> r, at |-> Ms(clock)]}]
                    /\ promised' = [promised EXCEPT ![k] = None]
                    /\ admitted' = [admitted EXCEPT ![r] = Ms(clock)]
    BY <1>4, GuardDoes DEF TypesAndStages
  <2>2. admitted[r] = None
    BY <2>1 DEF StageTells
  <2>3. \A q \in ReviewRequests : admitted[q] # None => Key(reviewReq[q]) = Key(reviewReq'[q])
    BY <2>1, <2>2
  <2>4. CASE UNCHANGED <<hits, admitted>>
              /\ promised' = [promised EXCEPT ![k] = IF @ = None THEN now + Window ELSE @]
    <3>1. \A q \in ReviewRequests : Recalled(q)'
      BY <1>1, <1>4, <2>3, <2>4
    <3>2. \A j \in Pairs : Held(j)'
      <4>1. \A j \in Pairs : j # k => promised'[j] = promised[j]
        BY <2>4 DEF ReviewTypes
      <4>2. promised'[k] = IF promised[k] = None THEN now + Window ELSE promised[k]
        BY <2>4 DEF ReviewTypes
      <4>3. \A hit \in hits[k] : hit.at + Window <= now + Window
        BY <1>0, <1>3
      <4> QED BY <1>1, <2>4, <4>1, <4>2, <4>3
    <3> QED BY <3>1, <3>2 DEF HitsRemember
  <2>5. CASE /\ hits' = [hits EXCEPT ![k] = Recent(k) \cup {[by |-> r, at |-> Ms(clock)]}]
             /\ promised' = [promised EXCEPT ![k] = None]
             /\ admitted' = [admitted EXCEPT ![r] = Ms(clock)]
    <3>1. /\ \A j \in Pairs : j # k => hits'[j] = hits[j] /\ promised'[j] = promised[j]
          /\ hits'[k] = Recent(k) \cup {[by |-> r, at |-> now]} /\ promised'[k] = None
          /\ \A q \in ReviewRequests \ {r} : admitted'[q] = admitted[q]
          /\ admitted'[r] = now
      BY <2>5 DEF ReviewTypes
    <3>2. Recalled(r)'
      BY <1>0, <1>4, <2>1, <3>1
    <3>3. ASSUME NEW q \in ReviewRequests \ {r} PROVE Recalled(q)'
      <4> SUFFICES ASSUME admitted[q] # None, now - admitted[q] < Window
                   PROVE  [by |-> q, at |-> admitted[q]] \in hits'[Key(reviewReq[q])]
        BY <1>1, <1>4, <2>1, <3>1
      <4>1. [by |-> q, at |-> admitted[q]] \in hits[Key(reviewReq[q])]
        BY <1>1
      <4>2. Key(reviewReq[q]) \in Pairs
        BY DEF ReviewTypes, ReviewBody, Key, Pairs
      <4>3. CASE Key(reviewReq[q]) = k
        <5>1. [by |-> q, at |-> admitted[q]] \in Recent(k)
          BY <4>1, <4>3 DEF Recent
        <5> QED BY <3>1, <4>3, <5>1
      <4> QED BY <3>1, <4>1, <4>2, <4>3
    <3>4. \A j \in Pairs : Held(j)'
      <4>1. IsFiniteSet(Recent(k) \cup {[by |-> r, at |-> now]})
        <5>1. IsFiniteSet(hits[k]) /\ Recent(k) \subseteq hits[k]
          BY <1>1 DEF Recent
        <5>2. IsFiniteSet(Recent(k))
          BY <5>1, FS_Subset
        <5> QED BY <5>2, FS_AddElement
      <4> QED BY <1>1, <3>1, <4>1
    <3> QED BY <3>2, <3>3, <3>4 DEF HitsRemember
  <2> QED BY <2>1, <2>4, <2>5
<1>5. CASE Restart
  <2>1. /\ \A k \in Pairs : hits'[k] = {} /\ promised'[k] = None
        /\ \A r \in ReviewRequests : admitted'[r] = None
    BY <1>5 DEF Restart
  <2> QED BY <2>1, FS_EmptySet DEF HitsRemember
<1>6. ASSUME UNCHANGED <<hits, admitted, promised>>, clock' = clock \/ clock' = clock + 1,
             \A r \in ReviewRequests : admitted[r] # None => reviewReq'[r] = reviewReq[r]
      PROVE  HitsRemember'
  <2>1. clock' \in Nat /\ clock <= clock'
    BY <1>0, <1>6
  <2>2. now2 \in Nat /\ now <= now2
    BY <1>0, <2>1, MsGrows
  <2> HIDE DEF now, now2
  <2>3. ASSUME NEW r \in ReviewRequests, admitted[r] # None
        PROVE  /\ admitted[r] <= now2
               /\ now2 - admitted[r] < Window =>
                     [by |-> r, at |-> admitted[r]] \in hits[Key(reviewReq[r])]
    <3>1. admitted[r] \in Nat /\ admitted[r] <= now
      BY <1>1, <1>2, <2>3 DEF now
    <3>2. now \in Nat
      BY <1>0 DEF now
    <3>3. now2 - admitted[r] < Window => now - admitted[r] < Window
      BY <1>0, <2>2, <3>1, <3>2
    <3> QED BY <1>1, <2>2, <2>3, <3>1, <3>2, <3>3 DEF now
  <2>4. \A r \in ReviewRequests : Recalled(r)'
    BY <1>6, <2>3 DEF now2
  <2>5. \A k \in Pairs : Held(k)'
    BY <1>1, <1>6
  <2> QED BY <2>4, <2>5 DEF HitsRemember
<1> QED BY <1>4, <1>5, <1>6, LimiterFrame

\* The creates of one user for one product let through from the one of request r on.
InWindow(r) ==
    {s \in ReviewRequests :
        /\ admitted[s] # None /\ Key(reviewReq[s]) = Key(reviewReq[r])
        /\ admitted[s] \in admitted[r]..(admitted[r] + Window - 1)}

\* Those before one that has just been let through are among the hits of the window.
LEMMA WindowFits ==
    ASSUME TypesAndStages, HitsRemember, NEW k \in Pairs, NEW W \in SUBSET ReviewRequests,
           \A s \in W : /\ admitted[s] # None /\ Key(reviewReq[s]) = k
                        /\ Ms(clock) - admitted[s] < Window,
           ~(Cardinality(Recent(k)) >= MaxRequests)
    PROVE  IsFiniteSet(W) /\ Cardinality(W) + 1 <= MaxRequests
<1> DEFINE f == [s \in W |-> [by |-> s, at |-> admitted[s]]]
           R == Recent(k)
<1>1. IsFiniteSet(W)
  BY FS_Subset, ReviewsAssumption
<1>2. IsFiniteSet(R)
  <2>1. IsFiniteSet(hits[k]) /\ R \subseteq hits[k]
    BY DEF HitsRemember, Recent
  <2> QED BY <2>1, FS_Subset
<1>3. \A s \in W : f[s] \in R
  <2> SUFFICES ASSUME NEW s \in W PROVE [by |-> s, at |-> admitted[s]] \in R
    OBVIOUS
  <2>1. [by |-> s, at |-> admitted[s]] \in hits[k]
    BY DEF HitsRemember
  <2> QED BY <2>1 DEF Recent
<1>4. f \in Injection(W, R)
  <2>1. f \in [W -> R]
    BY <1>3
  <2>2. \A s, t \in W : f[s] = f[t] => s = t
    OBVIOUS
  <2> HIDE DEF f, R
  <2>3. IsInjective(f)
    BY <2>1, <2>2 DEF IsInjective
  <2> QED BY <2>1, <2>3 DEF Injection
<1> HIDE DEF f, R
<1>5. Cardinality(W) <= Cardinality(R)
  BY <1>2, <1>4, FS_Injection
<1>6. Cardinality(W) \in Nat /\ Cardinality(R) \in Nat
  BY <1>1, <1>2, FS_CardinalityType
<1>7. MaxRequests \in Nat
  BY ReviewsAssumption
<1> QED BY <1>1, <1>5, <1>6, <1>7 DEF R

LEMMA RateBoundKept ==
    ASSUME TypesAndStages, HitsRemember, RateBound, [ReviewsNext]_reviewVars
    PROVE  RateBound'
<1> USE DEF TypesAndStages
<1>0. /\ clock \in Nat /\ Ms(clock) \in Nat /\ Window \in Nat \ {0} /\ MaxRequests \in Nat \ {0}
      /\ \A r \in ReviewRequests : admitted[r] \in Nat \cup {None}
  BY ClockIs, ReviewsAssumption DEF ReviewTypes
<1>1. \A r \in ReviewRequests : admitted[r] # None => Cardinality(InWindow(r)) <= MaxRequests
  BY DEF RateBound, InWindow
<1>2. SUFFICES \A r \in ReviewRequests :
                  admitted'[r] # None => Cardinality(InWindow(r)') <= MaxRequests
  BY DEF RateBound, InWindow
<1>3. ASSUME NEW r \in ReviewRequests, Guard(r), clock' = clock,
             NEW q \in ReviewRequests, admitted'[q] # None
      PROVE  Cardinality(InWindow(q)') <= MaxRequests
  <2>1. PICK k \in Pairs :
              /\ reviewPc[r] = "idle" /\ Key(reviewReq'[r]) = k
              /\ \A s \in ReviewRequests \ {r} : reviewReq'[s] = reviewReq[s]
              /\ \/ /\ Cardinality(Recent(k)) >= MaxRequests
                    /\ promised' = [promised EXCEPT ![k] =
                                      IF @ = None THEN Ms(clock) + Window ELSE @]
                    /\ UNCHANGED <<hits, admitted>>
                 \/ /\ ~(Cardinality(Recent(k)) >= MaxRequests)
                    /\ reviewAnswer'[r] = reviewAnswer[r]
                    /\ hits' = [hits EXCEPT ![k] =
                                  Recent(k) \cup {[by |-> r, at |-> Ms(clock)]}]
                    /\ promised' = [promised EXCEPT ![k] = None]
                    /\ admitted' = [admitted EXCEPT ![r] = Ms(clock)]
    BY <1>3, GuardDoes
  <2>2. admitted[r] = None
    BY <2>1 DEF StageTells
  <2>3. \A s \in ReviewRequests : admitted[s] # None => Key(reviewReq[s]) = Key(reviewReq'[s])
    BY <2>1, <2>2
  <2>4. CASE admitted' = admitted
    <3>1. InWindow(q)' = InWindow(q)
      BY <1>3, <2>3, <2>4 DEF InWindow
    <3> QED BY <1>1, <1>3, <2>4, <3>1
  <2>5. CASE ~(Cardinality(Recent(k)) >= MaxRequests)
             /\ admitted' = [admitted EXCEPT ![r] = Ms(clock)]
    <3>1. /\ admitted'[r] = Ms(clock) /\ Ms(clock) # None
          /\ \A s \in ReviewRequests \ {r} : admitted'[s] = admitted[s]
      BY <1>0, <2>5, ReviewsAssumption DEF ReviewTypes
    <3> DEFINE a == admitted'[q]
    <3>2. a \in Nat
      BY <1>0, <1>3, <3>1
    <3>3. \A s \in ReviewRequests :
              s \in InWindow(q)' <=> /\ admitted'[s] # None
                                     /\ Key(reviewReq'[s]) = Key(reviewReq'[q])
                                     /\ admitted'[s] \in a..(a + Window - 1)
      BY DEF InWindow
    <3> HIDE DEF a
    <3>4. CASE r \in InWindow(q)'
      <4>1. /\ Key(reviewReq'[q]) = k
            /\ Ms(clock) \in a..(a + Window - 1)
        BY <2>1, <3>1, <3>3, <3>4
      <4> DEFINE W == InWindow(q)' \ {r}
      <4>2. ASSUME NEW s \in W
            PROVE  /\ s \in ReviewRequests /\ admitted[s] # None /\ Key(reviewReq[s]) = k
                   /\ Ms(clock) - admitted[s] < Window
        <5>1. s \in ReviewRequests \ {r} /\ s \in InWindow(q)'
          BY DEF InWindow
        <5>2. /\ admitted[s] # None /\ Key(reviewReq[s]) = k
              /\ admitted[s] \in a..(a + Window - 1)
          BY <2>1, <3>1, <3>3, <4>1, <5>1
        <5>3. admitted[s] \in Nat
          BY <1>0, <5>1, <5>2
        <5>4. Ms(clock) - admitted[s] < Window
          BY <1>0, <3>2, <4>1, <5>2, <5>3
        <5> QED BY <5>1, <5>2, <5>4
      <4>3. W \subseteq ReviewRequests
        BY <4>2
      <4> HIDE DEF W
      <4>4. IsFiniteSet(W) /\ Cardinality(W) + 1 <= MaxRequests
        BY <2>5, <4>2, <4>3, WindowFits
      <4>5. InWindow(q)' = W \cup {r} /\ r \notin W
        BY <3>4 DEF W
      <4>6. Cardinality(W \cup {r}) = Cardinality(W) + 1
        BY <4>4, <4>5, FS_AddElement
      <4> QED BY <4>4, <4>5, <4>6
    <3>5. CASE r \notin InWindow(q)'
      <4>1. q # r
        <5>1. Ms(clock) \in Ms(clock)..(Ms(clock) + Window - 1)
          BY <1>0
        <5>2. q = r => a = Ms(clock)
          BY <3>1 DEF a
        <5> QED BY <3>1, <3>3, <3>5, <5>1, <5>2
      <4>2. r \notin InWindow(q)
        BY <2>2 DEF InWindow
      <4>3. a = admitted[q] /\ admitted[q] # None /\ reviewReq'[q] = reviewReq[q]
        BY <1>3, <2>1, <3>1, <4>1 DEF a
      <4>4. ASSUME NEW s \in ReviewRequests \ {r} PROVE s \in InWindow(q)' <=> s \in InWindow(q)
        BY <2>1, <3>1, <3>3, <4>3 DEF InWindow
      <4>5. InWindow(q)' = InWindow(q)
        <5>1. InWindow(q)' \subseteq ReviewRequests /\ InWindow(q) \subseteq ReviewRequests
          BY DEF InWindow
        <5> QED BY <3>5, <4>2, <4>4, <5>1
      <4> QED BY <1>1, <4>3, <4>5
    <3> QED BY <3>4, <3>5
  <2> QED BY <2>1, <2>4, <2>5
<1>4. CASE Restart
  BY <1>4 DEF Restart
<1>5. ASSUME admitted' = admitted, NEW q \in ReviewRequests, admitted'[q] # None,
             \A s \in ReviewRequests : admitted[s] # None => reviewReq'[s] = reviewReq[s]
      PROVE  Cardinality(InWindow(q)') <= MaxRequests
  <2>1. \A s \in ReviewRequests : admitted[s] # None => Key(reviewReq'[s]) = Key(reviewReq[s])
    BY <1>5
  <2>2. InWindow(q)' = InWindow(q)
    BY <1>5, <2>1 DEF InWindow
  <2> QED BY <1>1, <1>5, <2>2
<1> QED BY <1>3, <1>4, <1>5, LimiterFrame

\* A user told when to come back finds, when they do, nothing left in the window.
LEMMA PromiseHolds ==
    ASSUME TypesAndStages, HitsRemember, [ReviewsNext]_reviewVars,
           NEW r \in ReviewRequests, reviewAnswer'[r] = "tooMany", reviewAnswer[r] = "none",
           promised[Key(reviewReq'[r])] # None
    PROVE  Ms(clock) < promised[Key(reviewReq'[r])]
<1> USE DEF TypesAndStages
<1>1. Guard(r)
  <2>1. ASSUME NEW q \in ReviewRequests, Handle(q) PROVE q = r /\ Guard(r)
    <3>1. q = r
      BY <2>1, ReviewHandlerFrame
    <3> USE DEF MoveTo, AnswerWith
    <3>2. ~FindProduct(r) /\ ~Begin(r) /\ ~Insert(r)
      BY DEF FindProduct, Begin, Insert, ReviewTypes
    <3>3. ~Walk(r) /\ ~Reply(r)
      BY DEF Walk, Reply
    <3>4. ~Page(r)
      BY DEF Page, ReviewTypes
    <3>5. ~FindReview(r) /\ ~SelectReview(r)
      BY DEF FindReview, SelectReview, ReviewTypes
    <3>6. ~UpdateReview(r) /\ ~Notify(r)
      BY DEF UpdateReview, Notify, ReviewTypes
    <3> QED BY <2>1, <3>1, <3>2, <3>3, <3>4, <3>5, <3>6 DEF Handle
  <2> QED BY <2>1 DEF ReviewsNext, Tick, RemoveProduct, Restart, reviewVars, handler
<1>2. PICK k \in Pairs : Key(reviewReq'[r]) = k /\ Cardinality(Recent(k)) >= MaxRequests
  BY <1>1, GuardDoes
<1>3. /\ Ms(clock) \in Nat /\ Window \in Nat /\ MaxRequests \in Nat \ {0}
      /\ promised[k] \in Nat
  BY <1>2, ClockIs, ReviewsAssumption DEF ReviewTypes
<1>4. ASSUME ~(Ms(clock) < promised[k]) PROVE FALSE
  <2>1. ASSUME NEW hit \in hits[k] PROVE ~(Ms(clock) - hit.at < Window)
    <3>1. hit.at \in Nat /\ hit.at + Window <= promised[k]
      BY <1>2, <2>1 DEF HitsRemember, ReviewTypes, Hit
    <3> QED BY <1>3, <1>4, <3>1
  <2>2. Recent(k) = {}
    BY <2>1 DEF Recent
  <2>3. Cardinality(Recent(k)) = 0
    BY <2>2, FS_EmptySet
  <2> QED BY <1>2, <1>3, <2>3
<1> QED BY <1>2, <1>4

------------------------------------------------------------------------------
(***************************************************************************)
(* Walks.                                                                  *)
(***************************************************************************)
\* A request that was received keeps its body.
LEMMA RequestStays ==
    ASSUME ReviewTypes, [ReviewsNext]_reviewVars, NEW r \in ReviewRequests,
           reviewPc[r] # "idle"
    PROVE  reviewReq'[r] = reviewReq[r]
<1>1. ASSUME NEW q \in ReviewRequests, Handle(q) PROVE reviewReq'[r] = reviewReq[r]
  BY <1>1, ReviewHandlerFrame
<1> QED BY <1>1 DEF ReviewsNext, Tick, RemoveProduct, Restart, reviewVars, handler

\* A row that somebody has seen does not come back once it is gone.
LEMMA GoneForGood ==
    ASSUME TypesAndStages, [ReviewsNext]_reviewVars, NEW c \in ReviewRequests,
           reviewPc[c] = "done", reviews'[c] # None
    PROVE  ~Missing(c) /\ Stays(c) /\ reviewReq'[c] = reviewReq[c]
<1>1. ~Missing(c) /\ Stays(c)
  BY RowsOfSteps DEF TypesAndStages
<1>2. reviewReq'[c] = reviewReq[c]
  BY RequestStays DEF TypesAndStages
<1> QED BY <1>1, <1>2

\* A review alone in its millisecond was alone before.
LEMMA AsideStays ==
    ASSUME TypesAndStages, [ReviewsNext]_reviewVars, NEW c \in ReviewRequests, NEW p,
           reviewPc[c] = "done", reviewReq[c].product = p, Aside(c, p)'
    PROVE  Aside(c, p) /\ Stays(c)
<1>1. reviews'[c] # None
  BY DEF Aside, Missing
<1>2. ~Missing(c) /\ Stays(c) /\ reviewReq'[c] = reviewReq[c]
  BY <1>1, GoneForGood
<1>3. ASSUME NEW d \in ReviewRequests, d # c, ReviewOf(d, p) PROVE ~SameMs(c, d)
  <2>1. ~Missing(d) /\ reviewReq[d].product = p
    BY <1>3 DEF ReviewOf, Missing
  <2>2. reviewPc[d] = "done"
    BY <2>1 DEF TypesAndStages, StageTells, Missing
  <2>3. reviews'[d] # None
    BY <1>1, <2>1, RowsOfSteps DEF TypesAndStages
  <2>4. Stays(d) /\ reviewReq'[d] = reviewReq[d]
    BY <2>2, <2>3, GoneForGood
  <2>5. ReviewOf(d, p)'
    BY <2>1, <2>3, <2>4 DEF ReviewOf
  <2>6. ~SameMs(c, d)'
    BY <1>3, <2>5 DEF Aside
  <2> QED BY <1>2, <2>4, <2>6 DEF SameMs, Stays, Ms
<1> QED BY <1>2, <1>3 DEF Aside

\* What a sequence has once or never, a longer one has too if the rest has it not.
LEMMA OnceIn ==
    ASSUME NEW c, NEW s \in Seq(ReviewRequests), NEW t \in Seq(ReviewRequests)
    PROVE  /\ Never(c, s) /\ Never(c, t) => Never(c, s \o t)
           /\ Once(c, s) /\ Never(c, t) => Once(c, s \o t)
           /\ Never(c, s) /\ Once(c, t) => Once(c, s \o t)
<1> DEFINE m == Len(s)
           n == Len(t)
           u == s \o t
<1>1. /\ m \in Nat /\ n \in Nat
      /\ DOMAIN s = 1..m /\ DOMAIN t = 1..n /\ DOMAIN u = 1..(m + n)
      /\ \A i \in 1..m : u[i] = s[i]
      /\ \A i \in 1..n : u[m + i] = t[i]
  BY JoinIs
<1> HIDE DEF m, n, u
<1>2. ASSUME NEW i \in 1..(m + n), u[i] = c
      PROVE  \/ i \in 1..m /\ s[i] = c
             \/ i - m \in 1..n /\ t[i - m] = c
  <2>1. CASE i <= m
    <3>1. i \in 1..m
      BY <1>1, <2>1
    <3> QED BY <1>1, <1>2, <3>1
  <2>2. CASE ~(i <= m)
    <3> DEFINE j == i - m
    <3>1. j \in 1..n /\ m + j = i
      BY <1>1, <2>2
    <3> HIDE DEF j
    <3>2. t[j] = c
      BY <1>1, <1>2, <3>1
    <3> QED BY <3>1, <3>2 DEF j
  <2> QED BY <2>1, <2>2
<1>3. Never(c, s) /\ Never(c, t) => Never(c, u)
  BY <1>1, <1>2 DEF Never
<1>4. ASSUME Once(c, s), Never(c, t) PROVE Once(c, u)
  <2>1. PICK i \in 1..m : s[i] = c /\ \A j \in 1..m : s[j] = c => j = i
    BY <1>1, <1>4 DEF Once
  <2>2. i \in 1..(m + n) /\ u[i] = c
    BY <1>1, <2>1
  <2>3. \A j \in 1..(m + n) : u[j] = c => j = i
    BY <1>1, <1>2, <1>4, <2>1 DEF Never
  <2> QED BY <1>1, <2>2, <2>3 DEF Once
<1>5. ASSUME Never(c, s), Once(c, t) PROVE Once(c, u)
  <2>1. PICK i \in 1..n : t[i] = c /\ \A j \in 1..n : t[j] = c => j = i
    BY <1>1, <1>5 DEF Once
  <2> DEFINE k == m + i
  <2>2. k \in 1..(m + n) /\ u[k] = c
    BY <1>1, <2>1
  <2>3. \A j \in 1..(m + n) : u[j] = c => j = k
    <3> SUFFICES ASSUME NEW j \in 1..(m + n), u[j] = c PROVE j = k
      OBVIOUS
    <3>1. j - m \in 1..n /\ t[j - m] = c
      BY <1>1, <1>2, <1>5 DEF Never
    <3>2. j - m = i
      BY <2>1, <3>1
    <3> QED BY <1>1, <3>2
  <2> HIDE DEF k
  <2> QED BY <1>1, <2>2, <2>3 DEF Once
<1> QED BY <1>3, <1>4, <1>5 DEF u

\* What CursorTells says of one review of a walk.
Told(r, c) ==
    /\ reviewAnswer[r] = "ok" => Once(c, seen[r])
    /\ reviewPc[r] \in {"find", "page"} =>
          IF cursor[r] # None /\ Ms(reviews[c].at) <= cursor[r].ms
          THEN /\ Once(c, seen[r])
               /\ Ms(reviews[c].at) = cursor[r].ms => reviews[c].id <= cursor[r].id
          ELSE Never(c, seen[r])

\* A step that leaves a walk where it is leaves true what is told of its reviews.
LEMMA ToldStays ==
    ASSUME TypesAndStages, [ReviewsNext]_reviewVars,
           NEW r \in ReviewRequests, NEW c \in ReviewRequests, Told(r, c), Stays(c),
           seen'[r] = seen[r], cursor'[r] = cursor[r],
           reviewAnswer'[r] = "ok" => reviewAnswer[r] = "ok",
           reviewPc'[r] \in {"find", "page"} => reviewPc[r] \in {"find", "page"}
    PROVE  Told(r, c)'
<1>1. Ms(reviews[c].at)' = Ms(reviews[c].at) /\ reviews'[c].id = reviews[c].id
  BY DEF Stays, Ms
<1> QED BY <1>1 DEF Told, Once, Never

\* What comes with a row: its time and id are numbers.
LEMMA RowIs ==
    ASSUME ReviewTypes, NEW c \in ReviewRequests, ~Missing(c)
    PROVE  /\ reviews[c].at \in Nat /\ reviews[c].id \in Nat /\ Ms(reviews[c].at) \in Nat
           /\ \A d \in ReviewRequests : ~Missing(d) /\ Precedes(c, d) =>
                 /\ Ms(reviews[c].at) <= Ms(reviews[d].at)
                 /\ reviews[c].at = reviews[d].at => reviews[c].id < reviews[d].id
<1>1. \A d \in ReviewRequests : ~Missing(d) => reviews[d].at \in Nat /\ reviews[d].id \in Nat
  BY ReviewsAssumption DEF ReviewTypes, Missing, Review
<1>2. ASSUME NEW d \in ReviewRequests, ~Missing(d), Precedes(c, d)
      PROVE  reviews[c].at <= reviews[d].at
             /\ (reviews[c].at = reviews[d].at => reviews[c].id < reviews[d].id)
  BY <1>1, <1>2 DEF Precedes
<1>3. \A d \in ReviewRequests : ~Missing(d) /\ Precedes(c, d) =>
          Ms(reviews[c].at) <= Ms(reviews[d].at)
  BY <1>1, <1>2, MsGrows
<1> QED BY <1>1, <1>2, <1>3, MsGrows

\* The core of a walk: a page gives the reviews alone in their millisecond that come next,
\* and its cursor tells which.
LEMMA PageTells ==
    ASSUME TypesAndStages, CursorTells, NEW r \in ReviewRequests, Page(r),
           NEW c \in before[r], Aside(c, reviewReq[r].product)
    PROVE  Told(r, c)'
<1> USE DEF TypesAndStages
<1> DEFINE p == reviewReq[r].product
           cur == cursor[r]
           s == seen[r]
           ms(d) == Ms(reviews[d].at)
           chosen == Selected(p, cur)
<1>1. PICK given \in Seq(ReviewRequests) :
        LET last == given[Len(given)]
        IN  /\ reviewPc[r] = "page"
            /\ seen' = [seen EXCEPT ![r] = @ \o given]
            /\ \A i \in DOMAIN given : given[i] \in chosen
            /\ \A i, j \in DOMAIN given : i # j => given[i] # given[j]
            /\ \A i, j \in DOMAIN given : i < j => Precedes(given[i], given[j])
            /\ \/ /\ given # <<>>
                  /\ \A d \in chosen :
                        \/ \E i \in DOMAIN given : given[i] = d
                        \/ Precedes(last, d)
                  /\ cursor' = [cursor EXCEPT ![r] =
                                  [ms |-> Ms(reviews[last].at), id |-> reviews[last].id]]
                  /\ MoveTo(r, "find")
               \/ /\ \A d \in chosen : \E i \in DOMAIN given : given[i] = d
                  /\ AnswerWith(r, "ok")
                  /\ cursor' = [cursor EXCEPT ![r] = None]
            /\ UNCHANGED <<clock, restarts, rows, hits, reviewReq, stamp, target,
                           first, recalled>>
  BY PageGives
<1> DEFINE last == given[Len(given)]
<1>2. /\ c \in ReviewRequests /\ ~Missing(c) /\ reviewReq[c].product = p
      /\ ms(c) \in Nat /\ reviews[c].id \in Nat
  BY RowIs DEF Aside, CursorTells, ReviewTypes
<1>3. /\ s \in Seq(ReviewRequests) /\ seen'[r] = s \o given /\ reviews' = reviews
      /\ reviewAnswer[r] = "none"
      /\ cur # None => cur.ms \in Nat /\ cur.id \in Nat
  <2>1. cur \in Cursor \cup {None}
    BY DEF ReviewTypes
  <2>2. cur # None => cur.ms \in Nat /\ cur.id \in Nat
    BY <2>1, ReviewsAssumption DEF Cursor
  <2> QED BY <1>1, <2>2 DEF ReviewTypes, rows, StageTells
<1>4. IF cur # None /\ ms(c) <= cur.ms
      THEN Once(c, s) /\ (ms(c) = cur.ms => reviews[c].id <= cur.id)
      ELSE Never(c, s)
  BY <1>1 DEF CursorTells
<1>5. \A d \in ReviewRequests : d # c /\ ReviewOf(d, p) => ms(d) # ms(c)
  BY DEF Aside, SameMs
<1>6. ASSUME NEW d \in chosen
      PROVE  /\ d \in ReviewRequests /\ ~Missing(d) /\ ms(d) \in Nat /\ reviews[d].id \in Nat
             /\ ~ReviewOf(d, p) => cur # None /\ ms(d) = cur.ms
             /\ cur # None => \/ ms(d) > cur.ms
                              \/ ms(d) = cur.ms /\ reviews[d].id > cur.id
  <2>1. d \in ReviewRequests /\ ~Missing(d)
    BY DEF Selected, Missing
  <2>2. ms(d) \in Nat /\ reviews[d].id \in Nat
    BY <2>1, RowIs
  <2>3. /\ ~ReviewOf(d, p) => cur # None /\ ms(d) = cur.ms
        /\ cur # None => \/ ms(d) > cur.ms
                         \/ ms(d) = cur.ms /\ reviews[d].id > cur.id
    BY <2>1 DEF Selected, ReviewOf, Missing, IdPast
  <2> QED BY <2>1, <2>2, <2>3
<1> DEFINE n == Len(given)
<1>7. n \in Nat /\ DOMAIN given = 1..n
  BY LenProperties
<1>8. (given # <<>>) => n \in DOMAIN given
  BY <1>7, EmptySeq
<1> HIDE DEF s, cur, p, chosen, ms
\* The cursor of a page that is not the last.
<1>9. ASSUME given # <<>>
      PROVE  /\ last \in chosen /\ last \in ReviewRequests
             /\ (last # c /\ ms(last) = ms(c)) => cur # None /\ ms(c) = cur.ms
  <2>1. last \in chosen
    BY <1>1, <1>8, <1>9
  <2>2. (last # c /\ ms(last) = ms(c)) => cur # None /\ ms(c) = cur.ms
    BY <1>5, <1>6, <2>1
  <2> QED BY <1>6, <2>1, <2>2
<1>10. reviewPc'[r] \in {"find", "done"}
       /\ (reviewPc'[r] = "find" => reviewAnswer'[r] = "none")
  BY <1>1, <1>3 DEF MoveTo, AnswerWith, ReviewTypes
<1>11. reviewPc'[r] = "find" =>
           /\ given # <<>>
           /\ \A d \in chosen : (\E i \in DOMAIN given : given[i] = d) \/ Precedes(last, d)
           /\ cursor'[r] = [ms |-> Ms(reviews[last].at), id |-> reviews[last].id]
  BY <1>1 DEF MoveTo, AnswerWith, ReviewTypes
<1>12. reviewPc'[r] = "done" => \A d \in chosen : \E i \in DOMAIN given : given[i] = d
  BY <1>1 DEF MoveTo, AnswerWith, ReviewTypes
<1>13. reviewPc'[r] = "find" =>
           cursor'[r] # None /\ cursor'[r].ms = ms(last) /\ cursor'[r].id = reviews[last].id
  <2> SUFFICES ASSUME reviewPc'[r] = "find"
               PROVE  cursor'[r] # None /\ cursor'[r].ms = ms(last)
                      /\ cursor'[r].id = reviews[last].id
    OBVIOUS
  <2>1. last \in chosen
    BY <1>9, <1>11
  <2>2. cursor'[r] \in Cursor
    <3>1. reviews[last] \in Review
      BY <1>6, <2>1 DEF ReviewTypes, Missing
    <3>2. reviews[last].at \in Nat /\ reviews[last].id \in Ids
      BY <3>1 DEF Review
    <3>3. Ms(reviews[last].at) \in Nat
      BY <3>2, MsGrows
    <3> QED BY <1>11, <3>2, <3>3 DEF Cursor
  <2> QED BY <1>11, <2>2, ReviewsAssumption DEF ms
<1>14. CASE cur # None /\ ms(c) <= cur.ms
  <2>1. Once(c, s) /\ (ms(c) = cur.ms => reviews[c].id <= cur.id)
    BY <1>4, <1>14
  <2>2. c \notin chosen
    BY <1>2, <1>3, <1>6, <1>14, <2>1
  <2>3. Never(c, given)
    BY <1>1, <2>2 DEF Never
  <2>4. Once(c, s \o given)
    BY <1>3, <2>1, <2>3, OnceIn
  <2>5. reviewPc'[r] = "find" =>
            ms(c) <= ms(last) /\ (ms(c) = ms(last) => reviews[c].id <= reviews[last].id)
    BY <1>2, <1>3, <1>6, <1>9, <1>11, <1>14, <2>1
  <2>6. Once(c, seen'[r]) /\ ms(c) = Ms(reviews[c].at)
    BY <1>3, <2>4 DEF ms
  <2>7. Ms(reviews[c].at)' = ms(c) /\ reviews'[c].id = reviews[c].id
    BY <1>3 DEF ms, Ms
  <2> QED BY <1>10, <1>13, <2>5, <2>6, <2>7 DEF Told, Once
<1>15. CASE ~(cur # None /\ ms(c) <= cur.ms)
  <2>1. Never(c, s)
    BY <1>4, <1>15
  <2>2. c \in chosen
    BY <1>2, <1>3, <1>15 DEF Selected, chosen, Missing, ms
  <2>3. Ms(reviews[c].at)' = ms(c) /\ reviews'[c].id = reviews[c].id
    BY <1>3 DEF ms, Ms
  <2>4. (given # <<>> /\ last # c) => ms(last) # ms(c)
    <3>1. ~(cur # None /\ ms(c) = cur.ms)
      BY <1>2, <1>3, <1>15
    <3> QED BY <1>9, <3>1
  <2>5. CASE \E i \in DOMAIN given : given[i] = c
    <3>1. Once(c, given)
      BY <1>1, <2>5 DEF Once
    <3>2. Once(c, seen'[r])
      BY <1>3, <2>1, <3>1, OnceIn
    <3>3. ASSUME given # <<>>
          PROVE  ms(c) <= ms(last) /\ (ms(c) = ms(last) => reviews[c].id <= reviews[last].id)
      <4>1. PICK i \in 1..n : given[i] = c
        BY <1>7, <2>5
      <4>2. CASE i = n
        <5>1. last = c
          BY <4>1, <4>2
        <5> QED BY <1>2, <5>1
      <4>3. CASE i # n
        <5>1. i < n /\ n \in DOMAIN given
          <6>1. n \in DOMAIN given
            BY <1>8, <3>3
          <6> HIDE DEF n, last
          <6>2. i < n
            BY <1>7, <4>1, <4>3
          <6> QED BY <6>1, <6>2
        <5>2. Precedes(c, last) /\ last # c
          BY <1>1, <1>7, <4>1, <5>1
        <5>3. ms(c) <= ms(last)
          BY <1>2, <1>6, <1>9, <3>3, <5>2, RowIs DEF ms
        <5> QED BY <2>4, <3>3, <5>2, <5>3
      <4> QED BY <4>2, <4>3
    <3> QED BY <1>10, <1>11, <1>13, <2>3, <3>2, <3>3 DEF Told, Once
  <2>6. CASE ~\E i \in DOMAIN given : given[i] = c
    <3>1. Never(c, given)
      BY <2>6 DEF Never
    <3>2. Never(c, seen'[r])
      BY <1>3, <2>1, <3>1, OnceIn
    <3>3. reviewPc'[r] = "find" /\ Precedes(last, c) /\ given # <<>>
      BY <1>10, <1>11, <1>12, <2>2, <2>6
    <3>4. last \in chosen /\ last \in ReviewRequests
      BY <1>9, <3>3
    <3>5. last # c
      BY <1>1, <1>8, <2>6, <3>3
    <3>6. ms(last) <= ms(c) /\ ms(last) \in Nat
      BY <1>2, <1>6, <3>3, <3>4, RowIs DEF ms
    <3>7. ~(ms(c) <= ms(last))
      BY <1>2, <2>4, <3>3, <3>5, <3>6
    <3> QED BY <1>10, <1>13, <2>3, <3>2, <3>3, <3>7 DEF Told, Never
  <2> QED BY <2>5, <2>6
<1> QED BY <1>14, <1>15

\* A step that is not the request's own leaves its walk alone.
LEMMA WalkStays ==
    ASSUME TypesAndStages, [ReviewsNext]_reviewVars, NEW r \in ReviewRequests,
           ~(Walk(r) \/ Page(r)), before'[r] # {}
    PROVE  /\ before'[r] = before[r] /\ seen'[r] = seen[r] /\ cursor'[r] = cursor[r]
           /\ reviewReq'[r] = reviewReq[r]
           /\ reviewAnswer'[r] = "ok" /\ Asks(r, "walk") => reviewAnswer[r] = "ok"
           /\ reviewPc'[r] \in {"find", "page"} => reviewPc[r] \in {"find", "page"}
<1> USE DEF TypesAndStages, ReviewTypes
<1>1. ASSUME NEW q \in ReviewRequests \ {r}, Handle(q)
      PROVE  /\ before'[r] = before[r] /\ seen'[r] = seen[r] /\ cursor'[r] = cursor[r]
             /\ reviewReq'[r] = reviewReq[r] /\ reviewAnswer'[r] = reviewAnswer[r]
             /\ reviewPc'[r] = reviewPc[r]
  BY <1>1, ReviewHandlerFrame
<1>2. ASSUME Handle(r)
      PROVE  /\ before'[r] = before[r] /\ seen'[r] = seen[r] /\ cursor'[r] = cursor[r]
             /\ reviewReq'[r] = reviewReq[r]
             /\ reviewAnswer'[r] = "ok" /\ Asks(r, "walk") => reviewAnswer[r] = "ok"
             /\ reviewPc'[r] \in {"find", "page"} => reviewPc[r] \in {"find", "page"}
  <2> USE DEF MoveTo, AnswerWith, recalled
  <2>1. ~Guard(r)
    BY <1>2 DEF Guard, Take, StageTells
  <2>2. ~Reply(r)
    BY <1>2 DEF Reply, Take, StageTells
  <2>3. CASE FindProduct(r)
    BY <2>3 DEF FindProduct
  <2>4. CASE Begin(r)
    BY <2>4 DEF Begin
  <2>5. CASE Insert(r)
    BY <2>5 DEF Insert, StageTells, Asks
  <2>6. CASE FindReview(r)
    BY <2>6 DEF FindReview
  <2>7. CASE SelectReview(r)
    BY <2>7 DEF SelectReview
  <2>8. CASE UpdateReview(r)
    BY <2>8 DEF UpdateReview, StageTells, Asks
  <2>9. CASE Notify(r)
    BY <2>9 DEF Notify, StageTells, Asks
  <2> QED BY <1>2, <2>1, <2>2, <2>3, <2>4, <2>5, <2>6, <2>7, <2>8, <2>9 DEF Handle
<1>3. CASE Restart
  BY <1>3 DEF Restart
<1>4. CASE Tick \/ UNCHANGED reviewVars \/ \E p \in Products : RemoveProduct(p)
  BY <1>4 DEF Tick, RemoveProduct, reviewVars, handler, recalled
<1> QED BY <1>1, <1>2, <1>3, <1>4 DEF ReviewsNext

\* What a walk starts with.
LEMMA WalkStarts ==
    ASSUME TypesAndStages, NEW r \in ReviewRequests, Walk(r)
    PROVE  /\ Asks(r, "walk")' /\ seen'[r] = <<>> /\ cursor'[r] = None
           /\ reviewAnswer'[r] = "none" /\ reviews' = reviews
           /\ before'[r] = {c \in ReviewRequests : ReviewOf(c, reviewReq'[r].product)}
           /\ \A q \in ReviewRequests \ {r} : reviewReq'[q] = reviewReq[q]
           /\ reviews[r] = None
<1>1. PICK b \in ReviewBodies :
          /\ b.op = "walk" /\ Take(r, b) /\ MoveTo(r, "find")
          /\ before' = [before EXCEPT ![r] = {c \in ReviewRequests : ReviewOf(c, b.product)}]
  BY DEF Walk
<1>2. /\ reviewReq'[r] = b
      /\ \A q \in ReviewRequests \ {r} : reviewReq'[q] = reviewReq[q]
      /\ before'[r] = {c \in ReviewRequests : ReviewOf(c, b.product)}
  BY <1>1 DEF Take, TypesAndStages, ReviewTypes
<1>3. /\ seen'[r] = <<>> /\ cursor'[r] = None /\ reviewAnswer'[r] = "none"
      /\ reviews' = reviews /\ reviews[r] = None
  BY <1>1 DEF Take, MoveTo, rows, TypesAndStages, StageTells
<1> QED BY <1>1, <1>2, <1>3 DEF Asks

LEMMA CursorTellsKept ==
    ASSUME TypesAndStages, CursorTells, [ReviewsNext]_reviewVars
    PROVE  CursorTells'
<1> DEFINE Claim(r, c) ==
        /\ Asks(r, "walk") /\ reviewReq[c].product = reviewReq[r].product
        /\ Aside(c, reviewReq[r].product) => Told(r, c)
<1>0. TypesAndStages'
  BY ReviewTypesKept, InPastKept, StageTellsKept, OnlyWrittenKept DEF TypesAndStages
<1>1. \A r \in ReviewRequests : \A c \in before[r] : Claim(r, c)
  BY DEF CursorTells, Told
<1>2. ASSUME NEW r \in ReviewRequests, NEW c \in before'[r] PROVE Claim(r, c)'
  <2>0. c \in ReviewRequests
    BY <1>0 DEF TypesAndStages, ReviewTypes
  <2>1. CASE Walk(r)
    <3>1. /\ Asks(r, "walk")' /\ seen'[r] = <<>> /\ cursor'[r] = None
          /\ reviewAnswer'[r] = "none"
          /\ ReviewOf(c, reviewReq'[r].product) /\ c # r
          /\ reviewReq'[c] = reviewReq[c]
      BY <2>0, <2>1, WalkStarts DEF ReviewOf
    <3>2. reviewReq'[c].product = reviewReq'[r].product
      BY <3>1 DEF ReviewOf
    <3>3. Told(r, c)'
      BY <3>1 DEF Told, Never
    <3> QED BY <3>1, <3>2, <3>3
  <2>2. CASE ~Walk(r)
    <3>1. before'[r] = before[r] /\ reviewReq'[r] = reviewReq[r]
      <4>1. CASE Page(r)
        BY <4>1 DEF Page, recalled
      <4> QED BY <1>2, <2>2, <4>1, WalkStays
    <3>2. c \in before[r] /\ Claim(r, c) /\ reviewPc[c] = "done"
      BY <1>1, <2>0, <3>1 DEF TypesAndStages, OnlyWritten
    <3>3. reviewReq'[c] = reviewReq[c]
      BY <2>0, <3>2, RequestStays DEF TypesAndStages
    <3>4. PICK p : p = reviewReq[r].product
      OBVIOUS
    <3>5. Aside(c, reviewReq[r].product)' => Aside(c, p)'
      BY <3>1, <3>4 DEF Aside, ReviewOf
    <3>6. ASSUME Aside(c, p)' PROVE Told(r, c)'
      <4>1. Aside(c, p) /\ Stays(c)
        BY <2>0, <3>2, <3>4, <3>6, AsideStays
      <4>2. Aside(c, reviewReq[r].product) /\ Told(r, c)
        BY <3>2, <3>4, <4>1
      <4>3. CASE Page(r)
        BY <3>2, <4>2, <4>3, PageTells
      <4>4. CASE ~Page(r)
        <5>1. /\ seen'[r] = seen[r] /\ cursor'[r] = cursor[r]
              /\ reviewAnswer'[r] = "ok" => reviewAnswer[r] = "ok"
              /\ reviewPc'[r] \in {"find", "page"} => reviewPc[r] \in {"find", "page"}
          BY <1>2, <2>2, <3>2, <4>4, WalkStays
        <5> QED BY <2>0, <4>1, <4>2, <5>1, ToldStays
      <4> QED BY <4>3, <4>4
    <3>7. Asks(r, "walk")' /\ reviewReq'[c].product = reviewReq'[r].product
      BY <3>1, <3>2, <3>3 DEF Asks
    <3> QED BY <3>5, <3>6, <3>7
  <2> QED BY <2>1, <2>2
<1>3. \A r \in ReviewRequests : \A c \in before'[r] : Claim(r, c)'
  BY <1>2
<1> QED BY <1>3 DEF CursorTells, Told

\* A page of a walk goes on where the last one ended, or strays into the last one's
\* millisecond.
LEMMA PageIsTraced ==
    ASSUME TypesAndStages, CursorIsLast, NEW r \in ReviewRequests, Page(r)
    PROVE  /\ cursor'[r] # None =>
                 LET c == seen'[r][Len(seen'[r])] IN
                 /\ seen'[r] # <<>>
                 /\ reviews[c] = None \/ Ms(reviews[c].at) = cursor'[r].ms
           /\ (\A i \in DOMAIN seen'[r] : reviews[seen'[r][i]] # None) =>
                 \A i \in DOMAIN seen'[r] :
                    \/ reviewReq[seen'[r][i]].product = reviewReq[r].product
                    \/ \E j \in 1..(i-1) : SameMs(seen'[r][i], seen'[r][j])
           /\ reviews' = reviews /\ reviewReq' = reviewReq
           /\ reviewPc'[r] = "find" /\ cursor[r] # None =>
                 \/ cursor[r].ms < cursor'[r].ms
                 \/ cursor[r].ms = cursor'[r].ms /\ cursor[r].id < cursor'[r].id
<1> USE DEF TypesAndStages
<1> DEFINE p == reviewReq[r].product
           cur == cursor[r]
           s == seen[r]
           chosen == Selected(p, cur)
<1>1. PICK given \in Seq(ReviewRequests) :
        LET last == given[Len(given)]
        IN  /\ reviewPc[r] = "page"
            /\ seen' = [seen EXCEPT ![r] = @ \o given]
            /\ \A i \in DOMAIN given : given[i] \in chosen
            /\ \A i, j \in DOMAIN given : i # j => given[i] # given[j]
            /\ \A i, j \in DOMAIN given : i < j => Precedes(given[i], given[j])
            /\ \/ /\ given # <<>>
                  /\ \A d \in chosen :
                        \/ \E i \in DOMAIN given : given[i] = d
                        \/ Precedes(last, d)
                  /\ cursor' = [cursor EXCEPT ![r] =
                                  [ms |-> Ms(reviews[last].at), id |-> reviews[last].id]]
                  /\ MoveTo(r, "find")
               \/ /\ \A d \in chosen : \E i \in DOMAIN given : given[i] = d
                  /\ AnswerWith(r, "ok")
                  /\ cursor' = [cursor EXCEPT ![r] = None]
            /\ UNCHANGED <<clock, restarts, rows, hits, reviewReq, stamp, target,
                           first, recalled>>
  BY PageGives
<1> DEFINE m == Len(s)
           n == Len(given)
           u == s \o given
           last == given[n]
<1>2. /\ s \in Seq(ReviewRequests) /\ seen'[r] = u /\ reviews' = reviews
      /\ reviewReq' = reviewReq
  BY <1>1 DEF ReviewTypes, rows
<1>3. /\ u \in Seq(ReviewRequests) /\ m \in Nat /\ n \in Nat /\ Len(u) = m + n
      /\ DOMAIN s = 1..m /\ DOMAIN given = 1..n /\ DOMAIN u = 1..(m + n)
      /\ \A i \in 1..m : u[i] = s[i]
      /\ \A i \in 1..n : u[m + i] = given[i]
  BY <1>2, JoinIs
<1>4. \/ /\ given # <<>> /\ reviewPc'[r] = "find"
         /\ cursor'[r] = [ms |-> Ms(reviews[last].at), id |-> reviews[last].id]
      \/ cursor'[r] = None /\ reviewPc'[r] = "done"
  BY <1>1 DEF MoveTo, AnswerWith, ReviewTypes
<1>5. (given # <<>>) => n \in 1..n
  BY <1>3, EmptySeq
<1>6. \A i \in 1..n : given[i] \in chosen
  BY <1>1, <1>3
<1>7. \A d \in chosen :
          /\ d \in ReviewRequests /\ reviews[d] # None
          /\ \/ reviewReq[d].product = p
             \/ cur # None /\ Ms(reviews[d].at) = cur.ms
          /\ cur # None => \/ Ms(reviews[d].at) > cur.ms
                           \/ Ms(reviews[d].at) = cur.ms /\ reviews[d].id > cur.id
  BY DEF Selected, IdPast
<1>8. /\ cur # None => s # <<>> /\ (reviews[s[m]] = None \/ Ms(reviews[s[m]].at) = cur.ms)
      /\ (\A i \in 1..m : reviews[s[i]] # None) =>
            \A i \in 1..m : \/ reviewReq[s[i]].product = p
                            \/ \E j \in 1..(i-1) : SameMs(s[i], s[j])
  <2>1. cur # None => s # <<>> /\ (reviews[s[m]] = None \/ Ms(reviews[s[m]].at) = cur.ms)
    BY DEF CursorIsLast, Missing
  <2>2. (\A i \in DOMAIN s : reviews[s[i]] # None) =>
            \A i \in DOMAIN s : \/ reviewReq[s[i]].product = p
                                \/ \E j \in 1..(i-1) : SameMs(s[i], s[j])
    BY DEF CursorIsLast, Traced, Missing
  <2>3. DOMAIN s = 1..m
    BY <1>3
  <2> HIDE DEF s, cur, p, m
  <2> QED BY <2>1, <2>2, <2>3
<1>9. (s # <<>>) => m \in 1..m
  BY <1>2, <1>3, EmptySeq
<1>10. cur # None => cur.ms \in Nat /\ cur.id \in Nat
  <2>1. cur \in Cursor \cup {None}
    BY DEF ReviewTypes
  <2> QED BY <2>1, ReviewsAssumption DEF Cursor
<1> HIDE DEF u, s, m, n, cur, p, chosen, last
<1>11. ASSUME given # <<>>, reviewPc'[r] = "find"
       PROVE  /\ seen'[r] # <<>> /\ seen'[r][Len(seen'[r])] = last /\ last \in chosen
              /\ cursor'[r].ms = Ms(reviews[last].at) /\ cursor'[r].id = reviews[last].id
  <2>1. m + n # 0 /\ u[m + n] = given[n] /\ given[n] = last
    BY <1>3, <1>5, <1>11 DEF last
  <2>2. u # <<>>
    <3>1. Len(<<>>) = 0
      BY EmptySeq
    <3> QED BY <1>3, <2>1, <3>1
  <2> QED BY <1>2, <1>3, <1>4, <1>5, <1>6, <1>11, <2>1, <2>2
<1>12. cursor'[r] # None =>
           LET c == seen'[r][Len(seen'[r])] IN
           /\ seen'[r] # <<>>
           /\ reviews[c] = None \/ Ms(reviews[c].at) = cursor'[r].ms
  BY <1>4, <1>11
<1>13. ASSUME \A i \in 1..(m + n) : reviews[u[i]] # None, NEW i \in 1..(m + n)
       PROVE  \/ reviewReq[u[i]].product = p
              \/ \E j \in 1..(i-1) : SameMs(u[i], u[j])
  <2>1. \A j \in 1..m : reviews[s[j]] # None
    <3>1. \A j \in 1..m : j \in 1..(m + n)
      BY <1>3
    <3> QED BY <1>3, <1>13, <3>1
  <2>2. CASE i <= m
    <3>1. i \in 1..m /\ \A j \in 1..(i-1) : j \in 1..m
      BY <1>3, <2>2
    <3> QED BY <1>3, <1>8, <2>1, <3>1
  <2>3. CASE ~(i <= m)
    <3> DEFINE k == i - m
    <3>1. k \in 1..n /\ m + k = i /\ (m \in 1..m => m \in 1..(i-1))
      BY <1>3, <2>3
    <3> HIDE DEF k
    <3>2. u[i] = given[k] /\ u[i] \in chosen
      BY <1>3, <1>6, <3>1
    <3>3. CASE cur # None /\ Ms(reviews[u[i]].at) = cur.ms
      <4>1. m \in 1..m /\ u[m] = s[m] /\ Ms(reviews[s[m]].at) = cur.ms
        BY <1>3, <1>8, <1>9, <2>1, <3>3
      <4> QED BY <3>1, <3>3, <4>1 DEF SameMs
    <3> QED BY <1>7, <3>2, <3>3
  <2> QED BY <2>2, <2>3
<1>14. ASSUME reviewPc'[r] = "find", cur # None
       PROVE  \/ cur.ms < cursor'[r].ms
              \/ cur.ms = cursor'[r].ms /\ cur.id < cursor'[r].id
  <2>1. given # <<>>
    BY <1>4, <1>14
  <2>2. /\ last \in chosen
        /\ cursor'[r].ms = Ms(reviews[last].at) /\ cursor'[r].id = reviews[last].id
    BY <1>11, <1>14, <2>1
  <2>3. /\ last \in ReviewRequests /\ ~Missing(last)
        /\ \/ Ms(reviews[last].at) > cur.ms
           \/ Ms(reviews[last].at) = cur.ms /\ reviews[last].id > cur.id
    BY <1>7, <1>14, <2>2 DEF Missing
  <2>4. Ms(reviews[last].at) \in Nat /\ reviews[last].id \in Nat
    BY <2>3, RowIs
  <2> QED BY <1>10, <1>14, <2>2, <2>3, <2>4
<1> QED BY <1>2, <1>3, <1>12, <1>13, <1>14 DEF cur, p

LEMMA CursorIsLastKept ==
    ASSUME TypesAndStages, CursorIsLast, [ReviewsNext]_reviewVars
    PROVE  CursorIsLast'
<1> USE DEF TypesAndStages
<1> DEFINE OnLast(r) ==
              cursor[r] # None =>
                 LET c == seen[r][Len(seen[r])] IN
                 /\ seen[r] # <<>>
                 /\ reviews[c] = None \/ Ms(reviews[c].at) = cursor[r].ms
           InTrace(r) ==
              (\A i \in DOMAIN seen[r] : reviews[seen[r][i]] # None) =>
                 \A i \in DOMAIN seen[r] :
                    \/ reviewReq[seen[r][i]].product = reviewReq[r].product
                    \/ \E j \in 1..(i-1) : SameMs(seen[r][i], seen[r][j])
<1>1. \A r \in ReviewRequests : OnLast(r) /\ InTrace(r)
  BY DEF CursorIsLast, Traced, Missing
<1>2. ASSUME NEW r \in ReviewRequests, seen'[r] = seen[r], cursor'[r] = cursor[r]
      PROVE  OnLast(r)' /\ InTrace(r)'
  <2> DEFINE s == seen[r]
             m == Len(s)
  <2>1. s \in Seq(ReviewRequests) /\ m \in Nat /\ DOMAIN s = 1..m
    BY LenProperties DEF ReviewTypes
  <2>2. \A i \in 1..m : s[i] \in ReviewRequests /\ reviewPc[s[i]] = "done"
    BY <2>1, ElementOfSeq DEF OnlyWritten
  <2>3. (s # <<>>) => m \in 1..m
    BY <2>1, EmptySeq
  <2>4. \A i \in 1..m : reviews'[s[i]] # None =>
            reviews[s[i]] # None /\ Stays(s[i]) /\ reviewReq'[s[i]] = reviewReq[s[i]]
    BY <2>2, GoneForGood DEF Missing
  <2>5. (s # <<>>) => reviewReq'[r] = reviewReq[r]
    <3>1. reviewPc[r] = "idle" => s = <<>>
      BY DEF StageTells
    <3> QED BY <3>1, RequestStays
  <2>6. cursor[r] # None => s # <<>> /\ (reviews[s[m]] = None \/ Ms(reviews[s[m]].at) = cursor[r].ms)
    BY <1>1
  <2>7. (\A i \in 1..m : reviews[s[i]] # None) =>
            \A i \in 1..m : \/ reviewReq[s[i]].product = reviewReq[r].product
                            \/ \E j \in 1..(i-1) : SameMs(s[i], s[j])
    <3>1. InTrace(r)
      BY <1>1
    <3> QED BY <2>1, <3>1
  <2> HIDE DEF s, m
  <2>8. \A i \in 1..m : \A j \in 1..(i-1) : j \in 1..m
    BY <2>1
  <2>9. \A i \in 1..m : s # <<>>
    BY <2>1, EmptySeq DEF m
  <2>10. cursor[r] # None =>
             s # <<>> /\ (reviews'[s[m]] = None \/ Ms(reviews'[s[m]].at) = cursor[r].ms)
    BY <2>3, <2>4, <2>6 DEF Stays
  <2>11. (\A i \in 1..m : reviews'[s[i]] # None) =>
            \A i \in 1..m : \/ reviewReq'[s[i]].product = reviewReq'[r].product
                            \/ \E j \in 1..(i-1) : Ms(reviews'[s[i]].at) = Ms(reviews'[s[j]].at)
    <3> SUFFICES ASSUME \A i \in 1..m : reviews'[s[i]] # None, NEW i \in 1..m
                 PROVE  \/ reviewReq'[s[i]].product = reviewReq'[r].product
                        \/ \E j \in 1..(i-1) : Ms(reviews'[s[i]].at) = Ms(reviews'[s[j]].at)
      OBVIOUS
    <3>1. \A j \in 1..m : reviews[s[j]] # None /\ reviews'[s[j]].at = reviews[s[j]].at
      BY <2>4 DEF Stays
    <3>2. CASE reviewReq[s[i]].product = reviewReq[r].product
      BY <2>4, <2>5, <2>9, <3>2
    <3>3. CASE \E j \in 1..(i-1) : SameMs(s[i], s[j])
      BY <2>8, <3>1, <3>3 DEF SameMs
    <3> QED BY <2>7, <3>1, <3>2, <3>3
  <2>12. OnLast(r)'
    <3>1. (cursor[r] # None =>
             s # <<>> /\ (reviews'[s[m]] = None \/ Ms(reviews'[s[m]].at) = cursor[r].ms)) => OnLast(r)'
      BY <1>2 DEF s, m, Ms
    <3> QED BY <2>10, <3>1
  <2>13. InTrace(r)'
    <3>1. DOMAIN seen'[r] = 1..m /\ seen'[r] = s
      BY <1>2, <2>1 DEF s
    <3> QED BY <2>11, <3>1 DEF SameMs, Ms
  <2> QED BY <2>12, <2>13
<1>3. ASSUME NEW r \in ReviewRequests, Page(r) PROVE OnLast(r)' /\ InTrace(r)'
  <2>1. /\ cursor'[r] # None =>
                 LET c == seen'[r][Len(seen'[r])] IN
                 /\ seen'[r] # <<>>
                 /\ reviews[c] = None \/ Ms(reviews[c].at) = cursor'[r].ms
        /\ (\A i \in DOMAIN seen'[r] : reviews[seen'[r][i]] # None) =>
                 \A i \in DOMAIN seen'[r] :
                    \/ reviewReq[seen'[r][i]].product = reviewReq[r].product
                    \/ \E j \in 1..(i-1) : SameMs(seen'[r][i], seen'[r][j])
        /\ reviews' = reviews /\ reviewReq' = reviewReq
    BY <1>3, PageIsTraced
  <2>2. OnLast(r)'
    BY <2>1 DEF Ms
  <2>3. InTrace(r)'
    BY <2>1 DEF SameMs, Ms
  <2> QED BY <2>2, <2>3
<1>4. ASSUME NEW r \in ReviewRequests, ~Page(r)
      PROVE  seen'[r] = seen[r] /\ cursor'[r] = cursor[r]
  <2>1. ASSUME NEW q \in ReviewRequests, Handle(q) PROVE seen'[r] = seen[r] /\ cursor'[r] = cursor[r]
    <3>1. CASE q = r
      BY <1>4, <2>1, <3>1 DEF Handle, Guard, FindProduct, Begin, Insert, Walk, Reply, FindReview,
            SelectReview, UpdateReview, Notify, Take
    <3> QED BY <2>1, <3>1, ReviewHandlerFrame
  <2> QED BY <2>1 DEF ReviewsNext, Tick, RemoveProduct, Restart, reviewVars, handler
<1>5. \A r \in ReviewRequests : OnLast(r)' /\ InTrace(r)'
  BY <1>2, <1>3, <1>4
<1>6. \A r \in ReviewRequests : OnLast(r)'
  BY <1>5
<1>7. \A r \in ReviewRequests : InTrace(r)'
  BY <1>5
<1> QED BY <1>6, <1>7 DEF CursorIsLast, Traced, Missing

------------------------------------------------------------------------------
(***************************************************************************)
(* The theorems about Reviews.                                             *)
(***************************************************************************)
LEMMA ReviewsInvariance == ReviewsSpec => []ReviewsInv
<1>1. ReviewsInv /\ [ReviewsNext]_reviewVars => ReviewsInv'
  <2> SUFFICES ASSUME ReviewsInv, [ReviewsNext]_reviewVars PROVE ReviewsInv'
    OBVIOUS
  <2> USE DEF ReviewsInv
  <2>1. TypesAndStages'
    BY ReviewTypesKept, InPastKept, StageTellsKept, OnlyWrittenKept DEF TypesAndStages
  <2>2. RepliesAreTold' /\ HitsRemember' /\ RateBound'
    BY RepliesKept, HitsRememberKept, RateBoundKept
  <2>3. CursorTells' /\ CursorIsLast'
    BY CursorTellsKept, CursorIsLastKept
  <2> QED BY <2>1, <2>2, <2>3
<1> QED BY <1>1, ReviewsInitInv, PTL DEF ReviewsSpec

\* Every variable of Reviews keeps its type, and nothing is dated in the future.
THEOREM ReviewsTypeCorrect == ReviewsSpec => []ReviewsTypeOK
<1>1. ReviewsInv => ReviewsTypeOK
  <2> SUFFICES ASSUME ReviewsInv PROVE ReviewsTypeOK
    OBVIOUS
  <2> USE DEF ReviewsInv, TypesAndStages, ReviewTypes
  <2>1. \A r \in ReviewRequests :
            reviews[r] # None => reviews[r] \in Review /\ reviews[r].at <= clock
    BY DEF InPast
  <2>2. \A k \in Pairs : hits[k] \subseteq [by : ReviewRequests, at : 0..Ms(clock)]
    <3> SUFFICES ASSUME NEW k \in Pairs, NEW hit \in hits[k]
                 PROVE  hit \in [by : ReviewRequests, at : 0..Ms(clock)]
      OBVIOUS
    <3>1. hit \in Hit /\ hit.at <= Ms(clock) /\ Ms(clock) \in Nat
      BY ClockIs DEF InPast
    <3>2. hit.at \in 0..Ms(clock)
      BY <3>1 DEF Hit
    <3> QED BY <3>1, <3>2 DEF Hit
  <2>3. \A r \in ReviewRequests : cursor[r] \in Cursor \cup {None}
    OBVIOUS
  <2> QED BY <2>1, <2>2, <2>3 DEF ReviewsTypeOK, ReviewStages, ReviewAnswers
<1> QED BY <1>1, ReviewsInvariance, PTL

\* FirstReplyIsTold: a stored reply was told, is about to be, or a crash cut it off; and
\* nobody is told by a reply that was received when one was stored already.
THEOREM FirstReplyTold == ReviewsSpec => []FirstReplyIsTold
<1>1. ReviewsInv => FirstReplyIsTold
  <2> SUFFICES ASSUME ReviewsInv PROVE FirstReplyIsTold
    OBVIOUS
  <2> USE DEF ReviewsInv, RepliesAreTold
  <2>1. AuthorIsTold
    BY DEF AuthorIsTold, IsKnown, Missing
  <2>2. ASSUME NEW c \in ReviewRequests
        PROVE  repliesTold[c] <= Cardinality({r \in ReviewRequests \ edit : target[r] = c})
    <3> DEFINE S == {r \in ReviewRequests \ edit : target[r] = c}
    <3>1. IsFiniteSet(S)
      BY FS_Subset, ReviewsAssumption
    <3>2. Telling(c) \subseteq S
      BY DEF Telling
    <3>3. Cardinality(Telling(c)) <= Cardinality(S)
      BY <3>1, <3>2, FS_Subset
    <3> QED BY <3>3
  <2> QED BY <2>1, <2>2 DEF FirstReplyIsTold, EditsAreSilent
<1> QED BY <1>1, ReviewsInvariance, PTL

\* LimiterIsHonest: in no window does the guard let more than MAX_REQUESTS creates of one
\* user for one product pass, and who waits as long as they were told is let through.
THEOREM LimiterHonest == ReviewsSpec => LimiterIsHonest
<1>1. ReviewsInv => RateBound
  BY DEF ReviewsInv
<1>2. ReviewsInv /\ [ReviewsNext]_reviewVars =>
          [ \A r \in ReviewRequests :
            reviewAnswer'[r] = "tooMany" /\ reviewAnswer[r] = "none" =>
                LET k == Key(reviewReq'[r])
                IN  promised[k] # None => Ms(clock) < promised[k] ]_reviewVars
  BY PromiseHolds DEF ReviewsInv
<1>3. ReviewsSpec => RetryAfterSuffices
  BY <1>2, ReviewsInvariance, PTL DEF ReviewsSpec, RetryAfterSuffices
<1> QED BY <1>1, <1>3, ReviewsInvariance, PTL DEF LimiterIsHonest

\* WalkIsSound: a walk returns every review that was there and is alone in its millisecond
\* once, leaves its product only within a millisecond, and each page gets further.
THEOREM WalkSound == ReviewsSpec => WalkIsSound
<1>1. ReviewsInv => ExactApart /\ StraysWithinMs
  <2> SUFFICES ASSUME ReviewsInv PROVE ExactApart /\ StraysWithinMs
    OBVIOUS
  <2> USE DEF ReviewsInv, TypesAndStages
  <2>1. ASSUME NEW r \in Walks, NEW c \in before[r], Aside(c, reviewReq[r].product)
        PROVE  Times(c, seen[r]) = 1
    <3>1. r \in ReviewRequests /\ Once(c, seen[r])
      BY <2>1 DEF Walks, CursorTells
    <3>2. PICK i \in DOMAIN seen[r] : seen[r][i] = c /\ \A j \in DOMAIN seen[r] : seen[r][j] = c => j = i
      BY <3>1 DEF Once
    <3>3. {j \in DOMAIN seen[r] : seen[r][j] = c} = {i}
      BY <3>2
    <3> QED BY <3>3, FS_Singleton DEF Times
  <2>2. ExactApart
    <3>1. \A r \in Walks : \A c \in before[r] : c \in ReviewRequests
      BY DEF Walks, ReviewTypes
    <3> QED BY <2>1, <3>1 DEF ExactApart, Aside, Missing
  <2>3. StraysWithinMs
    <3>1. \A r \in Walks : r \in ReviewRequests
      BY DEF Walks
    <3> QED BY <3>1 DEF StraysWithinMs, CursorIsLast, Traced, Missing, ToSet
  <2> QED BY <2>2, <2>3
<1>2. ReviewsInv /\ [ReviewsNext]_reviewVars =>
          [ \A r \in ReviewRequests :
            reviewPc[r] = "page" /\ reviewPc'[r] = "find" /\ cursor[r] # None =>
                LET old == cursor[r]  new == cursor'[r] IN
                \/ old.ms < new.ms
                \/ old.ms = new.ms /\ old.id < new.id ]_reviewVars
  <2> SUFFICES ASSUME ReviewsInv, ReviewsNext, NEW r \in ReviewRequests,
                      reviewPc[r] = "page", reviewPc'[r] = "find", cursor[r] # None
               PROVE  \/ cursor[r].ms < cursor'[r].ms
                      \/ cursor[r].ms = cursor'[r].ms /\ cursor[r].id < cursor'[r].id
    OBVIOUS
  <2> USE DEF ReviewsInv, TypesAndStages
  <2>1. Page(r)
    <3>1. ASSUME NEW q \in ReviewRequests, Handle(q) PROVE Page(r)
      <4>1. q = r
        BY <3>1, ReviewHandlerFrame
      <4> QED BY <3>1, <4>1 DEF Handle, Guard, FindProduct, Begin, Insert, Walk, Reply, FindReview,
            SelectReview, UpdateReview, Notify, Take
    <3>2. ~Restart
      BY DEF Restart, ReviewTypes
    <3> QED BY <3>1, <3>2 DEF ReviewsNext, Tick, RemoveProduct, handler
  <2> QED BY <2>1, PageIsTraced
<1>3. ReviewsSpec => CursorAdvances
  BY <1>2, ReviewsInvariance, PTL DEF ReviewsSpec, CursorAdvances
<1> QED BY <1>1, <1>3, ReviewsInvariance, PTL DEF WalkIsSound
==============================================================================
