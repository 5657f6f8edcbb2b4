-------------------------- MODULE InventoryProofs --------------------------
(***************************************************************************)
(* Proofs about Inventory for every value of its constants: any number of  *)
(* requests, warehouses, products and lines.                               *)
(*                                                                         *)
(* The inductive invariant ties the place of each handler to what it has   *)
(* written: a reservation has answered the lines before its current one    *)
(* and no others (Progress), and every line answered is accounted for      *)
(* (Accounts).  A second one, Ledger, keeps the books of stock on top of   *)
(* it: its sums over reservations and warehouses are followed step by step *)
(* with FiniteSums.                                                        *)
(***************************************************************************)
EXTENDS Inventory, FiniteSums, TLAPS

Reserving == {"read", "draw", "settle"}
Stages == {"idle", "findWarehouse", "increment", "insertLevel", "merge", "logRestock",
           "insertWarehouse", "find", "saveSelect", "saveWrite", "delete", "setStatus",
           "done"} \cup Reserving

Answers == {"none", "ok", "notFound", "error", "lost"}
\* What a reservation read of a stock level.
Row == [warehouse : Warehouses, era : Nat, quantity : Nat]

Types ==
    /\ req \in Traffic
    /\ pc \in [Requests -> Stages]
    /\ answer \in [Requests -> Answers]
    /\ line \in [Requests -> Nat]
    /\ todo \in [Requests -> SUBSET Row]
    /\ remaining \in [Requests -> Nat]
    /\ reserved \in [Requests -> Seq(Nat)]
    /\ client \in [Requests -> {"idle", "waiting", "unreserved", "notify", "created", "error"}]
    /\ told \in [Requests -> Nat]
    /\ backorders \subseteq Backorder

\* Every level is a natural number: what NoOverdraw needs, and no less.
Levels ==
    /\ open \subseteq Warehouses
    /\ level \in [Warehouses -> [Products -> Nat \cup {NoLevel}]]
    /\ era \in [Warehouses -> Nat]

\* A reservation has answered the lines before its current one; all of them once its
\* answer is ok.
Progress ==
    \A r \in Requests :
        /\ line[r] \in DOMAIN req[r].lines
        /\ req[r].op = "order" => pc[r] \in {"idle", "done"} \cup Reserving
        /\ pc[r] \in Reserving => req[r].op = "order"
        /\ pc[r] # "done" => Len(reserved[r]) = line[r] - 1 /\ answer[r] = "none"
        /\ Len(reserved[r]) <= Len(req[r].lines)
        /\ req[r].op = "order" /\ answer[r] = "ok" => Len(reserved[r]) = Len(req[r].lines)
        /\ pc[r] \in {"draw", "settle"} => remaining[r] <= Current(r).quantity
        /\ \A i \in DOMAIN reserved[r] : reserved[r][i] <= req[r].lines[i].quantity

\* apiV2 handles results only of a reservation that was answered, in their order.
Caller ==
    \A r \in Requests :
        /\ client[r] # "idle" => req[r].op = "order"
        /\ client[r] \in {"idle", "waiting"} => told[r] = 0
        /\ client[r] \in {"notify", "created"} =>
              /\ req[r].op = "order" /\ pc[r] = "done" /\ answer[r] = "ok"
              /\ told[r] <= Len(req[r].lines)
              /\ \A i \in 1..told[r] : Missing(r, i) > 0 => Note(r, i) \in notes
        /\ client[r] = "created" => told[r] = Len(req[r].lines)

\* Backorders and notifications are about lines that were answered.
Accounts ==
    /\ ShortfallIsBackordered
    /\ \A b \in backorders : b.order \in Requests /\ b.line \in DOMAIN reserved[b.order]
    /\ \A n \in notes : \E b \in backorders :
          b.order = n.order /\ b.line = n.line /\ b.quantity = n.quantity

IInv == Types /\ Levels /\ Progress /\ Caller /\ Accounts

------------------------------------------------------------------------------
\* The constants type every request body.
LEMMA BodyType ==
    ASSUME Types, NEW r \in Requests
    PROVE  /\ req[r] \in Body
           /\ req[r].lines \in Seq(Line) /\ req[r].lines # <<>>
           /\ req[r].warehouse \in Warehouses
           /\ \A i \in DOMAIN req[r].lines : /\ req[r].lines[i] \in Line
                                            /\ req[r].lines[i].product \in Products
                                            /\ req[r].lines[i].quantity \in Nat \ {0}
<1>1. req[r] \in Body
    BY InventoryAssumption DEF Types
<1>2. req[r].lines \in Seq(Line)
    BY <1>1 DEF Body
<1>3. \A i \in DOMAIN req[r].lines : req[r].lines[i] \in Line
    BY <1>2
<1> QED
    BY <1>1, <1>2, <1>3 DEF Body, Line

\* Init establishes the invariant.
LEMMA InitInv == Init => IInv
<1> SUFFICES ASSUME Init PROVE IInv
    OBVIOUS
<1>1. Types
    BY DEF Init, Types, Stages, Answers
<1>2. Levels
    BY InventoryAssumption DEF Init, Levels
<1>3. Progress
    BY <1>1, BodyType DEF Init, Progress, Reserving
<1>4. Caller /\ Accounts
    BY DEF Init, Caller, Accounts, ShortfallIsBackordered, BackordersOf
<1> QED
    BY <1>1, <1>2, <1>3, <1>4 DEF IInv

------------------------------------------------------------------------------
\* Levels: the only step that lowers one is a Draw, and its row covers the units.
LEMMA LevelsStep ==
    ASSUME IInv, [Next]_vars
    PROVE  Levels'
<1>a. Types /\ Levels /\ Progress
    BY DEF IInv
<1>b. NoLevel \notin Nat
    BY InventoryAssumption
<1>c. \A w \in Warehouses, p \in Products : Has(w, p) => level[w][p] \in Nat
    BY <1>a DEF Levels, Has
<1>1. CASE UNCHANGED <<open, level, era>>
    BY <1>1, <1>a DEF Levels
<1>2. ASSUME NEW r \in Requests, Draw(r) PROVE Levels'
  <2>1. PICK row \in todo[r] : TryRow(r, row)
      BY <1>2 DEF Draw
  <2>2. row.warehouse \in Warehouses /\ row.quantity \in Nat
      BY <2>1, <1>a DEF Types, Row
  <2>3. Current(r).product \in Products
      BY <1>a, BodyType DEF Progress, Current
  <2>4. Take(r, row) \in Nat
      BY <2>2, <1>a DEF Types, Take
  <2>5. open' = open /\ era' = era
      BY <1>2 DEF Draw
  <2> DEFINE w == row.warehouse
             p == Current(r).product
  <2>6. CASE level' = level
      BY <2>5, <2>6, <1>1
  <2>7. CASE Covers(row, p, Take(r, row)) /\ level' = [level EXCEPT ![w][p] = @ - Take(r, row)]
    <3>1. level[w][p] - Take(r, row) \in Nat
        BY <2>2, <2>3, <2>4, <2>7, <1>c DEF Covers
    <3> HIDE DEF w, p
    <3> QED
        BY <3>1, <2>5, <2>7, <1>a DEF Levels
  <2> QED
      BY <2>1, <2>6, <2>7 DEF TryRow
<1>3. ASSUME NEW r \in Requests, Increment(r) \/ InsertLevel(r) \/ Merge(r) PROVE Levels'
  <2>1. Target(r) \in Warehouses /\ Item(r) \in Products /\ Added(r) \in Nat
    <3>1. 1 \in DOMAIN req[r].lines
        BY <1>a, BodyType
    <3> QED
        BY <3>1, <1>a, BodyType DEF Target, Item, Added
  <2>2. open' = open /\ era' = era
      BY <1>3 DEF Increment, InsertLevel, Merge
  <2>3. \/ level' = level
        \/ Has(Target(r), Item(r)) /\ Increase(r)
        \/ level' = [level EXCEPT ![Target(r)][Item(r)] = Added(r)]
      BY <1>3 DEF Increment, InsertLevel, Merge
  <2>4. Has(Target(r), Item(r)) => level[Target(r)][Item(r)] + Added(r) \in Nat
      BY <2>1, <1>c
  <2> QED
      BY <2>1, <2>2, <2>3, <2>4, <1>a DEF Levels, Increase
<1>4. ASSUME NEW r \in Requests, CreateWarehouse(r) \/ SaveWrite(r) \/ RemoveWarehouse(r)
      PROVE  Levels'
  <2>1. Target(r) \in Warehouses
      BY <1>a, BodyType DEF Target
  <2>2. CASE CreateWarehouse(r) \/ SaveWrite(r)
      BY <2>1, <2>2, <1>a DEF CreateWarehouse, SaveWrite, Levels
  <2>3. CASE RemoveWarehouse(r)
      BY <2>1, <2>3, <1>a DEF RemoveWarehouse, Levels
  <2> QED
      BY <1>4, <2>2, <2>3
<1>5. ASSUME NEW r \in Requests,
             \/ Arrive(r) \/ ReadLevels(r) \/ Settle(r) \/ FindWarehouse(r) \/ LogRestock(r)
             \/ Find(r) \/ SaveSelect(r) \/ SetStatus(r) \/ Call(r)
      PROVE  UNCHANGED <<open, level, era>>
    BY <1>5 DEF Arrive, ReadLevels, Settle, FindWarehouse, LogRestock, Find, SaveSelect,
                SetStatus, Call, SendOrder, GiveUp, Receive, Notify, database
<1>6. Crash \/ UNCHANGED vars => UNCHANGED <<open, level, era>>
    BY DEF Crash, vars, database
<1> QED
    BY <1>1, <1>2, <1>3, <1>4, <1>5, <1>6 DEF Next, Handle

------------------------------------------------------------------------------
(***************************************************************************)
(* The other parts of the invariant, one lemma per kind of step.           *)
(***************************************************************************)
Books == Types /\ Progress /\ Caller /\ Accounts

\* What Books is about.
bookkeeping == <<req, pc, answer, line, todo, remaining, reserved, client, told, notes,
                 backorders>>

\* A step that leaves all of it alone.
LEMMA BooksStutter ==
    ASSUME Books, UNCHANGED bookkeeping
    PROVE  Books'
<1>0. UNCHANGED <<req, pc, answer, line, todo, remaining, reserved, client, told, notes,
                  backorders>>
    BY DEF bookkeeping
<1>1. Types'
    BY <1>0 DEF Books, Types
<1>2. Progress'
    BY <1>0 DEF Books, Progress, Current
<1>3. Caller'
    BY <1>0 DEF Books, Caller, Missing, Note
<1>4. Accounts'
    BY <1>0 DEF Books, Accounts, ShortfallIsBackordered, BackordersOf, Missing
<1> QED
    BY <1>1, <1>2, <1>3, <1>4 DEF Books

\* Accounts are about what was answered, backordered and told, and nothing else.
LEMMA AccountsStutter ==
    ASSUME Accounts, UNCHANGED <<req, reserved, notes, backorders>>
    PROVE  Accounts'
BY DEF Accounts, ShortfallIsBackordered, BackordersOf, Missing

\* A request arrives, reads its levels or tries a row: no line is answered.
LEMMA ReservingStep ==
    ASSUME IInv, NEW r \in Requests, Arrive(r) \/ ReadLevels(r) \/ Draw(r)
    PROVE  Books'
<1>a. Types /\ Levels /\ Progress /\ Caller /\ Accounts
    BY DEF IInv
<1>b. req[r].op \in Operations
    BY <1>a, BodyType DEF Body
<1>c. pc[r] \in {"read", "draw"} =>
          Current(r).product \in Products /\ Current(r).quantity \in Nat
    BY <1>a, BodyType DEF Progress, Current
<1>d. ASSUME NEW row \in todo[r], TryRow(r, row)
      PROVE  remaining' = [remaining EXCEPT ![r] = remaining'[r]]
             /\ remaining'[r] \in Nat /\ remaining'[r] <= remaining[r]
  <2>1. row.quantity \in Nat /\ remaining[r] \in Nat
      BY <1>a DEF Types, Row
  <2>2. Take(r, row) \in Nat /\ Take(r, row) <= remaining[r]
      BY <2>1 DEF Take
  <2> QED
      BY <2>1, <2>2, <1>d, <1>a DEF TryRow, Left, Types
<1>1. UNCHANGED <<req, line, answer, reserved, client, told, notes, backorders>>
    BY DEF Arrive, ReadLevels, Draw, TryRow, database, caller, reserving
<1>2. /\ pc[r] \notin {"done", "settle"}
      /\ \E to \in Stages :
            /\ pc' = [pc EXCEPT ![r] = to]
            /\ to \notin {"idle", "done"}
            /\ to \in Reserving <=> req[r].op = "order"
            /\ to \in {"draw", "settle"} => remaining'[r] <= Current(r).quantity
  <2>1. CASE Arrive(r)
    <3>1. FirstStage[req[r].op] \in Stages \ {"idle", "done", "draw", "settle"}
        BY <1>b DEF Operations, FirstStage, Stages, Reserving
    <3>2. FirstStage[req[r].op] \in Reserving <=> req[r].op = "order"
        BY <1>b DEF Operations, FirstStage, Reserving
    <3> QED
        BY <2>1, <3>1, <3>2 DEF Arrive, Goto
  <2>2. CASE ReadLevels(r)
    <3>1. req[r].op = "order"
        BY <2>2, <1>a DEF ReadLevels, Progress, Reserving
    <3>2. remaining'[r] <= Current(r).quantity
      <4>1. Current(r).quantity \in Nat
          BY <2>2, <1>c DEF ReadLevels
      <4>2. remaining'[r] \in {0, Current(r).quantity}
          BY <2>2, <1>a DEF ReadLevels, Types
      <4> QED
          BY <4>1, <4>2
    <3>3. pc' = [pc EXCEPT ![r] = "settle"] \/ pc' = [pc EXCEPT ![r] = "draw"]
        BY <2>2 DEF ReadLevels, Goto
    <3> QED
        BY <2>2, <3>1, <3>2, <3>3 DEF ReadLevels, Stages, Reserving
  <2>3. CASE Draw(r)
    <3>1. req[r].op = "order" /\ remaining[r] <= Current(r).quantity /\ remaining[r] \in Nat
        BY <2>3, <1>a DEF Draw, Progress, Reserving, Types
    <3>2. remaining'[r] \in Nat /\ remaining'[r] <= remaining[r]
        BY <2>3, <1>d DEF Draw
    <3>3. remaining'[r] <= Current(r).quantity
        BY <3>1, <3>2, <2>3, <1>c DEF Draw
    <3>4. pc' = [pc EXCEPT ![r] = "settle"] \/ pc' = [pc EXCEPT ![r] = "draw"]
      <4>1. pc' = [pc EXCEPT ![r] = "settle"] \/ pc' = pc
          BY <2>3 DEF Draw, TryRow, Goto
      <4>2. pc = [pc EXCEPT ![r] = pc[r]] /\ pc[r] = "draw"
          BY <2>3, <1>a DEF Draw, Types
      <4> QED
          BY <4>1, <4>2
    <3> QED
        BY <2>3, <3>1, <3>3, <3>4 DEF Draw, Stages, Reserving
  <2> QED
      BY <2>1, <2>2, <2>3
<1>3. /\ todo' \in [Requests -> SUBSET Row]
      /\ remaining' \in [Requests -> Nat]
      /\ \A s \in Requests \ {r} : remaining'[s] = remaining[s]
  <2>1. CASE Arrive(r)
      BY <2>1, <1>a DEF Arrive, reserving, Types
  <2>2. CASE ReadLevels(r)
    <3>1. LevelsOf(Current(r).product) \subseteq Row
        BY <2>2, <1>a, <1>c DEF Row, ReadLevels, LevelsOf, Levels, Has
    <3> QED
        BY <2>2, <3>1, <1>a, <1>c DEF ReadLevels, Types
  <2>3. CASE Draw(r)
    <3>1. PICK row \in todo[r] : TryRow(r, row)
        BY <2>3 DEF Draw
    <3>2. todo' = [todo EXCEPT ![r] = @ \ {row}]
        BY <3>1 DEF TryRow
    <3> QED
        BY <3>1, <3>2, <1>d, <1>a DEF Types
  <2> QED
      BY <2>1, <2>2, <2>3
<1>4. Types'
    BY <1>1, <1>2, <1>3, <1>a DEF Types
<1>5. Progress'
  <2>1. \A s \in Requests : Current(s)' = Current(s)
      BY <1>1 DEF Current
  <2>2. SUFFICES ASSUME NEW s \in Requests
                 PROVE  /\ line[s] \in DOMAIN req[s].lines
                        /\ req[s].op = "order" => pc'[s] \in {"idle", "done"} \cup Reserving
                        /\ pc'[s] \in Reserving => req[s].op = "order"
                        /\ pc'[s] # "done" => /\ Len(reserved[s]) = line[s] - 1
                                              /\ answer[s] = "none"
                        /\ Len(reserved[s]) <= Len(req[s].lines)
                        /\ req[s].op = "order" /\ answer[s] = "ok" =>
                              Len(reserved[s]) = Len(req[s].lines)
                        /\ pc'[s] \in {"draw", "settle"} => remaining'[s] <= Current(s).quantity
                        /\ \A i \in DOMAIN reserved[s] :
                              reserved[s][i] <= req[s].lines[i].quantity
      BY <1>1, <2>1 DEF Progress
  <2>3. /\ line[s] \in DOMAIN req[s].lines
        /\ req[s].op = "order" => pc[s] \in {"idle", "done"} \cup Reserving
        /\ pc[s] \in Reserving => req[s].op = "order"
        /\ pc[s] # "done" => Len(reserved[s]) = line[s] - 1 /\ answer[s] = "none"
        /\ Len(reserved[s]) <= Len(req[s].lines)
        /\ req[s].op = "order" /\ answer[s] = "ok" => Len(reserved[s]) = Len(req[s].lines)
        /\ pc[s] \in {"draw", "settle"} => remaining[s] <= Current(s).quantity
        /\ \A i \in DOMAIN reserved[s] : reserved[s][i] <= req[s].lines[i].quantity
      BY <1>a DEF Progress
  <2>4. CASE s # r
      BY <1>1, <1>2, <1>3, <2>3, <2>4
  <2>5. CASE s = r
    <3>1. pc[r] # "done" /\ pc \in [Requests -> Stages]
        BY <1>2, <1>a DEF Types
    <3>2. PICK to \in Stages :
              /\ pc'[r] = to
              /\ to \notin {"idle", "done"}
              /\ to \in Reserving <=> req[r].op = "order"
              /\ to \in {"draw", "settle"} => remaining'[r] <= Current(r).quantity
        BY <1>2, <3>1
    <3> QED
        BY <2>3, <2>5, <3>1, <3>2
  <2> QED
      BY <2>4, <2>5
<1>6. Caller'
    BY <1>1, <1>2, <1>a DEF Caller, Types, Missing, Note
<1>7. Accounts'
    BY <1>1, <1>a, AccountsStutter
<1> QED
    BY <1>4, <1>5, <1>6, <1>7 DEF Books

\* A line is settled: its reservation is answered and the rest is backordered.
LEMMA SettleStep ==
    ASSUME IInv, NEW r \in Requests, Settle(r)
    PROVE  Books'
<1>a. Types /\ Progress /\ Caller /\ Accounts
    BY DEF IInv
<1>p. PICK i, quantity, new :
          /\ i = line[r] /\ quantity = Current(r).quantity
          /\ new = [order |-> r, line |-> i, product |-> Current(r).product,
                    quantity |-> remaining[r], status |-> "open"]
    OBVIOUS
<1>b. /\ pc[r] = "settle" /\ req[r].op = "order" /\ answer[r] = "none"
      /\ i \in DOMAIN req[r].lines /\ i \in Nat \ {0}
      /\ reserved[r] \in Seq(Nat) /\ Len(reserved[r]) = i - 1
      /\ quantity = req[r].lines[i].quantity /\ quantity \in Nat \ {0}
      /\ Current(r).product \in Products
      /\ remaining[r] \in Nat /\ remaining[r] <= quantity
  <2>1. pc[r] = "settle"
      BY DEF Settle
  <2>2. req[r].lines \in Seq(Line) /\ i \in DOMAIN req[r].lines
      BY <1>a, <1>p, BodyType DEF Progress
  <2>3. req[r].lines[i].quantity \in Nat \ {0} /\ req[r].lines[i].product \in Products
      BY <2>2, <1>a, BodyType
  <2>4. req[r].op = "order" /\ answer[r] = "none" /\ Len(reserved[r]) = line[r] - 1
      BY <2>1, <1>a DEF Progress, Reserving
  <2>5. reserved[r] \in Seq(Nat) /\ remaining[r] \in Nat /\ line[r] \in Nat \ {0}
    <3>1. reserved[r] \in Seq(Nat) /\ remaining[r] \in Nat
        BY <1>a DEF Types
    <3>2. line[r] \in 1..Len(req[r].lines)
        BY <2>2, <1>p
    <3> QED
        BY <2>2, <3>1, <3>2
  <2>6. remaining[r] <= Current(r).quantity
      BY <2>1, <1>a DEF Progress
  <2>7. Current(r) = req[r].lines[i]
      BY <1>p DEF Current
  <2> QED
      BY <2>1, <2>2, <2>3, <2>4, <2>5, <2>6, <2>7, <1>p
<1>1. UNCHANGED <<req, todo, remaining, client, told, notes>>
    BY DEF Settle, caller
<1>2. /\ reserved' = [reserved EXCEPT ![r] = Append(@, quantity - remaining[r])]
      /\ Append(reserved[r], quantity - remaining[r]) \in Seq(Nat)
      /\ reserved'[r] = Append(reserved[r], quantity - remaining[r])
      /\ \A s \in Requests \ {r} : reserved'[s] = reserved[s]
  <2>1. quantity - remaining[r] \in Nat
      BY <1>b
  <2>2. Append(reserved[r], quantity - remaining[r]) \in Seq(Nat)
      BY <2>1, <1>b
  <2>3. reserved' = [reserved EXCEPT ![r] = Append(@, quantity - remaining[r])]
      BY <1>p DEF Settle
  <2>4. reserved \in [Requests -> Seq(Nat)]
      BY <1>a DEF Types
  <2> QED
      BY <2>2, <2>3, <2>4
<1>3. /\ DOMAIN reserved'[r] = 1..i
      /\ DOMAIN reserved[r] = 1..(i - 1)
      /\ reserved'[r][i] = quantity - remaining[r]
      /\ \A j \in 1..(i - 1) : reserved'[r][j] = reserved[r][j]
      /\ Len(reserved'[r]) = i
    BY <1>b, <1>2
<1>4. \/ /\ i = Len(req[r].lines)
         /\ pc' = [pc EXCEPT ![r] = "done"] /\ answer' = [answer EXCEPT ![r] = "ok"]
         /\ line' = line
      \/ /\ i # Len(req[r].lines)
         /\ pc' = [pc EXCEPT ![r] = "read"] /\ answer' = answer
         /\ line' = [line EXCEPT ![r] = i + 1]
    BY <1>p DEF Settle, Finish, Goto
<1>5. /\ remaining[r] = 0 => backorders' = backorders
      /\ remaining[r] # 0 => backorders' = backorders \cup {new} /\ new \in Backorder
    BY <1>b, <1>p DEF Settle, Shortfall, Backorder, BackorderStatus
<1>6. Types'
  <2>1. pc' \in [Requests -> Stages]
      BY <1>4, <1>a DEF Types, Stages, Reserving
  <2>2. answer' \in [Requests -> Answers]
      BY <1>4, <1>a DEF Types, Answers
  <2>3. line' \in [Requests -> Nat]
    <3>1. i + 1 \in Nat
        BY <1>b
    <3> QED
        BY <3>1, <1>4, <1>a DEF Types
  <2>4. reserved' \in [Requests -> Seq(Nat)]
      BY <1>2, <1>a DEF Types
  <2>5. backorders' \subseteq Backorder
      BY <1>5, <1>b, <1>a DEF Types
  <2> QED
      BY <2>1, <2>2, <2>3, <2>4, <2>5, <1>1, <1>a DEF Types
<1>7. Progress'
  <2>1. ASSUME NEW s \in Requests, s # r
        PROVE  /\ pc'[s] = pc[s] /\ answer'[s] = answer[s] /\ line'[s] = line[s]
               /\ Current(s)' = Current(s)
      BY <1>1, <1>4, <2>1, <1>a DEF Types, Current
  <2>2. \A j \in DOMAIN reserved'[r] : reserved'[r][j] <= req[r].lines[j].quantity
    <3>1. \A j \in 1..(i - 1) : reserved'[r][j] <= req[r].lines[j].quantity
        BY <1>a, <1>3 DEF Progress
    <3>2. reserved'[r][i] <= req[r].lines[i].quantity
        BY <1>3, <1>b
    <3>3. \A j \in 1..i : j = i \/ j \in 1..(i - 1)
        BY <1>b
    <3> QED
        BY <3>1, <3>2, <3>3, <1>3
  <2>n. Len(req[r].lines) \in Nat /\ DOMAIN req[r].lines = 1..Len(req[r].lines)
    <3>1. req[r].lines \in Seq(Line)
        BY <1>a, BodyType
    <3> QED
        BY <3>1
  <2>m. i \in Nat \ {0} /\ i <= Len(req[r].lines)
      BY <2>n, <1>b
  <2>d. ASSUME i = Len(req[r].lines), pc' = [pc EXCEPT ![r] = "done"],
               answer' = [answer EXCEPT ![r] = "ok"], line' = line
        PROVE  pc'[r] = "done" /\ answer'[r] = "ok" /\ line'[r] = i
      BY <2>d, <1>p, <1>a DEF Types
  <2>e. ASSUME i # Len(req[r].lines), pc' = [pc EXCEPT ![r] = "read"],
               answer' = answer, line' = [line EXCEPT ![r] = i + 1]
        PROVE  pc'[r] = "read" /\ answer'[r] = "none" /\ line'[r] = i + 1
      BY <2>e, <1>b, <1>a DEF Types
  <2>c. \/ /\ i = Len(req[r].lines)
           /\ pc'[r] = "done" /\ answer'[r] = "ok" /\ line'[r] = i
        \/ /\ i # Len(req[r].lines)
           /\ pc'[r] = "read" /\ answer'[r] = "none" /\ line'[r] = i + 1
      BY <1>4, <2>d, <2>e
  <2>3. /\ line'[r] \in DOMAIN req[r].lines
        /\ pc'[r] # "done" => i = line'[r] - 1 /\ answer'[r] = "none"
        /\ pc'[r] \in {"read", "done"}
        /\ answer'[r] = "ok" => i = Len(req[r].lines)
        /\ i <= Len(req[r].lines)
      BY <2>c, <2>m, <2>n
  <2>4. Len(reserved'[r]) = i /\ i \in Nat
      BY <1>3, <1>b
  <2>5. ASSUME NEW s \in Requests, s # r
        PROVE  reserved'[s] = reserved[s] /\ remaining'[s] = remaining[s]
      BY <2>5, <1>1, <1>2
  <2>6. pc'[r] \notin {"draw", "settle"} /\ pc'[r] # "idle"
      BY <2>3
  <2>7. req' = req
      BY <1>1
  <2> DEFINE P(s) ==
        /\ line[s] \in DOMAIN req[s].lines
        /\ req[s].op = "order" => pc[s] \in {"idle", "done"} \cup Reserving
        /\ pc[s] \in Reserving => req[s].op = "order"
        /\ pc[s] # "done" => Len(reserved[s]) = line[s] - 1 /\ answer[s] = "none"
        /\ Len(reserved[s]) <= Len(req[s].lines)
        /\ req[s].op = "order" /\ answer[s] = "ok" => Len(reserved[s]) = Len(req[s].lines)
        /\ pc[s] \in {"draw", "settle"} => remaining[s] <= Current(s).quantity
        /\ \A j \in DOMAIN reserved[s] : reserved[s][j] <= req[s].lines[j].quantity
  <2>8. P(r)'
    <3>1. line'[r] \in DOMAIN req'[r].lines /\ req'[r].op = "order"
        BY <2>3, <2>7, <1>b
    <3>2. pc'[r] \in {"idle", "done"} \cup Reserving
        BY <2>3 DEF Reserving
    <3>3. pc'[r] # "done" => Len(reserved'[r]) = line'[r] - 1 /\ answer'[r] = "none"
        BY <2>3, <2>4
    <3>4. Len(reserved'[r]) <= Len(req'[r].lines)
        BY <2>3, <2>4, <2>7
    <3>5. answer'[r] = "ok" => Len(reserved'[r]) = Len(req'[r].lines)
        BY <2>3, <2>4, <2>7
    <3>6. pc'[r] \in {"draw", "settle"} => remaining'[r] <= Current(r)'.quantity
        BY <2>6
    <3>7. \A j \in DOMAIN reserved'[r] : reserved'[r][j] <= req'[r].lines[j].quantity
        BY <2>2, <2>7
    <3> QED
        BY <3>1, <3>2, <3>3, <3>4, <3>5, <3>6, <3>7
  <2>9. ASSUME NEW s \in Requests, s # r PROVE P(s)'
    <3>1. P(s)
        BY <1>a DEF Progress
    <3>2. /\ pc'[s] = pc[s] /\ answer'[s] = answer[s] /\ line'[s] = line[s]
          /\ reserved'[s] = reserved[s] /\ remaining'[s] = remaining[s]
          /\ Current(s)' = Current(s)
        BY <2>1, <2>5, <2>9
    <3> QED
        BY <3>1, <3>2, <2>7
  <2> QED
      BY <2>8, <2>9 DEF Progress
<1>8. Caller'
  <2>1. ASSUME NEW s \in Requests, client[s] \in {"notify", "created"}
        PROVE  pc'[s] = pc[s] /\ answer'[s] = answer[s] /\ reserved'[s] = reserved[s]
    <3>1. s # r
        BY <2>1, <1>b, <1>a DEF Caller
    <3> QED
        BY <3>1, <1>2, <1>4, <1>a DEF Types
  <2>2. \A s \in Requests, j \in Nat :
            reserved'[s] = reserved[s] => /\ Missing(s, j)' = Missing(s, j)
                                          /\ Note(s, j)' = Note(s, j)
      BY <1>1 DEF Missing, Note
  <2> QED
      BY <2>1, <2>2, <1>1, <1>a DEF Caller
<1>9. Accounts'
  <2>1. Missing(r, i)' = remaining[r]
      BY <1>1, <1>3, <1>b DEF Missing
  <2>2. \A s \in Requests : \A j \in DOMAIN reserved[s] : Missing(s, j)' = Missing(s, j)
      BY <1>1, <1>2, <1>3 DEF Missing
  <2>3. BackordersOf(r, i) = {}
      BY <1>a, <1>3, <1>b DEF Accounts, BackordersOf
  <2>4. BackordersOf(r, i)' = IF remaining[r] = 0 THEN {} ELSE {new}
      BY <2>3, <1>5, <1>p DEF BackordersOf
  <2>5. \A s \in Requests : \A j \in DOMAIN reserved[s] :
            BackordersOf(s, j)' = BackordersOf(s, j)
      BY <1>5, <1>3, <1>b, <1>p DEF BackordersOf
  <2>6. remaining[r] # 0 => new \in backorders' /\ new.quantity = remaining[r]
      BY <1>5, <1>p
  <2>7. \A s \in Requests : DOMAIN reserved'[s] =
            IF s = r THEN DOMAIN reserved[r] \cup {i} ELSE DOMAIN reserved[s]
    <3>1. DOMAIN reserved'[r] = DOMAIN reserved[r] \cup {i}
        BY <1>3, <1>b
    <3>2. \A s \in Requests \ {r} : reserved'[s] = reserved[s]
        BY <1>2
    <3> QED
        BY <3>1, <3>2
  <2>8. ShortfallIsBackordered'
      BY <2>1, <2>2, <2>4, <2>5, <2>6, <2>7, <1>5, <1>a DEF Accounts, ShortfallIsBackordered
  <2>9. \A b \in backorders' : b.order \in Requests /\ b.line \in DOMAIN reserved'[b.order]
      BY <2>7, <1>5, <1>p, <1>a DEF Accounts
  <2> QED
      BY <2>8, <2>9, <1>1, <1>5, <1>a DEF Accounts
<1> QED
    BY <1>6, <1>7, <1>8, <1>9 DEF Books

\* What the other requests do to the books: r goes on, or is answered.
GoesOn(r) ==
    \E to \in Stages \ (Reserving \cup {"idle"}), a \in Answers :
        /\ pc' = [pc EXCEPT ![r] = to]
        /\ answer' = [answer EXCEPT ![r] = a]
        /\ to # "done" => a = answer[r]

\* A request that is no order goes on: the reservations do not notice.
LEMMA PlainStep ==
    ASSUME Types, Progress, Caller, NEW r \in Requests,
           pc[r] \notin Reserving \cup {"idle", "done"}, GoesOn(r),
           UNCHANGED <<req, line, todo, remaining, reserved, client, told, notes>>,
           backorders' \subseteq Backorder
    PROVE  Types' /\ Progress' /\ Caller'
<1>1. PICK to \in Stages \ (Reserving \cup {"idle"}), a \in Answers :
          /\ pc' = [pc EXCEPT ![r] = to]
          /\ answer' = [answer EXCEPT ![r] = a]
          /\ to # "done" => a = answer[r]
    BY DEF GoesOn
<1>2. req[r].op # "order" /\ client[r] = "idle"
    BY DEF Progress, Caller
<1>3. Types'
    BY <1>1 DEF Types
<1>4. Progress'
  <2>1. \A s \in Requests : Current(s)' = Current(s)
      BY DEF Current
  <2> QED
      BY <1>1, <1>2, <2>1 DEF Progress, Types, Reserving
<1>5. Caller'
    BY <1>1, <1>2 DEF Caller, Types, Missing, Note
<1> QED
    BY <1>3, <1>4, <1>5

\* Restocks, warehouses and their saves.
LEMMA OtherStep ==
    ASSUME IInv, NEW r \in Requests,
           \/ FindWarehouse(r) \/ Increment(r) \/ InsertLevel(r) \/ Merge(r) \/ LogRestock(r)
           \/ CreateWarehouse(r) \/ Find(r) \/ SaveSelect(r) \/ SaveWrite(r)
           \/ RemoveWarehouse(r)
    PROVE  Books'
<1>a. Types /\ Progress /\ Caller /\ Accounts
    BY DEF IInv
<1>b. pc[r] \notin Reserving \cup {"idle", "done"}
    BY DEF Reserving, FindWarehouse, Increment, InsertLevel, Merge, LogRestock,
           CreateWarehouse, Find, SaveSelect, SaveWrite, RemoveWarehouse
<1>c. answer \in [Requests -> Answers]
    BY <1>a DEF Types
<1>d. ASSUME NEW to \in Stages \ (Reserving \cup {"idle"}), Goto(r, to), UNCHANGED answer
      PROVE  GoesOn(r)
  <2>1. answer' = [answer EXCEPT ![r] = answer[r]] /\ answer[r] \in Answers
      BY <1>c, <1>d
  <2> QED
      BY <1>d, <2>1 DEF GoesOn, Goto
<1>e. ASSUME NEW a \in Answers, Finish(r, a) PROVE GoesOn(r)
  <2>1. "done" \in Stages \ (Reserving \cup {"idle"})
      BY DEF Stages, Reserving
  <2> QED
      BY <1>e, <2>1 DEF GoesOn, Finish, Goto
<1>f. \A to \in {"increment", "insertLevel", "merge", "logRestock", "saveSelect",
                  "saveWrite", "delete"} : to \in Stages \ (Reserving \cup {"idle"})
    BY DEF Stages, Reserving
<1>1. GoesOn(r)
  <2>1. CASE FindWarehouse(r)
      BY <2>1, <1>d, <1>e, <1>f DEF FindWarehouse, Answers
  <2>2. CASE Increment(r) \/ Merge(r) \/ SaveSelect(r)
      BY <2>2, <1>d, <1>f DEF Increment, Merge, SaveSelect
  <2>3. CASE InsertLevel(r)
      BY <2>3, <1>d, <1>e, <1>f DEF InsertLevel, Answers
  <2>4. CASE LogRestock(r) \/ CreateWarehouse(r) \/ SaveWrite(r) \/ RemoveWarehouse(r)
      BY <2>4, <1>e DEF LogRestock, CreateWarehouse, SaveWrite, RemoveWarehouse, Answers
  <2>5. CASE Find(r)
      BY <2>5, <1>d, <1>e, <1>f DEF Find, Answers
  <2> QED
      BY <2>1, <2>2, <2>3, <2>4, <2>5
<1>2. UNCHANGED <<req, line, todo, remaining, reserved, client, told, notes, backorders>>
    BY DEF FindWarehouse, Increment, InsertLevel, Merge, LogRestock, CreateWarehouse, Find,
           SaveSelect, SaveWrite, RemoveWarehouse, database, reserving, caller
<1>3. backorders' \subseteq Backorder
    BY <1>2, <1>a DEF Types
<1>4. Types' /\ Progress' /\ Caller'
    BY <1>1, <1>2, <1>3, <1>a, <1>b, PlainStep
<1>5. Accounts'
    BY <1>2, <1>a, AccountsStutter
<1> QED
    BY <1>4, <1>5 DEF Books

\* A backorder gets another status: order, line, product and quantity stay.
LEMMA SetStatusStep ==
    ASSUME IInv, NEW r \in Requests, SetStatus(r)
    PROVE  Books'
<1>a. Types /\ Progress /\ Caller /\ Accounts
    BY DEF IInv
<1>1. UNCHANGED <<req, line, todo, remaining, reserved, client, told, notes>>
    BY DEF SetStatus, reserving, caller
<1>2. GoesOn(r) /\ pc[r] \notin Reserving \cup {"idle", "done"}
    BY DEF SetStatus, GoesOn, Finish, Goto, Stages, Reserving, Answers
<1>3. CASE backorders' = backorders
  <2>1. backorders' \subseteq Backorder
      BY <1>3, <1>a DEF Types
  <2> QED
      BY <1>1, <1>2, <1>3, <1>a, <2>1, PlainStep, AccountsStutter DEF Books
<1>4. ASSUME NEW b \in backorders, NEW status \in BackorderStatus,
             backorders' = (backorders \ {b}) \cup {[b EXCEPT !.status = status]}
      PROVE  Books'
  <2>1. PICK c : c = [b EXCEPT !.status = status]
      OBVIOUS
  <2>2. b \in Backorder
      BY <1>a DEF Types
  <2>3. /\ c \in Backorder
        /\ c.order = b.order /\ c.line = b.line /\ c.quantity = b.quantity
      BY <2>1, <2>2 DEF Backorder
  <2>4. backorders' = (backorders \ {b}) \cup {c}
      BY <1>4, <2>1
  <2>5. backorders' \subseteq Backorder
      BY <2>3, <2>4, <1>a DEF Types
  <2>6. ShortfallIsBackordered'
    <3>1. ASSUME NEW s \in Requests, NEW j \in DOMAIN reserved[s]
          PROVE  IF Missing(s, j) = 0
                 THEN BackordersOf(s, j)' = {}
                 ELSE \E d \in backorders' : /\ BackordersOf(s, j)' = {d}
                                             /\ d.quantity = Missing(s, j)
      <4>1. IF Missing(s, j) = 0
            THEN BackordersOf(s, j) = {}
            ELSE \E d \in backorders : BackordersOf(s, j) = {d} /\ d.quantity = Missing(s, j)
          BY <1>a DEF Accounts, ShortfallIsBackordered
      <4>2. CASE b.order = s /\ b.line = j
        <5>1. b \in BackordersOf(s, j)
            BY <4>2 DEF BackordersOf
        <5>2. BackordersOf(s, j) = {b} /\ Missing(s, j) # 0 /\ b.quantity = Missing(s, j)
            BY <4>1, <5>1
        <5>3. BackordersOf(s, j)' = {c}
            BY <2>3, <2>4, <4>2, <5>2 DEF BackordersOf
        <5> QED
            BY <2>3, <2>4, <5>2, <5>3
      <4>3. CASE ~(b.order = s /\ b.line = j)
        <5>1. BackordersOf(s, j)' = BackordersOf(s, j)
            BY <2>3, <2>4, <4>3 DEF BackordersOf
        <5>2. BackordersOf(s, j) \subseteq backorders'
            BY <2>4, <4>3 DEF BackordersOf
        <5> QED
            BY <4>1, <5>1, <5>2
      <4> QED
          BY <4>2, <4>3
    <3>2. \A s \in Requests : \A j \in DOMAIN reserved[s] : Missing(s, j)' = Missing(s, j)
        BY <1>1 DEF Missing
    <3> QED
        BY <3>1, <3>2, <1>1 DEF ShortfallIsBackordered
  <2>7. \A d \in backorders' : d.order \in Requests /\ d.line \in DOMAIN reserved[d.order]
      BY <2>3, <2>4, <1>a DEF Accounts
  <2>8. \A n \in notes : \E d \in backorders' :
            d.order = n.order /\ d.line = n.line /\ d.quantity = n.quantity
      BY <2>3, <2>4, <1>a DEF Accounts
  <2>9. Accounts'
      BY <2>6, <2>7, <2>8, <1>1 DEF Accounts
  <2> QED
      BY <1>1, <1>2, <2>5, <2>9, <1>a, PlainStep DEF Books
<1> QED
    BY <1>3, <1>4 DEF SetStatus

\* apiV2 sends, gives up, hears the answer or handles one of its results.
LEMMA CallStep ==
    ASSUME IInv, NEW r \in Requests, Call(r)
    PROVE  Books'
<1>a. Types /\ Progress /\ Caller /\ Accounts
    BY DEF IInv
<1>1. UNCHANGED <<req, pc, answer, line, todo, remaining, reserved, backorders>>
    BY DEF Call, SendOrder, GiveUp, Receive, Notify, database, reserving
<1>2. Progress'
    BY <1>1, <1>a DEF Progress, Current
<1>3. \A s \in Requests, i \in Nat : Missing(s, i)' = Missing(s, i) /\ Note(s, i)' = Note(s, i)
    BY <1>1 DEF Missing, Note
<1>4. CASE SendOrder(r) \/ GiveUp(r) \/ Receive(r)
  <2>1. UNCHANGED <<told, notes>>
      BY <1>4 DEF SendOrder, GiveUp, Receive
  <2>2. \E to \in {"waiting", "unreserved", "notify"} :
          /\ client' = [client EXCEPT ![r] = to]
          /\ client[r] \in {"idle", "waiting"} /\ req[r].op = "order"
          /\ to = "notify" => pc[r] = "done" /\ answer[r] = "ok"
      BY <1>4, <1>a DEF SendOrder, GiveUp, Receive, Caller, Progress
  <2>3. Types'
      BY <1>1, <2>1, <2>2, <1>a DEF Types
  <2>4. Caller'
    <3>1. PICK to \in {"waiting", "unreserved", "notify"} :
              /\ client' = [client EXCEPT ![r] = to]
              /\ client[r] \in {"idle", "waiting"} /\ req[r].op = "order"
              /\ to = "notify" => pc[r] = "done" /\ answer[r] = "ok"
        BY <2>2
    <3>2. told[r] = 0 /\ Len(req[r].lines) \in Nat
        BY <3>1, <1>a, BodyType DEF Caller
    <3> QED
        BY <1>1, <2>1, <3>1, <3>2, <1>a DEF Caller, Types, Missing, Note
  <2>5. Accounts'
      BY <1>1, <2>1, <1>a, AccountsStutter
  <2> QED
      BY <1>2, <2>3, <2>4, <2>5 DEF Books
<1>5. CASE Notify(r)
  <2>1. PICK i : i = told[r] + 1
      OBVIOUS
  <2>2. /\ client[r] = "notify" /\ req[r].op = "order" /\ pc[r] = "done" /\ answer[r] = "ok"
        /\ told[r] \in Nat /\ i \in Nat \ {0} /\ Len(reserved[r]) = Len(req[r].lines)
        /\ told[r] <= Len(req[r].lines) /\ Len(req[r].lines) \in Nat
        /\ DOMAIN req[r].lines = 1..Len(req[r].lines)
        /\ DOMAIN reserved[r] = 1..Len(req[r].lines)
    <3>1. client[r] = "notify"
        BY <1>5 DEF Notify
    <3>2. /\ req[r].op = "order" /\ pc[r] = "done" /\ answer[r] = "ok"
          /\ told[r] <= Len(req[r].lines)
        BY <3>1, <1>a DEF Caller
    <3>3. Len(reserved[r]) = Len(req[r].lines)
        BY <3>2, <1>a DEF Progress
    <3>4. told[r] \in Nat /\ reserved[r] \in Seq(Nat)
        BY <1>a DEF Types
    <3>5. i \in Nat \ {0}
        BY <2>1, <3>4
    <3>6. req[r].lines \in Seq(Line)
        BY <1>a, BodyType
    <3>7. Len(req[r].lines) \in Nat /\ DOMAIN req[r].lines = 1..Len(req[r].lines)
        BY <3>6
    <3>8. DOMAIN reserved[r] = 1..Len(reserved[r])
        BY <3>4
    <3> QED
        BY <3>1, <3>2, <3>3, <3>4, <3>5, <3>7, <3>8
  <2>3. notes' = notes \/ (/\ i \in DOMAIN req[r].lines /\ Missing(r, i) # 0
                           /\ notes' = notes \cup {Note(r, i)})
      BY <1>5, <2>1 DEF Notify
  <2>4. notes \subseteq notes'
      BY <2>3
  <2>5. \/ /\ told[r] = Len(req[r].lines) /\ told' = told
           /\ client' = [client EXCEPT ![r] = "created"]
        \/ /\ i \in DOMAIN req[r].lines /\ told' = [told EXCEPT ![r] = i]
           /\ Missing(r, i) # 0 => Note(r, i) \in notes'
           /\ client' = client
        \/ /\ client' = [client EXCEPT ![r] = "error"] /\ told' = told
      BY <1>5, <2>1 DEF Notify
  <2>6. Types'
      BY <1>1, <2>2, <2>5, <1>a DEF Types
  <2>7. Caller'
    <3>1. ASSUME NEW s \in Requests, s # r
          PROVE  client'[s] = client[s] /\ told'[s] = told[s]
        BY <2>5, <3>1, <1>a DEF Types
    <3>2. \/ /\ client'[r] = "created" /\ told'[r] = told[r]
             /\ told[r] = Len(req[r].lines)
          \/ /\ client'[r] = "notify" /\ told'[r] = i /\ i <= Len(req[r].lines)
             /\ Missing(r, i) # 0 => Note(r, i) \in notes'
          \/ client'[r] = "error"
        BY <2>2, <2>5, <1>a DEF Types
    <3>3. \A j \in 1..told[r] : Missing(r, j) > 0 => Note(r, j) \in notes'
        BY <2>2, <2>4, <1>a DEF Caller
    <3>4. client'[r] \in {"notify", "created"} =>
              \A j \in 1..told'[r] : Missing(r, j) > 0 => Note(r, j) \in notes'
        BY <3>2, <3>3, <2>1, <2>2
    <3> DEFINE P(s) ==
          /\ client[s] # "idle" => req[s].op = "order"
          /\ client[s] \in {"idle", "waiting"} => told[s] = 0
          /\ client[s] \in {"notify", "created"} =>
                /\ req[s].op = "order" /\ pc[s] = "done" /\ answer[s] = "ok"
                /\ told[s] <= Len(req[s].lines)
                /\ \A j \in 1..told[s] : Missing(s, j) > 0 => Note(s, j) \in notes
          /\ client[s] = "created" => told[s] = Len(req[s].lines)
    <3>5. P(r)'
        BY <3>2, <3>4, <2>2, <1>1, <1>3
    <3>6. ASSUME NEW s \in Requests, s # r PROVE P(s)'
      <4>1. P(s)
          BY <1>a DEF Caller
      <4>2. told[s] \in Nat
          BY <1>a DEF Types
      <4> QED
          BY <3>1, <3>6, <4>1, <4>2, <2>4, <1>1, <1>3
    <3> QED
        BY <3>5, <3>6 DEF Caller
  <2>8. Accounts'
    <3>1. ASSUME i \in DOMAIN req[r].lines, Missing(r, i) # 0
          PROVE  \E b \in backorders : /\ b.order = r /\ b.line = i
                                       /\ b.quantity = Missing(r, i)
        BY <3>1, <2>2, <1>a DEF Accounts, ShortfallIsBackordered, BackordersOf
    <3>2. \A n \in notes' : \E b \in backorders :
              b.order = n.order /\ b.line = n.line /\ b.quantity = n.quantity
        BY <2>3, <3>1, <1>a DEF Accounts, Note
    <3> QED
        BY <3>2, <1>1, <1>a DEF Accounts, ShortfallIsBackordered, BackordersOf, Missing
  <2> QED
      BY <1>2, <2>6, <2>7, <2>8 DEF Books
<1> QED
    BY <1>4, <1>5 DEF Call

\* A death of the service ends the handlers; what they wrote stays accounted for.
LEMMA CrashStep ==
    ASSUME IInv, Crash
    PROVE  Books'
<1>a. Types /\ Progress /\ Caller /\ Accounts
    BY DEF IInv
<1>1. UNCHANGED <<req, line, todo, remaining, reserved, client, told, notes, backorders>>
    BY DEF Crash, database, reserving, caller
<1>2. \A s \in Requests : \/ pc'[s] = pc[s] /\ answer'[s] = answer[s]
                                              /\ pc[s] \in {"idle", "done"}
                          \/ pc'[s] = "done" /\ answer'[s] = "lost" /\ pc[s] # "done"
    BY DEF Crash, Active
<1>3. Types'
  <2>1. pc' \in [Requests -> Stages]
      BY <1>a DEF Crash, Types, Stages
  <2>2. answer' \in [Requests -> Answers]
      BY <1>a DEF Crash, Types, Answers
  <2> QED
      BY <2>1, <2>2, <1>1, <1>a DEF Types
<1>4. Progress'
  <2>1. \A s \in Requests : Current(s)' = Current(s)
      BY <1>1 DEF Current
  <2> QED
      BY <1>1, <1>2, <2>1, <1>a DEF Progress, Reserving
<1>5. Caller'
    BY <1>1, <1>2, <1>a DEF Caller, Missing, Note
<1>6. Accounts'
    BY <1>1, <1>a, AccountsStutter
<1> QED
    BY <1>3, <1>4, <1>5, <1>6 DEF Books

------------------------------------------------------------------------------
\* The invariant is inductive.
LEMMA NextInv == IInv /\ [Next]_vars => IInv'
<1> SUFFICES ASSUME IInv, [Next]_vars PROVE IInv'
    OBVIOUS
<1>1. Levels'
    BY LevelsStep
<1>2. Books'
  <2>1. CASE UNCHANGED vars
    <3>1. UNCHANGED bookkeeping
        BY <2>1 DEF vars, bookkeeping, database, reserving, caller
    <3> QED
        BY <3>1, BooksStutter DEF Books, IInv
  <2>2. CASE Crash
      BY <2>2, CrashStep
  <2>3. ASSUME NEW r \in Requests, Arrive(r) \/ Handle(r) \/ Call(r) PROVE Books'
      BY <2>3, ReservingStep, SettleStep, OtherStep, SetStatusStep, CallStep DEF Handle
  <2> QED
      BY <2>1, <2>2, <2>3 DEF Next
<1> QED
    BY <1>1, <1>2 DEF Books, IInv

\* It holds in every behaviour.
THEOREM Invariance == Spec => []IInv
BY InitInv, NextInv, PTL DEF Spec

\* Reservations that race never take what a warehouse does not have (NoOverdraw):
\* the conditional UPDATE in reserveOneProduct, with no transaction around the loop.
THEOREM NeverOverdrawn == Spec => []NoOverdraw
<1>1. IInv => NoOverdraw
  <2> SUFFICES ASSUME IInv, NEW w \in Warehouses, NEW p \in Products, Has(w, p)
               PROVE  level[w][p] >= 0
      BY DEF NoOverdraw
  <2>1. level[w][p] \in Nat
      BY DEF IInv, Levels, Has
  <2> QED
      BY <2>1
<1> QED
    BY <1>1, Invariance, PTL

\* Every line of every reservation is reserved or backordered, unit for unit, in at
\* most one backorder (ShortfallIsBackordered), whatever raced and died meanwhile.
THEOREM EveryShortfallBackordered == Spec => []ShortfallIsBackordered
<1>1. IInv => ShortfallIsBackordered
    BY DEF IInv, Accounts
<1> QED
    BY <1>1, Invariance, PTL

\* The customer of an order created with its reservation is told of each backorder,
\* and of nothing that is not one (BackordersAreTold).
THEOREM CustomersAreTold == Spec => []BackordersAreTold
<1>1. IInv => BackordersAreTold
  <2> SUFFICES ASSUME IInv PROVE BackordersAreTold
      OBVIOUS
  <2>a. Types /\ Progress /\ Caller /\ Accounts
      BY DEF IInv
  <2>1. ASSUME NEW b \in backorders, client[b.order] = "created"
        PROVE  \E n \in notes : n.order = b.order /\ n.line = b.line
    <3>1. b.order \in Requests /\ b.line \in DOMAIN reserved[b.order]
        BY <2>a DEF Accounts
    <3>2. b \in BackordersOf(b.order, b.line)
        BY DEF BackordersOf
    <3>3. Missing(b.order, b.line) # 0
        BY <3>1, <3>2, <2>a DEF Accounts, ShortfallIsBackordered
    <3>4. /\ told[b.order] = Len(req[b.order].lines)
          /\ Len(reserved[b.order]) = Len(req[b.order].lines)
          /\ b.line \in 1..told[b.order]
      <4>1. /\ told[b.order] = Len(req[b.order].lines)
            /\ req[b.order].op = "order" /\ answer[b.order] = "ok"
          BY <3>1, <2>1, <2>a DEF Caller
      <4>2. Len(reserved[b.order]) = Len(req[b.order].lines)
          BY <3>1, <4>1, <2>a DEF Progress
      <4>3. reserved[b.order] \in Seq(Nat)
          BY <3>1, <2>a DEF Types
      <4>4. DOMAIN reserved[b.order] = 1..Len(reserved[b.order])
          BY <4>3
      <4> QED
          BY <3>1, <4>1, <4>2, <4>4
    <3>5. Missing(b.order, b.line) > 0
      <4>1. reserved[b.order][b.line] <= req[b.order].lines[b.line].quantity
          BY <3>1, <2>a DEF Progress
      <4>2. reserved[b.order][b.line] \in Nat
          BY <3>1, <2>a DEF Types
      <4>3. req[b.order].lines[b.line].quantity \in Nat
          BY <3>1, <3>4, <2>a, BodyType
      <4> QED
          BY <3>3, <4>1, <4>2, <4>3, SMT DEF Missing
    <3>6. Note(b.order, b.line) \in notes
        BY <3>1, <3>4, <3>5, <2>1, <2>a DEF Caller
    <3> QED
        BY <3>6 DEF Note
  <2> QED
      BY <2>1, <2>a DEF BackordersAreTold, Accounts
<1> QED
    BY <1>1, Invariance, PTL

------------------------------------------------------------------------------
(***************************************************************************)
(* Units add up.  What the books of stock need besides: a warehouse that   *)
(* nobody renames opens at most once, so what a restock finds open stays   *)
(* the same warehouse until it is gone for good (OpensOnce); a tracked     *)
(* product stays tracked where no warehouse is removed (Backed); and what  *)
(* a reservation that runs alone has read is still so (Alone).             *)
(***************************************************************************)
Tallies ==
    /\ restocked \in [Warehouses -> [Products -> Nat]]
    /\ drawn \in [Warehouses -> [Products -> Nat]]
    /\ crashes \in Nat

Restocking == {"increment", "insertLevel", "merge", "logRestock"}

\* The operation whose handler has a stage.
OperationAt(stage) ==
    CASE stage \in Reserving -> {"order"}
      [] stage = "findWarehouse" \/ stage \in Restocking -> {"restock"}
      [] stage = "insertWarehouse" -> {"create"}
      [] stage = "find" -> {"rename", "remove"}
      [] stage \in {"saveSelect", "saveWrite"} -> {"rename"}
      [] stage = "delete" -> {"remove"}
      [] OTHER -> Operations

Desks == \A r \in Requests : req[r].op \in OperationAt(pc[r])

Started(w) == w \in open \/ era[w] > 0

\* What holds of r while it works on the warehouse w, which nobody renames.
Deals(r, w) ==
    /\ pc[r] \in Restocking \cup {"delete"} => Started(w)
    /\ req[r].op = "create" /\ pc[r] \in {"idle", "insertWarehouse"} => ~Started(w)
    /\ pc[r] \in {"merge", "logRestock"} /\ w \in open => Has(w, Item(r))

Emptied ==
    \A w \in Warehouses, p \in Products :
        /\ w \notin open => ~Has(w, p) /\ restocked[w][p] = 0
        /\ ~Has(w, p) => drawn[w][p] = 0
        /\ ~Has(w, p) /\ ~Renamed(w) => restocked[w][p] = 0

OpensOnce ==
    \A w \in Warehouses :
        ~Renamed(w) =>
            /\ era[w] > 0 => w \notin open
            /\ \A r \in Requests : Target(r) = w => Deals(r, w)

Backed ==
    /\ ~Removes => \A w \in Warehouses, p \in Products :
                      InitialLevel[w][p] # NoLevel => Has(w, p)
    /\ PromisesAreBacked

RowOf(w, p) == [warehouse |-> w, era |-> era[w], quantity |-> level[w][p]]

\* The rows r has not tried are as they are now, and the other levels are empty.
ReadIsCurrent(r, p) ==
    /\ remaining[r] > 0
    /\ \A row \in todo[r] : Has(row.warehouse, p) /\ row = RowOf(row.warehouse, p)
    /\ \A w \in Warehouses : level[w][p] \in {0, NoLevel} \/ RowOf(w, p) \in todo[r]

Alone ==
    \A r \in Active \ raced :
        /\ Active = {r}
        /\ pc[r] = "draw" => ReadIsCurrent(r, Current(r).product)
        /\ pc[r] = "settle" /\ remaining[r] > 0 =>
              \A w \in Warehouses : level[w][Current(r).product] \in {0, NoLevel}

Ledger == Tallies /\ Desks /\ Emptied /\ OpensOnce /\ StockAddsUp /\ Backed /\ Alone

\* What a restock asks for.
LEMMA RequestType ==
    ASSUME Types, NEW r \in Requests
    PROVE  Target(r) \in Warehouses /\ Item(r) \in Products /\ Added(r) \in Nat \ {0}
<1>1. 1 \in DOMAIN req[r].lines
    BY BodyType
<1> QED
    BY <1>1, BodyType DEF Target, Item, Added

\* What a reservation is at.
LEMMA CurrentType ==
    ASSUME Types, Progress, NEW r \in Requests
    PROVE  Current(r).product \in Products /\ Current(r).quantity \in Nat \ {0}
BY BodyType DEF Progress, Current

\* Where the handler of r can be next.
Onward(r) ==
    CASE pc[r] = "idle" -> {FirstStage[req[r].op]}
      [] pc[r] \in {"read", "draw"} -> {"draw", "settle"}
      [] pc[r] = "settle" -> {"read", "done"}
      [] pc[r] = "findWarehouse" -> {"increment", "done"}
      [] pc[r] = "increment" -> {"insertLevel", "logRestock"}
      [] pc[r] = "insertLevel" -> {"merge", "logRestock", "done"}
      [] pc[r] = "merge" -> {"logRestock"}
      [] pc[r] = "find" ->
            {"done", IF req[r].op = "rename" THEN "saveSelect" ELSE "delete"}
      [] pc[r] = "saveSelect" -> {"saveWrite"}
      [] OTHER -> {"done"}

LEMMA HandlerMoves ==
    ASSUME Types, NEW r \in Requests, Arrive(r) \/ Handle(r)
    PROVE  /\ pc[r] # "done"
           /\ \E to \in Onward(r) : pc' = [pc EXCEPT ![r] = to]
           /\ UNCHANGED <<req, crashes>>
<1>1. CASE Arrive(r)
    BY <1>1 DEF Arrive, Goto, Onward
<1>2. CASE ReadLevels(r)
    BY <1>2 DEF ReadLevels, Goto, Onward
<1>3. CASE Draw(r)
  <2>1. pc' = [pc EXCEPT ![r] = "settle"] \/ pc' = [pc EXCEPT ![r] = "draw"]
      BY <1>3 DEF Draw, TryRow, Goto, Types
  <2> QED
      BY <1>3, <2>1 DEF Draw, Onward
<1>4. CASE Settle(r)
    BY <1>4 DEF Settle, Goto, Finish, Onward
<1>5. CASE FindWarehouse(r) \/ Increment(r)
    BY <1>5 DEF FindWarehouse, Increment, Goto, Finish, Onward
<1>6. CASE InsertLevel(r) \/ Merge(r)
    BY <1>6 DEF InsertLevel, Merge, Goto, Finish, Onward
<1>7. CASE LogRestock(r) \/ CreateWarehouse(r) \/ SaveWrite(r) \/ RemoveWarehouse(r)
    BY <1>7 DEF LogRestock, CreateWarehouse, SaveWrite, RemoveWarehouse, Finish, Goto, Onward
<1>8. CASE Find(r) \/ SaveSelect(r)
    BY <1>8 DEF Find, SaveSelect, Finish, Goto, Onward
<1>9. CASE SetStatus(r)
    BY <1>9 DEF SetStatus, Finish, Goto, Onward
<1> QED
    BY <1>1, <1>2, <1>3, <1>4, <1>5, <1>6, <1>7, <1>8, <1>9 DEF Handle

\* One turn of the loop over the rows: what is still wanted shrinks by what is taken.
Takes(r, row, units) ==
    LET w == row.warehouse
        p == Current(r).product
        take == Take(r, row)
    IN  /\ row \in Row /\ units <= remaining[r]
        /\ units # take => units = 0 /\ ~Covers(row, p, take)
        /\ todo' = [todo EXCEPT ![r] = @ \ {row}]
        /\ remaining' = [remaining EXCEPT ![r] = @ - units]
        /\ \/ units = 0 /\ UNCHANGED <<level, drawn>>
           \/ /\ Covers(row, p, units)
              /\ level' = [level EXCEPT ![w][p] = @ - units]
              /\ drawn' = [drawn EXCEPT ![w][p] = @ + units]
        /\ IF remaining[r] - units = 0 \/ todo[r] \ {row} = {}
           THEN pc' = [pc EXCEPT ![r] = "settle"]
           ELSE pc' = pc

LEMMA DrawShape ==
    ASSUME IInv, NEW r \in Requests, Draw(r)
    PROVE  \E row \in todo[r], units \in Nat : Takes(r, row, units)
<1>a. Types
    BY DEF IInv
<1>1. PICK row \in todo[r] : TryRow(r, row)
    BY DEF Draw
<1>2. row \in Row /\ row.quantity \in Nat /\ remaining[r] \in Nat
    BY <1>a DEF Types, Row
<1>3. Take(r, row) \in Nat /\ Take(r, row) <= remaining[r]
    BY <1>2 DEF Take
<1>4. CASE Take(r, row) > 0 /\ Covers(row, Current(r).product, Take(r, row))
  <2>1. Takes(r, row, Take(r, row))
      BY <1>1, <1>2, <1>3, <1>4 DEF Takes, TryRow, Left, DrawingEnds, Goto
  <2> QED
      BY <1>3, <2>1
<1>5. CASE ~(Take(r, row) > 0 /\ Covers(row, Current(r).product, Take(r, row)))
  <2>1. /\ UNCHANGED <<level, drawn>>
        /\ todo' = [todo EXCEPT ![r] = @ \ {row}]
        /\ remaining' = [remaining EXCEPT ![r] = Left(r, Take(r, row), FALSE)]
        /\ IF Left(r, Take(r, row), FALSE) = 0 \/ todo[r] \ {row} = {}
           THEN pc' = [pc EXCEPT ![r] = "settle"]
           ELSE pc' = pc
      BY <1>1, <1>5 DEF TryRow, DrawingEnds, Goto
  <2>2. Left(r, Take(r, row), FALSE) = remaining[r] - 0
      BY DEF Left
  <2>3. 0 # Take(r, row) => ~Covers(row, Current(r).product, Take(r, row))
      BY <1>3, <1>5
  <2>4. /\ remaining' = [remaining EXCEPT ![r] = @ - 0]
        /\ IF remaining[r] - 0 = 0 \/ todo[r] \ {row} = {}
           THEN pc' = [pc EXCEPT ![r] = "settle"]
           ELSE pc' = pc
      BY <2>1, <2>2
  <2>5. 0 <= remaining[r]
      BY <1>2
  <2>6. Takes(r, row, 0)
      BY <1>2, <2>1, <2>3, <2>4, <2>5, Zenon DEF Takes
  <2> QED
      BY <2>6
<1> QED
    BY <1>4, <1>5

\* What Ledger is about.
stockroom == <<open, level, era, restocked, req, pc, line, todo, remaining, reserved, drawn,
               raced, crashes>>

\* Without a restock that has its event to write, no unit is unlogged.
LEMMA NothingUnlogged ==
    ASSUME NEW w, NEW p,
           \A r \in Requests : pc[r] = "logRestock" => Target(r) # w \/ Item(r) # p
    PROVE  Unlogged(w, p) = 0
<1> DEFINE F == [r \in Requests |-> Added(r)]
           S == {r \in Requests : pc[r] = "logRestock" /\ Target(r) = w /\ Item(r) = p}
<1>1. S = {}
    OBVIOUS
<1>2. Unlogged(w, p) = SumFunctionOnSet(F, S)
    BY DEF Unlogged
<1> HIDE DEF F, S
<1>3. SumFunctionOnSet(F, {}) = 0
    BY FS_EmptySet, SumZero
<1> QED
    BY <1>1, <1>2, <1>3

\* Init establishes it.
LEMMA InitLedger == Init => Ledger
<1> SUFFICES ASSUME Init PROVE Ledger
    OBVIOUS
<1>a. Types /\ Progress
    BY InitInv DEF IInv
<1>b. \A r \in Requests : /\ pc[r] = "idle" /\ reserved[r] = <<>>
                          /\ Target(r) \in Warehouses
    BY <1>a, RequestType DEF Init
<1>1. Tallies
    BY InventoryAssumption DEF Init, Tallies, Events
<1>2. Desks
  <2>1. \A r \in Requests : req[r].op \in Operations
      BY <1>a, BodyType DEF Body
  <2> QED
      BY <1>b, <2>1 DEF Desks, OperationAt, Reserving, Restocking
<1>3. Emptied /\ OpensOnce
  <2>1. \A w \in Warehouses, p \in Products :
           /\ w \notin open => ~Has(w, p)
           /\ ~Has(w, p) => restocked[w][p] = 0 /\ drawn[w][p] = 0
      BY InventoryAssumption DEF Init, Has, Events
  <2>2. \A w \in Warehouses : era[w] = 0
      BY DEF Init
  <2>3. \A r \in Requests : req[r].op = "create" => Target(r) \notin open
      BY InventoryAssumption DEF Init, Target
  <2> QED
      BY <1>b, <2>1, <2>2, <2>3 DEF Emptied, OpensOnce, Deals, Started, Restocking
<1>4. StockAddsUp
  <2>1. \A w \in Warehouses, p \in Products : Unlogged(w, p) = 0
      BY <1>a, <1>b, NothingUnlogged
  <2>2. \A w \in Warehouses, p \in Products :
           Has(w, p) => level[w][p] \in Nat /\ restocked[w][p] = level[w][p] /\ drawn[w][p] = 0
      BY InventoryAssumption DEF Init, Has, Events
  <2> QED
      BY <2>1, <2>2 DEF StockAddsUp
<1>5. Backed
  <2>1. ASSUME NEW p \in Products
        PROVE  SumFunction([r \in Requests |-> Promised(r, p)])
                 + SumFunctionOnSet([r \in Requests |-> Current(r).quantity - remaining[r]],
                                    Drawing(p))
                 = SumFunction([w \in Warehouses |-> drawn[w][p]])
    <3>1. ASSUME NEW r \in Requests PROVE Promised(r, p) = 0
      <4>1. {i \in DOMAIN reserved[r] : req[r].lines[i].product = p} = {}
          BY <1>b
      <4>2. SumFunctionOnSet(reserved[r], {}) = 0
          BY FS_EmptySet, SumZero
      <4> QED
          BY <4>1, <4>2 DEF Promised
    <3>2. Drawing(p) = {}
        BY <1>b DEF Drawing
    <3> DEFINE A == [r \in Requests |-> Promised(r, p)]
               B == [r \in Requests |-> Current(r).quantity - remaining[r]]
               C == [w \in Warehouses |-> drawn[w][p]]
    <3>3. SumFunctionOnSet(A, Requests) = 0
      <4>1. \A r \in Requests : A[r] = 0
          BY <3>1
      <4> HIDE DEF A
      <4> QED
          BY <4>1, InventoryAssumption, SumZero
    <3>4. SumFunctionOnSet(C, Warehouses) = 0
      <4>1. \A w \in Warehouses : C[w] = 0
          BY DEF Init
      <4> HIDE DEF C
      <4> QED
          BY <4>1, InventoryAssumption, SumZero
    <3>5. SumFunctionOnSet(B, {}) = 0
      <4> HIDE DEF B
      <4> QED
          BY FS_EmptySet, SumZero
    <3>6. DOMAIN A = Requests /\ DOMAIN C = Warehouses
        OBVIOUS
    <3> HIDE DEF A, B, C
    <3>7. SumFunction(A) + SumFunctionOnSet(B, Drawing(p)) = SumFunction(C)
        BY <3>2, <3>3, <3>4, <3>5, <3>6 DEF SumFunction
    <3> QED
        BY <3>7 DEF A, B, C
  <2>2. \A w \in Warehouses, p \in Products : InitialLevel[w][p] # NoLevel => Has(w, p)
      BY DEF Init, Has
  <2> QED
      BY <2>1, <2>2 DEF Backed, PromisesAreBacked
<1>6. Alone
    BY <1>b DEF Alone, Active
<1> QED
    BY <1>1, <1>2, <1>3, <1>4, <1>5, <1>6 DEF Ledger

\* A step that leaves the stockroom alone.
LEMMA LedgerStutter ==
    ASSUME Ledger, UNCHANGED stockroom
    PROVE  Ledger'
<1>0. UNCHANGED <<open, level, era, restocked, req, pc, line, todo, remaining, reserved, drawn,
                  raced, crashes>>
    BY DEF stockroom
<1>1. \A r \in Requests : /\ Current(r)' = Current(r)
                          /\ Target(r)' = Target(r) /\ Item(r)' = Item(r)
                          /\ Added(r)' = Added(r)
    BY <1>0 DEF Current, Target, Item, Added
<1>2. \A w \in Warehouses, p \in Products : Has(w, p)' <=> Has(w, p)
    BY <1>0 DEF Has
<1>3. Tallies' /\ Desks'
    BY <1>0 DEF Ledger, Tallies, Desks, OperationAt
<1>4. Emptied' /\ OpensOnce'
    BY <1>0 DEF Ledger, Emptied, OpensOnce, Deals, Started, Has, Renamed, Target, Item
<1>5. StockAddsUp'
  <2>1. \A w \in Warehouses, p \in Products : Unlogged(w, p)' = Unlogged(w, p)
      BY <1>0 DEF Unlogged, Target, Item, Added
  <2> QED
      BY <1>0, <2>1 DEF Ledger, StockAddsUp, Has, Renamed, Target
<1>6. Backed'
  <2>1. \A r \in Requests, p \in Products : Promised(r, p)' = Promised(r, p)
      BY <1>0 DEF Promised
  <2>2. \A p \in Products : Drawing(p)' = Drawing(p)
      BY <1>0 DEF Drawing, Current
  <2>3. PromisesAreBacked'
      BY <1>0, <2>1, <2>2 DEF Ledger, Backed, PromisesAreBacked, Current, TrackedFromStart, Removes
  <2> QED
      BY <1>0, <2>3 DEF Ledger, Backed, Removes, Has
<1>7. Alone'
  <2>1. Active' = Active
      BY <1>0 DEF Active
  <2>2. \A w \in Warehouses, p \in Products : RowOf(w, p)' = RowOf(w, p)
      BY <1>0 DEF RowOf
  <2>3. ASSUME NEW r \in Active \ raced
        PROVE  /\ Active' = {r}
               /\ pc'[r] = "draw" => ReadIsCurrent(r, Current(r).product)'
               /\ pc'[r] = "settle" /\ remaining'[r] > 0 =>
                     \A w \in Warehouses : level'[w][Current(r).product'] \in {0, NoLevel}
    <3>1. Current(r)' = Current(r)
        BY <1>1, <2>3 DEF Active
    <3>2. /\ Active = {r}
          /\ pc[r] = "draw" => ReadIsCurrent(r, Current(r).product)
          /\ pc[r] = "settle" /\ remaining[r] > 0 =>
                \A w \in Warehouses : level[w][Current(r).product] \in {0, NoLevel}
        BY <2>3 DEF Ledger, Alone
    <3>3. ReadIsCurrent(r, Current(r).product) => ReadIsCurrent(r, Current(r).product)'
        BY <1>0, <3>1 DEF ReadIsCurrent, RowOf, Has
    <3> QED
        BY <1>0, <2>1, <3>1, <3>2, <3>3
  <2> QED
      BY <1>0, <2>1, <2>3 DEF Alone
<1> QED
    BY <1>3, <1>4, <1>5, <1>6, <1>7 DEF Ledger

\* One cell of a table changes.
LEMMA CellChange ==
    ASSUME NEW T, NEW f \in [Warehouses -> [Products -> T]],
           NEW w \in Warehouses, NEW p \in Products, NEW n \in T
    PROVE  /\ [f EXCEPT ![w][p] = n] \in [Warehouses -> [Products -> T]]
           /\ \A v \in Warehouses, q \in Products :
                 [f EXCEPT ![w][p] = n][v][q] = IF v = w /\ q = p THEN n ELSE f[v][q]
OBVIOUS

\* Tallies: what is drawn and restocked only grows, or goes with its warehouse.
LEMMA TalliesStep ==
    ASSUME IInv, Ledger, NEW r \in Requests, Arrive(r) \/ Handle(r)
    PROVE  Tallies'
<1>a. Types /\ Progress /\ Tallies
    BY DEF IInv, Ledger
<1>b. crashes' = crashes
    BY <1>a, HandlerMoves
<1>1. CASE UNCHANGED <<restocked, drawn>>
    BY <1>1, <1>a, <1>b DEF Tallies
<1>2. CASE Draw(r)
  <2>1. PICK row \in todo[r], units \in Nat : Takes(r, row, units)
      BY <1>2, DrawShape
  <2>2. restocked' = restocked
      BY <1>2 DEF Draw
  <2>3. PICK w \in Warehouses, p \in Products : w = row.warehouse /\ p = Current(r).product
      BY <2>1, <1>a, CurrentType DEF Takes, Row
  <2>4. drawn' = drawn \/ drawn' = [drawn EXCEPT ![w][p] = @ + units]
      BY <2>1, <2>3 DEF Takes
  <2>d. drawn \in [Warehouses -> [Products -> Nat]]
      BY <1>a DEF Tallies
  <2>5. PICK n \in Nat : n = drawn[w][p] + units
      BY <2>d
  <2>6. drawn' \in [Warehouses -> [Products -> Nat]]
      BY <2>4, <2>5, <2>d
  <2> QED
      BY <2>2, <2>6, <1>a, <1>b DEF Tallies
<1>3. CASE LogRestock(r)
  <2>1. restocked[Target(r)][Item(r)] + Added(r) \in Nat
      BY <1>a, RequestType DEF Tallies
  <2>2. \/ restocked' = restocked
        \/ restocked' = [restocked EXCEPT ![Target(r)][Item(r)] = @ + Added(r)]
      BY <1>3 DEF LogRestock
  <2>3. restocked' \in [Warehouses -> [Products -> Nat]]
    <3>1. PICK w \in Warehouses, p \in Products : w = Target(r) /\ p = Item(r)
        BY <1>a, RequestType
    <3>2. PICK n \in Nat : n = restocked[w][p] + Added(r)
        BY <2>1, <3>1
    <3>3. restocked \in [Warehouses -> [Products -> Nat]]
        BY <1>a DEF Tallies
    <3>4. restocked' = restocked \/ restocked' = [restocked EXCEPT ![w][p] = n]
        BY <2>2, <3>1, <3>2
    <3> QED
        BY <3>3, <3>4
  <2>4. drawn' = drawn
      BY <1>3 DEF LogRestock
  <2> QED
      BY <2>3, <2>4, <1>a, <1>b DEF Tallies
<1>4. CASE RemoveWarehouse(r)
    BY <1>4, <1>a, <1>b, RequestType DEF RemoveWarehouse, Tallies
<1>5. \/ Arrive(r) \/ ReadLevels(r) \/ Settle(r) \/ FindWarehouse(r) \/ Increment(r)
      \/ InsertLevel(r) \/ Merge(r) \/ CreateWarehouse(r) \/ Find(r) \/ SaveSelect(r)
      \/ SaveWrite(r) \/ SetStatus(r)
      => UNCHANGED <<restocked, drawn>>
    BY DEF Arrive, ReadLevels, Settle, FindWarehouse, Increment, InsertLevel, Merge,
           CreateWarehouse, Find, SaveSelect, SaveWrite, SetStatus, database
<1> QED
    BY <1>1, <1>2, <1>3, <1>4, <1>5 DEF Handle

\* Desks: a handler stays with its operation.
LEMMA DesksStep ==
    ASSUME IInv, Ledger, NEW r \in Requests, Arrive(r) \/ Handle(r)
    PROVE  Desks'
<1>a. Types /\ Desks
    BY DEF IInv, Ledger
<1>1. PICK to \in Onward(r) : /\ pc' = [pc EXCEPT ![r] = to]
                              /\ req' = req
    BY <1>a, HandlerMoves
<1>2. req[r].op \in Operations /\ req[r].op \in OperationAt(pc[r])
    BY <1>a, BodyType DEF Body, Desks
<1>3. req[r].op \in OperationAt(to)
  <2>1. CASE pc[r] = "idle"
    <3>1. to = FirstStage[req[r].op]
        BY <2>1, <1>1 DEF Onward
    <3> QED
        BY <3>1, <1>2 DEF Operations, FirstStage, OperationAt, Reserving, Restocking
  <2>2. CASE pc[r] \in Reserving
      BY <2>2, <1>1, <1>2 DEF Onward, OperationAt, Reserving, Restocking
  <2>3. CASE pc[r] = "findWarehouse" \/ pc[r] \in Restocking
      BY <2>3, <1>1, <1>2 DEF Onward, OperationAt, Reserving, Restocking
  <2>4. CASE pc[r] \in {"find", "saveSelect"}
      BY <2>4, <1>1, <1>2 DEF Onward, OperationAt, Reserving, Restocking
  <2>5. CASE /\ pc[r] \notin Reserving \cup Restocking
             /\ pc[r] \notin {"idle", "findWarehouse", "find", "saveSelect"}
    <3>1. to = "done"
        BY <2>5, <1>1 DEF Onward, Reserving, Restocking
    <3> QED
        BY <3>1, <1>2 DEF OperationAt, Reserving, Restocking
  <2> QED
      BY <2>1, <2>2, <2>3, <2>4, <2>5
<1>4. \A s \in Requests : pc'[s] = IF s = r THEN to ELSE pc[s]
    BY <1>1, <1>a DEF Types
<1> QED
    BY <1>1, <1>3, <1>4, <1>a DEF Desks, OperationAt

\* What a step of r does to the books of p in the warehouse w.
Cell(w, p) == <<level[w][p], restocked[w][p], drawn[w][p]>>

CellStep(r, w, p) ==
    LET mine == w = Target(r) /\ p = Item(r)
    IN  \/ Cell(w, p)' = Cell(w, p)
        \/ /\ Draw(r) /\ Has(w, p)
           /\ \E units \in Nat :
                 /\ level[w][p] >= units
                 /\ Cell(w, p)' = <<level[w][p] - units, restocked[w][p], drawn[w][p] + units>>
        \/ /\ (Increment(r) \/ Merge(r)) /\ Has(w, p) /\ mine
           /\ Cell(w, p)' = <<level[w][p] + Added(r), restocked[w][p], drawn[w][p]>>
        \/ /\ InsertLevel(r) /\ ~Has(w, p) /\ mine /\ w \in open
           /\ Cell(w, p)' = <<Added(r), restocked[w][p], drawn[w][p]>>
        \/ /\ LogRestock(r) /\ mine /\ w \in open
           /\ Cell(w, p)' = <<level[w][p], restocked[w][p] + Added(r), drawn[w][p]>>
        \/ /\ RemoveWarehouse(r) /\ w = Target(r)
           /\ Cell(w, p)' = <<NoLevel, 0, 0>>

LEMMA CellMoves ==
    ASSUME IInv, Ledger, NEW r \in Requests, Arrive(r) \/ Handle(r),
           NEW w \in Warehouses, NEW p \in Products
    PROVE  CellStep(r, w, p)
<1>a. Types /\ Levels /\ Progress /\ Tallies
    BY DEF IInv, Ledger
<1>b. /\ level \in [Warehouses -> [Products -> Nat \cup {NoLevel}]]
      /\ restocked \in [Warehouses -> [Products -> Nat]]
      /\ drawn \in [Warehouses -> [Products -> Nat]]
    BY <1>a DEF Levels, Tallies
<1>c. Target(r) \in Warehouses /\ Item(r) \in Products /\ Added(r) \in Nat
    BY <1>a, RequestType
<1>1. CASE UNCHANGED <<level, restocked, drawn>>
    BY <1>1 DEF CellStep, Cell
<1>2. CASE Draw(r)
  <2>1. PICK row \in todo[r], units \in Nat : Takes(r, row, units)
      BY <1>2, DrawShape
  <2>2. restocked' = restocked
      BY <1>2 DEF Draw
  <2>3. CASE UNCHANGED <<level, drawn>>
      BY <2>2, <2>3, <1>1
  <2>4. CASE ~UNCHANGED <<level, drawn>>
    <3>1. PICK v \in Warehouses, q \in Products : v = row.warehouse /\ q = Current(r).product
        BY <2>1, <1>a, CurrentType DEF Takes, Row
    <3>2. /\ Has(v, q) /\ level[v][q] >= units
          /\ level' = [level EXCEPT ![v][q] = level[v][q] - units]
          /\ drawn' = [drawn EXCEPT ![v][q] = drawn[v][q] + units]
        BY <2>1, <2>4, <3>1 DEF Takes, Covers
    <3>3. CASE v = w /\ q = p
      <4>1. level'[w][p] = level[w][p] - units /\ drawn'[w][p] = drawn[w][p] + units
          BY <3>2, <3>3, <1>b
      <4> QED
          BY <1>2, <2>2, <3>2, <3>3, <4>1 DEF CellStep, Cell
    <3>4. CASE ~(v = w /\ q = p)
      <4>1. level'[w][p] = level[w][p] /\ drawn'[w][p] = drawn[w][p]
          BY <3>2, <3>4, <1>b
      <4> QED
          BY <2>2, <4>1 DEF CellStep, Cell
    <3> QED
        BY <3>3, <3>4
  <2> QED
      BY <2>3, <2>4
<1>3. CASE (Increment(r) \/ Merge(r)) /\ Has(Target(r), Item(r)) /\ Increase(r)
  <2>1. restocked' = restocked /\ drawn' = drawn
      BY <1>3 DEF Increment, Merge
  <2>2. level'[w][p] = IF w = Target(r) /\ p = Item(r) THEN level[w][p] + Added(r)
                       ELSE level[w][p]
      BY <1>3, <1>b, <1>c DEF Increase
  <2> QED
      BY <1>3, <2>1, <2>2 DEF CellStep, Cell
<1>4. CASE /\ InsertLevel(r) /\ ~Has(Target(r), Item(r)) /\ Target(r) \in open
           /\ level' = [level EXCEPT ![Target(r)][Item(r)] = Added(r)]
  <2>1. restocked' = restocked /\ drawn' = drawn
      BY <1>4 DEF InsertLevel
  <2>2. level'[w][p] = IF w = Target(r) /\ p = Item(r) THEN Added(r) ELSE level[w][p]
      BY <1>4, <1>b, <1>c
  <2> QED
      BY <1>4, <2>1, <2>2 DEF CellStep, Cell
<1>5. CASE LogRestock(r) /\ Target(r) \in open
  <2>1. level' = level /\ drawn' = drawn
      BY <1>5 DEF LogRestock
  <2>2. restocked'[w][p] = IF w = Target(r) /\ p = Item(r) THEN restocked[w][p] + Added(r)
                           ELSE restocked[w][p]
      BY <1>5, <1>b, <1>c DEF LogRestock
  <2> QED
      BY <1>5, <2>1, <2>2 DEF CellStep, Cell
<1>6. CASE RemoveWarehouse(r)
  <2>1. w = Target(r) =>
          level'[w][p] = NoLevel /\ restocked'[w][p] = 0 /\ drawn'[w][p] = 0
      BY <1>6, <1>b, <1>c DEF RemoveWarehouse
  <2>2. w # Target(r) => /\ level'[w][p] = level[w][p] /\ restocked'[w][p] = restocked[w][p]
                         /\ drawn'[w][p] = drawn[w][p]
      BY <1>6, <1>b, <1>c DEF RemoveWarehouse
  <2> QED
      BY <1>6, <2>1, <2>2 DEF CellStep, Cell
<1>7. CASE (Increment(r) \/ Merge(r)) /\ ~(Has(Target(r), Item(r)) /\ Increase(r))
    BY <1>7, <1>1 DEF Increment, Merge
<1>8. CASE InsertLevel(r) /\ ~(/\ ~Has(Target(r), Item(r)) /\ Target(r) \in open
                              /\ level' = [level EXCEPT ![Target(r)][Item(r)] = Added(r)])
    BY <1>8, <1>1 DEF InsertLevel
<1>9. CASE LogRestock(r) /\ Target(r) \notin open
    BY <1>9, <1>1 DEF LogRestock
<1>10. CASE \/ Arrive(r) \/ ReadLevels(r) \/ Settle(r) \/ FindWarehouse(r)
            \/ CreateWarehouse(r) \/ Find(r) \/ SaveSelect(r) \/ SaveWrite(r) \/ SetStatus(r)
    BY <1>10, <1>1 DEF Arrive, ReadLevels, Settle, FindWarehouse, CreateWarehouse, Find,
                      SaveSelect, SaveWrite, SetStatus, database
<1> QED
    BY <1>2, <1>3, <1>4, <1>5, <1>6, <1>7, <1>8, <1>9, <1>10 DEF Handle

\* Which warehouses a step of r opens or closes.
LEMMA DoorMoves ==
    ASSUME IInv, Ledger, NEW r \in Requests, Arrive(r) \/ Handle(r), NEW w \in Warehouses
    PROVE  \/ (w \in open' <=> w \in open) /\ era'[w] = era[w]
           \/ /\ CreateWarehouse(r) \/ SaveWrite(r)
              /\ w = Target(r) /\ w \in open' /\ era'[w] = era[w]
           \/ /\ RemoveWarehouse(r) /\ w = Target(r) /\ w \notin open' /\ era'[w] = era[w] + 1
<1>a. Levels /\ Target(r) \in Warehouses
    BY RequestType DEF IInv
<1>1. CASE CreateWarehouse(r) \/ SaveWrite(r)
    BY <1>1 DEF CreateWarehouse, SaveWrite
<1>2. CASE RemoveWarehouse(r)
    BY <1>2, <1>a DEF RemoveWarehouse, Levels
<1>3. CASE \/ Arrive(r) \/ ReadLevels(r) \/ Draw(r) \/ Settle(r) \/ FindWarehouse(r)
           \/ Increment(r) \/ InsertLevel(r) \/ Merge(r) \/ LogRestock(r)
           \/ Find(r) \/ SaveSelect(r) \/ SetStatus(r)
    BY <1>3 DEF Arrive, ReadLevels, Draw, Settle, FindWarehouse, Increment, InsertLevel,
                Merge, LogRestock, Find, SaveSelect, SetStatus, database
<1> QED
    BY <1>1, <1>2, <1>3 DEF Handle

\* Emptied: what is closed holds nothing, and what has no level has no books.
LEMMA EmptiedStep ==
    ASSUME IInv, Ledger, NEW r \in Requests, Arrive(r) \/ Handle(r)
    PROVE  Emptied'
<1>a. Types /\ Levels /\ Tallies /\ Emptied /\ OpensOnce
    BY DEF IInv, Ledger
<1>b. NoLevel \notin Nat
    BY InventoryAssumption
<1>c. Target(r) \in Warehouses /\ Item(r) \in Products /\ Added(r) \in Nat
    BY <1>a, RequestType
<1>1. ASSUME NEW w \in Warehouses, NEW p \in Products
      PROVE  /\ w \notin open' => ~Has(w, p)' /\ restocked'[w][p] = 0
             /\ ~Has(w, p)' => drawn'[w][p] = 0
             /\ ~Has(w, p)' /\ ~Renamed(w)' => restocked'[w][p] = 0
  <2>0. /\ CellStep(r, w, p)
        /\ \/ (w \in open' <=> w \in open)
           \/ w \in open'
           \/ RemoveWarehouse(r) /\ w = Target(r)
      BY CellMoves, DoorMoves
  <2>1. Renamed(w)' <=> Renamed(w)
    <3>1. req' = req
        BY <1>a, HandlerMoves
    <3> QED
        BY <3>1 DEF Renamed, Target
  <2>2. /\ w \notin open => ~Has(w, p) /\ restocked[w][p] = 0
        /\ ~Has(w, p) => drawn[w][p] = 0
        /\ ~Has(w, p) /\ ~Renamed(w) => restocked[w][p] = 0
      BY <1>a DEF Emptied
  <2>3. CASE RemoveWarehouse(r) /\ w = Target(r)
    <3>1. level'[w][p] = NoLevel /\ restocked'[w][p] = 0 /\ drawn'[w][p] = 0
        BY <2>3, <1>a, <1>c DEF RemoveWarehouse, Levels, Tallies
    <3> QED
        BY <3>1 DEF Has
  <2>4. CASE ~(RemoveWarehouse(r) /\ w = Target(r))
    <3>1. CASE Cell(w, p)' = Cell(w, p)
        BY <2>0, <2>1, <2>2, <2>4, <3>1 DEF Cell, Has
    <3>2. ASSUME Has(w, p), level'[w][p] \in Nat
          PROVE  w \in open' /\ Has(w, p)'
        BY <2>0, <2>2, <2>4, <3>2, <1>b DEF Has
    <3>3. CASE Has(w, p) /\ Cell(w, p)' # Cell(w, p)
      <4>1. level[w][p] \in Nat
          BY <3>3, <1>a DEF Levels, Has
      <4>2. level'[w][p] \in Nat
          BY <2>0, <2>4, <3>3, <4>1, <1>c DEF CellStep, Cell
      <4> QED
          BY <3>2, <3>3, <4>2
    <3>4. CASE ~Has(w, p) /\ Cell(w, p)' # Cell(w, p)
      <4>1. \/ InsertLevel(r) /\ w \in open /\ level'[w][p] \in Nat
            \/ /\ LogRestock(r) /\ w \in open /\ w = Target(r) /\ p = Item(r)
               /\ level'[w][p] = level[w][p] /\ drawn'[w][p] = drawn[w][p]
          BY <2>0, <2>4, <3>4, <1>c DEF CellStep, Cell
      <4>2. LogRestock(r) /\ w = Target(r) /\ p = Item(r) /\ w \in open => Renamed(w)
          BY <3>4, <1>a DEF LogRestock, OpensOnce, Deals
      <4> QED
          BY <2>0, <2>1, <2>2, <2>4, <3>4, <4>1, <4>2, <1>b DEF Has
    <3> QED
        BY <3>1, <3>3, <3>4
  <2> QED
      BY <2>3, <2>4
<1> QED
    BY <1>1 DEF Emptied

\* What a step does to a warehouse nobody renames: only its one creation opens it.
LEMMA DoorOpensOnce ==
    ASSUME IInv, Ledger, NEW r \in Requests, Arrive(r) \/ Handle(r),
           NEW w \in Warehouses, ~Renamed(w)
    PROVE  \/ (w \in open' <=> w \in open) /\ era'[w] = era[w]
           \/ /\ pc[r] = "insertWarehouse" /\ req[r].op = "create" /\ w = Target(r)
              /\ ~Started(w) /\ w \in open' /\ era'[w] = era[w]
           \/ /\ pc[r] = "delete" /\ w = Target(r) /\ Started(w)
              /\ w \notin open' /\ era'[w] > 0
<1>a. Types /\ Levels /\ Desks /\ OpensOnce
    BY DEF IInv, Ledger
<1>1. CASE CreateWarehouse(r) /\ w = Target(r)
  <2>1. pc[r] = "insertWarehouse"
      BY <1>1 DEF CreateWarehouse
  <2>2. req[r].op = "create"
      BY <2>1, <1>a DEF Desks, OperationAt, Reserving, Restocking
  <2>3. ~Started(w)
      BY <1>1, <2>1, <2>2, <1>a DEF OpensOnce, Deals
  <2> QED
      BY <1>1, <2>1, <2>2, <2>3, <1>a DEF CreateWarehouse
<1>2. CASE SaveWrite(r) /\ w = Target(r)
  <2>1. pc[r] = "saveWrite"
      BY <1>2 DEF SaveWrite
  <2>2. req[r].op = "rename"
      BY <2>1, <1>a DEF Desks, OperationAt, Reserving, Restocking
  <2> QED
      BY <1>2, <2>2 DEF Renamed
<1>3. CASE RemoveWarehouse(r) /\ w = Target(r)
  <2>1. pc[r] = "delete"
      BY <1>3 DEF RemoveWarehouse
  <2>2. Started(w)
      BY <1>3, <2>1, <1>a DEF OpensOnce, Deals
  <2>3. w \notin open' /\ era'[w] = era[w] + 1 /\ era[w] \in Nat
      BY <1>3, <1>a DEF RemoveWarehouse, Levels
  <2> QED
      BY <1>3, <2>1, <2>2, <2>3
<1> QED
    BY <1>1, <1>2, <1>3, DoorMoves

\* OpensOnce: what a handler finds open or stocked stays so until the warehouse is gone.
LEMMA OpensOnceStep ==
    ASSUME IInv, Ledger, NEW r \in Requests, Arrive(r) \/ Handle(r)
    PROVE  OpensOnce'
<1>a. Types /\ Levels /\ Tallies /\ Desks /\ Emptied /\ OpensOnce
    BY DEF IInv, Ledger
<1>b. NoLevel \notin Nat
    BY InventoryAssumption
<1>c. Target(r) \in Warehouses /\ Item(r) \in Products /\ Added(r) \in Nat
    BY <1>a, RequestType
<1>d. PICK to \in Onward(r) : pc' = [pc EXCEPT ![r] = to]
    BY <1>a, HandlerMoves
<1>e. req' = req /\ \A s \in Requests : pc'[s] = IF s = r THEN to ELSE pc[s]
    BY <1>a, <1>d, HandlerMoves DEF Types
<1>f. /\ \A s \in Requests : Target(s)' = Target(s) /\ Item(s)' = Item(s)
      /\ \A w \in Warehouses : Renamed(w)' <=> Renamed(w)
    BY <1>e DEF Target, Item, Renamed
<1>1. ASSUME NEW w \in Warehouses, ~Renamed(w)
      PROVE  /\ era'[w] > 0 => w \notin open'
             /\ \A s \in Requests : Target(s) = w => Deals(s, w)'
  <2>0. /\ \/ (w \in open' <=> w \in open) /\ era'[w] = era[w]
           \/ /\ pc[r] = "insertWarehouse" /\ req[r].op = "create" /\ w = Target(r)
              /\ ~Started(w) /\ w \in open' /\ era'[w] = era[w]
           \/ /\ pc[r] = "delete" /\ w = Target(r) /\ Started(w)
              /\ w \notin open' /\ era'[w] > 0
        /\ era[w] > 0 => w \notin open
      BY <1>1, <1>a, DoorOpensOnce DEF OpensOnce
  <2>1. era'[w] > 0 => w \notin open'
      BY <2>0 DEF Started
  <2>2. Started(w) => Started(w)'
      BY <2>0 DEF Started
  <2>3. ASSUME NEW s \in Requests, Target(s) = w PROVE Deals(s, w)'
    <3>0. Deals(s, w)
        BY <2>3, <1>1, <1>a DEF OpensOnce
    <3>1. pc'[s] \in Restocking \cup {"delete"} => Started(w)'
      <4>1. CASE s # r \/ pc[r] \in Restocking \cup {"delete"}
        <5>1. pc'[s] \in Restocking \cup {"delete"} => pc[s] \in Restocking \cup {"delete"}
            BY <4>1, <1>e
        <5> QED
            BY <5>1, <3>0, <2>2 DEF Deals
      <4>2. CASE s = r /\ pc[r] \notin Restocking \cup {"delete"}
                 /\ to \in Restocking \cup {"delete"}
        <5>1. pc[r] \in {"findWarehouse", "find"}
          <6>1. req[r].op \in Operations
              BY <1>a, BodyType DEF Body
          <6> QED
              BY <4>2, <1>d, <6>1 DEF Onward, Restocking, FirstStage, Operations
        <5>2. FindWarehouse(r) \/ Find(r)
            BY <5>1 DEF Handle, Arrive, ReadLevels, Draw, Settle, Increment, InsertLevel,
                        Merge, LogRestock, CreateWarehouse, SaveSelect, SaveWrite,
                        RemoveWarehouse, SetStatus
        <5>3. pc'[r] # "done"
            BY <4>2, <1>e DEF Restocking
        <5>4. w \in open
            BY <2>3, <4>2, <5>2, <5>3, <1>a DEF FindWarehouse, Find, Finish, Goto, Types
        <5> QED
            BY <5>4, <2>2 DEF Started
      <4> QED
          BY <4>1, <4>2, <1>e
    <3>2. req[s].op = "create" /\ pc'[s] \in {"idle", "insertWarehouse"} => ~Started(w)'
      <4> SUFFICES ASSUME req[s].op = "create", pc'[s] \in {"idle", "insertWarehouse"}
                   PROVE  ~Started(w)'
          OBVIOUS
      <4>1. pc[s] \in {"idle", "insertWarehouse"} /\ (s = r => pc[s] = "idle")
        <5>1. pc[r] # "idle" => to \notin {"idle", "insertWarehouse"}
            BY <1>d DEF Onward
        <5>2. pc[r] = "idle" => to # "idle"
          <6>1. req[r].op \in Operations
              BY <1>a, BodyType DEF Body
          <6> QED
              BY <1>d, <6>1 DEF Onward, FirstStage, Operations
        <5> QED
            BY <5>1, <5>2, <1>e
      <4>2. ~Started(w)
          BY <4>1, <3>0 DEF Deals
      <4>3. ~(req[r].op = "create" /\ pc[r] = "insertWarehouse" /\ w = Target(r))
        <5>1. req[r].op = "create" /\ Target(r) = w => r = s
            BY <2>3, InventoryAssumption, <1>a DEF Types, Target
        <5> QED
            BY <4>1, <5>1
      <4> QED
          BY <2>0, <4>2, <4>3 DEF Started
    <3>3. pc'[s] \in {"merge", "logRestock"} /\ w \in open' => Has(w, Item(s))'
      <4> SUFFICES ASSUME pc'[s] \in {"merge", "logRestock"}, w \in open'
                   PROVE  Has(w, Item(s))'
          OBVIOUS
      <4>p. PICK p \in Products : p = Item(s)
          BY <1>a, RequestType
      <4>c. CellStep(r, w, p) /\ ~(RemoveWarehouse(r) /\ w = Target(r))
          BY CellMoves DEF RemoveWarehouse
      <4>1. Has(w, p) => Has(w, p)'
        <5>1. level[w][p] \in Nat \cup {NoLevel}
            BY <1>a DEF Levels
        <5> QED
            BY <5>1, <4>c, <1>b, <1>c DEF CellStep, Cell, Has
      <4>2. CASE pc[s] \in {"merge", "logRestock"}
        <5>1. Started(w)
            BY <4>2, <3>0 DEF Deals, Restocking
        <5>2. w \in open
            BY <2>0, <5>1
        <5> QED
            BY <4>1, <4>2, <4>p, <5>2, <3>0, <1>f DEF Deals
      <4>3. CASE pc[s] \notin {"merge", "logRestock"}
        <5>1. s = r /\ pc[r] \in {"increment", "insertLevel"}
          <6>1. s = r /\ to \in {"merge", "logRestock"}
              BY <4>3, <1>e
          <6>2. req[r].op \in Operations
              BY <1>a, BodyType DEF Body
          <6> QED
              BY <4>3, <6>1, <6>2, <1>d DEF Onward, FirstStage, Operations
        <5>2. Increment(r) \/ InsertLevel(r)
            BY <5>1 DEF Handle, Arrive, ReadLevels, Draw, Settle, FindWarehouse, Find,
                        Merge, LogRestock, CreateWarehouse, SaveSelect, SaveWrite,
                        RemoveWarehouse, SetStatus
        <5>3. pc'[r] \notin {"insertLevel", "done"}
            BY <5>1
        <5>4. Has(w, p) \/ level'[w][p] = Added(r)
            BY <2>3, <4>p, <5>1, <5>2, <5>3, <1>a, <1>c
               DEF Increment, InsertLevel, Goto, Finish, Types, Levels
        <5> QED
            BY <5>4, <4>1, <4>p, <1>b, <1>c, <1>f DEF Has
      <4> QED
          BY <4>2, <4>3
    <3> QED
        BY <3>1, <3>2, <3>3, <1>e DEF Deals
  <2> QED
      BY <2>1, <2>3
<1> QED
    BY <1>1, <1>f DEF OpensOnce

\* Units are unlogged while their restock has its event to write.
LEMMA UnloggedMoves ==
    ASSUME Types, NEW r \in Requests, req' = req,
           \A s \in Requests \ {r} : pc'[s] = pc[s], NEW w, NEW p
    PROVE  LET mine == Target(r) = w /\ Item(r) = p
           IN  /\ Unlogged(w, p) \in Nat
               /\ Unlogged(w, p)' =
                     Unlogged(w, p) - (IF pc[r] = "logRestock" /\ mine THEN Added(r) ELSE 0)
                                    + (IF pc'[r] = "logRestock" /\ mine THEN Added(r) ELSE 0)
<1> DEFINE F == [s \in Requests |-> Added(s)]
           S == {s \in Requests : pc[s] = "logRestock" /\ Target(s) = w /\ Item(s) = p}
           T == {s \in Requests : pc'[s] = "logRestock" /\ Target(s) = w /\ Item(s) = p}
<1>1. Unlogged(w, p) = SumFunctionOnSet(F, S)
    BY DEF Unlogged
<1>2. Unlogged(w, p)' = SumFunctionOnSet(F, T)
  <2>1. \A s \in Requests : Target(s)' = Target(s) /\ Item(s)' = Item(s) /\ Added(s)' = Added(s)
      BY DEF Target, Item, Added
  <2>2. F' = F
      BY <2>1
  <2>3. {s \in Requests : pc'[s] = "logRestock" /\ Target(s)' = w /\ Item(s)' = p} = T
      BY <2>1
  <2>4. Unlogged(w, p)' = SumFunctionOnSet(F', {s \in Requests : /\ pc'[s] = "logRestock"
                                                            /\ Target(s)' = w /\ Item(s)' = p})
      BY DEF Unlogged
  <2> QED
      BY <2>2, <2>3, <2>4
<1>3. /\ S \ {r} = T \ {r} /\ S \subseteq Requests /\ T \subseteq Requests
      /\ r \in S <=> pc[r] = "logRestock" /\ Target(r) = w /\ Item(r) = p
      /\ r \in T <=> pc'[r] = "logRestock" /\ Target(r) = w /\ Item(r) = p
    OBVIOUS
<1>4. \A s \in Requests : F[s] = Added(s) /\ F[s] \in Nat
    BY RequestType
<1> HIDE DEF F, S, T
<1>5. IsFiniteSet(S) /\ IsFiniteSet(T)
    BY <1>3, InventoryAssumption, FS_Subset
<1>6. SumFunctionOnSet(F, S) \in Nat
    BY <1>3, <1>4, <1>5, SumNat
<1>7. SumFunctionOnSet(F, T)
         = SumFunctionOnSet(F, S) - (IF r \in S THEN F[r] ELSE 0) + (IF r \in T THEN F[r] ELSE 0)
  <2>1. \A s \in S \cup T : F[s] \in Int
      BY <1>3, <1>4
  <2> QED
      BY <1>3, <1>5, <2>1, SumMoved
<1> QED
    BY <1>1, <1>2, <1>3, <1>4, <1>6, <1>7

\* Each restock adds units to a level before it logs them; until then they are unlogged.
LEMMA StockStep ==
    ASSUME IInv, Ledger, NEW r \in Requests, Arrive(r) \/ Handle(r)
    PROVE  StockAddsUp'
<1>a. Types /\ Levels /\ Tallies /\ Emptied /\ OpensOnce /\ StockAddsUp
    BY DEF IInv, Ledger
<1>b. NoLevel \notin Nat
    BY InventoryAssumption
<1>c. Target(r) \in Warehouses /\ Item(r) \in Products /\ Added(r) \in Nat
    BY <1>a, RequestType
<1>d. PICK to \in Onward(r) : pc' = [pc EXCEPT ![r] = to]
    BY <1>a, HandlerMoves
<1>e. /\ req' = req /\ crashes' = crashes
      /\ \A s \in Requests : pc'[s] = IF s = r THEN to ELSE pc[s]
    BY <1>a, <1>d, HandlerMoves DEF Types
<1>f. \A w \in Warehouses : Renamed(w)' <=> Renamed(w)
    BY <1>e DEF Renamed, Target
<1>1. ASSUME NEW w \in Warehouses, NEW p \in Products, Has(w, p)', ~Renamed(w)
      PROVE  /\ level'[w][p] + drawn'[w][p] >= restocked'[w][p] + Unlogged(w, p)'
             /\ crashes = 0 =>
                   level'[w][p] + drawn'[w][p] = restocked'[w][p] + Unlogged(w, p)'
  <2> DEFINE mine == Target(r) = w /\ Item(r) = p
             logs == pc[r] = "logRestock" /\ mine
             adds == to = "logRestock" /\ mine
  <2>1. /\ Unlogged(w, p) \in Nat
        /\ Unlogged(w, p)' = Unlogged(w, p) - (IF logs THEN Added(r) ELSE 0)
                                            + (IF adds THEN Added(r) ELSE 0)
      BY <1>a, <1>e, UnloggedMoves
  <2>2. CellStep(r, w, p)
      BY CellMoves
  <2>3. /\ restocked[w][p] \in Nat /\ drawn[w][p] \in Nat
        /\ Has(w, p) => level[w][p] \in Nat
      BY <1>a DEF Tallies, Levels, Has
  <2>4. Has(w, p) => /\ level[w][p] + drawn[w][p] >= restocked[w][p] + Unlogged(w, p)
                     /\ crashes = 0 =>
                           level[w][p] + drawn[w][p] = restocked[w][p] + Unlogged(w, p)
      BY <1>1, <1>a DEF StockAddsUp
  <2>s. w \in open
    <3>1. w \in open'
        BY <1>1, EmptiedStep DEF Emptied
    <3>2. ~(pc[r] = "insertWarehouse" /\ ~Started(w) /\ w \in open' /\ w \notin open
            /\ Cell(w, p)' # Cell(w, p))
        BY <2>2 DEF CellStep, Draw, Increment, Merge, InsertLevel, LogRestock, RemoveWarehouse
    <3>3. w \notin open => Cell(w, p)' # Cell(w, p)
        BY <1>1, <1>a DEF Emptied, Has, Cell
    <3> QED
        BY <1>1, <3>1, <3>2, <3>3, DoorOpensOnce
  <2>5. CASE logs
    <3>1. LogRestock(r) /\ ~adds
      <4>1. LogRestock(r)
          BY <2>5 DEF Handle, Arrive, ReadLevels, Draw, Settle, FindWarehouse, Find,
                      Increment, InsertLevel, Merge, CreateWarehouse, SaveSelect, SaveWrite,
                      RemoveWarehouse, SetStatus
      <4>2. to = "done"
          BY <2>5, <1>d DEF Onward
      <4> QED
          BY <4>1, <4>2
    <3>2. level'[w][p] = level[w][p] /\ drawn'[w][p] = drawn[w][p]
          /\ restocked'[w][p] = restocked[w][p] + Added(r)
        BY <2>5, <2>s, <3>1, <1>a, <1>c DEF LogRestock, Tallies
    <3>3. Has(w, p)
        BY <1>1, <3>2 DEF Has
    <3> QED
        BY <2>1, <2>3, <2>4, <2>5, <3>1, <3>2, <3>3, <1>c
  <2>6. CASE adds /\ ~logs
    <3>1. Increment(r) \/ InsertLevel(r) \/ Merge(r)
      <4>1. pc[r] \in {"increment", "insertLevel", "merge"}
        <5>1. req[r].op \in Operations
            BY <1>a, BodyType DEF Body
        <5> QED
            BY <2>6, <1>d, <5>1 DEF Onward, FirstStage, Operations
      <4> QED
          BY <4>1 DEF Handle, Arrive, ReadLevels, Draw, Settle, FindWarehouse, Find,
                      LogRestock, CreateWarehouse, SaveSelect, SaveWrite, RemoveWarehouse,
                      SetStatus
    <3>2. restocked' = restocked /\ drawn' = drawn
        BY <3>1 DEF Increment, InsertLevel, Merge
    <3>3. CASE Has(w, p)
      <4>1. Increase(r)
        <5>1. pc'[r] = "logRestock"
            BY <2>6, <1>e
        <5> QED
            BY <2>6, <2>s, <3>1, <3>3, <5>1, <1>a
               DEF Increment, InsertLevel, Merge, Goto, Finish, Types
      <4>2. level'[w][p] = level[w][p] + Added(r)
          BY <2>6, <4>1, <1>a, <1>c DEF Increase, Levels
      <4> QED
          BY <2>1, <2>3, <2>4, <2>6, <3>2, <3>3, <4>2, <1>c
    <3>4. CASE ~Has(w, p)
      <4>1. level'[w][p] = Added(r)
          BY <2>2, <3>1, <3>4, <1>1 DEF CellStep, Cell, Has, Draw, Increment, InsertLevel, Merge,
                                        LogRestock, RemoveWarehouse
      <4>2. restocked[w][p] = 0 /\ drawn[w][p] = 0
          BY <3>4, <1>1, <1>a DEF Emptied
      <4>3. \A s \in Requests : pc[s] = "logRestock" => Target(s) # w \/ Item(s) # p
          BY <3>4, <2>s, <1>1, <1>a DEF OpensOnce, Deals
      <4>4. Unlogged(w, p) = 0
          BY <4>3, NothingUnlogged
      <4> QED
          BY <2>1, <2>6, <3>2, <4>1, <4>2, <4>4, <1>c
    <3> QED
        BY <3>3, <3>4
  <2>7. CASE ~adds /\ ~logs
    <3>1. Unlogged(w, p)' = Unlogged(w, p)
        BY <2>1, <2>7
    <3>2. CASE Cell(w, p)' = Cell(w, p)
        BY <2>3, <2>4, <3>1, <3>2, <1>1 DEF Cell, Has
    <3>3. CASE Cell(w, p)' # Cell(w, p)
      <4>1. ~RemoveWarehouse(r) \/ w # Target(r)
          BY <1>1, EmptiedStep DEF RemoveWarehouse, Emptied
      <4>2. ~(Increment(r) /\ mine /\ Has(w, p)) /\ ~(Merge(r) /\ mine)
          BY <2>7, <1>e, <1>a DEF Increment, Merge, Goto, Types
      <4>3. ~(InsertLevel(r) /\ mine /\ ~Has(w, p) /\ w \in open)
          BY <2>7, <1>e, <1>a DEF InsertLevel, Goto, Types
      <4>4. ~(LogRestock(r) /\ mine)
          BY <2>7 DEF LogRestock
      <4>5. PICK units \in Nat :
                /\ Has(w, p) /\ level[w][p] >= units
                /\ Cell(w, p)' = <<level[w][p] - units, restocked[w][p], drawn[w][p] + units>>
          BY <2>2, <3>3, <4>1, <4>2, <4>3, <4>4 DEF CellStep
      <4> QED
          BY <2>3, <2>4, <3>1, <4>5 DEF Cell
    <3> QED
        BY <3>2, <3>3
  <2> QED
      BY <2>5, <2>6, <2>7
<1> QED
    BY <1>1, <1>e, <1>f DEF StockAddsUp

\* Sums over the positions of a sequence of natural numbers, and over one more.
LEMMA SeqSum ==
    ASSUME NEW q \in Seq(Nat), NEW S, S \subseteq DOMAIN q
    PROVE  IsFiniteSet(S) /\ SumFunctionOnSet(q, S) \in Nat
<1>1. DOMAIN q = 1..Len(q) /\ Len(q) \in Nat /\ \A i \in DOMAIN q : q[i] \in Nat
    OBVIOUS
<1>2. IsFiniteSet(S)
  <2>1. PICK m \in Nat : DOMAIN q = 1..m
      BY <1>1
  <2>2. IsFiniteSet(1..m)
      BY FS_Interval
  <2> QED
      BY <2>1, <2>2, FS_Subset
<1> QED
    BY <1>1, <1>2, SumNat

\* The sum of s at the places whose line asks for p.
Places(s, lines, p) == {i \in DOMAIN s : lines[i].product = p}
SumOver(s, lines, p) == SumFunctionOnSet(s, Places(s, lines, p))

LEMMA AppendSum ==
    ASSUME NEW q \in Seq(Nat), NEW n \in Nat, NEW lines, NEW p
    PROVE  SumOver(Append(q, n), lines, p)
              = SumOver(q, lines, p) + (IF lines[Len(q) + 1].product = p THEN n ELSE 0)
<1>0. PICK z, k, S, T : /\ z = Append(q, n) /\ k = Len(q) + 1
                        /\ S = Places(q, lines, p) /\ T = Places(z, lines, p)
    OBVIOUS
<1>1. z \in Seq(Nat)
    BY <1>0
<1>2. /\ DOMAIN q = 1..(k - 1) /\ DOMAIN z = 1..k /\ k \in Nat
      /\ z[k] = n /\ \A i \in DOMAIN q : z[i] = q[i]
    BY <1>0
<1>3. T \ {k} = S /\ (k \in T <=> lines[k].product = p) /\ S \subseteq DOMAIN q
    BY <1>0, <1>2 DEF Places
<1>4. IsFiniteSet(T) /\ (\A i \in T : z[i] \in Int) /\ SumFunctionOnSet(q, S) \in Nat
  <2>1. T \subseteq DOMAIN z /\ S \subseteq DOMAIN q
      BY <1>0 DEF Places
  <2>2. IsFiniteSet(T)
      BY <1>1, <2>1, SeqSum
  <2>3. SumFunctionOnSet(q, S) \in Nat
      BY <2>1, SeqSum
  <2>4. \A i \in DOMAIN z : z[i] \in Nat
      BY <1>1
  <2> QED
      BY <2>1, <2>2, <2>3, <2>4
<1>5. PICK f, g, U, V : f = q /\ g = z /\ U = S /\ V = T
    OBVIOUS
<1>6. /\ IsFiniteSet(V) /\ (\A i \in V : g[i] \in Int) /\ U = V \ {k}
      /\ SumFunctionOnSet(f, U) \in Nat /\ (\A i \in U : g[i] = f[i])
      /\ (k \in V <=> lines[k].product = p)
    BY <1>2, <1>3, <1>4, <1>5
<1>7. SumFunctionOnSet(g, U) = SumFunctionOnSet(f, U)
  <2>1. IsFiniteSet(U)
      BY <1>6, FS_Subset
  <2> QED
      BY <1>6, <2>1, SumSame
<1>8. k \in V => SumFunctionOnSet(g, V) = g[k] + SumFunctionOnSet(f, U)
  <2>1. \A i \in V : SumFunctionOnSet(g, V) = g[i] + SumFunctionOnSet(g, V \ {i})
      BY <1>6, SumWithout
  <2>2. SumFunctionOnSet(g, V \ {k}) = SumFunctionOnSet(f, U)
      BY <1>6, <1>7, Zenon
  <2> QED
      BY <2>1, <2>2
<1>9. k \notin V => SumFunctionOnSet(g, V) = SumFunctionOnSet(f, U)
  <2>1. k \notin V => V = U
      BY <1>6
  <2> QED
      BY <1>7, <2>1
<1>10. g[k] = n
    BY <1>2, <1>5
<1>11. SumFunctionOnSet(g, V)
          = SumFunctionOnSet(f, U) + (IF lines[k].product = p THEN n ELSE 0)
    BY <1>6, <1>8, <1>9, <1>10
<1> QED
    BY <1>0, <1>5, <1>11, Zenon DEF SumOver

\* A step of r leaves the reservations of the others alone.
LEMMA OthersStay ==
    ASSUME IInv, NEW r \in Requests, Arrive(r) \/ Handle(r)
    PROVE  /\ req' = req
           /\ \A s \in Requests \ {r} :
                 /\ pc'[s] = pc[s] /\ line'[s] = line[s] /\ remaining'[s] = remaining[s]
                 /\ reserved'[s] = reserved[s] /\ todo'[s] = todo[s]
<1>a. Types
    BY DEF IInv
<1>1. req' = req /\ \A s \in Requests \ {r} : pc'[s] = pc[s]
    BY <1>a, HandlerMoves DEF Types
<1>2. CASE ReadLevels(r)
    BY <1>1, <1>2, <1>a DEF ReadLevels, Types
<1>3. CASE Draw(r)
  <2>1. PICK row \in todo[r], units \in Nat : Takes(r, row, units)
      BY <1>3, DrawShape
  <2> QED
      BY <1>1, <1>3, <2>1, <1>a DEF Draw, Takes, Types
<1>4. CASE Settle(r)
    BY <1>1, <1>4, <1>a DEF Settle, Types
<1>5. CASE UNCHANGED reserving
    BY <1>1, <1>5 DEF reserving
<1>6. CASE \/ Arrive(r) \/ FindWarehouse(r) \/ Increment(r) \/ InsertLevel(r) \/ Merge(r)
           \/ LogRestock(r) \/ CreateWarehouse(r) \/ Find(r) \/ SaveSelect(r) \/ SaveWrite(r)
           \/ RemoveWarehouse(r) \/ SetStatus(r)
    BY <1>6, <1>5 DEF Arrive, FindWarehouse, Increment, InsertLevel, Merge, LogRestock,
                      CreateWarehouse, Find, SaveSelect, SaveWrite, RemoveWarehouse, SetStatus
<1> QED
    BY <1>2, <1>3, <1>4, <1>6 DEF Handle

\* What r holds of p, half done.
Held(r, p) == IF r \in Drawing(p) THEN Current(r).quantity - remaining[r] ELSE 0

AllPromised(p) == SumFunctionOnSet([r \in Requests |-> Promised(r, p)], Requests)
AllHeld(p) ==
    SumFunctionOnSet([r \in Requests |-> Current(r).quantity - remaining[r]], Drawing(p))
AllDrawn(p) == SumFunctionOnSet([w \in Warehouses |-> drawn[w][p]], Warehouses)

LEMMA BackedMeans ==
    PromisesAreBacked <=>
        \A p \in Products :
            TrackedFromStart(p) /\ ~Removes /\ crashes = 0 =>
                AllPromised(p) + AllHeld(p) = AllDrawn(p)
BY DEF PromisesAreBacked, AllPromised, AllHeld, AllDrawn, SumFunction

\* What a step of r does to the sums of promises and of what is held.
LEMMA PromiseMoves ==
    ASSUME IInv, IInv', NEW r \in Requests, Arrive(r) \/ Handle(r), NEW p \in Products
    PROVE  /\ {AllPromised(p), AllHeld(p), Promised(r, p), Promised(r, p)',
               Held(r, p), Held(r, p)'} \subseteq Int
           /\ AllPromised(p)' = AllPromised(p) - Promised(r, p) + Promised(r, p)'
           /\ AllHeld(p)' = AllHeld(p) - Held(r, p) + Held(r, p)'
<1>a. Types /\ Progress /\ Types' /\ Progress'
    BY DEF IInv
<1>b. /\ req' = req
      /\ \A s \in Requests \ {r} :
            /\ pc'[s] = pc[s] /\ line'[s] = line[s] /\ remaining'[s] = remaining[s]
            /\ reserved'[s] = reserved[s]
    BY OthersStay
<1> DEFINE A == [s \in Requests |-> Promised(s, p)]
           X == [s \in Requests |-> Promised(s, p)']
           B == [s \in Requests |-> Current(s).quantity - remaining[s]]
           Y == [s \in Requests |-> Current(s)'.quantity - remaining'[s]]
           S == Drawing(p)
           T == Drawing(p)'
<1>1. /\ AllPromised(p) = SumFunctionOnSet(A, Requests)
      /\ AllPromised(p)' = SumFunctionOnSet(X, Requests)
      /\ AllHeld(p) = SumFunctionOnSet(B, S)
      /\ AllHeld(p)' = SumFunctionOnSet(Y, T)
    BY DEF AllPromised, AllHeld
<1>2. ASSUME NEW s \in Requests PROVE A[s] \in Int /\ X[s] \in Int
  <2>1. reserved[s] \in Seq(Nat) /\ reserved'[s] \in Seq(Nat)
      BY <1>a DEF Types
  <2>2. Promised(s, p) \in Int /\ Promised(s, p)' \in Int
      BY <2>1, SeqSum DEF Promised
  <2> QED
      BY <2>2
<1>3. ASSUME NEW s \in Requests PROVE B[s] \in Int /\ Y[s] \in Int
  <2>1. remaining[s] \in Nat /\ remaining'[s] \in Nat
      BY <1>a DEF Types
  <2>2. Current(s).quantity \in Nat
      BY <1>a, CurrentType
  <2>3. Current(s)'.quantity \in Nat
    <3>1. line'[s] \in DOMAIN req[s].lines
        BY <1>a, <1>b DEF Progress
    <3>2. Current(s)' = req[s].lines[line'[s]]
        BY <1>b DEF Current
    <3> QED
        BY <3>1, <3>2, <1>a, BodyType
  <2> QED
      BY <2>1, <2>2, <2>3
<1>4. \A s \in Requests \ {r} : A[s] = X[s] /\ B[s] = Y[s]
    BY <1>b DEF Promised, Current
<1>5. S \ {r} = T \ {r} /\ S \subseteq Requests /\ T \subseteq Requests
    BY <1>b DEF Drawing, Current
<1>6. /\ A[r] = Promised(r, p) /\ X[r] = Promised(r, p)'
      /\ Held(r, p) = (IF r \in S THEN B[r] ELSE 0)
      /\ Held(r, p)' = (IF r \in T THEN Y[r] ELSE 0)
    BY DEF Held
<1> HIDE DEF A, X, B, Y, S, T
<1>7. IsFiniteSet(Requests) /\ IsFiniteSet(S) /\ IsFiniteSet(T)
    BY <1>5, InventoryAssumption, FS_Subset
<1>8. /\ SumFunctionOnSet(A, Requests) \in Int
      /\ SumFunctionOnSet(B, S) \in Int
    BY <1>2, <1>3, <1>5, <1>7, SumWithout
<1>9. SumFunctionOnSet(X, Requests) = SumFunctionOnSet(A, Requests) - A[r] + X[r]
  <2>1. SumFunctionOnSet(X, Requests)
           = SumFunctionOnSet(A, Requests) - (IF r \in Requests THEN A[r] ELSE 0)
                                           + (IF r \in Requests THEN X[r] ELSE 0)
      BY <1>2, <1>4, <1>7, SumMoved
  <2> QED
      BY <2>1
<1>10. SumFunctionOnSet(Y, T)
          = SumFunctionOnSet(B, S) - (IF r \in S THEN B[r] ELSE 0) + (IF r \in T THEN Y[r] ELSE 0)
  <2>1. (\A s \in S : B[s] \in Int) /\ (\A s \in T : Y[s] \in Int)
      BY <1>3, <1>5
  <2>2. \A s \in S \ {r} : B[s] = Y[s]
      BY <1>4, <1>5
  <2> QED
      BY <1>5, <1>7, <2>1, <2>2, SumMoved
<1> QED
    BY <1>1, <1>2, <1>3, <1>6, <1>8, <1>9, <1>10

\* Where no warehouse is removed, a level stays.
LEMMA LevelsStay ==
    ASSUME IInv, Ledger, NEW r \in Requests, Arrive(r) \/ Handle(r), ~Removes
    PROVE  /\ ~RemoveWarehouse(r)
           /\ \A w \in Warehouses, p \in Products : Has(w, p) => Has(w, p)'
<1>a. Levels /\ Types /\ Desks
    BY DEF IInv, Ledger
<1>1. ~RemoveWarehouse(r)
    BY <1>a DEF RemoveWarehouse, Desks, OperationAt, Reserving, Restocking, Removes
<1>2. ASSUME NEW w \in Warehouses, NEW p \in Products, Has(w, p) PROVE Has(w, p)'
  <2>1. CellStep(r, w, p)
      BY CellMoves
  <2>2. level[w][p] \in Nat /\ Added(r) \in Nat /\ NoLevel \notin Nat
      BY <1>2, <1>a, RequestType, InventoryAssumption DEF Levels, Has
  <2>3. level'[w][p] \in Nat
      BY <1>1, <1>2, <2>1, <2>2 DEF CellStep, Cell
  <2> QED
      BY <2>2, <2>3 DEF Has
<1> QED
    BY <1>1, <1>2

\* A draw moves as many units to what is drawn as it takes off what is wanted.
LEMMA DrawnMoves ==
    ASSUME IInv, Ledger, NEW r \in Requests, NEW row, NEW units \in Nat,
           Takes(r, row, units), NEW p \in Products
    PROVE  /\ AllDrawn(p) \in Int
           /\ AllDrawn(p)' = AllDrawn(p) + (IF Current(r).product = p THEN units ELSE 0)
<1>a. Types /\ Progress /\ Tallies
    BY DEF IInv, Ledger
<1>b. drawn \in [Warehouses -> [Products -> Nat]]
    BY <1>a DEF Tallies
<1> DEFINE F == [v \in Warehouses |-> drawn[v][p]]
           G == [v \in Warehouses |-> drawn'[v][p]]
<1>1. AllDrawn(p) = SumFunctionOnSet(F, Warehouses)
      /\ AllDrawn(p)' = SumFunctionOnSet(G, Warehouses)
    BY DEF AllDrawn
<1>2. PICK w \in Warehouses, q \in Products : w = row.warehouse /\ q = Current(r).product
    BY <1>a, CurrentType DEF Takes, Row
<1>3. \/ units = 0 /\ drawn' = drawn
      \/ drawn' = [drawn EXCEPT ![w][q] = drawn[w][q] + units]
    BY <1>2 DEF Takes
<1>4. \A v \in Warehouses : F[v] \in Int
    BY <1>b
<1>5. \A v \in Warehouses :
        G[v] = F[v] + (IF v = w /\ q = p THEN units ELSE 0)
  <2>1. CASE units = 0 /\ drawn' = drawn
      BY <2>1, <1>b
  <2>2. CASE drawn' = [drawn EXCEPT ![w][q] = drawn[w][q] + units]
    <3>1. drawn[w][q] + units \in Nat
        BY <1>b
    <3>2. \A v \in Warehouses : drawn'[v][p] = IF v = w /\ p = q THEN drawn[w][q] + units
                                               ELSE drawn[v][p]
        BY <2>2, <3>1, <1>b, CellChange
    <3> QED
        BY <3>2, <1>b
  <2> QED
      BY <1>3, <2>1, <2>2
<1> HIDE DEF F, G
<1>6. \A v \in Warehouses : G[v] \in Int
    BY <1>4, <1>5
<1>f. IsFiniteSet(Warehouses)
    BY InventoryAssumption
<1>7. SumFunctionOnSet(F, Warehouses) \in Int
    BY <1>4, <1>f, SumWithout
<1>8. SumFunctionOnSet(G, Warehouses) = SumFunctionOnSet(F, Warehouses) - F[w] + G[w]
  <2>1. \A v \in Warehouses \ {w} : F[v] = G[v]
      BY <1>4, <1>5
  <2>2. SumFunctionOnSet(G, Warehouses)
           = SumFunctionOnSet(F, Warehouses) - (IF w \in Warehouses THEN F[w] ELSE 0)
                                             + (IF w \in Warehouses THEN G[w] ELSE 0)
      BY <1>4, <1>6, <1>f, <2>1, SumMoved
  <2> QED
      BY <2>2
<1> QED
    BY <1>1, <1>2, <1>4, <1>5, <1>7, <1>8

\* A line that is settled turns what its order held into a promise.
LEMMA SettleMoves ==
    ASSUME IInv, Ledger, NEW r \in Requests, Settle(r), NEW p \in Products
    PROVE  /\ Promised(r, p) \in Int /\ Held(r, p) \in Int
           /\ Promised(r, p)' = Promised(r, p) + Held(r, p)
           /\ Held(r, p)' = 0
<1>a. Types /\ Progress
    BY DEF IInv
<1>b. /\ pc[r] = "settle" /\ req' = req
      /\ reserved'[r] = Append(reserved[r], Current(r).quantity - remaining[r])
      /\ pc'[r] \in {"read", "done"}
    BY <1>a DEF Settle, Finish, Goto, Types
<1>c. /\ reserved[r] \in Seq(Nat) /\ Len(reserved[r]) + 1 = line[r]
      /\ Current(r).quantity \in Nat /\ remaining[r] \in Nat
      /\ remaining[r] <= Current(r).quantity
  <2>1. line[r] \in Nat /\ Len(reserved[r]) = line[r] - 1 /\ remaining[r] <= Current(r).quantity
      BY <1>a, <1>b DEF Types, Progress
  <2> QED
      BY <2>1, <1>a, CurrentType DEF Types
<1>1. PICK n \in Nat : n = Current(r).quantity - remaining[r]
    BY <1>c
<1>2. Held(r, p) = IF req[r].lines[line[r]].product = p THEN n ELSE 0
    BY <1>b, <1>1 DEF Held, Drawing, Current
<1>3. Promised(r, p)' = Promised(r, p) + Held(r, p)
  <2>1. SumOver(Append(reserved[r], n), req[r].lines, p)
           = SumOver(reserved[r], req[r].lines, p)
                + (IF req[r].lines[line[r]].product = p THEN n ELSE 0)
      BY <1>c, AppendSum
  <2>2. /\ Promised(r, p) = SumOver(reserved[r], req[r].lines, p)
        /\ Promised(r, p)' = SumOver(Append(reserved[r], n), req[r].lines, p)
      BY <1>b, <1>1 DEF Promised, SumOver, Places
  <2> QED
      BY <2>1, <2>2, <1>2
<1>4. Promised(r, p) \in Nat
    BY <1>c, SeqSum DEF Promised
<1>5. Held(r, p)' = 0
    BY <1>b DEF Held, Drawing
<1> QED
    BY <1>1, <1>2, <1>3, <1>4, <1>5

\* Backed: units move from the levels to what is held, and from there to promises.
LEMMA BackedStep ==
    ASSUME IInv, IInv', Ledger, NEW r \in Requests, Arrive(r) \/ Handle(r)
    PROVE  Backed'
<1>a. Types /\ Levels /\ Progress /\ Tallies /\ Desks /\ Backed /\ Types' /\ Progress'
    BY DEF IInv, Ledger
<1>b. req' = req /\ crashes' = crashes
    BY <1>a, HandlerMoves
<1>c. (Removes' <=> Removes) /\ \A p : TrackedFromStart(p)' <=> TrackedFromStart(p)
    BY <1>b DEF Removes, TrackedFromStart
<1>d. InitialLevel \in [Warehouses -> [Products -> Nat \cup {NoLevel}]]
    BY InventoryAssumption
<1>1. ~Removes => \A w \in Warehouses, p \in Products :
                     InitialLevel[w][p] # NoLevel => Has(w, p)'
    BY <1>a, LevelsStay DEF Backed
<1>2. ASSUME NEW p \in Products, TrackedFromStart(p), ~Removes, crashes = 0
      PROVE  AllPromised(p)' + AllHeld(p)' = AllDrawn(p)'
  <2>1. AllPromised(p) + AllHeld(p) = AllDrawn(p)
      BY <1>2, <1>a, BackedMeans DEF Backed
  <2>2. /\ {AllPromised(p), AllHeld(p), Promised(r, p), Promised(r, p)',
            Held(r, p), Held(r, p)'} \subseteq Int
        /\ AllPromised(p)' = AllPromised(p) - Promised(r, p) + Promised(r, p)'
        /\ AllHeld(p)' = AllHeld(p) - Held(r, p) + Held(r, p)'
      BY PromiseMoves
  <2>3. drawn' = drawn => AllDrawn(p)' = AllDrawn(p)
      BY DEF AllDrawn
  <2>4. reserved' = reserved => Promised(r, p)' = Promised(r, p)
      BY <1>b DEF Promised
  <2>5. CASE Draw(r)
    <3>1. PICK row \in todo[r], units \in Nat : Takes(r, row, units)
        BY <2>5, DrawShape
    <3>2. /\ AllDrawn(p) \in Int
          /\ AllDrawn(p)' = AllDrawn(p) + (IF Current(r).product = p THEN units ELSE 0)
        BY <3>1, DrawnMoves
    <3>3. reserved' = reserved /\ Current(r)' = Current(r) /\ pc[r] = "draw"
        BY <2>5, <1>b DEF Draw, Current
    <3>4. pc'[r] \in {"draw", "settle"} /\ remaining'[r] = remaining[r] - units
        BY <3>1, <3>3, <1>a DEF Takes, Types
    <3>5. remaining[r] \in Nat /\ Current(r).quantity \in Nat
        BY <1>a, CurrentType DEF Types
    <3>6. /\ Held(r, p) = IF Current(r).product = p
                          THEN Current(r).quantity - remaining[r] ELSE 0
          /\ Held(r, p)' = IF Current(r).product = p
                           THEN Current(r).quantity - (remaining[r] - units) ELSE 0
      <4>1. /\ r \in Drawing(p) <=> Current(r).product = p
            /\ r \in Drawing(p)' <=> Current(r).product = p
          BY <3>3, <3>4 DEF Drawing
      <4> QED
          BY <3>3, <3>4, <4>1 DEF Held
    <3> QED
        BY <2>1, <2>2, <2>4, <3>2, <3>3, <3>5, <3>6
  <2>6. CASE ReadLevels(r)
    <3>1. /\ reserved' = reserved /\ drawn' = drawn /\ Current(r)' = Current(r)
          /\ pc[r] = "read"
        BY <2>6, <1>b DEF ReadLevels, Current, database
    <3>2. Held(r, p) = 0
        BY <3>1 DEF Held, Drawing
    <3>3. Held(r, p)' = 0
      <4>1. CASE Current(r).product = p
        <5>1. PICK w \in Warehouses : InitialLevel[w][p] # NoLevel
            BY <1>2 DEF TrackedFromStart
        <5>2. Has(w, p)
            BY <5>1, <1>2, <1>a DEF Backed
        <5>3. LevelsOf(p) # {}
            BY <5>2 DEF LevelsOf
        <5>4. remaining'[r] = Current(r).quantity
            BY <2>6, <4>1, <5>3, <1>a DEF ReadLevels, Types
        <5>5. Current(r).quantity \in Nat
            BY <1>a, CurrentType
        <5> QED
            BY <3>1, <5>4, <5>5 DEF Held
      <4>2. CASE Current(r).product # p
          BY <3>1, <4>2 DEF Held, Drawing
      <4> QED
          BY <4>1, <4>2
    <3> QED
        BY <2>1, <2>2, <2>3, <2>4, <3>1, <3>2, <3>3
  <2>7. CASE Settle(r)
    <3>1. Promised(r, p)' = Promised(r, p) + Held(r, p) /\ Held(r, p)' = 0
        BY <2>7, SettleMoves
    <3>2. drawn' = drawn
        BY <2>7 DEF Settle
    <3> QED
        BY <2>1, <2>2, <2>3, <3>1, <3>2
  <2>8. CASE \/ Arrive(r) \/ FindWarehouse(r) \/ Increment(r) \/ InsertLevel(r) \/ Merge(r)
             \/ LogRestock(r) \/ CreateWarehouse(r) \/ Find(r) \/ SaveSelect(r)
             \/ SaveWrite(r) \/ SetStatus(r)
    <3>1. reserved' = reserved /\ drawn' = drawn
        BY <2>8 DEF Arrive, FindWarehouse, Increment, InsertLevel, Merge, LogRestock,
                    CreateWarehouse, Find, SaveSelect, SaveWrite, SetStatus, database, reserving
    <3>2. pc[r] \notin {"draw", "settle"}
        BY <2>8 DEF Arrive, FindWarehouse, Increment, InsertLevel, Merge, LogRestock,
                    CreateWarehouse, Find, SaveSelect, SaveWrite, SetStatus
    <3>3. pc'[r] \notin {"draw", "settle"}
      <4>1. PICK to \in Onward(r) : pc' = [pc EXCEPT ![r] = to]
          BY <1>a, HandlerMoves
      <4>2. pc[r] # "read" /\ req[r].op \in Operations
          BY <2>8, <1>a, BodyType
             DEF Arrive, FindWarehouse, Increment, InsertLevel, Merge, LogRestock,
                 CreateWarehouse, Find, SaveSelect, SaveWrite, SetStatus, Body
      <4>3. to \notin {"draw", "settle"}
          BY <3>2, <4>1, <4>2 DEF Onward, FirstStage, Operations
      <4> QED
          BY <4>1, <4>3, <1>a DEF Types
    <3>4. Held(r, p) = 0 /\ Held(r, p)' = 0
        BY <3>2, <3>3 DEF Held, Drawing
    <3> QED
        BY <2>1, <2>2, <2>3, <2>4, <3>1, <3>4
  <2>9. ~RemoveWarehouse(r)
      BY <1>2, LevelsStay
  <2> QED
      BY <2>5, <2>6, <2>7, <2>8, <2>9 DEF Handle
<1>3. PromisesAreBacked'
  <2>1. PromisesAreBacked' <=>
          \A p \in Products :
              TrackedFromStart(p)' /\ ~Removes' /\ crashes' = 0 =>
                  AllPromised(p)' + AllHeld(p)' = AllDrawn(p)'
      BY DEF PromisesAreBacked, AllPromised, AllHeld, AllDrawn, SumFunction
  <2> QED
      BY <2>1, <1>2, <1>b, <1>c
<1> QED
    BY <1>1, <1>3, <1>c DEF Backed

\* A turn of the loop that leaves something wanted has emptied its row.
LEMMA DrawKeepsRead ==
    ASSUME IInv, Ledger, NEW r \in Requests, NEW row \in todo[r], NEW units \in Nat,
           Takes(r, row, units), NEW p \in Products, p = Current(r).product,
           ReadIsCurrent(r, p), era' = era, remaining'[r] > 0
    PROVE  ReadIsCurrent(r, p)'
<1>a. Types /\ Levels
    BY DEF IInv
<1>b. NoLevel \notin Nat
    BY InventoryAssumption
<1>c. /\ remaining[r] \in Nat /\ todo[r] \subseteq Row
      /\ level \in [Warehouses -> [Products -> Nat \cup {NoLevel}]]
    BY <1>a DEF Types, Levels
<1>1. PICK w \in Warehouses : w = row.warehouse
    BY DEF Takes, Row
<1>2. /\ Has(w, p) /\ row = RowOf(w, p) /\ row.quantity = level[w][p] /\ row.era = era[w]
      /\ level[w][p] \in Nat
    BY <1>1, <1>c DEF ReadIsCurrent, RowOf, Has
<1>3. Take(r, row) = IF remaining[r] < level[w][p] THEN remaining[r] ELSE level[w][p]
    BY <1>2 DEF Take
<1>4. Covers(row, p, Take(r, row))
  <2>1. level[w][p] >= Take(r, row)
      BY <1>2, <1>3, <1>c
  <2> QED
      BY <2>1, <1>1, <1>2 DEF Covers
<1>5. units = Take(r, row)
    BY <1>4 DEF Takes
<1>6. remaining'[r] = remaining[r] - units /\ todo'[r] = todo[r] \ {row}
    BY <1>a DEF Takes, Types
<1>7. units = level[w][p]
    BY <1>2, <1>3, <1>5, <1>6, <1>c
<1>8. level'[w][p] = 0 /\ \A v \in Warehouses \ {w} : level'[v][p] = level[v][p]
  <2>1. CASE units = 0 /\ level' = level
      BY <2>1, <1>7
  <2>2. CASE level' = [level EXCEPT ![w][p] = level[w][p] - units]
    <3>1. level[w][p] - units = 0
        BY <1>2, <1>7
    <3>2. PICK z : z \in Nat \cup {NoLevel} /\ z = 0 /\ z = level[w][p] - units
        BY <3>1
    <3>3. level' = [level EXCEPT ![w][p] = z]
        BY <2>2, <3>2, Zenon
    <3>4. \A v \in Warehouses : level'[v][p] = IF v = w /\ p = p THEN z ELSE level[v][p]
        BY <3>2, <3>3, <1>c, CellChange
    <3> QED
        BY <3>2, <3>4
  <2> QED
      BY <2>1, <2>2, <1>1 DEF Takes
<1>9. ASSUME NEW other \in todo[r] \ {row}
      PROVE  /\ other.warehouse \in Warehouses \ {w}
             /\ Has(other.warehouse, p)' /\ other = RowOf(other.warehouse, p)'
  <2>1. other.warehouse \in Warehouses
      BY <1>c DEF Row
  <2>2. Has(other.warehouse, p) /\ other = RowOf(other.warehouse, p)
      BY DEF ReadIsCurrent
  <2>3. other.warehouse # w
      BY <2>2, <1>2
  <2> QED
      BY <2>1, <2>2, <2>3, <1>8 DEF Has, RowOf
<1>10. ASSUME NEW v \in Warehouses
       PROVE  level'[v][p] \in {0, NoLevel} \/ RowOf(v, p)' \in todo'[r]
  <2>1. CASE v = w
      BY <2>1, <1>8
  <2>2. CASE v # w
    <3>1. level'[v][p] = level[v][p] /\ RowOf(v, p)' = RowOf(v, p)
        BY <2>2, <1>8 DEF RowOf
    <3>2. RowOf(v, p) # row
        BY <2>2, <1>1 DEF RowOf
    <3> QED
        BY <3>1, <3>2, <1>6 DEF ReadIsCurrent
  <2> QED
      BY <2>1, <2>2
<1> QED
    BY <1>6, <1>9, <1>10 DEF ReadIsCurrent

\* What a reservation reads is current as it reads it.
LEMMA ReadIsFresh ==
    ASSUME IInv, NEW r \in Requests, ReadLevels(r), NEW p, p = Current(r).product
    PROVE  /\ pc'[r] = "draw" => ReadIsCurrent(r, p)'
           /\ pc'[r] = "settle" => remaining'[r] = 0
<1>a. Types /\ Levels /\ Progress
    BY DEF IInv
<1>1. /\ todo'[r] = LevelsOf(p) /\ level' = level /\ era' = era
      /\ remaining'[r] = IF LevelsOf(p) = {} THEN 0 ELSE Current(r).quantity
      /\ pc'[r] = IF LevelsOf(p) = {} THEN "settle" ELSE "draw"
    BY <1>a DEF ReadLevels, Goto, Types, database
<1>2. Current(r).quantity \in Nat \ {0}
    BY <1>a, CurrentType
<1>3. \A row \in LevelsOf(p) : Has(row.warehouse, p) /\ row = RowOf(row.warehouse, p)
    BY DEF LevelsOf, RowOf
<1>4. \A w \in Warehouses : level[w][p] \in {0, NoLevel} \/ RowOf(w, p) \in LevelsOf(p)
    BY DEF LevelsOf, RowOf, Has
<1>5. \A w : (Has(w, p)' <=> Has(w, p)) /\ RowOf(w, p)' = RowOf(w, p)
    BY <1>1 DEF Has, RowOf
<1>6. CASE pc'[r] = "draw"
  <2>1. LevelsOf(p) # {} /\ remaining'[r] > 0
      BY <1>1, <1>2, <1>6
  <2>2. \A row \in todo'[r] : Has(row.warehouse, p)' /\ row = RowOf(row.warehouse, p)'
      BY <1>1, <1>3, <1>5
  <2>3. \A w \in Warehouses : level'[w][p] \in {0, NoLevel} \/ RowOf(w, p)' \in todo'[r]
      BY <1>1, <1>4, <1>5
  <2>4. ReadIsCurrent(r, p)'
      BY <2>1, <2>2, <2>3 DEF ReadIsCurrent
  <2> QED
      BY <2>4, <1>6
<1>7. CASE pc'[r] # "draw"
    BY <1>1, <1>7
<1> QED
    BY <1>6, <1>7

\* Alone: nobody else changes a level under a reservation that runs alone.
LEMMA AloneStep ==
    ASSUME IInv, Ledger, NEW r \in Requests, Arrive(r) \/ Handle(r)
    PROVE  Alone'
<1>a. Types /\ Levels /\ Progress /\ Alone /\ Desks
    BY DEF IInv, Ledger
<1>b. PICK to \in Onward(r) : pc' = [pc EXCEPT ![r] = to]
    BY <1>a, HandlerMoves
<1>c. /\ req' = req /\ pc[r] # "done"
      /\ \A s \in Requests : pc'[s] = IF s = r THEN to ELSE pc[s]
    BY <1>a, <1>b, HandlerMoves DEF Types
<1>d. \A p \in Products, w \in Warehouses : level[w][p] \in Nat \cup {NoLevel}
    BY <1>a DEF Levels
<1> SUFFICES ASSUME NEW s \in Active' \ raced'
             PROVE  /\ Active' = {s}
                    /\ pc'[s] = "draw" => ReadIsCurrent(s, Current(s).product)'
                    /\ pc'[s] = "settle" /\ remaining'[s] > 0 =>
                          \A w \in Warehouses : level'[w][Current(s)'.product] \in {0, NoLevel}
    BY DEF Alone
<1>1. CASE Arrive(r)
  <2>1. pc[r] = "idle" /\ to \notin {"draw", "settle"}
    <3>1. pc[r] = "idle"
        BY <1>1 DEF Arrive
    <3>2. req[r].op \in Operations
        BY <1>a, BodyType DEF Body
    <3> QED
        BY <1>b, <3>1, <3>2 DEF Onward, FirstStage, Operations
  <2>2. Active' \subseteq Active \cup {r}
      BY <1>c DEF Active
  <2>3. Active = {} /\ s = r /\ Active' = {r}
      BY <1>1, <2>2 DEF Arrive
  <2> QED
      BY <1>c, <2>1, <2>3
<1>2. CASE Handle(r)
  <2>1. raced' = raced
      BY <1>2 DEF Handle, ReadLevels, Draw, Settle, FindWarehouse, Increment, InsertLevel,
                  Merge, LogRestock, CreateWarehouse, Find, SaveSelect, SaveWrite,
                  RemoveWarehouse, SetStatus
  <2>2. pc[r] # "idle"
      BY <1>2 DEF Handle, ReadLevels, Draw, Settle, FindWarehouse, Increment, InsertLevel,
                  Merge, LogRestock, CreateWarehouse, Find, SaveSelect, SaveWrite,
                  RemoveWarehouse, SetStatus
  <2>3. r \in Active /\ Active' \subseteq Active
      BY <1>c, <2>2 DEF Active
  <2>4. s = r /\ Active' = {r} /\ r \notin raced
      BY <2>1, <2>3, <1>a DEF Alone
  <2>5. CASE ReadLevels(r)
    <3>1. /\ pc'[r] = "draw" => ReadIsCurrent(r, Current(r).product)'
          /\ pc'[r] = "settle" => remaining'[r] = 0
      <4>1. Current(r)' = Current(r)
          BY <2>5, <1>c DEF ReadLevels, Current
      <4>2. PICK p : p = Current(r).product
          OBVIOUS
      <4>3. /\ pc'[r] = "draw" => ReadIsCurrent(r, p)'
            /\ pc'[r] = "settle" => remaining'[r] = 0
          BY <2>5, <4>2, ReadIsFresh
      <4>4. ReadIsCurrent(r, Current(r).product)' <=> ReadIsCurrent(r, p)'
          BY <4>1, <4>2 DEF ReadIsCurrent
      <4> QED
          BY <4>3, <4>4
    <3> QED
        BY <2>4, <3>1
  <2>6. CASE Draw(r)
    <3>1. PICK row \in todo[r], units \in Nat : Takes(r, row, units)
        BY <2>6, DrawShape
    <3>2. pc[r] = "draw" /\ era' = era /\ Current(r)' = Current(r)
        BY <2>6, <1>c DEF Draw, Current
    <3>3. PICK p \in Products : p = Current(r).product
        BY <1>a, CurrentType
    <3>4. ReadIsCurrent(r, p)
        BY <2>3, <2>4, <3>2, <3>3, <1>a DEF Alone
    <3>5. /\ remaining'[r] = remaining[r] - units /\ units <= remaining[r]
          /\ todo'[r] = todo[r] \ {row} /\ remaining[r] \in Nat
        BY <3>1, <1>a DEF Takes, Types
    <3>6. remaining'[r] > 0 => ReadIsCurrent(r, p)'
        BY <3>1, <3>2, <3>3, <3>4, DrawKeepsRead
    <3>7. pc'[r] = "draw" => remaining'[r] > 0
      <4>1. pc'[r] = "draw" => remaining[r] - units # 0
          BY <3>1, <1>a DEF Takes, Types
      <4> QED
          BY <4>1, <3>5
    <3>8. pc'[r] = "settle" /\ remaining'[r] > 0 => todo'[r] = {}
      <4>1. pc'[r] = "settle" => remaining[r] - units = 0 \/ todo[r] \ {row} = {}
          BY <3>1, <3>2 DEF Takes
      <4> QED
          BY <4>1, <3>5
    <3>9. pc'[r] = "settle" /\ remaining'[r] > 0 =>
              \A w \in Warehouses : level'[w][p] \in {0, NoLevel}
        BY <3>6, <3>8 DEF ReadIsCurrent
    <3>10. ReadIsCurrent(r, Current(r).product)' <=> ReadIsCurrent(r, p)'
        BY <3>2, <3>3 DEF ReadIsCurrent
    <3> QED
        BY <2>4, <3>2, <3>3, <3>6, <3>7, <3>9, <3>10
  <2>7. CASE ~ReadLevels(r) /\ ~Draw(r)
    <3>1. pc[r] \notin {"read", "draw", "idle"}
        BY <2>2, <2>7, <1>2 DEF Handle, Settle, FindWarehouse, Increment, InsertLevel, Merge,
                  LogRestock, CreateWarehouse, Find, SaveSelect, SaveWrite, RemoveWarehouse,
                  SetStatus
    <3>2. to \notin {"draw", "settle"}
        BY <3>1, <1>b DEF Onward
    <3> QED
        BY <2>4, <3>2, <1>c
  <2> QED
      BY <2>5, <2>6, <2>7
<1> QED
    BY <1>1, <1>2

\* A death ends every handler; units not yet logged never will be.
LEMMA LedgerCrash ==
    ASSUME IInv, Ledger, Crash
    PROVE  Ledger'
<1>a. /\ Types /\ Levels
      /\ Tallies /\ Desks /\ Emptied /\ OpensOnce /\ StockAddsUp /\ Backed /\ Alone
    BY DEF IInv, Ledger
<1>b. /\ UNCHANGED <<open, level, era, restocked, req, drawn, raced>>
      /\ crashes' = crashes + 1 /\ crashes' # 0 /\ crashes' \in Nat
    BY <1>a DEF Crash, database, Tallies
<1>c. \A r \in Requests : \/ pc'[r] = "done"
                          \/ pc'[r] = "idle" /\ pc[r] = "idle"
    BY DEF Crash, Active
<1>d. /\ Removes' <=> Removes
      /\ \A w \in Warehouses, p \in Products : Has(w, p)' <=> Has(w, p)
      /\ \A w \in Warehouses : (Renamed(w)' <=> Renamed(w)) /\ (Started(w)' <=> Started(w))
      /\ \A r \in Requests : Target(r)' = Target(r) /\ Item(r)' = Item(r)
    BY <1>b DEF Removes, Has, Renamed, Started, Target, Item
<1>1. Tallies'
    BY <1>a, <1>b DEF Tallies
<1>2. Desks'
  <2>1. \A r \in Requests : req[r].op \in Operations
      BY <1>a, BodyType DEF Body
  <2> QED
      BY <2>1, <1>b, <1>c DEF Desks, OperationAt, Reserving, Restocking
<1>3. Emptied'
    BY <1>a, <1>b, <1>d DEF Emptied
<1>4. OpensOnce'
  <2>1. ASSUME NEW r \in Requests, NEW w \in Warehouses, Deals(r, w) PROVE Deals(r, w)'
      BY <2>1, <1>b, <1>c, <1>d DEF Deals, Restocking
  <2> QED
      BY <2>1, <1>a, <1>b, <1>d DEF OpensOnce
<1>5. StockAddsUp'
  <2>1. ASSUME NEW w \in Warehouses, NEW p \in Products
        PROVE  Unlogged(w, p) \in Nat /\ Unlogged(w, p)' = 0
    <3> DEFINE F == [r \in Requests |-> Added(r)]
               G == [r \in Requests |-> Added(r)']
               S == {r \in Requests : pc[r] = "logRestock" /\ Target(r) = w /\ Item(r) = p}
               T == {r \in Requests : pc'[r] = "logRestock" /\ Target(r)' = w /\ Item(r)' = p}
    <3>1. Unlogged(w, p) = SumFunctionOnSet(F, S) /\ Unlogged(w, p)' = SumFunctionOnSet(G, T)
        BY DEF Unlogged
    <3>2. T = {} /\ S \subseteq Requests /\ \A r \in S : F[r] \in Nat
        BY <1>a, <1>c, RequestType
    <3> HIDE DEF F, G, S, T
    <3>3. IsFiniteSet(S)
        BY <3>2, InventoryAssumption, FS_Subset
    <3>4. SumFunctionOnSet(G, {}) = 0
        BY FS_EmptySet, SumZero
    <3>5. SumFunctionOnSet(F, S) \in Nat
        BY <3>2, <3>3, SumNat
    <3> QED
        BY <3>1, <3>2, <3>4, <3>5
  <2>2. ASSUME NEW w \in Warehouses, NEW p \in Products, Has(w, p), ~Renamed(w)
        PROVE  level'[w][p] + drawn'[w][p] >= restocked'[w][p] + Unlogged(w, p)'
    <3>1. level[w][p] + drawn[w][p] >= restocked[w][p] + Unlogged(w, p)
        BY <2>2, <1>a DEF StockAddsUp
    <3>2. restocked[w][p] \in Nat /\ drawn[w][p] \in Nat /\ level[w][p] \in Nat
        BY <2>2, <1>a DEF Tallies, Levels, Has
    <3>3. /\ level'[w][p] = level[w][p] /\ drawn'[w][p] = drawn[w][p]
          /\ restocked'[w][p] = restocked[w][p]
        BY <1>b
    <3> QED
        BY <2>1, <3>1, <3>2, <3>3
  <2> QED
      BY <2>2, <1>b, <1>d DEF StockAddsUp
<1>6. Backed'
    BY <1>a, <1>b, <1>d DEF Backed, PromisesAreBacked
<1>7. Alone'
  <2>1. Active' = {}
      BY <1>c DEF Active
  <2> QED
      BY <2>1 DEF Alone
<1> QED
    BY <1>1, <1>2, <1>3, <1>4, <1>5, <1>6, <1>7 DEF Ledger

------------------------------------------------------------------------------
\* The books of stock are inductive, given the invariant.
LEMMA NextLedger == IInv /\ IInv' /\ Ledger /\ [Next]_vars => Ledger'
<1> SUFFICES ASSUME IInv, IInv', Ledger, [Next]_vars PROVE Ledger'
    OBVIOUS
<1>1. CASE UNCHANGED vars
  <2>1. UNCHANGED stockroom
      BY <1>1 DEF vars, stockroom, database, reserving
  <2> QED
      BY <2>1, LedgerStutter
<1>2. CASE Crash
    BY <1>2, LedgerCrash
<1>3. ASSUME NEW r \in Requests, Arrive(r) \/ Handle(r) PROVE Ledger'
  <2>1. Tallies' /\ Desks'
      BY <1>3, TalliesStep, DesksStep
  <2>2. Emptied' /\ OpensOnce'
      BY <1>3, EmptiedStep, OpensOnceStep
  <2>3. StockAddsUp' /\ Backed' /\ Alone'
      BY <1>3, StockStep, BackedStep, AloneStep
  <2> QED
      BY <2>1, <2>2, <2>3 DEF Ledger
<1>4. ASSUME NEW r \in Requests, Call(r) PROVE Ledger'
  <2>1. UNCHANGED stockroom
      BY <1>4 DEF Call, SendOrder, GiveUp, Receive, Notify, stockroom, database, reserving
  <2> QED
      BY <2>1, LedgerStutter
<1> QED
    BY <1>1, <1>2, <1>3, <1>4 DEF Next

\* A reservation that leaves its settling is in Settle, or dies there.
LEMMA NeedlessStep ==
    ASSUME IInv, Ledger, [Next]_vars
    PROVE  \A r \in Requests :
              pc[r] = "settle" /\ pc'[r] # "settle" /\ r \notin raced /\ answer'[r] # "lost"
              /\ remaining[r] > 0
              => \A w \in Warehouses : level[w][Current(r).product] \in {0, NoLevel}
<1>1. \A r \in Requests : pc[r] = "settle" => r \in Active
    BY DEF Active
<1> QED
    BY <1>1 DEF Ledger, Alone

\* Levels, restocks, reservations and backorders agree to the unit (UnitsAddUp): what
\* the conditional UPDATEs of reserveOneProduct, restock's increment-or-insert and the
\* backorders keep together with no transaction around any of them, whoever races.
THEOREM UnitsAlwaysAddUp == Spec => UnitsAddUp
<1>1. Init => IInv /\ Ledger
    BY InitInv, InitLedger
<1>2. IInv /\ Ledger /\ [Next]_vars => (IInv /\ Ledger)'
    BY NextInv, NextLedger
<1>3. IInv /\ Ledger => StockAddsUp /\ PromisesAreBacked
    BY DEF Ledger, Backed
<1>4. IInv /\ Ledger /\ [Next]_vars =>
          [ \A r \in Requests :
              pc[r] = "settle" /\ pc'[r] # "settle" /\ r \notin raced /\ answer'[r] # "lost"
              /\ remaining[r] > 0
              => \A w \in Warehouses : level[w][Current(r).product] \in {0, NoLevel} ]_vars
    BY NeedlessStep
<1> QED
    BY <1>1, <1>2, <1>3, <1>4, PTL DEF Spec, UnitsAddUp, NoNeedlessBackorder

\* What apiV2 writes has the columns of a notification.
NotesAreRecords ==
    \A n \in notes : n = [order |-> n.order, line |-> n.line, quantity |-> n.quantity]

LEMMA NotesStep == NotesAreRecords /\ [Next]_vars => NotesAreRecords'
<1> SUFFICES ASSUME NotesAreRecords, [Next]_vars PROVE NotesAreRecords'
    OBVIOUS
<1>1. CASE notes' = notes
    BY <1>1 DEF NotesAreRecords
<1>2. ASSUME NEW r \in Requests, Notify(r) PROVE NotesAreRecords'
  <2>1. notes' = notes \/ \E i : notes' = notes \cup {Note(r, i)}
      BY <1>2 DEF Notify
  <2> QED
      BY <2>1 DEF NotesAreRecords, Note
<1>3. ASSUME NEW r \in Requests, Arrive(r) \/ Handle(r) PROVE notes' = notes
    BY <1>3 DEF Arrive, Handle, ReadLevels, Draw, TryRow, Settle, FindWarehouse, Increment,
                InsertLevel, Merge, LogRestock, CreateWarehouse, Find, SaveSelect, SaveWrite,
                RemoveWarehouse, SetStatus, caller
<1>4. ASSUME NEW r \in Requests, SendOrder(r) \/ GiveUp(r) \/ Receive(r) PROVE notes' = notes
    BY <1>4 DEF SendOrder, GiveUp, Receive
<1>5. CASE Crash \/ UNCHANGED vars
    BY <1>5 DEF NotesAreRecords, Crash, vars, caller
<1> QED
    BY <1>1, <1>2, <1>3, <1>4, <1>5 DEF Next, Call

\* Every variable of the warehouses, of the reservations and of apiV2 has its type
\* (TypeOK), and a warehouse that is removed has neither levels nor restocks.
THEOREM TypeCorrect == Spec => []TypeOK
<1>1. Init => IInv /\ Ledger /\ NotesAreRecords
    BY InitInv, InitLedger DEF Init, NotesAreRecords
<1>2. IInv /\ Ledger /\ NotesAreRecords /\ [Next]_vars => (IInv /\ Ledger /\ NotesAreRecords)'
    BY NextInv, NextLedger, NotesStep
<1>3. ASSUME IInv, Ledger, NotesAreRecords PROVE TypeOK
  <2>1. level \in [Warehouses -> [Products -> Int \cup {NoLevel}]]
      BY <1>3 DEF IInv, Levels
  <2>2. notes \subseteq [order : Requests, line : Nat \ {0}, quantity : Nat \ {0}]
    <3>1. ASSUME NEW n \in notes
          PROVE  n \in [order : Requests, line : Nat \ {0}, quantity : Nat \ {0}]
      <4>1. PICK b \in backorders : b.order = n.order /\ b.line = n.line /\ b.quantity = n.quantity
          BY <1>3 DEF IInv, Accounts
      <4>2. b.order \in Requests /\ b.line \in Nat \ {0} /\ b.quantity \in Nat \ {0}
          BY <1>3 DEF IInv, Types, Backorder
      <4>3. n = [order |-> n.order, line |-> n.line, quantity |-> n.quantity]
          BY <1>3 DEF NotesAreRecords
      <4> QED
          BY <4>1, <4>2, <4>3
    <3> QED
        BY <3>1
  <2>3. \A w \in Warehouses \ open, p \in Products : ~Has(w, p) /\ restocked[w][p] = 0
      BY <1>3 DEF Ledger, Emptied
  <2> QED
      BY <1>3, <2>1, <2>2, <2>3 DEF TypeOK, IInv, Types, Levels, Ledger, Tallies
<1> QED
    BY <1>1, <1>2, <1>3, PTL DEF Spec
=============================================================================
