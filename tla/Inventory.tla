------------------------------ MODULE Inventory ------------------------------
(***************************************************************************)
(* inventory-service and the call apiV2 makes to it once an order is       *)
(* committed: reservations draw down the stock levels of several           *)
(* warehouses one conditional UPDATE at a time and backorder the rest,     *)
(* while stock is added and warehouses come and go.  No handler opens a    *)
(* transaction.  The caller may stop waiting, and the service may die.     *)
(***************************************************************************)
EXTENDS Integers, Sequences, FiniteSetsExt

CONSTANTS
    Requests,
    Warehouses,     \* a subset of Nat: the order of ids
    Products,
    Opened,         \* warehouses that exist at the start
    InitialLevel,   \* [Warehouses -> [Products -> Nat \cup {NoLevel}]]
    NoLevel,        \* no stock_levels row for the pairing
    Traffic,        \* what the requests ask: a subset of [Requests -> Body]
    MaxCrashes      \* bound: deaths of inventory-service

Operations == {"order", "restock", "create", "rename", "remove", "setStatus"}
Line == [product : Products, quantity : Nat \ {0}]
Body == [op : Operations, warehouse : Warehouses, lines : Seq(Line) \ {<<>>}]
BackorderStatus == {"open", "fulfilled", "cancelled"}
Backorder == [order : Requests, line : Nat \ {0}, product : Products,
              quantity : Nat \ {0}, status : BackorderStatus]

ASSUME InventoryAssumption ==
    /\ Warehouses \subseteq Nat /\ Opened \subseteq Warehouses
    /\ NoLevel \notin Nat
    /\ InitialLevel \in [Warehouses -> [Products -> Nat \cup {NoLevel}]]
    /\ \A w \in Warehouses \ Opened, p \in Products : InitialLevel[w][p] = NoLevel
    /\ Traffic \subseteq [Requests -> Body]
    /\ \A f \in Traffic, r, s \in Requests :      \* a new warehouse has a new id
          f[r].op = "create" =>
              /\ f[r].warehouse \notin Opened
              /\ f[s].op = "create" /\ f[s].warehouse = f[r].warehouse => s = r
    /\ IsFiniteSet(Requests) /\ IsFiniteSet(Warehouses)
    /\ MaxCrashes \in Nat

VARIABLES
    open,           \* warehouses rows
    level,          \* stock_levels.quantity per pairing
    era,            \* how often a warehouse was removed: its levels get new ids
    restocked,      \* sum of the restock_events of a pairing
    backorders,     \* backorder_requests rows
    notes,          \* apiV2's notifications: [order, line, quantity]
    req, pc, answer,
    line, todo, remaining,  \* reserve: its line, the rows read and not yet tried
    reserved,       \* reservedQuantity per line handled, as it will be answered
    found,          \* rename: what its save's SELECT found
    client, told,   \* apiV2's side of an order, and the results it has handled
    drawn,          \* history: units taken from the level that exists
    raced,          \* history: requests that were served along with another
    crashes

database == <<open, level, era, restocked, backorders>>
reserving == <<line, todo, remaining, reserved>>
caller == <<client, told, notes>>
vars == <<database, req, pc, answer, reserving, found, caller, drawn, raced, crashes>>

Has(w, p) == level[w][p] # NoLevel
Events(q) == IF q = NoLevel THEN 0 ELSE q

Init ==
    /\ open = Opened
    /\ level = InitialLevel
    /\ era = [w \in Warehouses |-> 0]
    /\ restocked = [w \in Warehouses |-> [p \in Products |-> Events(InitialLevel[w][p])]]
    /\ backorders = {} /\ notes = {}
    /\ req \in Traffic
    /\ pc = [r \in Requests |-> "idle"] /\ answer = [r \in Requests |-> "none"]
    /\ line = [r \in Requests |-> 1] /\ todo = [r \in Requests |-> {}]
    /\ remaining = [r \in Requests |-> 0] /\ reserved = [r \in Requests |-> <<>>]
    /\ found = [r \in Requests |-> FALSE]
    /\ client = [r \in Requests |-> "idle"] /\ told = [r \in Requests |-> 0]
    /\ drawn = [w \in Warehouses |-> [p \in Products |-> 0]]
    /\ raced = {}
    /\ crashes = 0

Active == {r \in Requests : pc[r] \notin {"idle", "done"}}

Goto(r, to) == pc' = [pc EXCEPT ![r] = to]
Finish(r, a) == Goto(r, "done") /\ answer' = [answer EXCEPT ![r] = a]

FirstStage == [order |-> "read", restock |-> "findWarehouse", create |-> "insertWarehouse",
               rename |-> "find", remove |-> "find", setStatus |-> "setStatus"]

\* An order reaches the service only if apiV2 has sent it.
Arrive(r) ==
    /\ pc[r] = "idle"
    /\ req[r].op = "order" => client[r] # "idle"
    /\ Goto(r, FirstStage[req[r].op])
    /\ raced' = IF Active = {} THEN raced ELSE raced \cup Active \cup {r}
    /\ UNCHANGED <<database, req, answer, reserving, found, caller, drawn, crashes>>

------------------------------------------------------------------------------
(***************************************************************************)
(* Reservations.                                                           *)
(***************************************************************************)
Current(r) == req[r].lines[line[r]]

LevelsOf(p) == {[warehouse |-> w, era |-> era[w], quantity |-> level[w][p]] :
                    w \in {x \in Warehouses : Has(x, p)}}

\* ORDER BY quantity DESC, id ASC.
BiggestFirst(a, b) == \/ a.quantity > b.quantity
                      \/ a.quantity = b.quantity /\ a.warehouse < b.warehouse

\* No level at all means that the product is not tracked: all of it is granted.
ReadLevels(r) ==
    /\ pc[r] = "read"
    /\ LET levels == LevelsOf(Current(r).product)
       IN  /\ todo' = [todo EXCEPT ![r] = levels]
           /\ remaining' = [remaining EXCEPT
                                ![r] = IF levels = {} THEN 0 ELSE Current(r).quantity]
           /\ Goto(r, IF levels = {} THEN "settle" ELSE "draw")
    /\ UNCHANGED <<database, req, answer, line, reserved, found, caller, drawn, raced, crashes>>

\* Math.min(remaining, level.quantity), the quantity as it was read.
Take(r, row) == IF remaining[r] < row.quantity THEN remaining[r] ELSE row.quantity

\* Mutant: the UPDATE is by id alone.
RowStillHas(row, p, units) == Has(row.warehouse, p) /\ era[row.warehouse] = row.era

\* WHERE id = :id AND quantity >= :take, on the row as it is now.
Covers(row, p, units) ==
    /\ Has(row.warehouse, p) /\ era[row.warehouse] = row.era
    /\ level[row.warehouse][p] >= units

\* Mutant: units count as taken although no row was updated.
LeftAnyway(r, units, gives) == remaining[r] - units

\* What is still wanted after one row: less only if the UPDATE affected it.
Left(r, units, gives) == remaining[r] - (IF gives THEN units ELSE 0)

\* Whether the loop over the levels is over.
DrawingEnds(left, others) == left = 0 \/ others = {}

\* One turn of the loop.  A row that no longer covers the take is passed over.
TryRow(r, row) ==
    LET w == row.warehouse
        p == Current(r).product
        units == Take(r, row)
        gives == units > 0 /\ Covers(row, p, units)
        left == Left(r, units, gives)
    IN  /\ IF gives
           THEN /\ level' = [level EXCEPT ![w][p] = @ - units]
                /\ drawn' = [drawn EXCEPT ![w][p] = @ + units]
           ELSE UNCHANGED <<level, drawn>>
        /\ remaining' = [remaining EXCEPT ![r] = left]
        /\ todo' = [todo EXCEPT ![r] = @ \ {row}]
        /\ IF DrawingEnds(left, todo[r] \ {row}) THEN Goto(r, "settle") ELSE UNCHANGED pc

Draw(r) ==
    /\ pc[r] = "draw"
    /\ \E row \in todo[r] :
          /\ \A other \in todo[r] \ {row} : BiggestFirst(row, other)
          /\ TryRow(r, row)
    /\ UNCHANGED <<open, era, restocked, backorders, req, answer, line, reserved, found,
                   caller, raced, crashes>>

\* Mutant: what is backordered is the whole line.
WholeLine(r) == Current(r).quantity
Shortfall(r) == remaining[r]

\* The backorder of what is left, if anything is, and on to the next line.
Settle(r) ==
    /\ pc[r] = "settle"
    /\ backorders' = IF remaining[r] = 0 THEN backorders
                     ELSE backorders \cup {[order |-> r, line |-> line[r],
                                            product |-> Current(r).product,
                                            quantity |-> Shortfall(r), status |-> "open"]}
    /\ reserved' = [reserved EXCEPT ![r] = Append(@, Current(r).quantity - remaining[r])]
    /\ IF line[r] = Len(req[r].lines)
       THEN Finish(r, "ok") /\ UNCHANGED line
       ELSE /\ line' = [line EXCEPT ![r] = @ + 1]
            /\ Goto(r, "read")
            /\ UNCHANGED answer
    /\ UNCHANGED <<open, level, era, restocked, req, todo, remaining, found, caller, drawn,
                   raced, crashes>>

------------------------------------------------------------------------------
(***************************************************************************)
(* apiV2's side: InventoryClientService.reserve never throws, and each     *)
(* backorder in the answer becomes a notification.                         *)
(***************************************************************************)
SendOrder(r) ==
    /\ client[r] = "idle" /\ req[r].op = "order"
    /\ client' = [client EXCEPT ![r] = "waiting"]
    /\ UNCHANGED <<database, req, pc, answer, reserving, found, told, notes, drawn, raced,
                   crashes>>

\* The network fails, or apiV2 dies: the service does not notice.
GiveUp(r) ==
    /\ client[r] = "waiting"
    /\ client' = [client EXCEPT ![r] = "unreserved"]
    /\ UNCHANGED <<database, req, pc, answer, reserving, found, told, notes, drawn, raced,
                   crashes>>

Receive(r) ==
    /\ client[r] = "waiting" /\ answer[r] = "ok"
    /\ client' = [client EXCEPT ![r] = "notify"]
    /\ UNCHANGED <<database, req, pc, answer, reserving, found, told, notes, drawn, raced,
                   crashes>>

\* item.requestedQuantity - item.reservedQuantity, zero without a backorder.
Missing(r, i) == req[r].lines[i].quantity - reserved[r][i]
Note(r, i) == [order |-> r, line |-> i, quantity |-> Missing(r, i)]

\* Mutant: only the first backorder of an order is told.
NotifyOnce(r) ==
    /\ client[r] = "notify"
    /\ LET i == told[r] + 1
       IN  \/ /\ told[r] = Len(req[r].lines)
              /\ client' = [client EXCEPT ![r] = "created"]
              /\ UNCHANGED <<told, notes>>
           \/ /\ i \in DOMAIN req[r].lines
              /\ told' = [told EXCEPT ![r] = IF Missing(r, i) = 0 THEN i
                                             ELSE Len(req[r].lines)]
              /\ notes' = IF Missing(r, i) = 0 THEN notes ELSE notes \cup {Note(r, i)}
              /\ UNCHANGED client
    /\ UNCHANGED <<database, req, pc, answer, reserving, found, drawn, raced, crashes>>

\* One turn of the loop over the results.  Writing a notification may fail, which
\* fails the whole POST /orders.
Notify(r) ==
    /\ client[r] = "notify"
    /\ LET i == told[r] + 1
       IN  \/ /\ told[r] = Len(req[r].lines)
              /\ client' = [client EXCEPT ![r] = "created"]
              /\ UNCHANGED <<told, notes>>
           \/ /\ i \in DOMAIN req[r].lines
              /\ told' = [told EXCEPT ![r] = i]
              /\ notes' = IF Missing(r, i) = 0 THEN notes ELSE notes \cup {Note(r, i)}
              /\ UNCHANGED client
           \/ /\ i \in DOMAIN req[r].lines /\ Missing(r, i) > 0
              /\ client' = [client EXCEPT ![r] = "error"]
              /\ UNCHANGED <<told, notes>>
    /\ UNCHANGED <<database, req, pc, answer, reserving, found, drawn, raced, crashes>>

------------------------------------------------------------------------------
(***************************************************************************)
(* Restocking: increment, else insert, else increment again; then the      *)
(* restock event.                                                          *)
(***************************************************************************)
Target(r) == req[r].warehouse
Item(r) == req[r].lines[1].product
Added(r) == req[r].lines[1].quantity

Increase(r) == level' = [level EXCEPT ![Target(r)][Item(r)] = @ + Added(r)]

FindWarehouse(r) ==
    /\ pc[r] = "findWarehouse"
    /\ IF Target(r) \in open THEN Goto(r, "increment") /\ UNCHANGED answer
                             ELSE Finish(r, "notFound")
    /\ UNCHANGED <<database, req, reserving, found, caller, drawn, raced, crashes>>

Increment(r) ==
    /\ pc[r] = "increment"
    /\ IF Has(Target(r), Item(r)) THEN Increase(r) /\ Goto(r, "logRestock")
                                  ELSE UNCHANGED level /\ Goto(r, "insertLevel")
    /\ UNCHANGED <<open, era, restocked, backorders, req, answer, reserving, found, caller,
                   drawn, raced, crashes>>

\* UNIQUE (product, warehouse) sends the loser of the race to Merge; the foreign key
\* fails when the warehouse is gone.
InsertLevel(r) ==
    /\ pc[r] = "insertLevel"
    /\ IF Target(r) \notin open
       THEN Finish(r, "error") /\ UNCHANGED level
       ELSE IF Has(Target(r), Item(r))
       THEN Goto(r, "merge") /\ UNCHANGED <<level, answer>>
       ELSE /\ level' = [level EXCEPT ![Target(r)][Item(r)] = Added(r)]
            /\ Goto(r, "logRestock")
            /\ UNCHANGED answer
    /\ UNCHANGED <<open, era, restocked, backorders, req, reserving, found, caller, drawn,
                   raced, crashes>>

Merge(r) ==
    /\ pc[r] = "merge"
    /\ IF Has(Target(r), Item(r)) THEN Increase(r) ELSE UNCHANGED level
    /\ Goto(r, "logRestock")
    /\ UNCHANGED <<open, era, restocked, backorders, req, answer, reserving, found, caller,
                   drawn, raced, crashes>>

LogRestock(r) ==
    /\ pc[r] = "logRestock"
    /\ IF Target(r) \in open
       THEN /\ restocked' = [restocked EXCEPT ![Target(r)][Item(r)] = @ + Added(r)]
            /\ Finish(r, "ok")
       ELSE UNCHANGED restocked /\ Finish(r, "error")
    /\ UNCHANGED <<open, level, era, backorders, req, reserving, found, caller, drawn,
                   raced, crashes>>

------------------------------------------------------------------------------
(***************************************************************************)
(* Warehouses and backorders.                                              *)
(***************************************************************************)
CreateWarehouse(r) ==
    /\ pc[r] = "insertWarehouse"
    /\ open' = open \cup {Target(r)}
    /\ Finish(r, "ok")
    /\ UNCHANGED <<level, era, restocked, backorders, req, reserving, found, caller, drawn,
                   raced, crashes>>

Find(r) ==
    /\ pc[r] = "find"
    /\ IF Target(r) \notin open THEN Finish(r, "notFound")
       ELSE /\ Goto(r, IF req[r].op = "rename" THEN "saveSelect" ELSE "delete")
            /\ UNCHANGED answer
    /\ UNCHANGED <<database, req, reserving, found, caller, drawn, raced, crashes>>

SaveSelect(r) ==
    /\ pc[r] = "saveSelect"
    /\ found' = [found EXCEPT ![r] = Target(r) \in open]
    /\ Goto(r, "saveWrite")
    /\ UNCHANGED <<database, req, answer, reserving, caller, drawn, raced, crashes>>

\* A warehouse that was removed after the read is inserted again, without its stock.
SaveWrite(r) ==
    /\ pc[r] = "saveWrite"
    /\ IF found[r]
       THEN UNCHANGED open /\ Finish(r, "ok")
       ELSE IF Target(r) \in open
       THEN UNCHANGED open /\ Finish(r, "error")
       ELSE open' = open \cup {Target(r)} /\ Finish(r, "ok")
    /\ UNCHANGED <<level, era, restocked, backorders, req, reserving, found, caller, drawn,
                   raced, crashes>>

\* ON DELETE CASCADE: the levels and restock events go with the warehouse.
RemoveWarehouse(r) ==
    /\ pc[r] = "delete"
    /\ LET w == Target(r)
       IN  /\ open' = open \ {w}
           /\ level' = [level EXCEPT ![w] = [p \in Products |-> NoLevel]]
           /\ era' = [era EXCEPT ![w] = @ + 1]
           /\ restocked' = [restocked EXCEPT ![w] = [p \in Products |-> 0]]
           /\ drawn' = [drawn EXCEPT ![w] = [p \in Products |-> 0]]
    /\ Finish(r, "ok")
    /\ UNCHANGED <<backorders, req, reserving, found, caller, raced, crashes>>

\* Backorders are never deleted and only their status changes: read and save are one.
SetStatus(r) ==
    /\ pc[r] = "setStatus"
    /\ \/ backorders = {} /\ Finish(r, "notFound") /\ UNCHANGED backorders
       \/ /\ \E b \in backorders, s \in BackorderStatus :
                backorders' = (backorders \ {b}) \cup {[b EXCEPT !.status = s]}
          /\ Finish(r, "ok")
    /\ UNCHANGED <<open, level, era, restocked, req, reserving, found, caller, drawn, raced,
                   crashes>>

\* inventory-service dies: what its handlers have written stays.
Crash ==
    /\ crashes < MaxCrashes
    /\ crashes' = crashes + 1
    /\ pc' = [r \in Requests |-> IF r \in Active THEN "done" ELSE pc[r]]
    /\ answer' = [r \in Requests |-> IF r \in Active THEN "lost" ELSE answer[r]]
    /\ UNCHANGED <<database, req, reserving, found, caller, drawn, raced>>

Handle(r) ==
    \/ ReadLevels(r) \/ Draw(r) \/ Settle(r)
    \/ FindWarehouse(r) \/ Increment(r) \/ InsertLevel(r) \/ Merge(r) \/ LogRestock(r)
    \/ CreateWarehouse(r) \/ Find(r) \/ SaveSelect(r) \/ SaveWrite(r) \/ RemoveWarehouse(r)
    \/ SetStatus(r)

Call(r) == SendOrder(r) \/ GiveUp(r) \/ Receive(r) \/ Notify(r)

Next ==
    \/ \E r \in Requests : Arrive(r) \/ Handle(r) \/ Call(r)
    \/ Crash

Spec == Init /\ [][Next]_vars

------------------------------------------------------------------------------
(***************************************************************************)
(* Properties.                                                             *)
(***************************************************************************)
\* Every variable has its type; whether a level goes negative is NoOverdraw's.
TypeOK ==
    /\ open \subseteq Warehouses
    /\ level \in [Warehouses -> [Products -> Int \cup {NoLevel}]]
    /\ era \in [Warehouses -> Nat]
    /\ restocked \in [Warehouses -> [Products -> Nat]]
    /\ backorders \subseteq Backorder
    /\ notes \subseteq [order : Requests, line : Nat \ {0}, quantity : Nat \ {0}]
    /\ remaining \in [Requests -> Nat]
    /\ reserved \in [Requests -> Seq(Nat)]
    /\ \A w \in Warehouses \ open, p \in Products : ~Has(w, p) /\ restocked[w][p] = 0

Renamed(w) == \E r \in Requests : req[r].op = "rename" /\ Target(r) = w

\* Units a restock has added to a level and not yet logged.
Unlogged(w, p) ==
    SumFunctionOnSet([r \in Requests |-> Added(r)],
                     {r \in Requests : /\ pc[r] = "logRestock"
                                       /\ Target(r) = w /\ Item(r) = p})

\* "Race-safe by construction": no reservation takes what a warehouse does not have,
\* however old the quantities it read.
NoOverdraw == \A w \in Warehouses, p \in Products : Has(w, p) => level[w][p] >= 0

\* No unit is lost, invented or drawn twice, whoever races: a level holds what its
\* restock events say was added less what reservations drew.
\* (A death between the two writes of a restock leaves the level ahead of the events.)
StockAddsUp ==
    \A w \in Warehouses, p \in Products :
        Has(w, p) /\ ~Renamed(w) =>
            LET added == restocked[w][p] + Unlogged(w, p)
            IN  /\ level[w][p] + drawn[w][p] >= added
                /\ crashes = 0 => level[w][p] + drawn[w][p] = added

Removes == \E r \in Requests : req[r].op = "remove"
TrackedFromStart(p) == \E w \in Warehouses : InitialLevel[w][p] # NoLevel

\* What r has answered, or will, for its lines of p.
Promised(r, p) ==
    SumFunctionOnSet(reserved[r], {i \in DOMAIN reserved[r] : req[r].lines[i].product = p})
Drawing(p) == {r \in Requests : pc[r] \in {"draw", "settle"} /\ Current(r).product = p}

\* Every unit promised to an order came out of a warehouse: what the reservations of
\* a tracked product answered, and hold half done, is what was drawn for them.
PromisesAreBacked ==
    \A p \in Products :
        TrackedFromStart(p) /\ ~Removes /\ crashes = 0 =>
            SumFunction([r \in Requests |-> Promised(r, p)])
              + SumFunctionOnSet([r \in Requests |-> Current(r).quantity - remaining[r]],
                                 Drawing(p))
              = SumFunction([w \in Warehouses |-> drawn[w][p]])

BackordersOf(r, i) == {b \in backorders : b.order = r /\ b.line = i}

\* Each line handled is reserved or backordered, unit for unit: in one backorder of
\* all that is missing, or in none when nothing is.
ShortfallIsBackordered ==
    \A r \in Requests : \A i \in DOMAIN reserved[r] :
        IF Missing(r, i) = 0
        THEN BackordersOf(r, i) = {}
        ELSE \E b \in backorders : BackordersOf(r, i) = {b} /\ b.quantity = Missing(r, i)

\* A reservation that ran alone backorders nothing while a warehouse has stock.
NoNeedlessBackorder ==
    [][ \A r \in Requests :
            pc[r] = "settle" /\ pc'[r] # "settle" /\ r \notin raced /\ answer'[r] # "lost"
            /\ remaining[r] > 0
            => \A w \in Warehouses : level[w][Current(r).product] \in {0, NoLevel} ]_vars

\* "Reported back in the response for apiV2 to notify the customer": a notification
\* tells of a backorder of that order, in its quantity, and an order that is
\* answered 201 after the reservation was received has told of all of them.
BackordersAreTold ==
    /\ \A n \in notes : \E b \in backorders :
          b.order = n.order /\ b.line = n.line /\ b.quantity = n.quantity
    /\ \A b \in backorders :
          client[b.order] = "created" =>
              \E n \in notes : n.order = b.order /\ n.line = b.line

\* Levels, restocks, reservations and backorders agree to the unit, whoever races.
UnitsAddUp == [](StockAddsUp /\ PromisesAreBacked) /\ NoNeedlessBackorder
=============================================================================
