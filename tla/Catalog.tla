------------------------------ MODULE Catalog ------------------------------
(***************************************************************************)
(* One product of the catalog: conditional reads and PATCHes by ETag,      *)
(* removal, the notification of a price drop, and what writes the row      *)
(* besides, an order's decrement and the load reset.  Everything an        *)
(* administrator does goes through repository.save of a row read earlier.  *)
(***************************************************************************)
EXTENDS Integers, FiniteSets, EntitySave

CONSTANTS
    Requests,
    NoTag,          \* no If-Match is sent
    Gone,           \* the product has no row
    Users,
    LoadUser,       \* LOAD_USER_EMAIL, whose orders the reset deletes
    Reviewers,      \* users with a review of the product
    Product,        \* the row at the beginning
    Baseline,       \* LOAD_HOT_PRODUCT_BASELINE_STOCK
    Bodies,         \* op, user, whether If-Match is sent, and the columns a PATCH names
                    \* (an upload of a picture is a PATCH of a column like the name)
    MaxCrashes      \* bound

Columns == {"price", "stock", "name"}
Row == [price : Nat, stock : Nat, name : STRING, version : Nat \ {0}]

ASSUME CatalogAssumption ==
    /\ Product \in Row /\ Gone \notin Row /\ Product.version = 1
    /\ LoadUser \in Users /\ Reviewers \subseteq Users /\ NoTag \notin Nat
    /\ Bodies # {}
    /\ \A b \in Bodies : /\ b.op \in {"patch", "order", "remove", "reset"}
                          /\ b.user \in Users /\ b.tagged \in BOOLEAN
                          /\ DOMAIN b.set \subseteq Columns
                          /\ \A c \in DOMAIN b.set :
                                b.set[c] \in (IF c = "name" THEN STRING ELSE Nat)
    /\ Baseline \in Nat /\ MaxCrashes \in Nat

VARIABLES
    row,            \* the products row
    orderers,       \* users with an order_item of it
    reviewers,      \* users with a review of it
    told,           \* price_drop notifications, by the PATCH that wrote them and user
    req, pc, answer, crashes,
    mine, found,    \* save: the entity in memory, the row its SELECT found
    previous,       \* previousPrice
    toTell,         \* userIds left to notify
    served,         \* history: what clients were given, ETag and content
    prices,         \* history: prices the product had
    expected,       \* history: the stock if nothing were ever written back
    stale,          \* history: saves whose SELECT found another row than was read
    overlapped,     \* history: PATCHes during which somebody else wrote the row
    missed,         \* history: PATCHes whose UPDATE met no row
    fell,           \* history: PATCHes that lowered the price
    audience        \* history: whom such a PATCH concerns

saver == <<mine, found, previous, toTell>>
history == <<served, prices, expected, stale, overlapped, missed, fell, audience>>
vars == <<row, orderers, reviewers, told, req, pc, answer, crashes, saver, history>>

Init ==
    /\ row = Product
    /\ orderers = {}
    /\ reviewers = Reviewers
    /\ told = [r \in Requests |-> [u \in Users |-> 0]]
    /\ req = [r \in Requests |-> CHOOSE b \in Bodies : TRUE]
    /\ pc = [r \in Requests |-> "idle"]
    /\ answer = [r \in Requests |-> "none"]
    /\ crashes = 0
    /\ mine = [r \in Requests |-> Product]
    /\ found = [r \in Requests |-> Product]
    /\ previous = [r \in Requests |-> 0]
    /\ toTell = [r \in Requests |-> {}]
    /\ served = {}
    /\ prices = {Product.price}
    /\ expected = Product.stock
    /\ stale = {} /\ overlapped = {} /\ missed = {} /\ fell = {}
    /\ audience = [r \in Requests |-> {}]

Goto(r, to) == pc' = [pc EXCEPT ![r] = to] /\ UNCHANGED answer
Finish(r, a) == pc' = [pc EXCEPT ![r] = "done"] /\ answer' = [answer EXCEPT ![r] = a]
Receive(r, b) == pc[r] = "idle" /\ req' = [req EXCEPT ![r] = b]

\* A row written by anybody else runs through every save in progress.
Overlap(r) ==
    overlapped' = overlapped \cup {s \in Requests \ {r} : pc[s] \in {"select", "write"}}

------------------------------------------------------------------------------
(***************************************************************************)
(* GET /products/:id.                                                      *)
(***************************************************************************)
\* A client that holds the current ETag gets a 304 and keeps what it holds.
Get ==
    /\ row # Gone
    /\ \A s \in served : s.version # row.version
    /\ served' = served \cup {row}
    /\ UNCHANGED <<row, orderers, reviewers, told, req, pc, answer, crashes, saver,
                   prices, expected, stale, overlapped, missed, fell, audience>>

------------------------------------------------------------------------------
(***************************************************************************)
(* PATCH /products/:id, and the upload of a picture.                       *)
(***************************************************************************)
Tags(b) == IF b.tagged THEN {s.version : s \in served} ELSE {NoTag}

\* Mutant: If-Match is not looked at.
MatchesAny(tag) == TRUE
Matches(tag) == tag \in {NoTag, row.version}

\* The columns the body names are assigned, the others left as they were read.
Assigned(entity, set) ==
    [c \in DOMAIN entity |-> IF c \in DOMAIN set THEN set[c] ELSE entity[c]]

\* findOne, the check of If-Match, and the assignments to the entity.
ReadForPatch(r) ==
    \E b \in Bodies : \E tag \in Tags(b) :
        /\ b.op = "patch"
        /\ Receive(r, b)
        /\ CASE row = Gone -> Finish(r, "notFound") /\ UNCHANGED <<mine, previous>>
             [] row # Gone /\ ~Matches(tag) ->
                    Finish(r, "preconditionFailed") /\ UNCHANGED <<mine, previous>>
             [] OTHER ->
                    /\ mine' = [mine EXCEPT ![r] = Assigned(row, b.set)]
                    /\ previous' = [previous EXCEPT ![r] = row.price]
                    /\ Goto(r, "select")
        /\ UNCHANGED <<row, orderers, reviewers, told, crashes, found, toTell, history>>

\* The SELECT of save.
Select(r) ==
    /\ pc[r] = "select"
    /\ found' = [found EXCEPT ![r] = row]
    /\ stale' = IF row = Gone \/ r \in overlapped THEN stale \cup {r} ELSE stale
    /\ Goto(r, "write")
    /\ UNCHANGED <<row, orderers, reviewers, told, req, crashes, mine, previous, toTell,
                   served, prices, expected, overlapped, missed, fell, audience>>

\* Mutant: every column is written.
UpdatedWhole(r) == mine[r]
Updated(r) == Saved(row, found[r], mine[r])

Differs(r, columns) == \E c \in columns : mine[r][c] # found[r][c]

\* An UPDATE increments the version.  When the row in memory is of an older version than
\* the one SELECT found, version may count as a changed column and be written back.
Versions(r) ==
    {row.version + 1} \cup (IF Differs(r, {"version"}) THEN {mine[r].version} ELSE {})

\* The row, and what the client is answered with; a PATCH that ran alone tells the truth.
WriteRow(r, new) ==
    /\ row' = new
    /\ served' = IF r \in overlapped THEN served ELSE served \cup {new}
    /\ prices' = prices \cup {new.price}
    /\ Overlap(r)

\* Mutant: any change of price is a drop.
Changed(r) == mine[r].price # previous[r]
Dropped(r) == mine[r].price < previous[r]

AfterSave(r) ==
    IF "price" \in DOMAIN req[r].set /\ Dropped(r) THEN Goto(r, "orders") ELSE Finish(r, "ok")

Fall(r, new) ==
    IF row # Gone /\ new.price < row.price
    THEN /\ fell' = fell \cup {r}
         /\ audience' = [audience EXCEPT ![r] = orderers \cup reviewers]
    ELSE UNCHANGED <<fell, audience>>

\* save found the row: UPDATE of the columns that differ, if any does.
Update(r) ==
    /\ pc[r] = "write" /\ found[r] # Gone
    /\ IF row # Gone /\ Differs(r, Columns \cup {"version"})
       THEN \E v \in Versions(r) :
               LET new == [Updated(r) EXCEPT !.version = v] IN
               /\ WriteRow(r, new)
               /\ Fall(r, new)
               /\ expected' = IF "stock" \in DOMAIN req[r].set /\ Differs(r, {"stock"})
                              THEN new.stock ELSE expected
       ELSE UNCHANGED <<row, served, prices, expected, overlapped, fell, audience>>
    /\ missed' = IF row = Gone THEN missed \cup {r} ELSE missed
    /\ AfterSave(r)
    /\ UNCHANGED <<orderers, reviewers, told, req, crashes, saver, stale>>

\* save found none: the product is inserted anew under its old id.
Reinsert(r) ==
    /\ pc[r] = "write" /\ found[r] = Gone
    /\ IF row = Gone
       THEN WriteRow(r, [mine[r] EXCEPT !.version = 1]) /\ AfterSave(r)
       ELSE Finish(r, "error") /\ UNCHANGED <<row, served, prices, overlapped>>
    /\ UNCHANGED <<orderers, reviewers, told, req, crashes, saver, expected, stale, missed,
                   fell, audience>>

------------------------------------------------------------------------------
(***************************************************************************)
(* notifyPriceDrop.                                                        *)
(***************************************************************************)
AskOrders(r) ==
    /\ pc[r] = "orders"
    /\ toTell' = [toTell EXCEPT ![r] = orderers]
    /\ Goto(r, "reviews")
    /\ UNCHANGED <<row, orderers, reviewers, told, req, crashes, mine, found, previous, history>>

\* Mutant: only who ordered.
OrderersOnly(r) == toTell[r]
Both(r) == toTell[r] \cup reviewers

AskReviews(r) ==
    /\ pc[r] = "reviews"
    /\ toTell' = [toTell EXCEPT ![r] = Both(r)]
    /\ IF Both(r) = {} THEN Finish(r, "ok") ELSE Goto(r, "tell")
    /\ UNCHANGED <<row, orderers, reviewers, told, req, crashes, mine, found, previous, history>>

Tell(r) ==
    /\ pc[r] = "tell"
    /\ \E u \in toTell[r] :
          /\ told' = [told EXCEPT ![r][u] = @ + 1]
          /\ toTell' = [toTell EXCEPT ![r] = @ \ {u}]
          /\ IF toTell[r] = {u} THEN Finish(r, "ok") ELSE UNCHANGED <<pc, answer>>
    /\ UNCHANGED <<row, orderers, reviewers, req, crashes, mine, found, previous, history>>

Patch(r) ==
    \/ ReadForPatch(r) \/ Select(r) \/ Update(r) \/ Reinsert(r)
    \/ AskOrders(r) \/ AskReviews(r) \/ Tell(r)

------------------------------------------------------------------------------
(***************************************************************************)
(* DELETE /products/:id, orders and the reset.                             *)
(***************************************************************************)
FindForRemove(r) ==
    \E b \in Bodies :
        /\ b.op = "remove"
        /\ Receive(r, b)
        /\ IF row = Gone THEN Finish(r, "notFound") ELSE Goto(r, "delete")
        /\ UNCHANGED <<row, orderers, reviewers, told, crashes, saver, history>>

NobodyOrdered == orderers = {}

\* The DELETE: its order items keep a product, its reviews go with it.
Delete(r) ==
    /\ pc[r] = "delete"
    /\ IF NobodyOrdered
       THEN /\ row' = Gone /\ reviewers' = {}
            /\ audience' = [s \in Requests |-> {}]
            /\ Overlap(r)
            /\ Finish(r, "ok")
       ELSE Finish(r, "conflict") /\ UNCHANGED <<row, reviewers, audience, overlapped>>
    /\ UNCHANGED <<orderers, told, req, crashes, saver, served, prices, expected, stale,
                   missed, fell>>

Bumped(stock) == [row EXCEPT !.stock = stock, !.version = @ + 1]

Available == row # Gone /\ row.stock > 0

\* The transaction of an order of one unit, as OrderLedger has it: one step.
Order(r) ==
    \E b \in Bodies :
        /\ b.op = "order"
        /\ Receive(r, b)
        /\ IF ~Available
           THEN /\ Finish(r, "refused")
                /\ UNCHANGED <<row, orderers, expected, overlapped>>
           ELSE /\ row' = Bumped(row.stock - 1)
                /\ orderers' = orderers \cup {b.user}
                /\ expected' = expected - 1
                /\ Overlap(r)
                /\ Finish(r, "ok")
        /\ UNCHANGED <<reviewers, told, crashes, saver, served, prices, stale, missed,
                       fell, audience>>

\* LoadAdminService.reset: the stock of the hot product, if its row is still there ...
ResetStock(r) ==
    \E b \in Bodies :
        /\ b.op = "reset"
        /\ Receive(r, b)
        /\ IF row = Gone
           THEN Finish(r, "notFound") /\ UNCHANGED <<row, expected, overlapped>>
           ELSE /\ row' = Bumped(Baseline)
                /\ expected' = Baseline
                /\ Overlap(r)
                /\ Goto(r, "resetOrders")
        /\ UNCHANGED <<orderers, reviewers, told, crashes, saver, served, prices, stale,
                       missed, fell, audience>>

\* ... and then the orders of the load user.
ResetOrders(r) ==
    /\ pc[r] = "resetOrders"
    /\ orderers' = orderers \ {LoadUser}
    /\ audience' = [s \in Requests |-> audience[s] \ ({LoadUser} \ reviewers)]
    /\ Finish(r, "ok")
    /\ UNCHANGED <<row, reviewers, told, req, crashes, saver, served, prices, expected,
                   stale, overlapped, missed, fell>>

Others(r) == FindForRemove(r) \/ Delete(r) \/ Order(r) \/ ResetStock(r) \/ ResetOrders(r)

Crash ==
    /\ crashes < MaxCrashes
    /\ crashes' = crashes + 1
    /\ pc' = [r \in Requests |-> IF pc[r] = "idle" THEN "idle" ELSE "done"]
    /\ UNCHANGED <<row, orderers, reviewers, told, req, answer, saver, history>>

Next == (\E r \in Requests : Patch(r) \/ Others(r)) \/ Get \/ Crash

Spec == Init /\ [][Next]_vars

------------------------------------------------------------------------------
(***************************************************************************)
(* Properties.                                                             *)
(***************************************************************************)
\* Every variable has its type.
TypeOK ==
    /\ row \in Row \cup {Gone}
    /\ orderers \subseteq Users /\ reviewers \subseteq Users
    /\ told \in [Requests -> [Users -> Nat]]
    /\ req \in [Requests -> Bodies]
    /\ pc \in [Requests -> {"idle", "select", "write", "orders", "reviews", "tell",
                            "delete", "resetOrders", "done"}]
    /\ answer \in [Requests -> {"none", "ok", "notFound", "preconditionFailed", "error",
                                "conflict", "refused"}]
    /\ mine \in [Requests -> Row] /\ found \in [Requests -> Row \cup {Gone}]
    /\ previous \in [Requests -> Nat]
    /\ toTell \in [Requests -> SUBSET Users]
    /\ served \subseteq Row /\ prices \subseteq Nat /\ expected \in Int
    /\ audience \in [Requests -> SUBSET Users]
    /\ stale \cup overlapped \cup missed \cup fell \subseteq Requests
    /\ crashes \in 0..MaxCrashes

\* An order item always has its product, removal and saves of a removed product included.
OrderedProductStays == orderers # {} => row # Gone

\* No sale, reset or restock is undone behind its back: a PATCH of another column writes
\* an old stock only if the row had changed when its save looked.
StockIsKept == row # Gone /\ stale = {} => row.stock = expected

\* A 304 is right: what a client got under the current ETag is what it would get now,
\* whoever wrote the row in between.  (A save of an old row can bring a version back.)
EtagTellsContent ==
    stale = {} /\ row # Gone => \A s \in served : s.version = row.version => s = row

\* Optimistic concurrency: a PATCH with If-Match that nobody writes in the middle of
\* changes exactly what its client had seen.
PatchOfWhatWasSeen ==
    [][ \A r \in Requests :
            /\ pc[r] = "write" /\ row' # row /\ pc'[r] # "write" /\ req[r].tagged
            /\ r \notin overlapped /\ stale = {}
            => \E s \in served : s = row ]_vars

\* "Raising a product's price does not fire a spurious price_drop", and a drop reaches
\* everyone who ordered or reviewed the product, once, although orders, removals and
\* resets go on; claimed for a PATCH nobody wrote in the middle of.
DropsAreTold ==
    \A r \in Requests \ overlapped :
        /\ r \notin fell => \A u \in Users : told[r][u] = 0
        /\ answer[r] = "ok" /\ r \in fell => \A u \in audience[r] : told[r][u] = 1

\* The same without the proviso, which the code breaks: previousPrice is what the
\* handler read, not what its UPDATE replaced.
NoSpuriousDrop == \A r \in Requests, u \in Users : told[r][u] > 0 => r \in fell

\* Whatever PATCHes overlap, a notification quotes two prices the product really had,
\* the new one lower.  (A removed product is announced at a price it never had: save does
\* not notice that its UPDATE met no row.)
QuotesAreReal ==
    \A r \in Requests, u \in Users :
        told[r][u] > 0 => /\ previous[r] \in prices
                          /\ mine[r].price \in prices \/ r \in missed
                          /\ mine[r].price < previous[r]

\* Orders keep their product and the stock what they took, saves of old rows included.
SalesAreKept == OrderedProductStays /\ StockIsKept

\* An ETag stands for one content, for the GET it answers and for the PATCH it permits.
TagsAreTrue == []EtagTellsContent /\ PatchOfWhatWasSeen

\* A drop is told when and to whom it should be, at prices that were real.
DropsAreTrue == DropsAreTold /\ QuotesAreReal
=============================================================================
