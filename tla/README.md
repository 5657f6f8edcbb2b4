# TLA+ models and proofs of apiV2 and inventory-service

TLA+ specifications of the services in this repository that keep shared state: the NestJS API
(`apiV2/`) and the warehouse service it calls (`inventory-service/`). TLC checks every module on
small instances; TLAPS proves the central results for every value of the constants.

`PROJECT.json` is the index: components, runs, mutants (a changed definition under which a
property must fail), the source lines behind each definition, hazards and theorems.

## 1. The system

Both services are single Node.js processes in front of Postgres, through TypeORM. A handler is a
chain of awaited statements; between two of them any other handler, timer or continuation may
run. Only order creation opens a transaction. The Postgres default isolation (READ COMMITTED)
applies: a conditional `UPDATE` is evaluated on the latest committed row and takes the row's lock
to the end of its transaction. This is the atomicity of every model here: **one action per awaited
statement**, or per statement and the synchronous code after it. What lives only in memory
(variables of a handler, timers) is lost in a crash; what was committed stays.

| Component | State | Operations | What it calls | Hard part | What makes it correct |
|---|---|---|---|---|---|
| Orders, checkout (`orders/`) | products.stock, orders, order_items | place with Idempotency-Key, edit an item | coupons, orgs, inventory client, notifications | row locks, lock cycles, duplicate requests, pool of connections, crash after commit | nothing oversold or leaked, one order per key, true answers, every request answered |
| Coupons (`coupons/`) | used_count, expiry, org | redeem in checkout, create, list | orgs | race for the last redemption, a membership that changes under a checkout | used_count is the number of orders with it, never above the limit; a coupon of an organisation stays inside |
| Cart (`cart/`) | cart_items | add, set, remove, checkout | orders | add/add and add/checkout races, retried checkout | no add lost, one order per key, lines leave only by a remove or an order |
| Fulfilment, jobs (`jobs/`) | orders.status, jobs | fulfil, refund, webhook; timers | notifications | fire-and-forget continuations, crash | status advances, completed jobs did everything, jobs complete |
| Returns (`return-requests/`) | return_requests | submit, approve, reject | refund job | duplicate submission, two decisions | one return per order, refunds only after an approval |
| Tickets (`tickets/`) | tickets, ticket_events | create, assign, claim, start, resolve, close, cancel | - | read-check-save without a lock, sweep and deletion in between | history and status agree, claims hold |
| SLA sweep | slaBreached, breachedAt, a flag in memory | periodic stamp of a batch | ticket events | overlap of two runs, deletion in mid-batch, full batch | every overdue ticket found, none stamped twice by sweeps |
| Load reset (`load-admin/`) | stock of one product, orders and tickets of one user | reset | - | runs under handlers, sales and sweep | nothing is stopped by it, deleted tickets stay deleted, the stock it sets stays |
| Authentication (`auth/`) | users, token_records | register, login, refresh, logout | - | rotation races, unique email | one registration, one successor per token, spent tokens worthless |
| Users, admin (`users/`, `admin-users/`) | users row with version | patch with If-Match, set role, delete | jobs | stale saves that write columns and the version back, deletion in two sweeps | a version is changed once, deletion blocks re-entry and leaves no token |
| OAuth (`oauth/`) | two Maps in memory: codes, refresh tokens | consent, exchange with PKCE, refresh, client credentials | auth | entry taken before an await and its successor set after; account deleted, process restarted | one working credential per consent, used once, only for what it was issued for |
| Catalog (`products/`) | products row with version | GET and PATCH by ETag, picture, remove, price-drop notice | notifications | save of a row read earlier against sales, resets, removals | stock and ETag right, drops told once to the right people |
| Reviews (`reviews/`, `common/`) | reviews, reply; hits in memory | create behind a rate limit, page by cursor, reply | products, notifications | microseconds against milliseconds, window edges, two first replies | walks complete and finite, limit kept, author told |
| Organisations (`orgs/`) | org_memberships; org_id of orders, tickets, coupons | add, change role, remove; placing, reading, listing by org | - | membership read apart from what it decides, twice in one checkout | shown to and made by only who had the right at the time |
| inventory-service | warehouses, stock_levels, restock_events, backorder_requests | reserve, restock, create/rename/remove warehouse, set backorder status | - | no transaction at all, stale quantities, unique-insert race, cascade, crash | nothing overdrawn, units add up, shortfalls backordered and told |
| Inventory client | - | reserve after commit | inventory-service over HTTP | answer lost, service down | never fails a committed order, tells only of real backorders |

Interaction: `Cart.checkout` calls `OrdersService.create` in-process; that commits an order, then
calls inventory-service over HTTP, then writes notifications, then answers. Fulfilment, refund
and account deletion answer 202 and go on in timers. Sweep and reset touch tickets behind the
handlers' backs.

What is left out is in section 8, with the reasons; `PROJECT.json` has them per component.

## 2. Modules

```
OrderLedger            what order placement promises: one indivisible step
  ^      ^
  |      +-- Cart      uses that step as OrdersService.create   <- CheckoutProofs
  +--------- Checkout  implements it, statement by statement    <- CheckoutProofs
EntitySave             TypeORM's repository.save
  ^-- Fulfilment                                       <- WorkflowProofs
  ^-- Tickets                                          <- WorkflowProofs
  ^-- Account                                          <- AccountProofs
  ^-- Catalog                                          <- ProductProofs
GrantChain             what a sign-in with rotating credentials promises   <- OauthProofs
  ^-- Oauth            implements it (INSTANCE ... WITH)                   <- OauthProofs
Reviews                create, walk by cursor, reply, behind the rate limit
                                                       <- ProductProofs
Orgs                   memberships, and orders, tickets and coupons that depend on them
                                                       <- OrgsProofs
Inventory              inventory-service and apiV2's side of the call  <- InventoryProofs
FiniteSums             sums over finite sets, for CheckoutProofs and InventoryProofs
MC*                    values of the constants for TLC
```

The abstract step `Place` is the interface between checkout and cart: `Checkout` is shown to
implement `OrderLedger` (property `LedgerSpec`, theorem `ImplementsLedger`), and `Cart` then takes
an order as one step. The refinement mapping is the identity on `stock`, `used`, `orders`:
`Checkout` changes these only at its commit, uncommitted units are in `taken` and `redeemed`.

**OrderLedger.** `stock`, `used`, `orders`: committed columns. `units` of an order is not a column; it
records what the transaction took, so that later edits of the items can be told from the sale.

**Checkout** (`orders.service.ts` `create`, `applyCoupon`, `replayOrConflict`, `updateItem`;
`orders.controller.ts`). `pc` follows the handler: `LookUp` the key; `Begin` needs a free connection
of `PoolSize`; `TakeItem` is the conditional `UPDATE products` that waits while another transaction
holds the row (`Blocked`); `RedeemCoupon`; `ReadMembership`; `InsertOrder` (waits for an
uncommitted equal key, fails on a committed one); `Commit`; `ReplayAfterDuplicate`; `Reserve`. The
environment picks a deadlock victim, expires coupons, patches an order and kills the process.
Amounts are kept to what decides: a minimum order value against the subtotal.

**Cart** (`cart.service.ts`). `rows` are the lines of one cart; `copy` what a handler holds, `cartPc`
where it is. `add` is find, then increment in SQL or insert, then merge on the unique violation;
`update` is find and save; `checkout` is look-up (`CartLookUp`), read, pre-check, place, clear. The
id of a line names the request that inserted it, or a line of the start.

**EntitySave.** `save(entity)` selects the row again, diffs it against the entity in memory and
writes the differing columns. This is external (TypeORM); four modules depend on it, and the
difference between "writes the columns it changed" and "writes all columns" decides what is lost.

**Fulfilment** (`jobs.service.ts`, `orders.service.ts` `fulfill`, `return-requests.service.ts`). One
order. `pc` is the request, `stage` the continuation of its job. A crash empties `stage`; nothing
resumes a job.

**Tickets** (`tickets.service.ts`, `ticket-sla-sweep.service.ts`, `load-admin.service.ts`). `mine` is
the entity a handler read, `selected` what its save found. `overdue` abstracts the clock: a ticket
passes its deadline in one step. `stamps` counts breaches, so `breachedAt` is an ordinal. A save
that selected no row inserts it again; a restart cuts handlers and sweeps off between any two
statements. `rushed`, `held`, `unlogged` and `since` are history: they name the tickets and sweeps
the properties must excuse.

**Account** (`auth.service.ts`, `token-records.service.ts`, `users.service.ts`,
`admin-users.service.ts`, `jobs.service.ts` for the deletion). One account. A token is named by the
request that minted it and its family; access tokens have no record. `mine` and `found` are whole
rows: the version is a column that a save compares like the others, so one whose row was read at
another version than it now finds writes the old version back (`NextVersion`). `late`,
`answeredBefore`, `overlap`, `unswept` are history variables the properties need; no action reads
them. A deletion counts as over (`Over`) when its continuation has wiped the row.

**GrantChain, Oauth** (`oauth-code.service.ts`, `oauth.service.ts`, the two controllers). A credential
is named by the request it answered. Everything up to the first await is one step: `Exchange` and
`Refresh` look the credential up and take it out of its Map together. `ReadUser` is the await,
`MintCode` and `Issue` what follows. An entry in a request's hands is in neither Map; `Live` counts
it, and with that mapping each step is one of `GrantChain`: taking is a stutter, issuing is `Redeem`,
a refusal after taking or a restart is `Burn`. The environment moves the clock, deletes accounts (to
which the Maps are unknown) and restarts the process. S256 is taken to be injective.

**Reviews** (`reviews.service.ts`, `rate-limit.guard.ts`, `cursor.ts`, `walk-review-cursor.ts`). The
clock counts in `Micros` to the millisecond; `created_at` is the start of the inserting transaction, so
rows may commit out of its order. `Selected` is the query as Postgres parses it, with the OR that
`andWhere` leaves unparenthesised. `Guard` is one synchronous step; `hits` records who was let through
and when, and is emptied by a restart. The membership a create reads for its `orgId` is left out:
nothing reads that column.

**Catalog** (`products.service.ts`, `products.controller.ts`; the sale of `orders.service.ts` and the
reset of `load-admin.service.ts` as one step each). One product row. `mine` is the entity of a PATCH,
`found` what its save selected; `Versions` allows for either value TypeORM may write when the version
in memory differs from the one found. A picture upload is a PATCH of a column like the name.

**Orgs** (`orgs.service.ts`; `applyCoupon`, `persistOrderAtomically`, `findAllForOrg`, `findOneScoped`
of the orders, `canView` and `create` of the tickets, `create` and `findAllVisible` of the coupons).
Each read of a membership is a step of its own. `getForUser` returns any of several memberships, as
the code's comment says. Orders and tickets are one set, `docs`, of two kinds: they are tagged alike,
but only orders are listed and only tickets are shown to agents. What an agent sees of tickets depends
on their assignments and on no membership (`canView`): the assignments are in Tickets, and here an
agent who asks for another's ticket may be shown it or not. An agent who asks for an order is one
caller among others.
`held` (history) is what the caller's memberships were at the moments of a request. A request that is
cut off is one that never goes on; nothing forces it to.

**Inventory** (`inventory-service/src`: reservations, stock, warehouses, backorders;
`inventory-client.service.ts`; `reserveInventory`). `level[w][p]` is the `stock_levels` row of a
pairing or `NoLevel`; `era` stands for its id, which changes if a removed warehouse comes back.
`restocked` is the sum of a pairing's `restock_events`, `drawn` (history) what was taken from the
level that exists. A reservation reads the levels of a line (`ReadLevels`), tries one row per step
(`Draw`) with the quantity it read, and settles (`Settle`: backorder of the rest; the save of a
backorder and the next line are one step). The levels are tried by quantity and then by warehouse:
ids are arbitrary uuids, so any fixed order stands for theirs. `GiveUp` is apiV2 losing the answer
for any reason; a reservation posted directly, as the tests in `tests/api/inventoryOps` do, is to
the service one whose caller gave up.

## 3. Runs and what they show

All instances are finite sets of requests that each run once, so behaviours end: every cfg says
`CHECK_DEADLOCK FALSE`. Whether something is stuck is asked by the liveness properties instead.

The third column names a run's properties; one that is a conjunction lists its named parts in
parentheses, and each part is stated with its own comment in the module.

| Run | Instance | Properties | Shows |
|---|---|---|---|
| `checkout` | 3 requests out of 8 bodies, 2 products (stock 2 and 1), 1 key, pool of 2, 1 crash, 1 PATCH | TypeOK NoOversell StockLedger OneOrderPerKey AnswersAreTrue ConflictIsExplained LedgerSpec | nothing oversold, leaked or placed twice through rollbacks, lock cycles and a crash; a 409 names a real difference; Checkout implements OrderLedger |
| `checkout_coupon` | 3 requests out of 6 bodies, 1 coupon with limit 1, fairness, no symmetry | CouponLedger EveryRequestAnswered | the last redemption is given once; no request hangs on a lock or on the pool |
| `cart` | 4 requests out of 6 bodies on a cart with a line | OneCheckoutPerKey LinesAreKept (NoAddLost, VanishesInWindowOnly, OnlyOwnOrderClears) | adds are never lost to each other, a retried checkout orders once, a line goes without an order only if added while a checkout held its copy |
| `fulfilment` | 4 requests, up to 2 of each kind, 1 crash, fairness | NoOrphanedOrder CompletedMeansDone ReturnsAreUnique StatusOnlyAdvances LateCallerIsRefused (RetryIsRefused, LateDecisionIsRefused) AcceptedIsCompleted (JobsComplete, ApprovedIsRefunded) | status, jobs, notifications, returns agree; accepted jobs and approved refunds complete |
| `tickets` | 2 requests at any time out of 9 on a ticket in 3 states and a new one; 2 sweeps, batch of 1, 1 reset or restart, fairness | WorkflowIsKept (HistoryTellsStatus, ClaimIsKept) SweepIsExact (SweepNeverRestamps, StampsWhatItRead) NothingIsUndone (ErasedBySightOnly, DeletedStaysDeleted) BreachIsFound | the workflow, its history and the sweep hold while each interferes with the other; every overdue ticket is found |
| `account` | 3 requests of every kind, 1 crash | OnceOnly (OneRegistration, RotatesOnce, SpentTokenIsRefused) OneChangePerVersion DeletionIsFinal (DeactivationHolds, OnlyStragglersHoldTokens) | tokens, conditional changes and deletion |
| `inventory` | 3 requests out of 10 bodies, 3 warehouses, a tracked and an untracked product, 1 crash | NoOverdraw ShortfallIsBackordered BackordersAreTold UnitsAddUp (StockAddsUp, PromisesAreBacked, NoNeedlessBackorder) | no warehouse overdrawn, no unit lost, invented or promised twice, every shortfall backordered and told, none without need |
| `oauth` | 4 requests out of 11 bodies, 2 users, a code that lives 1 tick, 2 events (ticks, restarts, deletions) | TokensAreEarned (FirstPresentationOnly, BoundToConsent, DeactivatedGetsNothing) Rotates NothingOutlives | Oauth implements GrantChain; a credential works once, for its consent, in its process and time |
| `reviews` | 2 seeded reviews on 2 products, 3 requests, 2 ticks to the millisecond, window of 1 with 1 request, pages of 1, a removal or a restart | LimiterIsHonest (RateBound, RetryAfterSuffices) WalkIsSound (ExactApart, StraysWithinMs, CursorAdvances) FirstReplyIsTold (AuthorIsTold, EditsAreSilent) | the limit, the walk apart from rows of one millisecond, and the reply hold |
| `reviews_skipped` | the same without events | WalkIsExact | expected violation, section 5 |
| `catalog` | 3 requests out of 9 bodies, stock 2, 1 crash | SalesAreKept (OrderedProductStays, StockIsKept) TagsAreTrue (EtagTellsContent, PatchOfWhatWasSeen) DropsAreTrue (DropsAreTold, QuotesAreReal) | conditional requests, stock and price drops, apart from saves that overlap a write |
| `orgs` | 3 requests out of 19 bodies, 2 orgs, an owner, a member, an AGENT, an ADMIN, 2 coupons | ManagersOnly (ShownToManagersOnly, ListIsComplete, CouponsByManagers) OrdersAreMembers (OrgCouponsStayInside, TagIsTrue) RemovedStaysRemoved | no right outlives its membership, nothing of an organisation is missing or leaves it |

Every module also defines its type invariant, `TypeOK` (`CartTypeOK`, `TicketsTypeOK`, `ReviewsTypeOK`:
modules that one proof module extends share no names). Only the run `checkout` lists it; add it to the
INVARIANTS of another cfg to check it there.

Why these bounds are enough for what is asked. A race needs two actors, a lock cycle two; the third
request is the bystander whose rollback or retry meets them half way. Stock 2 and 1 is where the
second order fits and the third does not; opposite line orders give lock cycles; a body with one
product twice makes a line meet its own lock. One key shared by two users reaches the conflict. A
pool of 2 with 3 transactions is the smallest that starves if a transaction asks for a second
connection. Four fulfilment requests let fulfil, submit, approve and one rival meet. A batch of 1
with 2 overdue tickets overfills the batch. Four OAuth requests are a consent, an exchange, a refresh
and its rival. Two ticks to the millisecond give two rows one millisecond and different microseconds,
and three rows make two pages with a cursor between. Three catalog requests are a PATCH, a rival and
a bystander whose order or removal meets both. Two warehouses with equal stock 2 and orders of 2, 3
and 5 units reach one level, parts of two, the tie of the ordering, and a shortfall; the third
warehouse is created during the run. `NoOverdraw` and the others that are proved do not rest on
the bounds at all (section 6).

Named bounds: `MaxQuantity`, `MaxCrashes`, `MaxPatches`, `MaxServed` (ticket requests served of all
that may be), `MaxIncidents` (resets and restarts), `MaxEvents` (clock ticks, restarts, deletions or
removals), `MaxClock`, and the sets of bodies in the MC modules. `Batch`, `PoolSize`, `TTL`, `Window`
and `MaxRequests` are the code's own limits, made small.

Conditions in properties, and why. `HistoryTellsStatus` and `ClaimIsKept` excuse the tickets for which
two requests overlapped (`rushed`): with overlap they are false (section 5), and what they then show
is that the sweep and the sequence of legal calls cannot break the workflow. `StampsWhatItRead` and
`SweepNeverRestamps` excuse tickets saved since the sweep read its batch, `DeletedStaysDeleted` those
a handler was working on at the reset. In Catalog, `stale` marks saves that began on an old row and
`overlapped` PATCHes during which somebody else wrote: without these excuses `StockIsKept`,
`EtagTellsContent`, `PatchOfWhatWasSeen` and `DropsAreTold` are false, so what they show is which
interleavings are needed to break them. `EditsAreSilent` counts replies received before one was
stored; `ExactApart` excuses rows that share a millisecond. `OneChangePerVersion` is about the
requests that come after a conditional PATCH was answered and says nothing if another change of the
row (a PATCH, a change of the role, a deletion) was under way together with that PATCH: the other's
save may then write the version back (section 5). What runs beside the later requests does not
matter. `ReturnsAreUnique` asks of a refunded order a request that approved and was answered so, and
a row that is decided; it does not ask that the row say `approved`, since a rejection that overlapped
may have been saved over it (`DecisionIsFinal`). `StatusOnlyAdvances` holds of one started
fulfilment. `PromisesAreBacked` leaves out runs that remove
a warehouse (its `drawn` goes with it) and crashes; `StockAddsUp` allows a level ahead of its events
after a crash, which is what happens when the service dies between the two writes of a restock, and
skips a warehouse under rename, whose save may bring it back without the restocks that ran before.
`DeactivationHolds` excuses only accounts with a profile save in flight at the deactivation.

## 4. Fairness

`WF` on each handler: a promise of the event loop is eventually continued, Postgres executes a
statement that is not blocked, and breaks lock cycles (`AbortDeadlocked`, its `deadlock_timeout`).
Continuations of jobs: `setTimeout` fires. Sweeps: `setInterval` keeps firing, and an awaited statement
of a sweep is executed (`WF` of `\E s : Sweep(s)`; a single interval is fair as a whole, not each run
of it). No fairness for arrivals, deadlines, crashes, resets, coupon expiry or PATCH: nothing makes
them happen. Weak fairness is enough, because a transaction that waits for a lock stays at its
statement and the holder of the lock is itself fair; the finite number of requests ends every
competition for connections. `JobsComplete` is claimed only for runs without a crash.

## 5. Where the code and its texts part

One expectation that the repository states and the code breaks is a run of its own; TLC's trace is
the scenario. `reviews_skipped` / `WalkIsExact`: pages are sorted by microseconds and resumed by
milliseconds and id (`reviews.service.ts:79-87`), so of two reviews in one millisecond one may be
skipped or repeated; and the OR added by `andWhere` lets in reviews of other products. The comment
there says that truncating "keeps it exact".

More definitions state such expectations and have no run. Each is violated by the code in the same
manner; add it to the cfg named to see the trace (without SYMMETRY for a PROPERTY).

| Definition | Add to | What happens | Text |
|---|---|---|---|
| `DuplicateIsReplayed` | INVARIANT, `MCCheckout.cfg` | stock is taken before the key is inserted, so a concurrent duplicate that finds the stock gone is told 409 insufficient stock instead of being given the order | `orders.service.ts:76-80` "a repeated key returns the order that key already produced" |
| `ConflictMeansDifferentBody` | INVARIANT, `MCCheckout.cfg` | the replay compares with the order's current items; after a PATCH an identical retry is a conflict | `orders.service.ts:38-39` "a genuinely different body" |
| `ReplayNotBlockedByEmptyCart` | INVARIANT, `MCCart.cfg` | a retry looks the key up before the original commits and reads the cart after it was cleared | `cart.service.ts:107-108` "'cart is empty' must never block it" |
| `NothingVanishes` | INVARIANT, `MCCart.cfg` | checkout deletes by cart id what it did not order (`cart.service.ts:136`) | `tests/api/orders/cart-checkout.tflw:199-200`: the new item stays |
| `FulfilledOnce` | INVARIANT, `MCFulfilment.cfg` | two fulfil requests that both read `pending` are both accepted | `jobs.service.ts:39` "it cannot be fulfilled again" |
| `BreachedAtIsFinal` | PROPERTY, `MCTickets.cfg` | a handler's save writes the breach back to false, and a later sweep stamps it anew | `ticket-sla-sweep.service.ts:51-52` "never re-stamps breachedAt" |
| `ReauthIsBlocked` | INVARIANT, `MCAccount.cfg` | an administrator's save of a user read before the deletion writes `deactivated_at` back to null | `user.entity.ts:52-53` "blocks re-auth immediately" |
| `StaleTagIsRefused` | INVARIANT, `MCAccount.cfg` | a change of the role reads the row at version 1; a PATCH with If-Match 1 is answered 200 and makes it 2; the role is saved and writes version 1 back (`users.service.ts:87` and `admin-users.service.ts:27` save the whole entity, TypeORM bumps only a version it does not find changed); a later PATCH with If-Match 1 is answered 200 | `tests/api/identity/user-lifecycle.tflw:42` "The original writer's now-stale ETag is rejected" |
| `NoSpuriousDrop` | INVARIANT, `MCCatalog.cfg` | `previousPrice` is what the handler read: of two PATCHes, one that raises the price by then still tells of a drop | `tests/api/admin/notifications-and-tree.tflw:139` "does not fire a spurious price_drop" |
| `MembersOrdersAreListed` | INVARIANT, `MCOrgs.cfg` | an order keeps the org of its moment: one placed before its owner joined is not listed | `orders.service.ts:362` "every order placed by any member of their org" |
| `DecisionIsFinal` | PROPERTY, `MCFulfilment.cfg` | approve and reject both read REQUESTED, both succeed, the later save decides the row | `return-requests.service.ts:97-98` "a decision is final" |
| `NoRetroactiveBreach` | PROPERTY, `MCTickets.cfg` | the sweep stamps by id a ticket that was cancelled or resolved since it read the list | `ticket-sla-sweep.service.ts:49-51` "no retroactive breaching" |
| `FirstClaimWins` | INVARIANT, `MCTickets.cfg` | two claims read the ticket unassigned, both are answered 200 | `ticket.entity.ts:46-47` "first-caller-wins" |
| `CancelOrResolve` | INVARIANT, `MCTickets.cfg` | cancel and resolve both pass their check | `tickets.service.ts:258-260` |
| `ConditionalPatchKept` | INVARIANT, `MCAccount.cfg` | If-Match is compared with a row read earlier and the save is unconditional | `users.service.ts` `patchAttributes` |

Two more, seen in the runs that pass: two first replies under way together both notify the author
(`reviews.service.ts:110-113` speaks of "only the *first* reply"; `EditsAreSilent` counts them), and a
membership removed while its role is changed comes back (`RemovedStaysRemoved`).

## 6. What is proved

Seven modules hold the proofs and an eighth the lemmas on sums. Between them they state, for every
value of the constants, every property of the passing runs that is not a liveness property, and the
type invariant of every module that has one. Each theorem is `Spec => []P` for an invariant or `Spec =>
[][A]_vars` for an action property; where a run's property is a conjunction of both kinds, the theorem
is `Spec => P`.

Assumptions: only the named ASSUMEs of the modules. They type the constants, set the model values
apart, and say what the code and its schema guarantee of the start:

- `OrgsAssumption`, `CartAssumption`: the rows there keep the unique constraints and have ids of
  their own, which no generated id equals; nobody is ADMIN and AGENT, and a ticket is submitted
  without a coupon.
- `AccountAssumption`, `CatalogAssumption`, `ReviewsAssumption`: a row is not the value for "no row",
  the columns of a body have the types its DTO asks for, and the limiter's two limits are positive.
- `TicketsAssumption`, `StartAssumption`: a new ticket has an id of its own, only agents claim
  (`Roles(AGENT)`), and the tickets of the start have been through the workflow.
- `FulfilmentAssumption`, `ReviewsAssumption`, `TicketsAssumption`, `InventoryAssumption`: the requests
  (tickets, warehouses) are finitely many, which a Cardinality or a sum over them needs; a new
  warehouse gets an id no other has.

Otherwise the sets of requests, products, coupons, users, organisations may be of any size, infinite
included; bodies may have any number of lines.

TLC checked each invariant on the run of its module while it was being found.

**CheckoutProofs.** The properties are not inductive: that stock covers what is taken, for instance,
depends on no two transactions holding units of one product. `IInv` adds what the database
guarantees between two statements: `StockLocks` (a row taken is locked by one transaction, and its
committed value still covers what was taken), `CouponLocks` (a redemption is open exactly from its
UPDATE to the end, by one transaction, with one left), `KeyLocks` (an inserted key is in no
committed order and no other transaction), `OrderIds` (an order belongs to one request past its
commit), `CouponCount` (used_count is a cardinality). `Shape` classifies every step by what it does to
the orders: nothing, one insert or commit, or one PATCH; each part of `IInv` then has its own lemma.

- `TypeCorrect`, `StockNeverOversold`, `KeysAreIdempotent`, `AnswersAreHonest`,
  `CouponsNeverOverused`: the run's TypeOK, NoOversell, OneOrderPerKey, AnswersAreTrue, CouponLedger.
- `ImplementsLedger`: `Spec => LedgerSpec`, the refinement; `OrdersAreAllOrNothing`: the action
  property.
- `ConflictsAreExplained` (ConflictIsExplained): the order that a refused retry was compared with
  stays committed, with the items it was placed with until a PATCH.
- `NothingLeaks` (StockLedger): the books of stock, over FiniteSums. `TakenSoFar` says
  that an open transaction has taken exactly the lines it has passed, `SoldAsOrdered` that a
  committed order has the units of its lines, `Balanced` that stock and sold units make up the start.

Of Cart, which takes an order as the one step that `ImplementsLedger` justifies:

- `CartsAreOrderedOnce` (OneCheckoutPerKey): no two orders share a key, because `Place` is guarded by
  `KeyFree`, and who was given an order under a key has one (`CartKeys`); `CartStep` is all that a
  handler of the cart may do to its stage, its answer and the orders.
- `CartTypeCorrect`, `LinesStay` (LinesAreKept: NoAddLost, VanishesInWindowOnly, OnlyOwnOrderClears).
  `LinesTell` says that an id tells the product of its line for good and that a product has one line,
  in the cart and in every copy of it, so an increment by id adds to the product that was found;
  `CartStageTells` ties the stage to what was asked for. On these rest the books. `AddsAddUp`: while all
  requests are adds, the lines are what there was and what was sent. VanishesInWindowOnly is not
  inductive: the step that clears the cart loses everything in it, and only what the checkout ordered
  accounts for that. `HeldOrOrdered` carries the account along: while a checkout holds a copy nothing
  more falls due, what it read is in its copy or was ordered, and what it placed is ordered.
  `UnitsMove` lists the five kinds of step there are (units added, cart copied, copy ordered, cart
  emptied, nothing), so each part of the books has five cases.

**FiniteSums.** `MapThenSumSet` and `SumFunctionOnSet` are recursive functions on subsets, and no
induction theorem of the library can be used on them here, since those take an operator.
`LeastSubset` is induction in first-order form: a nonempty family of subsets of a finite set has a
least member (from `WFMin` and the well-foundedness of strict inclusion). With it a least
counterexample shows that the recursion has a solution, that it does not depend on the order of
picking, and that one member may be set aside first (`SumOfWithout`, `SumWithout`). From there
`SumSame` (equal terms, equal sums) and `SumMoved` (one term changes, comes or goes), which is how a
step acts on a sum.

**InventoryProofs.** `IInv` ties the place of each handler to what it has written. `Levels`: every
level is a natural number, preserved because a `Draw` is guarded by the current row and everything
else adds. `Progress`: a reservation has answered exactly the lines before its current one, and
wants no more than its line. `Caller`: apiV2 is behind an answered reservation and has told of the
results it handled. `Accounts`: every line answered has its one backorder of the right size or
none, and notifications copy backorders. One lemma per kind of step (`ReservingStep`, `SettleStep`,
`OtherStep`, `SetStatusStep`, `CallStep`, `CrashStep`).

- `TypeCorrect`, `Invariance`, `NeverOverdrawn` (NoOverdraw), `EveryShortfallBackordered`
  (ShortfallIsBackordered), `CustomersAreTold` (BackordersAreTold).
- `UnitsAlwaysAddUp` (UnitsAddUp: StockAddsUp, PromisesAreBacked and the action property
  NoNeedlessBackorder), from a second inductive invariant, `Ledger`. `CellMoves` lists all that a step
  can do to the level, the restock events and the draws of one pairing; `UnloggedMoves` and
  `PromiseMoves` what it does to the sums. StockAddsUp is not inductive without `OpensOnce` (a warehouse
  nobody renames opens once, so the warehouse a restock found is, until it is gone for good, the one
  its event will name) and `Emptied` (what has no level has no books). PromisesAreBacked needs that a
  tracked product stays tracked (`Backed`), so that a reservation never grants units for want of
  levels. NoNeedlessBackorder needs `Alone`: the rows that a reservation without company has not
  tried are as it read them, so the row it tries covers the take, and one that leaves something
  wanted is emptied by it (`DrawKeepsRead`).

**OauthProofs.** `ChainOneLive`: in the abstract chain no consent has two live credentials, because a
successor goes live only as its predecessor stops, and a live credential has an origin (`ChainInv`).
`RotatesHolds`: `Spec => Rotates`, the refinement. It needs to know that no step revives a credential:
`NothingMintedYet` (a request that has not answered has minted nothing), `TakenIsGone` (what a request
holds is in neither Map), `OneTaker` (no two requests hold one credential) and `OneMap` (a credential
is in one Map at most). There is one lemma per handler step, each giving the step of the chain it is.
`OneLive`: no consent of Oauth has two credentials that work, from `RotatesHolds` and `ChainOneLive`
under the mapping, without looking at Oauth again.

On top of that, `EarnedInv` follows a credential from its consent to the token: `RootIsAllowed` (what
descends from a request descends from an allowed consent), `EntryIsTrue` and `HandIsTrue` (an entry, in
a Map or in hand, is of that consent's account, redirect and challenge), `TurnIsTaken` (who took an
entry was the first to present it), `LateFindsOut` (who came after the deletion finds the account
inactive), `AgeIsTrue` (an entry is of this process).

- `TypeCorrect`, `TokensAreAlwaysEarned` (TokensAreEarned), `NothingOutlivesHolds` (NothingOutlives).

**WorkflowProofs.** Of Fulfilment: `FulfilmentInv` says what each stage of a continuation has done
(`Stages`, `NotesInOrder`: which statuses the owner was told of), that a return has one row whose
refund waits for a decision, and for an approval that was answered (`OneReturn`,
`RefundsAreDecided`), that an accepted job is past
`pending` (`AcceptedIsNotPending`), and that the status is the one the continuation last wrote while at
most one fulfilment was started (`StatusFollows`).

- `TypeCorrect`, `NoOrderIsOrphaned`, `CompletedJobsAreDone`, `OneReturnPerOrder`,
  `LateCallersAreRefused`, `OneFulfilmentAdvances`.

Of Tickets: `TicketInv` follows what every save and every sweep has in hand, and what is written and
not yet logged. `HistoryIsAWalk` and `NextIsLegal` say that a history is a walk of the workflow that
ends at the status in the row, or one legal step before it while that step waits to be logged; they
hold for tickets never rushed, on which requests are alone (`Sole`) and a save meets the row its
SELECT found but for the sweep's columns (`SeesAlone`, `SavedTicket`). `ClaimsStay` has the claimer in
the row and in every copy of it. `BatchIsFresh` says that what a sweep has not come to is as it read
it, unless saved since, with no ticket twice and no second sweep beside it (`OneSweep`);
`BreachesAreKnown` that a breach anybody has seen is logged or about to be; `ThereUnlessReset` that a
ticket in somebody's hands is there unless a reset took it. `StatusOfAppend` and `LegalAppend` say
what one more event does to a history.

- `TicketsTypeCorrect`, `WorkflowKept` (WorkflowIsKept), `SweepExact` (SweepIsExact), `NothingUndone`
  (NothingIsUndone).

**AccountProofs.** Three invariants over a common `Base` (types, which operation is at which stage,
whoever works on the account finds it). `OnceInv`: a claimed token is dead to all but its claimer
(`ClaimedIsDead`) and whoever comes after the answer meets it dead (`SpentIsDead`). `PatchInv`: a save
of a PATCH always has something to write (`AttributesAreSaved`). While a conditional PATCH runs that no
other change of the row accompanies (`Alone`), the row stays at the version it asked for
(`VersionInHand`); its save finds that version, hence bumps it. From then on the row and every row in
memory are past it (`VersionIsPassed`): a row is in memory at a version the users row had after
the answer, so what a save writes back is past it too, and whoever comes later with the old version
is refused (`LaterIsRefused`). `DeletionInv`: unless a save was under way at the
deactivation, every profile in memory agrees with the row (`InMemoryAgrees`), so nothing writes
`deactivated_at` back, who came later is stopped at its next read (`LateIsRefused`), and after the
second sweep only those under way at it can mint (`SweptIsSwept`).

- `TypeCorrect`, `GrantedOnce` (OnceOnly), `OneChangeEach` (OneChangePerVersion), `DeletedForGood`
  (DeletionIsFinal).

**ProductProofs.** Of Catalog: `InHand` says what a save holds: a PATCH that nobody overlapped has the
row as it is with its own columns assigned, one that is not stale has assigned them to the row its
SELECT found. From this the stock written is the stock found unless the body names it, and every write
of a fresh row is one version ahead of all that was served (`TagsAreBehind`). `Notified` and `Quoted`
follow the notifier: whoever is concerned is still to be asked for, to be told or told once, and the
prices quoted were read from a row or written to one.

- `TypeCorrect`, `SalesStay` (SalesAreKept), `TagsTell` (TagsAreTrue), `DropsAreHonest` (DropsAreTrue).

Looking for the invariant corrected `QuotesAreReal`, which was too strong as stated before: a PATCH
whose UPDATE meets no row, because the product was removed meanwhile, is answered 200 and tells of a
drop to a price the product never had. Two PATCHes, a removal and an order are needed for somebody
to be there to be told (the second PATCH inserts the product anew, the order is by whom is told), so
the run's three requests do not reach it. `missed` names such PATCHes.

Of Reviews: `ReviewsInv` has three parts, one for each promise, over the types and stages.
`RepliesAreTold`: a review whose reply is stored has an author who was told, is about to be, or whose
telling a crash cut off (`IsKnown`), and he was told as often as a first reply was answered; an edit
never notifies. `HitsRemember`: the limiter remembers whom it let through for a window, and no hit it
holds outlasts what a refused client was promised; with it no window holds more than the limit
(`RateBound`). `CursorTells`: of the reviews that share their millisecond with no other, the cursor
parts those the walk has returned exactly once from those it has yet to return; `CursorIsLast` and
`Traced` say that the cursor is the last review returned and how a review of another product gets in
(only behind one of its own millisecond).

- `ReviewsTypeCorrect`, `FirstReplyTold` (FirstReplyIsTold), `LimiterHonest` (LimiterIsHonest),
  `WalkSound` (WalkIsSound).

**OrgsProofs.** `HeldIsCurrent` says that what the caller is a member of now is in `held` while a
request is under way, `ManagerInHand` that who is about to act for an organisation managed it at some
moment of `held`, `RowsStay` and `IdsAreMadeOnce` that what was read or shown stays and ids are made
once (an id shown is of one row, which has one kind), `PlacedForMembers` and `TagIsTrue` what an
order under way and a placed one remember,
`OnlyRevivedIsFound` that a removed membership is found again only by a change of role under way
together with the removal.

- `TypeCorrect`, `OnlyManagersManage` (ManagersOnly), `OnlyMembersOrder` (OrdersAreMembers),
  `RemovalsLast` (RemovedStaysRemoved).

Only model-checked: the liveness properties EveryRequestAnswered, AcceptedIsCompleted and BreachIsFound,
since the prover has no rules for fairness and ENABLED. The definitions of section 5 are false of the
code, so TLC shows a trace and there is nothing to prove.

## 7. Reading and running

Each module begins with what it models, then constants, variables, actions in the order of the
code, properties. A definition commented `Mutant:` is a plausible bug; nothing uses it except the
mutant named in `PROJECT.json`.

    tlc -workers 2 -config MCCheckout.cfg MCCheckout
    tlapm CheckoutProofs.tla

## 8. Not modelled, and plan

Not modelled, and why:

- Creation and batch creation of products, categories, organisations themselves: one insert each, of
  rows no other request can know yet. Offset pages, searches, exports, receipts, invoices, GraphQL,
  storefront: reads without state.
- The thread of replies under a review and the comments of a ticket: rows are only inserted and go
  with their parent; the checks before the insert are on rows that never change.
- Fixtures that count calls by key in memory (`retry-demo`, `flaky-widget`, `lifecycle`, CSRF rotation,
  expiring session): each call is one synchronous step and nothing is promised beyond the count.
- Uploads (file input), signatures, contract and safety demos: pure functions of one request.
- `apiV2/src/vuln`: wrong on purpose, so it has no properties. Seed and migrations: run before the
  service does; the constraints they create are part of the modules that rely on them.
- `webV2`, nginx: rendering and proxying. `scripts/`, `tests/`, `tflw-acceptance/`: the tooling and
  suites that run against the system. They are more than half of the repository's lines, read as
  statements of what the system promises, with no state of the system of their own. One client
  they contain, the walk by cursor, is in Reviews.
- In the modelled components: listings, formats, password hashing, the wording of answers.

Done, most important first: OrderLedger, Checkout and its proofs; Cart; Fulfilment; Tickets; Account;
Inventory and its proofs; GrantChain, Oauth and their proofs; Reviews; Catalog; Orgs; the proofs about
Fulfilment, Account, Orgs and Catalog; those about Tickets, Reviews and the lines of Cart.

What is left is liveness, which the prover cannot state, and what is listed above as not modelled.
