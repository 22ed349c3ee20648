# A verification development for SupplySync

SupplySync is a Django backend for the stock of several warehouses: products,
purchase orders that bring stock in, sales orders that reserve and dispatch it,
adjustments, transfers, cached reports. This directory holds TLA+ modules that
model its services, TLC configurations that check them on small instances,
and proofs, checked by TLAPS, that hold for every value of the constants.
`PROJECT.json` relates every definition to source lines and lists the runs,
the mutants that each property catches, the hazards, the findings and the
theorems.

    tlc -config MCSalesOrders.cfg MCSalesOrders      one run
    tlapm SalesOrdersProofs.tla                      the proofs of a component

## The system

Requests are served by threads of web processes, events by Celery workers. All
state is in PostgreSQL and Redis. A view checks a permission, validates the
request and calls one function of a `services.py`; that function is the unit
the models describe.

| component | state | operations | what is hard |
|---|---|---|---|
| inventory | `inventory` rows (available, reserved, damaged per product and warehouse), `inventory_transactions` | `adjust_inventory`, `transfer_inventory` | several services update the same columns; rows come into being on first use; row locks |
| sales orders | order, items, status | create (reserves), dispatch, deliver, cancel | two orders for the last units; reserved units given back exactly once |
| purchase orders | order, lines with ordered and received quantity, status, author, approver | create, submit, approve, receive, cancel | partial receipts, several lines of one product, unvalidated quantities, author and approver; rows locked line by line |
| warehouses, suppliers, categories, products | coded rows with `is_deleted`, `is_active`, parents | create, update, soft delete, category tree | no locks and no transactions: check, then act; whole-row saves of old copies |
| accounts | users, passwords, refresh tokens and their blacklist | register, login, change of password, logout | a login saves the row it read before a password changed |
| cached views | Redis entries with timeouts | lookup, query, store; deletion by the writers; a periodic task; an event task | deletion before the commit, readers that a commit overtakes, lost deletions |
| low-stock event | the Celery queue in Redis, events being handled | publish, take, handle, retry | publication outside or before the commit, early acknowledgement, lost processes, a client that repeats a request |
| order numbers | a Redis counter per kind and day | `add`, `incr`, insert under a unique constraint | others between the commands, midnight, loss of Redis |
| login throttle | a Redis counter per address | two checks, password check, `add`, `incr`, reset | check and count are separate; the key goes between the commands |
| reports | none; a report under way | valuation, two order summaries, dashboard | several queries while the tables change |
| API | the answer to a request | permission, service, status code | permissions given as objects |
| settings, tasks that log | none that interacts | | see "What is not modelled" |

Interactions. `receive_purchase_order` calls `adjust_inventory` inside its own
transaction. Sales orders write the inventory columns directly. Deleting a
warehouse reads the stock; adjusting looks the warehouse up; transferring
does not. Every stock call deletes cache keys, some before and some after its
commit, and `adjust_inventory` publishes an event, whose task reads the row as
it is by then and may delete another key.

## Modules

| module | models | abstraction |
|---|---|---|
| `Totals`, `Nullable` | sums over functions; a value that may be absent | a fold, no recursion, so that it can be proved about |
| `StockPromise` | what sales orders promise a customer | abstract specification: units on hand and set aside per place, an order taken, shipped or released once |
| `Inventory` | `apps/inventory/services.py`, `delete_warehouse` | one action per successful call |
| `SalesOrders` | `apps/sales_orders/services.py`; extends `Inventory`, implements `StockPromise` | one action per successful call |
| `PurchaseOrders` | `apps/purchase_orders/services.py`; extends `Inventory` | one action per successful call |
| `SupplySync` | the three together over the shared tables; implements `StockPromise` | composition |
| `RowLocking` | every call of `SupplySync`, run by several workers | statement by statement: locks, copies in memory, rollback, deadlock detection, crashes |
| `Api` | the views around `SupplySync` | permission, service and answer |
| `StockViews` | the cached views and every call that changes what they show | contents are versions |
| `StockEvents` | the low-stock event from request to alert | commit, publication, queue, task and retry as separate steps; Redis, web and worker processes fail |
| `Catalogue` | rows of warehouses, suppliers, categories, products | statement by statement, in autocommit |
| `CategoryTree` | parents of categories and `get_category_tree` | statement by statement; the tree as an operator |
| `Accounts` | `apps/accounts/services.py` | read and save as separate steps |
| `Valuation`, `OrderSummaries` | `get_inventory_valuation`, the two order summaries | query by query |
| `RedisCounter`, `OrderNumbers`, `LoginThrottle` | the two users of Redis counters | command by command |
| `MC*` | values of constants, symmetry; `MCParts` holds the parts that share no state, `MCStockViews` the cached views and the catalogue | |
| `TotalsProofs`, `InventoryProofs`, `SalesOrdersProofs`, `PurchaseOrdersProofs`, `SupplySyncProofs` | theorems about the atomic services and the lemmas on sums they rest on | |
| `RowLockingProofs` | theorems about the interleaved calls | |
| `PartsProofs` | theorems of the parts that share no state: counters, cached views, the low-stock event, accounts, catalogue, category tree, reports; and of all of them side by side, as `MCParts` runs them | |
| `ApiProofs` | theorems about the requests, for any users, roles and orders | |

Correspondence, where it is not one to one:

* A service call that raises leaves nothing behind, so in the atomic modules it
  is no step. Its conditions are the guards. The calls that move stock or orders
  are rolled back by `transaction.atomic`; `delete_warehouse` and the calls of
  the catalogue run in autocommit and raise before they write.
* That one action is one step is an abstraction: `RowLocking` takes every call
  apart into statements and shows under which conditions it is sound. For
  `delete_warehouse` it is not the transaction that makes it so, as there is
  none: `DeleteWarehouse` is one action in `Inventory` and two in `RowLocking`,
  `CheckEmpty` and `MarkDeleted`, and what may happen between them is the
  subject of the run `delete_race` and of the hypothesis `DeletionsAlone`.
* Where a service looks a warehouse up before it writes, its action is the
  look-up and the write: `AdjustInventory` is `WarehouseFound` and
  `StockAdjusted`, and so with `WarehouseMarked`, `SalesOrderCreated`,
  `Restocked` and `PurchaseOrderReceived`. `InvWrites`, `SOWrites`, `POWrites`
  and `SyncWrites` in the proof modules are the writes alone. The proofs of the
  accounting need no more, so they also hold of calls whose warehouse is
  deleted between the look-up and the write.
* `quantity_available`, `quantity_reserved`, `quantity_damaged` are functions
  on all keys, zero where `rows` has no row. `ledger` sums the audit table by
  key and posting. A posting splits a transaction type where the code marks
  the row by its reference or its notes: INBOUND by hand or by a receipt,
  OUTBOUND by hand or by a dispatch, TRANSFER out or in. An adjustment of type
  TRANSFER writes an audit row and moves nothing, in the code and in the model.
* ADJUSTMENT only ever adds. The branch for a negative quantity is dead, since
  quantities below one are refused first (`inventory/services.py:34`).
* `Fits` is the limit of an IntegerField column: PostgreSQL refuses a larger
  value, the call is rolled back. Python integers do not overflow.
* `SalesOrders!KeepsPromises` maps `on_hand` to available plus reserved units
  of the row, `state` to the status of the order (DISPATCHED and DELIVERED are
  "shipped"), `units` to its items in the place its warehouse makes of them.
* `RowLocking` has a request per worker (`call`), the statement it is at
  (`pc`), the rows it has still to lock (`todo`; for a SELECT FOR UPDATE and
  for the lines of a receipt in any order, as neither query has one), and its
  model instances (`local`). Writes that are not committed touch rows the call
  has locked, so they take effect at `Commit`. PostgreSQL at its default
  isolation level, READ COMMITTED, is modelled from how the code uses it: a
  SELECT FOR UPDATE locks the rows that exist and returns their committed
  state, a plain SELECT takes no lock, an INSERT of a key waits for another
  uncommitted one. A receipt checks each line, and `adjust_inventory` looks its
  warehouse up, before it asks for the lock of the row (`CheckLine`).
  `ATOMIC_REQUESTS` is not set, so functions without `transaction.atomic` run in
  autocommit.
* `StockViews.Script` is the order in which a call commits, deletes keys and
  publishes, and `writing` says at which step of it a call is. `Shows` says what
  each view reads, `Writes` what a call writes; a commit raises the version of
  the views where they meet. `Answer` ends a call that has done all its steps,
  and the history `answered` then remembers its change for the views in
  `Refreshes`: those whose keys the code deletes after the commit. `BreakOff`
  ends a call anywhere without an answer: a refusal before the commit, a dead
  process or a Redis failure after it.
* `StockEvents`: an adjustment commits and then publishes; a receipt publishes
  from inside the transaction it commits later, with the row locked. Celery
  acknowledges an event before the task runs and the task retries three times
  by publishing itself again. A commit may fail, or succeed with its
  acknowledgement lost (`LoseCommit`): the client then sees an error of a call
  that took effect. `unseen` and `missed` are histories: rows left
  low with no alert since, and rows whose event was lost or came to nothing.
* `Catalogue.StartCreate` stands for the check of the serializer and the same
  check in the service: a creation that passes the first and fails the second
  leaves no trace. An update goes by its table to a row that the service, not the
  serializer, looks up. The stock check of `delete_warehouse` is in `Inventory`;
  here a deletion may be refused at will.
* `Accounts`: a login checks the password of the row it reads and saves the
  column `last_login_at` later. `AfterLogin` is what `save(update_fields=...)`
  leaves of the password. `chosen` is a history.
* `OrderSummaries.SalesQueries` is the order in which the queries run, not the
  one in which they are written: the breakdown is a lazy queryset that is
  evaluated in the answer. Orders start CONFIRMED or DRAFT.
* `Api.ClassOf` and `ObjectOf` say what a view puts into `permission_classes`,
  a class or an instance; the framework calls it. The service is one atomic
  step together with the answer.
* `OrderNumbers.AbandonDraw` and `LoginThrottle.EndRequest` stand for every
  way to fail after the first command, the ValueError of `incr` included. The
  cache backend of Django runs `incr` as EXISTS and INCR, so a key that goes
  between the two is created again: with number 1, or with one failure and no
  timeout (`lasting`).

## What is checked

Passing runs:

| run | shows | bounds |
|---|---|---|
| `stock_and_sales_orders` | columns, audit table and orders agree after every call: no column below zero, every row explained by the audit table, reserved units are those of the open orders, dispatches match the orders, a deleted warehouse holds nothing an order needs, a product is conserved over all warehouses; the services implement `StockPromise` | 1 product, 2 warehouses, 2 orders, columns to 2, 5 units posted |
| `service_layer` | the same for purchase orders and the whole: receipts are accounted for, never exceed the order, decide the status; nobody approves his own order; the order tables and manual movements explain the stock | 2 lines, ordered quantities -1, 1 and 2, 2 users, 1 order of each kind |
| `row_locking` | no worker saves a stale copy, no transfer reads a row it has not locked, and the interleaved calls implement `SupplySync`: every commit is one atomic call, in the order of the commits | 2 workers, 2 products, 2 warehouses, 2 sales orders |
| `calls_end` | every call ends, deadlocks included, and the calls implement `SupplySync` with purchase orders too | 2 workers, 2 products, 3 warehouses, 1 sales order, 1 purchase order of 2 lines, 2 users |
| `stock_views` | once a call is answered, an entry that was read before its change was also stored after it, by a reader that was overtaken; when changes stop, timeouts make every view fresh; in behaviours of their own, the rows of the catalogue: codes are unique, a deletion is only undone by a request under way across it, deleted warehouses are inactive, warehouse codes never change | 2 writers, 1 reader, 2 views, 2 changes per view; 2 clerks, 2 rows, 2 codes |
| `parts` | see the next table | |

The other parts that share no state are checked in one run, each in its own
behaviours; the others keep their initial states.

| part | shows | bounds |
|---|---|---|
| order numbers | numbers collide only after Redis lost their key, though the key may go between any two commands | 2 creators, 2 days, 2 numbers a day |
| login throttle | failures are counted exactly; the limit is exceeded by at most the requests under way | 2 workers, 1 address, 5 failures |
| category tree | every category is shown below exactly one of the top, whatever creations run at once | 2 editors, 4 categories |
| accounts | the password of a user is the one set last: no login brings an old one back | 2 visitors, 1 address, 2 passwords, 2 tokens |
| valuation | the total is off by no more than what moved during the report | 3 warehouses, values to 2, 2 moved |
| order summaries | no order of the total is missing in the breakdown although orders go on between the queries | 2 sales orders, 1 purchase order |
| low-stock event | a row left low is alerted, filled up, or its event was lost by a named failure; the alert comes; a repeated adjustment is applied twice only after a failure of Redis, of the web process or of the connection at COMMIT | 2 clients, 1 handler, 1 row, stock to 2, 2 requests and events under way, 2 applications |

Violation runs, each a disagreement between the code and what the repository
says of it; the findings of `PROJECT.json` quote the text:

| run | what happens |
|---|---|
| `lost_update` | A transfer into a warehouse without a row for the product locks nothing there and reads the row without a lock. An adjustment that commits in between is overwritten: it is in the audit table and not in the stock. |
| `lock_cycle` | Two transfers in opposite directions lock the two rows in opposite orders: ids are sorted, but the query has no ORDER BY. |
| `delete_race` | Stock arrives between the check of `delete_warehouse` and its save. |
| `empty_receipt` | A receipt that names no line of the order moves it to PARTIALLY_RECEIVED or RECEIVED. |
| `detail_after_order` | The product detail is deleted from the cache before the commit, and a reader stores the old stock again. |
| `approval_over_http` | The view that approves puts an instance into `permission_classes`; every request is answered 500, and no order is ever approved. With `ClassOf` in place of `ObjectOf` the same run passes, so nothing else in the model stands in the way. |

`row_locking` and `lost_update` belong together. Refinement holds where a
transfer finds both its rows, and the first run checks that, with rows inserted
by adjustments of another product. It fails where the transfer has to create
or re-read an unlocked row, and the second run shows how. `calls_end` starts
with the rows of the product that is transferred for the same reason; there
the receipts insert the rows of the other one. The calls of each run are named
in `MCRowLocking`.

### Bounds

`MaxPosted` bounds the units in the audit table, `MaxInteger` stands for the
limit of a 32-bit column, `MaxVersion`, `MaxEvents`, `MaxDate`, `MaxSequence`,
`MaxCategories`, `MaxValue`, `MaxMoved`, `MaxStock`, `MaxUnderWay` bound
counters. `SalesOrder`, `PurchaseOrder`, `Line`, `Id`, `Token`, `Sale`,
`Purchase` are the rows that may be created. Quantities enter the services only
through comparisons and additions, so what matters is that a boundary is
reached from both sides: 0, 1 and 2 units with two competing orders give the
last unit, the exact amount and one too many. Five posted units allow an order
to be stocked, moved, dispatched and the stock refilled. Two workers make every
conflict over one row and every cycle of two; longer cycles resolve in the same
way. A third warehouse without stock is there to be deleted. One reader
suffices for overtaking, as readers do not see each other except through the
entry. `MaxVersion = 2` lets an entry be old, current, and outdated again.
Five login failures and two workers reach the count of six that the bound
allows. Two days and a restart put a draw on either side of midnight and of the
loss. Two requests under way let an event meet another change of its row and a
receipt that is not committed; a stock of two with a reorder level of one has
two low values and one that is not. A failed adjustment is repeated once, since
a second application is what the property is about. Three warehouses let a
report be between the two ends of a transfer. Symmetry is used over sets that
no temporal property and no fairness condition of the run names: workers and
orders, and for the catalogue rows, codes and clerks.

Runs that bound the audit table or the orders stop when the bound is reached;
they say CHECK_DEADLOCK FALSE and why.

### Fairness

* `CallsEnd` assumes strong fairness of each worker's next statement: a worker
  that is running is scheduled, and PostgreSQL grants a lock to its waiters in
  the order of arrival, so a lock that is free again and again is obtained. The
  deadlock detector is part of that statement. No fairness is assumed of
  clients and none against crashes: a crash ends a call too.
* `SettlesFresh` assumes weak fairness of `Expire` only, which Redis guarantees
  for the timeouts every `cache.set` passes; nothing is assumed of readers,
  writers or tasks.
* `AlertComes` assumes weak fairness of a request that is being served, of a
  task that is running and of the restart of Redis, and strong fairness of
  handing out each event, because the queue is first in, first out and handlers
  come back to it. Failures are free to happen at every step: the conclusion
  allows an event that a failure lost.
* `ApprovalComes` assumes that clients read their answers and that some manager
  who did not create the order keeps asking. Its violation is therefore not a
  missing request.

## What is proved

All theorems hold for any finite sets of products, warehouses, orders, lines,
clients, clerks and so on, and any bounds. The assumptions are the named
ASSUMEs of the modules.

| theorem | statement | invariant |
|---|---|---|
| `InvTypeCorrect`, `SOTypeCorrect`, `POTypeCorrect`, `SyncTypeCorrect` | type correctness | the type invariants are inductive; `SOTypeOK` includes that the items of an order have rows, which dispatch and cancel rely on |
| `InvNeverOversold` | stock keeping alone keeps columns nonnegative | `InvTypeOK` and `StockNonNegative` |
| `InvLedgerBalanced` | the audit table explains every row | `InvTypeOK` and the balance |
| `InvProductConserved`, `SOProductConserved`, `SyncProductConserved` | a product has over all warehouses what came in less what went out, whichever services write | the balance and `TransfersPaired`: for each product as many units were posted as transferred out as were posted as transferred in, so that the transfers cancel in the sum of the balances |
| `SOReservationsBacked` | reserved units are those of open orders; no column is negative | both together: a reservation given back is covered because the reserved column equals a sum that contains it |
| `SOLedgerBalanced`, `SODispatchesAccounted` | with orders the audit table explains every row, and records exactly the dispatches | with `SOTypeOK`: the balance counts reserved and dispatched units |
| `SOHeldStockNotDeleted` | a deleted warehouse holds nothing an open order needs | `ReservationsBacked`: what an order holds is in the column that `delete_warehouse` looks at |
| `SOKeepsPromises`, `SyncKeepsPromises` | the services implement `StockPromise` | under `ReservationsBacked` and `StockNonNegative`, creation is `Take`, dispatch `Ship`, cancel `Release`, adjustments, transfers and receipts `Move`, the rest stutters |
| `PODutiesSeparated`, `PONeverOverReceived` | nobody receives against an order he drafted and approved himself; lines are never over-received | `DutyInv`: what arrived belongs to an order on its way, and an order on its way was approved by another user |
| `POStatusMatchesReceipts` | the status tells what arrived | `DutyInv` and `StatusTold`: an order is RECEIVED only with every line complete, PARTIALLY_RECEIVED only with one that is not |
| `POReceiptsAccounted` | receipts and audit table agree | with `LedgerBalanced`; a receipt of two lines of one product is a sum over lines |
| `SyncStockExplained` | order tables and manual movements explain the stock | `SyncInv`, the accounting invariants of all parts, each kept by the steps of the others |
| `SyncTablesAgree`, `SyncDuties`, `SyncHeldStockNotDeleted` | what was proved of each part holds of the whole | `SyncInv`; the receipts, which `SalesOrders` does not know, only add to columns that orders take from |
| `WorkersTypeCorrect`, `StaleCopiesOfTransfers`, `WorkersSeparateDuties`, `WorkersAccount` | what interleaved calls keep whatever races | `LockInv` and `Accounts`, see below |
| `WorkersKeepPromises` | interleaved calls keep what the service layer promises of the stock as long as no copy that is saved is stale | `StockInv` and `TransfersPaired`, see below |
| `LocksSerialize` | they implement `SupplySync` if besides no deletion overtakes a call | `StockInv` and `FoundInv`, see below |
| `LockedCopiesCurrent` | no copy is stale as long as no transfer reads an unlocked row | `LockInv` and `FreshInv`, see below |
| `OldRowsKeepPromises` | stock transferred only between rows that have always been there: the promises hold in every behaviour | `LockInv` and `OldRowsInv`, see below |
| `DeadlocksOverRows`, `OneRowNoDeadlock` | a deadlock is between calls that write two rows or more, over those rows; calls of one row never deadlock | `LockInv` and `ClaimInv`, see below |
| `ApartCallsNeverRace`, `ApartCallsSerialize` | calls that keep apart serialize in every behaviour | `LockInv` and `ApartInv`, see below |
| `ApiRunsServices` | what requests do to the tables are calls of the services; the theorems of `SupplySync` hold of the API | none: each step of `Api` is mapped to a step of `SupplySync` or a stutter |
| `ApiApprovesNothing` | each request of a manager to approve is answered 500; no purchase order gets past PENDING_APPROVAL and no sales order past CONFIRMED, cancellation aside; all stock was put in by hand | `NothingApproved` with `SyncInv` and `StatusTold`: a receipt needs an approved order, and without receipts and dispatches `LedgerBalanced` is `StockByHand` |
| `ApiRolesRespected` | stock is posted, warehouses are deleted and purchase orders are drafted only by served requests of users with the role the view asks for | an action property: each step is taken apart into the request and the permission of its view |
| `ViewsTypeCorrect`, `StaleEntriesOvertaken` | nothing is ahead of what is committed; an entry from before an answered change was stored after it | `ViewInv`: a call that has committed has the deletion of each key it answers for still ahead of it, or no entry from before its change is left except one stored since; `RefreshesFollow` reads off the scripts that each of these deletions follows the commit |
| `ValuationOff` | a valuation is off by no more than what moved | `ValInv`: what was summed and what is left to sum differ from the opening value by at most `moved` |
| `SummaryCovers` | no order of the total is missing in the breakdown | `SumInv`: the orders counted so far are no more than those that the queries still to run would show, as no order leaves a final status and none is removed |
| `TreeShowsEach` | every category is shown exactly once | `TreeInv`: a parent is inserted before its children, so ids decrease towards the top |
| `OrderNumbersDistinct` | numbers are distinct while their key is kept | `ONInv`: the counter has reached every number drawn from it |
| `LoginAttemptsBounded`, `LoginFailuresCounted` | the bound on failures; none is lost | `LTInv`: counted failures plus requests that were let through leave room |
| `LowStockTold` | a low row is never forgotten | `SEInv`: every unseen row has an event under way or is in `missed`, and so has a receipt that is about to create its row |
| `AdjustmentsAppliedOnce` | a repeated adjustment is applied twice only after a fault | `SEInv`: what was applied while the request can still fail was followed by a failure of Redis, of the process or of the connection |
| `PasswordsKept` | the password is the one set last | `AccInv`, which also gives every request and token a registered user |
| `CatalogueTypeCorrect` | types of the rows and of the copies that requests hold | `CatInv` |
| `DeletionsOvertaken`, `DeletedWarehousesInactive`, `WarehouseCodesFixed` | what updates and deletions of the catalogue may undo | `CatInv`: what a request holds agrees with its row in the columns no update touches, and a deleted warehouse, in a row or in a copy, is inactive |
| `PartsTypeCorrect`, `PartsSafe` | what `parts` checks of the parts side by side: all their types and safety invariants hold together | those of the parts; by lemma `PartsApart`, which follows from the form of `MCParts` alone, a step of the whole is a step of one part or a stutter |

`StockNonNegative` is not inductive: cancel subtracts from the reserved column
without looking at it, so only `ReservationsBacked` shows that it stays at zero
or above. That equality in turn is not inductive without the types of orders,
as it sums over them. Sums are handled once, in `TotalsProofs`: changing one
value of a function changes its total by the difference (`TotalUpdate`), the
total of a sum is the sum of the totals (`TotalSum`), and a total over pairs is
the total of its sections (`SectionTotal`).

### The interleaved calls

`RowLockingProofs` shows what the locks are worth. Two statements of the code
lie outside them: `transfer_inventory` reads rows that its SELECT FOR UPDATE may
not have found, and `delete_warehouse` checks and saves without any lock. The
runs `lost_update` and `delete_race` show what follows, so no theorem can say
that all calls serialize. Five invariants separate what each of the two races
can harm; each has the hypothesis that it needs and no other.

* `LockInv`, with no hypothesis: each worker is at a statement its call has;
  an order is locked from its status test to the commit, and so still has the
  status that was tested; the rows of a call other than a transfer are copies
  of the committed rows exactly where they are locked; a transfer that commits
  has both rows locked. From it follow the types; that only a transfer can hold
  an old copy of a row it is about to save; that author and approver stay apart,
  lines are not over-received and the status tells what arrived; and that
  dispatches and receipts are recorded exactly once. Only the stock columns and
  the deleted warehouses are exposed to the two races.
* `ClaimInv`, with no hypothesis either: a call locks only rows that it writes,
  which its request and its order settle for good, and its order before any row.
  So a worker that waits for an order holds nothing and cannot be waited for,
  and each worker of a cycle holds one row that it writes and waits for another.
  `lock_cycle` shows such a cycle of two transfers; `DeadlocksOverRows` shows
  that there is no other kind, and that the order of the rows is all that the
  comment at `inventory/services.py:102` needs to settle.
* `StockInv`, with `[]NoStaleCopy`: `LockInv`, the accounting invariants of
  `SupplySync`, and room in the audit table for what is under way. A commit
  whose copies are current writes what the service of that name writes, found
  warehouse or not (`CommitServes`). So no column is negative, reservations are
  backed, the stock is explained, products are conserved and `StockPromise` is
  implemented, also when warehouses are deleted under the calls
  (`WorkersKeepPromises`).
* `FoundInv`, with `[]DeletionsAlone`: a call still finds at its commit the
  warehouse that it looked up, a receipt from the look-up before each lock on,
  and a warehouse is still empty when it is marked.
  Together with `StockInv` the guard of the atomic action holds at the commit,
  which is that action; the other statements change nothing committed. So
  interleaved calls implement `SupplySync`, and in particular no deletion
  strands stock that an open order holds (`LocksSerialize`).
* `FreshInv`, with `[]TransfersReadLockedRows`: the copies of transfers are
  current too, so that `NoStaleCopy` holds (`LockedCopiesCurrent`).
  `NoStaleCopy` is the weaker of the two hypotheses: a transfer may read a row
  that it has not locked, as long as nobody else writes it before the transfer
  saves it. It needs nothing about deletions.

The hypotheses about behaviours become conditions on the set of requests:

* `TransfersOldRows`: transfers go between rows that exist from the start. Rows
  are never deleted, so a transfer finds both and locks both before it reads
  (`OldRowsInv`). Then no copy is ever stale, and the promises hold of every
  behaviour (`OldRowsKeepPromises`).
* `CallsApart`: besides, no other request names a warehouse that one deletes.
  Then orders do not either (`ApartInv`), no behaviour has a race, and the calls
  serialize however they interleave. The calls of `row_locking` and `calls_end`
  satisfy it (there `InitialRows` are the rows of the product that is
  transferred); those of `lost_update` and `delete_race` do not.

`row_locking` checks `NoStaleCopy` and `TransfersReadLockedRows` as invariants
and is not vacuous: transfers get to both reads with their rows present.

### Only model-checked

* Liveness: `CallsEnd`, `SettlesFresh`, `AlertComes`, as TLAPS handles neither
  fairness nor ENABLED. `ApprovalComes` is refuted by its run, and the safety
  behind that, `ApiApprovesNothing`, is proved.
* The properties of the violation runs, which do not hold.

## What is not modelled

* Prices, totals, addresses, notes, names, pagination, filters: no behaviour
  depends on them. The revenues and top lists of the reports repeat the queries
  of the summaries over amounts.
* Hashes, contents and lifetimes of tokens: Django and simplejwt.
  `create_superuser` is not reachable over the API.
* The views of the catalogue, of accounts and of reports: they validate and
  call one service. Lists and details read without state. `IsOwnerOrAdmin` is
  used by no view.
* Validation errors and the texts of error responses; of `core/exceptions.py`
  the status codes are modelled.
* Event tasks that only log.
* Settings and deployment: configuration. The models rely on two of its
  omissions, `ATOMIC_REQUESTS` and an isolation level.

Differences between documentation and code that no property is about:

* `docs/architecture.md:91` has a sales order created PENDING, the code creates
  it CONFIRMED, and no code sets PENDING, so the dashboard's count of pending
  orders is always zero.
* `docs/architecture.md:68` promises status 429 after too many logins; the
  framework calls `wait()` of the throttle without the arguments its definition
  requires, which raises a TypeError, answered 500.
* `categories/views.py:16` names `Category`, which the module does not import:
  the list of categories fails with a NameError.
* `docker-compose.yml:30` gives the worker database 0 of Redis as its broker; a
  web process that keeps the default of `settings/base.py:113` publishes to
  database 1. `StockEvents` assumes that both use the same one.

## Plan

Done: stock, sales and purchase orders atomically, composed, and statement by
statement; the abstract promise and its refinement; cached views; the low-stock
event; catalogue and category tree; accounts; counters; reports; the API of the
orders; the theorems above. Every safety property of a passing run is stated by
a theorem. Left for a later version of the code:

1. When `delete_warehouse` locks the warehouse row, or `transfer_inventory`
   reads its rows with `select_for_update`, the hypothesis on the behaviour
   falls away: `DeletionsAlone` or `TransfersReadLockedRows` becomes an
   invariant, and `lost_update` and `delete_race` passing runs.
2. When the query that locks rows is ordered by id, `NoDeadlock` follows from
   `DeadlocksOverRows` and that order, for the calls that lock all their rows in
   one query.
3. A view that approves with a permission class instead of an instance:
   `ApprovalComes` becomes a property that a run has to pass.
