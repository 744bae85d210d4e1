# HEXA Purchase Assistant: verification project

HEXA Purchase Assistant is a warehouse ERP: a FastAPI backend over PostgreSQL
(`backend/app`), and a Flutter client. This directory holds TLA+ models of the
backend, their TLC configurations and TLAPS proofs. At the centre are the three parts
that are hardest to test, the **stock ledger**, the **delivery workflow** of a trade
purchase and the **creation** of purchases; around them stand fourteen smaller models of
the workspace: counts and usage, accounts, the directory and its codes and searches,
caches, reports, stock pages, payments, notices, checklists, backups, order messages and
the bootstrap.

Contents: [the system](#the-system), [the models](#the-models),
[runs](#the-runs), [proofs](#the-proofs), [what the models leave
out](#what-the-models-leave-out), [plan](#plan).

## The system

All state is in PostgreSQL; the server processes keep only caches. Every HTTP
request gets one database session (`database.py:172-177`, READ COMMITTED,
`expire_on_commit=False`), runs as a coroutine that may be suspended at every
`await`, and commits once or a few times. What makes the backend hard is in these
sentences:

* a session that has read a row returns *the same Python object* with the
  attributes of its first read when the row is selected again, also `FOR UPDATE`;
* an `UPDATE` carries only the columns the session changed;
* locks (advisory or row) are held until the transaction ends, and different
  handlers use locks of different names;
* requests are repeated by clients after timeouts, with the same idempotency key.

| Component | State | Operations | What makes it correct |
|---|---|---|---|
| Stock movement service (`stock_movement_service.py`, `stock_change_guard.py`) and its callers in `routers/stock/` | `catalog_items.current_stock`, `stock_version`, `opening_stock_locked`; `stock_movements` | opening stock, physical update, patch, verify count, undo, staff/quick purchase, delivery receive and revoke | the ledger explains the stock; a key moves stock once; stale edits are refused; stock never negative; all lines of a delivery or none; every request answered |
| Delivery workflow (`trade_purchase_service.py`, `stock_inventory.py`) | `trade_purchases.status`, `delivery_status`, `is_delivered`, `delivered_qty_committed`; lines with `received_qty` | dispatch, arrive, verify, commit, auto-commit, revoke, cancel, delete, edit, lifecycle, payment | a purchase shown as committed has exactly that stock in; stock in once and out once, as a whole; a cancelled purchase holds none |
| Purchase creation (`trade_purchase_service.py`, `routers/trade_purchases.py`) | in-process map of idempotency keys, `human_id`, `catalog_items.last_trade_*`, `supplier_item_defaults.purchase_count` | create, edit, cancel, delete | one purchase per key, no two live twins in a day, dense numbers, a memory that counts every purchase |
| Stock audits and daily usage (`stock_audit_service.py`, `routers/stock_audits.py`, `operations.py`) | audits and lines with their status, `daily_usage_logs` | open, count, replace, approve, complete, delete; report use, close the day | a completed audit is final; a count is applied once |
| Accounts (`routers/users.py`, `routers/auth.py`, `deps.py`, `permissions.py`, `jwt_tokens.py`) | users, memberships, permissions, token versions | create, block, activate, delete, reset, change role and permissions, sign in and out | a revoked session stays out, a deleted account stays deleted, a member may do what was granted |
| Catalog and contacts (`routers/catalog.py`, `routers/contacts.py`, `public_items.py`, `search.py`) | categories, types, items, suppliers, brokers and their links; codes and barcodes | create, move, archive, delete; number, label, scan, search | items leave only when deleted, a type is of its category, labels and searches find their item |
| Read caches (`read_cache_generation.py`, `app_cache.py`, `reports_trade.py`) | per process: generation, entries, last good answers | read through, bump, degrade, evict | whoever saw a purchase saved reads it; nothing is stale for longer than announced |
| Reports and stock pages (`trade_query.py`, `reports_trade.py`, `stock_inventory.py`, `stock_helpers.py`, `routers/stock/`) | none of their own | some forty queries | the same question asked on two pages has one answer |
| Payments (`trade_purchase_service.py`, `purchase_status.py`) | `paid_amount`, `due_date`, `status` | pay, mark paid, edit, lifecycle, calendar | never overpaid; a filter in SQL and its twin in Python agree |
| Notices and damage reports (`notification_emitter.py`, `low_stock_notifications.py`, `damage_reports.py`, ...) | notification rows with dedupe keys, report status | scheduled scans, emit, read, clear; file and decide | told once, and told at all |
| Checklists, backups, order messages, bootstrap | templates and ticks; files and log; send log; memberships and seed rows | replace and tick; run, retain; approve, send, resend; bootstrap | ticked once; kept files exist; an order reaches the supplier once; nothing is seeded twice |
| Unit conversion, bill scanning, schema bootstrap, Flutter client | | | not modelled, see below |

The delivery workflow calls the stock service for every line it receives or
reverses; audits, usage and the handlers of `routers/stock` call it too. An open
audit makes the service refuse routine movements of staff. Creating a purchase writes the
item's last trade and the supplier's default beside it; cancelling and deleting find the
last trade anew. Handlers bump the read-cache generation and emit notices beside their
commit; reports, stock pages and searches read what all of them wrote. `PROJECT.json` lists
each place where an order, a stale copy, a repetition or a failure can hurt, with the
properties that cover it or the reason none does.

## The models

### `StockLedger`

A request (`Reqs`) goes through the steps at which the code can be overtaken:

| Step | Code |
|---|---|
| `UpdatePhysicalStock`, `PatchStockItem`, `CreateStaffPurchase`, `VerifyStockCount`, `SetOpeningStock`, `UndoLastStockChange`, `ReceiveDelivery`, `RevokeDelivery` | the handler's own queries, which put the item row in its session (`Loads`, variable `view`) or do not |
| `LookUpKey`, `RefuseDuringAudit` | the unlocked lookup of the idempotency key, then the audit guard |
| `AnswerDuplicate` | a known key: lock, write nothing |
| `RejectStaleVersion`, `RejectNegative` | under the lock, on `LockedRow`, which is the session's copy if there is one |
| `LoseKeyRace` | the unique constraint stops the flush; the whole transaction is rolled back |
| `ApplyMovement` | new quantity, version and ledger row, flushed (`draft`) and not yet visible; the lock is kept |
| `Commit` | the drafts of all lines become visible; an unchanged quantity is not written, as the ORM does |
| `Crash`, `DeadlockVictim` | a dead worker or connection; a transaction aborted by PostgreSQL |
| `ToggleAudit` | audits open and close |

`pc`, `job`, `left` and `cur` are the request's place in the code and its arguments;
`stock`, `version`, `openingLocked`, `ledger` are the committed tables; `lockedBy`
merges the item's advisory lock and its row lock, which are always taken together.
Each line of a delivery carries the same quantity, and its lines are taken in any
order (the code's order is that of the purchase lines, which differs between
purchases).

`StockBook` is the abstract specification: an append-only book whose entries start from
the stock they find. `ImplementsBook` says `StockLedger` refines it with the same
variables. It holds of the handlers that read the item only under its lock
(`physical_update`, `quick_purchase`) and fails of the others, which work on a
copy: that is what the mutant `LoadsAlways` and the run `ledger_two_devices` show.

### `PurchaseDelivery`

One purchase with one line, in the item's stock unit. A worker is a request: `Load`
copies the row and line into its session (`seen`) without a lock; each handler is then
one action that decides on the copy and writes, column by column (`Write`), what it
changed. Edits and deletions have a step in between (`ReadApplied`), where they ask
whether stock was ever received; the edit's lock is held from there. `Verify`
commits the count and, when it is full, the same session goes on to commit the
delivery on its own copy, as the automatic commit does. `Refuse` is every guard,
error and crash before the commit. `Move` is the stock service seen from a purchase:
a key already used moves nothing, and stock never goes below zero. `UseStock` is
every other use of the item's stock, so that a reversal can be refused for lack of it.

Here a movement takes the current stock of the item; what overlapping movements do
to one item is the subject of `StockLedger`.

`PurchaseReceipt` is the abstract specification: stock comes in once, and leaves at most
once and as a whole. The mapping is `held <- Held` (what of the stock comes from this
purchase) and `received <- AlreadyApplied`.

### `PurchaseCreation`

A worker is a request on one of several server processes; each action is one database
statement of a READ COMMITTED transaction, so others commit in between.

| Action | Code |
|---|---|
| `AskCreate`, `AskEdit`, `AskClose` | the handler's answer at once (a remembered key, a purchase that is gone), or the copy of the row and item its session loads |
| `TakeLock`, `CheckDuplicate` | the advisory lock of supplier and day (create) or purchase (edit), held until the end; the search of the last 24 hours, skipped with `force_duplicate` |
| `TakeNumber`, `Insert`, `WriteRow` | `next_human_id`; the flushed `INSERT` or `UPDATE`, which waits for an uncommitted row of the same number or id, and fails of a committed number |
| `ReadMemory`, `CommitCreate`, `CommitEdit` | the supplier default is read, counted up in the session and written back; the item gets the purchase as its last trade |
| `Remember` | after the commit the process keeps the key; then the answer |
| `FindSnapshot`, `CommitClose` | cancel and delete: the newest other purchase becomes the last trade |
| `Age`, `Forget`, `Restart` | a purchase leaves the 24 hours; a key is forgotten; a process stops, with its keys and open transactions |

`rows` holds the committed purchases by id. The fields `edited` and `forced` are history:
the program keeps neither, and the properties need them to say which purchases the search
for duplicates is about.

### The workspace

Each of these modules is one component with its own variables, checked on its own
instance by `MCWorkspace`. In those whose requests overlap, `Ask...` is what a handler
reads and checks before it writes and `Commit...` the statement or transaction that
writes; the others take a request as one step, because what can go wrong there is a
sequence of requests.

| Module | State and steps | Code |
|---|---|---|
| `StockCounts` | an audit with its lines over an item's stock, which deliveries and use move meanwhile. A request (`UpsertLine`, `Replace`, `Approve`, `Complete`, `Delete`) loads the audit without a lock and is checked on that copy; then it reads the stock (`ReadStock`) and commits (`Commit`) the columns and rows it changed, or nothing (`Fail`). The usage log of a day and the snapshot made of it (`SubmitUsage`, `Materialize`) are one step | `stock_audit_service.py`, `stock_audits.py`, `stock_change_guard.py`, `operations.py` |
| `Accounts` | users with role, permissions, the switches that close them and the token version; sessions are pairs of user and version; a change reads account and caller (`AskChange`) and writes the columns that differ (`CommitChange`); a password is also reset by a link (`Forgot`, `AskReset`, `CommitReset`), which raises no token version | `users.py`, `auth.py`, `deps.py`, `permissions.py`, `jwt_tokens.py` |
| `Directory` | brokers, suppliers, their links, categories, types, items, default suppliers and purchases that refer to them; every handler is a check and a write, and the database refuses to break a reference (`refused`) | `contacts.py`, `catalog.py` |
| `Searches` | items and purchases by name; a request that names or moves an item looks for the name without a lock (`CreateItem`, `RenameItem`, `MoveItem`) and commits later (`CommitItem`); the lists and searches are operators; a term is the set of names that contain it | `catalog.py`, `search.py`, `contacts.py`, `trade_purchase_service.py` |
| `ItemCodes` | code and barcode of each item; nine handlers that look and then write, the partial unique index, the next ITM number, and what a scan finds | `catalog.py`, `public_items.py`, `stock_barcode.py` |
| `ReadCache` | the data is a version counted up by commits; a reader looks up, reads, stores, or degrades to the last good answer; a writer commits, bumps the generation and answers | `read_cache_generation.py`, `app_cache.py`, `reports_trade.py` |
| `Reports` | each report query as an operator over purchases, lines and catalog; actions bring those into the states a query meets | `trade_query.py`, `reports_trade.py`, `contacts.py`, `catalog.py`, `owner_dashboard.py` |
| `StockViews` | figures and lists of the stock pages as operators; the requests that write what they read | `stock_inventory.py`, `stock_helpers.py`, `stock_list.py`, `stock_ops.py`, `stock_detail.py`, `low_stock_*.py` |
| `Payments` | status, total, paid and due of one purchase, and the days; payments, edits, the lifecycle; the list's filter in SQL and over the derived status | `trade_purchase_service.py`, `purchase_status.py` |
| `Notices` | notice rows; a job looks up who has a notice, inserts a row per target in a savepoint, commits; damage reports with a decision whose notice is a second transaction | `notification_emitter.py`, the scan services, `damage_reports.py`, `notifications.py` |
| `Checklists` | templates seeded when a request finds none, replaced as a whole, ticked once a day; assigned tasks | `routers/operations.py`, `owner_ops.py`, `staff_tasks.py` |
| `Backups` | files by second, log entries, retention, crashes between; exports as operators | `backup_ops.py`, `exports.py`, `trade_query.py` |
| `OrderMessages` | credentials, a log row and up to three attempts, whose answers may be lost | `owner_ops.py`, `whatsapp_po_delivery.py`, `provider_credentials.py` |
| `Seeding` | memberships and named entries; a bootstrap joins, counts, looks, inserts, each overtaken by others | `me.py`, `default_workspace.py`, `catalog_suppliers_seed.py`, `mandatory_workspace_seed.py` |

`StockCounts` and `StockViews` look at stock from the outside: a movement is one step
there, its interleavings are in `StockLedger`. `Payments`, `PurchaseDelivery` and
`PurchaseCreation` see the same table of purchases, each the columns its handlers write.

## The runs

| Run | Checks | Instance |
|---|---|---|
| `ledger_fresh` | `LedgerBalanced`, `NoConflictingEdits`, `ImplementsBook` | 3 requests, 1 item, lock-first handlers, 1 key, quantities 0 and 2, stock 1 |
| `ledger_all` | `TypeOK`, `OneMovementPerKey` | 3 requests, 1 item, all handlers, quantity 2, stock 1 |
| `ledger_deliveries` | `AnswersTellTheLedger`, `Answered` | 3 deliveries or reversals, 2 items, 2 purchases, audits; fair |
| `purchase_overlap` | `TypeOK`, `CommittedIsInStock`, `DeliveredHoldsStock`, `ImplementsReceipt` | 2 workers, all handlers, edits and deletions overlapping nothing (`EditsAlone`), 6 requests, counts and edits of the one quantity ordered, 2; stock 2, of which 3 may be used |
| `ledger_two_devices` | violates `NoConflictingEdits` | 2 patches |
| `purchase_edit_race` | violates `CommittedIsInStock` | 2 workers, edit beside arrive, verify |
| `purchase_cancelled` | violates `CancelledHoldsNoStock` | arrive, verify, lifecycle to cancelled |
| `purchase_restock` | violates `CommitAddsStock` | commit, revoke, arrive, verify again |
| `workspace` | 29 properties, below | 27 modes, below |
| `stock_variance` | violates `VarianceIsZero` | 1 item, 2 purchases, 3 requests |
| `notice_targets` | violates `EveryTargetIsTold` | 2 members, 2 workers, 2 jobs |
| `audit_overlap` | violates `CompletedNotModified` | 1 audit, 1 item, 2 overlapping requests |

`MCWorkspace` puts the workspace's components on one run: a behaviour chooses its mode
in the initial state and stays in it, and the variables of the other components keep
a constant. Its properties apply each component's property in the modes it is about.

| Mode | Instance | Properties |
|---|---|---|
| `deliveries` | a purchase by all handlers, one at a time, 8 requests, counts 0, 1, 2 of orders 1, 2, stock 0 of which 1 is used | `CommittedInSequence` (`CommittedIsInStock`) |
| `counts`, `usage`, `counts_at_once` | an audit of 2 items with counts 3, 8 of 4 in stock, 4 requests one at a time; of 1 item with 2 uses and deliveries over 2 days; of 1 item, 3 requests by 2 workers | `CompletedIsFinal` (one at a time) |
| `accounts`, `overlap` | 2 users; 5 requests one at a time, 4 with two workers | `RevokedStaysRevoked`, `PermissionsAreGranted` (one at a time), `DeletedStaysDeleted` (both) |
| `directory` | 2 brokers, 1 supplier, 2 categories, 3 types, 1 item, 1 purchase, 5 requests | `TypeInCategory`, `ItemsLeaveOnlyByDeletion`, `DeletesFailForHistoryOnly` |
| `names`, `names_at_once` | 2 items of 2 types, 3 names, one above a type; 2 purchases; 3 changes, one at a time; 1 type, 2 names, 1 purchase, 2 workers | `ListsAreWhole` (`NamesUnique` one at a time, `ItemsAreFound`, `PurchasesAreFound`) |
| `codes`, `codes_at_once` | 2 items; 4 requests with one worker, 3 with two | `CodesAreFresh` (one), `LabelsFindTheirItem` |
| `race_reports`, `race_lists`, `age_reports` | 2 readers and 2 writers, 2 writes; 1 reader and 1 writer over 3 ticks, a write of any kind | `ReadsSeePurchases`; `StaleForTtlOnly` |
| `reports` | 2 purchases out of 6 bills, which have lines weighed, old, uncatalogued, without supplier, or none; a change of a bill or of an item | `ReportsAgree` (with `PagesAgree`), `ProfitsAgree` |
| `payments` | costs 0, 5, 10; terms none, 0, 1; 2 days, 3 requests | `PaidWithinTotal`, `ListsAreWhole` (`NoShortPages`) |
| `views` | 1 item in bags of 5 kg or in kg, which may change its unit; 2 purchases, 4 requests | `ViewsAgree` |
| `creation` | 2 workers on 2 processes, creations and cancellations, 3 requests, a restart | `NumbersDense`, `NoTwins`, `CountsEveryPurchase` |
| `sequence`, `similar` | 1 worker, all handlers, 4 requests; 1 worker, a key, totals 10, 11, 12 within a tolerance of 1, 3 requests | the same, and `KeyMakesOnePurchase` (`similar`), `LastTradeIsLiveInSequence` (`sequence`) |
| `scans`, `decisions` | 2 members, 2 workers; 2 concerns over 2 days; a damage report with overlapping decisions, 3 requests | `ToldOnce`, `ApprovedIsTold` (`decisions`) |
| `checklists` | 1 member with two devices, 2 tasks, 2 days | `TickedOnce` |
| `backups` | 2 purchases, 2 runs that may share a second, 1 file kept, exports of 1 row | `BackupsAgree` |
| `orders`, `orders_at_once` | 2 orders, one of a purchase that is gone, 3 requests; 1 order, two workers, 2 requests; 2 attempts | `OrderReachesOnce` (one), `SentIsReceived` |
| `bootstraps` | 2 users, 2 workspaces, 2 workers | `SeededOnce` |

`Typed` is every mode's type invariant.

**Bounds.** Three requests are enough for two to race and a third to repeat a key, use
a stale version or undo; opening stock 1 with quantities 0 and 2 gives changes in both
directions, unchanged quantities and refusals below zero; all handlers together use quantity 2. Two items and two purchases give
a deadlock of lock orders. Six requests are a full delivery
(arrive, verify with its automatic commit, revoke) with others in between; the eight of
the mode `deliveries` cover two deliveries one after the other. `MaxRequests` and `MaxUsed` bound the
behaviours in the guards of `Load` and `UseStock`. Requests, items and workers are
symmetric; the run with a liveness property uses no symmetry. Deadlock is not
checked: a run ends when its requests are used up.

In the workspace the bounds are the shortest sequences in which each hazard bites, plus one
or two requests: a session is revoked after sign in, block, activate and a further sign in
(4 of 5); an item changes category, its type goes and a new one comes (4 of 5); a
twin needs two creations and a cancellation that frees the content again; a
code is reused after create, delete and create. Two readers and two writers let a slow
read finish after two bumps. `MaxTime`, `MaxDay`, `MaxMoves`, `MaxChanges`, `MaxRuns`,
`MaxEdits` and `MaxNumber` bound clocks, changes and numbers in the guards; `Ttl`, `Budget`,
`Keep`, `Span`, `MaxZip`, `MaxRows` (the 2000 rows of an export), `MaxAttempts`, the approval threshold and the delays are the
code's limits scaled down to 0, 1 or 2.

**Fairness.** `FairSpec` is weak fairness of each request's own steps: the event loop
keeps scheduling an accepted request, PostgreSQL grants a lock once it is free and
aborts one transaction of a cycle of waits. Arrivals, crashes and audits are not fair.
Nothing is assumed of clients. The workspace run is about safety and assumes nothing.

**Why instances are restricted.** `NoConflictingEdits`, `LedgerBalanced` and
`ImplementsBook` are checked of the lock-first handlers; the others violate them by
working on a copy. `DeliveredHoldsStock` and `ImplementsReceipt` are checked with edits and
deletions that overlap nothing and with counts that agree, and proved without edits and
deletions: a deletion that loaded the purchase before its commit takes the stock out and leaves the
deleted row marked delivered; two verifications with different counts
overwrite `received_qty` after the first count went into stock, and a later reversal
takes out the second; an edit of a revoked purchase moves stock of a purchase that holds
none, and a second edit by the same difference is swallowed by its key. These are
described as hazards in `PROJECT.json`.

In the workspace some properties hold only of part of the behaviours, and say so:

* `RevokedStaysRevoked`, `PermissionsAreGranted`, `CompletedIsFinal`, `NamesUnique`,
  `CodesAreFresh`, `PaidWithinTotal`, `LastTradeIsLiveInSequence` and `OrderReachesOnce` are of
  requests served one at a time. Overlapping ones write what they decided on an older copy. For
  audits the run `audit_overlap` shows it. A name is looked for by an unlocked `SELECT`
  (`catalog.py:650-673`) and no constraint is on it, so two overlapping creations or renames both find it
  free and make two items of one name; `Searches` has these behaviours, no run is about them.
  `CommittedInSequence` is of one request at a time because edits and deletions are among them
  (`purchase_edit_race`);
  `DeletedStaysDeleted` and `LabelsFindTheirItem` hold nevertheless, and are checked of both.
* `RevokedStaysRevoked` is of the sessions that the code revokes: at a sign-out, when an account is
  blocked, deleted or given another role, and when an administrator sets its password. A password
  reset by a link (`auth.py:195-231`) leaves the sessions open; no comment or document of the
  repository says otherwise.
* `PagesAgree`: the catalog's page of a category (`catalog.py:1212-1337`) names its sums after the
  period but takes no dates; it is compared with the breakdowns of periods that hold all reported purchases.
* `StatusesAgree`: the totals of the stock page (`stock_ops.py:386-439`) sort by the default unit and
  add the weight of bags to the kilograms, the inventory summary (`stock_inventory.py:265-316`) by the stock
  unit. They are compared while every item is stocked in its default unit. An item whose
  default unit is changed to bag gets the stock unit KG (`catalog.py:1041-1043`); then the inventory counts
  under kg what the totals count as bags.
* `ExportsAgree`: an export of at most `MaxRows` rows holds the newest; what a shorter period's export holds
  is in the longer one's only as far as that limit lets it.
* `NoTwins` and `CountsEveryPurchase` leave edited purchases out: an edit locks its purchase,
  not the supplier and day, and moves a purchase to another supplier without taking it
  off the first one's count.
* `KeyMakesOnePurchase` is of one process that does not restart and serves one request at a
  time. The map lives in the process and is written after the commit, so elsewhere only the
  search for duplicates stops a repeated request, and `force_duplicate` skips it.
* `ReadsSeePurchases` is of purchases: stock movements bump the generation before they commit
  and contacts do not bump it, so that what they change is stale for the time to live.
* `ApprovedIsTold` leaves out decisions whose process stopped before the notice.
* `SeededOnce` leaves out workspaces that two requests wrote at the same time: the names have
  no unique constraint.
* `NamesUnique` leaves out items that a request moved to another type without their name.

### Disagreements found

* **Two devices** (`ledger_two_devices`). Both `PATCH` an item with the version they saw, 0.
  Each handler selects the item (version 0) before the service locks it; the
  second, after the first committed version 1, gets its own copy from the locking
  `SELECT`, passes the check and overwrites the first.
* **Edit and commit** (`purchase_edit_race`). An edit loads the purchase, the commit finishes,
  the edit passes the guard on its copy, finds stock applied and moves the
  difference: the purchase shows a committed quantity it does not hold.
* **Cancelled with stock** (`purchase_cancelled`). The lifecycle endpoint's
  `added_to_stock -> cancelled` sets the status only.
* **Never restocked** (`purchase_restock`). After a reversal the receipt's keys
  still exist, so committing the purchase again answers 200 and adds nothing.
* **Use counted twice** (`stock_variance`). The variance of an item subtracts the usage log and
  also the adjustments that the same usage wrote.
* **One target of many** (`notice_targets`). The unique index of notices is over business and
  dedupe key, without the user: only the first of several targets gets a row.
* **Counted after the end** (`audit_overlap`). A count loads an open audit; its completion commits; the
  count then adds its line to the completed audit, though "completed stock audits cannot be
  modified". If the line waits for approval, approving it moves stock. Two completions that
  overlap both apply the lines.

## The proofs

All theorems hold for any sets of items, requests, users, keys, quantities and workers,
finite or infinite where nothing is counted or summed over them, from the modules' named
assumptions only. The modules that are
checked inside `MCWorkspace` name theirs as hypotheses of the theorems: `Sensible` says
no more than that the constants make sense (bounds are natural numbers, `None` is not one of
the values, the first owner is a user); what else a theorem assumes is part of its statement and
said below.

`StockLedger_proofs`

* `TypeCorrect`: `Spec => []TypeOK`. Invariant `TypeInv`: types, and a request that has
  arrived has a well-formed job and, while it waits, an item. That committed stock is
  natural is the non-obvious part: a movement's `after` is checked on a copy, and
  it is `after`, not a difference, that is written.
* `KeyMovesOnce`: `Spec => []OneMovementPerKey`. `KeyInv` adds that a flushed draft's key
  is in no ledger and in no other draft. This is where the unique constraint is needed: lookup
  and locks alone do not keep it, since a key may name different items.
* `LockFirstImplementsBook`, `LockFirstBalances`: under `ReadsUnderLock` (no handler
  in use reads an item before its lock) `Spec` implements `StockBook`, and the
  ledger is balanced. `FreshInv`: no session holds an item row, and every draft was
  computed from the row that is still committed, because its request still holds
  the lock.
* `LockFirstRejectsConflicts`: under the same condition two strict edits of one version
  are never both accepted. `SeenInv`: a strict edit at place n of an item's ledger named
  version n - 1, and a strict draft names the version it will raise by one; with
  `FreshInv` that version is the length of the ledger, so no two strict edits of
  an item name the same one.
* `AnswersAreTrue`: `Spec => []AnswersTellTheLedger`. `LinesInv` accounts for every line of an
  open request: it is still to do, waits for its lock, is drafted, or was found
  committed. What was found committed stays so, because ledgers only grow; and what is
  drafted is the request's own and lost unless it commits.

`PurchaseDelivery_proofs`

* `TypeCorrect`: `Spec => []TypeOK`, with a session's copy well formed while it is open.
* `CommittedHoldsStock`: under `KeepsLine` (no edit or delete) a purchase marked committed
  holds its quantity. `StockInv` says what a copy may know: a copy with evidence of
  stock was made after the receipt, and while the row is marked committed every such
  copy is marked too, so that a late writer either changes the mark as well or refuses.
* `DeliveredIsInStock`: under `KeepsLine` and `CountsAgree` (staff counts what was ordered)
  `Spec => []DeliveredHoldsStock`, whatever requests overlap. `DeliveryInv` keeps every copy's line
  equal to the purchase's, because all handlers now move the one quantity there is, and says
  that the purchase is marked delivered, and holds its quantity, exactly while the ledger's keys
  say that stock was taken in and not reversed. `CountsAgree` is about the constants: it makes
  `Ordered` and `Counted` one and the same quantity, which may be any.
* `DeliveryImplementsReceipt`: under the same two conditions `Spec => ImplementsReceipt`: each step
  of each handler takes the stock in once, takes it out once and as a whole, or leaves what
  the abstract receipt holds as it is.
* `CommittedInSequence`: under `Serial` (one worker), with edits and deletions,
  `Spec => []CommittedIsInStock`. `SequenceInv`: the open request's copy is the row, and a purchase
  whose stock was not received holds none and shows none. The run `purchase_edit_race` shows
  that without either condition, `Serial` or `KeepsLine`, the property is false.

`PurchaseCreation_proofs`

All for any number of processes, workers, requests and restarts, and every handler.

* `TypeCorrect`: `Spec => []TypeOK`. It needs two more invariants: a creation's number is at
  least 1 (so that rows are well formed) and rows have numbers 1 to some t (so that
  `NextNumber`, a `CHOOSE`, is a number).
* `NumbersStayDense`: `Spec => []NumbersDense`. `NumberInv`: the committed numbers are 1 to some
  t without repetition; whoever holds a number has all smaller ones committed; once the row is
  inserted its number is nobody else's and not committed. So only t + 1 can be
  inserted, by one request at a time, although the largest number is read without a lock.
  `IdInv` keeps the ids of open creations apart from the rows and from each other.
* `NoTwinsAreMade`: `Spec => []NoTwins`. `LockInv`: two requests under the lock of creation or
  edit hold different locks. `TwinInv`: a creation that passed the search for a duplicate has
  none among the rows, and none comes, because whoever commits one meanwhile would be
  of the same supplier and day and hold the same lock.
* `EveryPurchaseIsCounted`: `Spec => []CountsEveryPurchase`. `CountInv`: while nothing is edited,
  the count is the number of the supplier's purchases, and what a creation read of it
  still holds when it writes back: by `NumberInv` only one creation at a time is
  between its insert and its commit. No lock of the default is involved.
* `KeyIsIdempotent`: `Spec /\ []KeysApart => []KeyMakesOnePurchase` under `OneProcess` and no
  restarts, since keys are remembered in the memory of a process. `KeysApart`: no two open
  creations have one key, that is, a client repeats a key only after an answer or a
  failure; creations with other keys overlap at will. `KeyInv`: a purchase of the last day with a
  key is the one remembered under it, or its creation is just about to remember it; the key of
  a creation that has not inserted yet is not remembered.
* `LastTradeIsKept`: `Spec /\ []OneTransaction => []LastTradeIsLive`. `TradeInv` says what an open
  request knows of the item, and carries, as an invariant instead of by induction over the
  rows, that a live confirmed purchase has a newest one.

`Accounts_proofs`

`Sensible` says that the constants make sense: the first owner is a user, roles give
permissions only, `None` is no account. `Serial` is one worker.

* `TypeCorrect`: `Spec => []TypeOK`. `LoadedInv`: a change in progress loaded an account that
  existed and was not deleted, and accounts once made stay.
* `DeletionIsFinal`: `Spec => DeletedStaysDeleted`, with any overlap. By `LoadedInv` no copy is
  deleted, so a late change never writes the column `deleted` back to false:
  "activate" leaves it as in its copy, and only columns that differ are written.
* `RevocationIsFinal` and `PermissionsFollowRoles`: under `Serial`,
  `Spec => []RevokedStaysRevoked` and `Spec => []PermissionsAreGranted`. `FreshInv`: the copy a
  request loaded is the account still. `VersionInv`: sessions have no newer version than
  their account and revoked ones an older one, which opening the account again cannot undo
  because a version is never lowered.

`Figures_proofs`

The components that count and add up: `Reports`, and as instances `StockViews` (`Views`) and
`StockCounts` (`Counting`).

Sums: the code's SUMs are folds over sets, `MapThenSumSet`, which is recursive, and no fact about it
is in the library. `IsIter` says which function on the subsets of a set is the fold, and `IterExists`
and `IterUnique` that there is exactly one, for a finite set. Induction over data is out
of the prover's reach as a rule, so each such lemma takes the smallest finite set that it would
fail for (`SmallestSet`, a fact about cardinalities) and finds a smaller one. From these: the
order of picking does not matter (`SumRemove`), sums split (`SumSplit`), disjoint parts add
up to the whole (`SumParts`), and so do the groups of GROUP BY (`SumGroups`).

* `ReportsTypeCorrect`: `Spec => []TypeOK`, from `ReportsSensible`: finitely many purchases, items,
  brokers and lines of a bill, days that are an interval, `None` and "Uncategorized" no other value.
* `ReportsAlwaysAgree`, `PagesAlwaysAgree`: `[]ReportsAgree` and `[]PagesAgree`, for any bills, any
  history of the catalog and any period; the category page of all time agrees in periods that hold all
  reported purchases. For each query one lemma (`SupplierRowsShown`, ...)
  shows that its rows are the groups of the period's lines by some key, and a second one
  (`SupplierRowsAdd`, ...) that they add up; the dashboard's categories are groups
  of groups. A page's query selects the lines of one group (`SupplierRow`, `CategoryRow`).
* `ProfitsAlwaysAgree`: `[]ProfitsAgree`, from `ChargesDeduct` too: a profit that is saved is no more
  than the sale less the price, as `line_profit` computes it (`line_totals_service.py:98`).
  Without it "no line has charges" would not make the two profits equal. `SavedCharges` carries it
  from the bills to the purchases.
* `ViewsTypeCorrect`, `StatusesAlwaysAgree`, `TrucksAlwaysAgree`: the two parts of `ViewsAgree` as
  `[]StatusesAgree` and `[]TrucksAgree`, from `ViewsSensible` (finitely many items and purchases,
  natural bounds and levels). `ViewsInv` adds two facts to the types. `RowsSound`: a
  purchase that is not cancelled counts as delivered exactly when its stock was taken in, and then it
  brought something; without it a page that reads the flag and one that reads the status
  need not agree. `LastIsOwn`: an item's last trade is a purchase of it.
* `CountsTypeCorrect`: `Spec => []TypeOK`, for any threshold; stock stays natural because reported
  use is checked against what there was.
* `CompletionIsFinal`: `Spec => CompletedIsFinal` under `OneWorker`: requests about audits are
  served one at a time (`audit_overlap` shows that it is needed). An open request's copy is the
  audit still, and no line of a completed audit waits for approval. Approving does not ask
  whether the audit is open, so this is what keeps a completed audit from moving stock; the last
  approval and completion establish it, and nothing that writes lines touches a completed audit.

`ReadCache_proofs`

All for any readers and writers at once, any caches, times to live and budgets.

* `TypeCorrect`: `Spec => []TypeOK`. That no generation is counted up beyond the last one there is
  an entry for needs counting: what is committed and what the open writers still owe
  (`Owing`, a finite set) is never more than the writes that began.
* `StaleNoLongerThanTtl`: `Spec => []StaleForTtlOnly`. `AgeInv`: a report's entry was
  stored no longer after it was read than the budget, whatever the request did between, and an
  open request read no earlier than it began.
* `SavedIsSeen`: `Spec => []ReadsSeePurchases`, for behaviours whose writes are purchases, as the
  property says. `SeenInv`: whatever is kept under the current
  generation is no older than any write that was answered or is about to be; later
  generations are empty; a slow request stores what it read under the generation it began
  with, where nobody asks any more.

`Notices_proofs`

All for any members, any jobs and requests at once, any findings of the scans and reports.

* `TypeCorrect`: `Spec => []TypeOK`. `JobInv` and `DecideInv` say what a job's next step relies on: a
  decision is on a report that is there, one that is being filed is nobody else's.
* `NobodyIsToldTwice`: `Spec => []ToldOnce`. `OnceInv`: a notice is held by one row or by one open
  transaction. The lookup before the insert does not establish it, since two jobs may
  both find nothing; the index does, and makes the second insert wait for the first to end.
* `BadgeIsRight`: `Spec => []BadgeCountsTheList` from `NamesAreNoRoles`: the badge leaves kinds out
  by role and the list by notice, and both mean the same unless something a notice is about
  is called like a role.
* `ApprovalIsTold`: `Spec => []ApprovedIsTold`. `ToldInv`: an approved report whose approval was not
  cut off is told to whoever filed it, or some job is still about to tell it. It rests on
  `AckInv`: an acknowledgement is only ever addressed to who filed the report, so that a notice
  found to be there already is the one this member was to get.

`Office_proofs`

One module for eight smaller components, each an instance with general constants and a
specification of its own. `CodesSensible`, `SendingSensible` and so on say
what their constants are: bounds are naturals, `None` is no value, seeded tasks are
tasks, and items and assigned tasks are finitely many where the code takes a
maximum or a count over them. `Serial` (all workers are one) stands for requests served one at a time.

* `LabelsAreFound`: `Spec => []LabelsFindTheirItem`, with any overlap. `BarcodesInv`: no two
  live items share a barcode, which only the unique index ensures, since two requests may both
  have found the barcode free; a text that is one item's barcode is looked up there first.
* `NumbersAreFresh`: `[]CodesAreFresh` under `Serial`. An open request's number was computed from
  the codes as they still are; `MaxExists` (a finite set of numbers has a largest one) makes
  `Max` what the code takes it for.
* `SentRowsAreTrue`: `[]SentIsReceived`, with any overlap. `HeardInv` counts the workers that
  heard an answer and have not written their row yet (`Heard`) with the rows.
* `OrdersReachOnce`: `[]OrderReachesOnce` under `Serial`. `ReachedInv`: what an order received is
  paid for by resends, lost answers and one message more; an open resend brings one
  to its credit (`Credit`), and the first message counts once it was heard (`Got`).
* `TaskIsTickedOnce`: `[]TickedOnce`, with any overlap. `ActivityInv`: the entries of a member,
  day and task are the one of its completion.
* `WorkspaceIsSeededOnce`: `[]SeededOnce`, with any overlap, whose victims the property leaves out.
  `JoinInv`: who is being given a workspace has none. `SeedInv`: entries differ, and what a
  bootstrap is about to insert is not there yet.
* `PurchaseIsNotOverpaid`: `[]PaidWithinTotal` under `Serial`. `PaidInv`: an open payment or edit
  knows the amounts as they are, so clamping by them is clamping by the row.
* `PagesAreNotCutShort`: `[]NoShortPages`, with any overlap: the two filters agree on every row whose
  amounts are numbers, however it came about.
* `TypesAreOfCategories`, `OnlyHistoryKeepsContacts`, `ItemsGoByRequest`: `TypeInCategory`,
  `DeletesFailForHistoryOnly` and the action property `ItemsLeaveOnlyByDeletion`, under
  `Serial`. `ListingInv`: what a request was checked to be (`Checked`) still
  holds when it commits; it is needed where the commit looks at less than the check did: an
  item is moved to a type that was of the category, a category was empty, a broker was no supplier's.
* `NamesStayUnique`, `PurchasesFoundByName`, `ItemsFoundByName`: `[]NamesUnique` under `Serial`,
  `[]PurchasesAreFound` and `[]ItemsAreFound` with any overlap, whatever names are similar. `LinesInv`: a line that
  names an item was saved with the item's name, which is still its name unless it was renamed.
* `NewestBackupsExist`: `[]KeptBackupsExist` under `Serial`, for any number of entries kept. `FilesInv`
  adds that a run about to log its success has its file (`Written`); `NewestWereNewest`: a new
  entry can only push an entry out of the newest, so what is among them now was written and
  retention has spared its path since.
* `ExportsNest`: `[]ExportsAgree`. The periods of the exports contain each other because days are
  numbers, and when a shorter period that ends today fits the limit on rows, the newest rows of a longer
  one include it (`NewestHoldsLater`); the largest ZIP is assumed to fit that limit, as 400 rows do 2000. No
  edit of a purchase matters.

Model-checked only:

* `Answered` is a liveness property, out of the prover's reach.
* The seven expected violations are counterexamples and stay runs.

## What the models leave out

* Values are in the stock unit; conversions, decimals and rounding are pure
  functions of the code not modelled.
* The ledger leaves out the adjustment log, physical counts and activity log written beside a
  movement; `StockViews` has them as far as the pages read them. Undo reads the
  adjustment log in the code; `StockLedger` reads the ledger, which holds the same rows in
  the same order.
* The 15 minutes of undo: every adjustment is recent. Generated keys (no client
  key) never collide and are `NoKey`.
* Retries on a stale version (`apply_stock_movement_with_retry`): only requests that
  carry a version can be stale, and those are not retried.
* A request whose rollback expired its objects may fail or answer duplicate; the
  model has both answers.
* SQLite, which the tests use, has no advisory locks; the models are of PostgreSQL.
* `"active"` stands for `confirmed`, `"draft"` for `saved`, `"partially_paid"` for
  `overdue` and `due_soon`; sums of money decide among these and are a free choice.
* Owners are those every role check lets through, others those none does; admin and manager
  pass some checks only.
* Lines: a purchase has one line in `PurchaseDelivery`, `StockViews` and `Searches`, none in
  `PurchaseCreation`, where its total stands for what it contains.
* Reports: ratios, order, limits, paging and the narration; two suppliers, brokers or types never
  share a name. Searches: ranking, and the similarity of names, which is a constant.
* Accounts: password hashing, expiry of tokens, sign-up with its checks, more than one business.
* The event stream: it carries hints to fetch again, a lost one leaves the page as it was.
* Not modelled at all: unit normalisation (`unit_normalization.py` and its relatives are pure
  conversions of decimals and names, and have unit tests), bill scanning and language models
  (their result is a request body, which the models choose freely), the SQLite and schema
  bootstrap, rate limits and health checks (start-up code without state of the business),
  media upload, and the Flutter client, whose offline queue and retries appear as
  repeated requests and keys.

## Plan

1. (done) `StockLedger`, `StockBook`, `PurchaseDelivery`, `PurchaseReceipt`, their
   runs and first theorems.
2. (done) `PurchaseCreation` with its proofs, and the workspace's modules.
3. (done) Theorems: the receipt and the delivered stock, purchase creation in
   sequence, caches, notices, and the smaller components in `Office_proofs`.
4. (done) Sums over finite sets, and with them the reports and the stock pages in
   `Figures_proofs`.
5. Left: the hazards without a property, and the pure conversions of units.
