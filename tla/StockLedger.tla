---------------------------- MODULE StockLedger ----------------------------
(***************************************************************************)
(* The stock movement service of the HEXA backend and the request handlers *)
(* that call it (backend/app/services/stock_movement_service.py and        *)
(* backend/app/routers/stock/).  Every request runs in a database          *)
(* transaction of its own: it may first load the catalog item into its ORM *)
(* session, then, line by line, looks its idempotency key up, passes the   *)
(* stock-audit guard, takes the item's lock, writes the new stock, version *)
(* and movement row, and finally commits.  Nothing a request writes is     *)
(* visible to another before it commits, and every lock it took is held    *)
(* until it commits or rolls back.                                         *)
(*                                                                         *)
(* One business, one day.  An item row is [qty, ver]; a movement row keeps *)
(* the columns the properties read.                                        *)
(***************************************************************************)
EXTENDS Integers, Sequences, FiniteSets

CONSTANTS
    Items,        \* catalog items
    Reqs,         \* request instances, each used once
    Users,        \* members of the business
    Owners,       \* those with role owner or super_admin, whom every role check
                  \* passes; the others are staff, whom none passes
    Keys,         \* idempotency keys clients send, and purchase ids
    Qtys,         \* quantities a request may carry
    OpeningQty,   \* stock of every item when the model starts
    Handlers,     \* the handlers in use, a subset of AllHandlers
    Adjustments,  \* <<kind, force>> pairs an edit may carry
    AuditsHappen, \* whether stock audits open and close meanwhile
    NoKey, NoItem, NoReq, NoJob, NoMove, NotLoaded

(* Handlers that hold the ORM row of the item before the service locks it. *)
(* The locking SELECT returns that same object with the attributes of the  *)
(* first load.                                                             *)
Preloading == {"patch_stock", "verify_count", "opening_stock", "undo",
               "delivery_receive", "delivery_revoke"}

(* Purchase deliveries: several items in one transaction. *)
Delivering == {"delivery_receive", "delivery_revoke"}

(* mode="delta"; every other handler is mode="absolute". *)
Additive == Delivering \union {"quick_purchase"}

AllHandlers == Preloading \union {"physical_update", "quick_purchase"}

(* movement_kind of an edit, from its adjustment_type ("sale" stands for the *)
(* remaining types, which are treated alike); verify-count writes            *)
(* "correction" and every other handler a kind of its own.                   *)
EditKinds == {"physical_count", "correction", "sale"}

(* Kinds let through while a stock audit is open. *)
AuditExempt == {"physical_count", "correction"}

ASSUME HandlersAssumption == /\ Handlers \subseteq AllHandlers
                             /\ Adjustments \subseteq EditKinds \X BOOLEAN
ASSUME OwnersAssumption == Owners \subseteq Users
ASSUME QtysAssumption == Qtys \subseteq Nat /\ OpeningQty \in Nat
ASSUME NullsAssumption == NoItem \notin Items /\ NoReq \notin Reqs

NoVersion == -1     \* last_seen_stock_version absent
Tolerance(kind) == IF kind = "physical_count" THEN 2 ELSE 0

VARIABLES
    stock,          \* catalog_items.current_stock, committed
    version,        \* catalog_items.stock_version, committed
    openingLocked,  \* catalog_items.opening_stock_locked, committed
    ledger,         \* per item, the committed stock_movements in commit order
    auditOpen,      \* a stock audit of the business is draft or pending_review
    lockedBy,       \* holder of the item's advisory and row lock
    pc,             \* where a request stands
    job,            \* what a request asks for
    view,           \* the item rows a request's ORM session already holds
    left,           \* items a request has still to move
    cur,            \* the item whose lock a request waits for
    draft           \* per item, the movement a request has flushed but not committed

dbVars == <<stock, version, openingLocked, ledger>>
vars == <<dbVars, auditOpen, lockedBy, pc, job, view, left, cur, draft>>

Waiting == {"lock", "duplicate_lock"}
Open == Waiting \union {"lines"}
Answers == {"ok", "duplicate", "rejected", "error"}

(* What identifies a movement for idempotency: absent, a client's key, or    *)
(* undo:{log id}; a delivery derives one key per item from its purchase id.  *)
JobKeys == {NoKey} \union Keys \union ({"undo"} \X Items \X Nat)
MoveKeys == JobKeys \union (Delivering \X JobKeys \X Items)

Row == [qty : Int, ver : Nat]
Move == [req : Reqs, delta : Int, before : Int, after : Nat, key : MoveKeys]
Draft == [move : Move, ver : Nat]
Job == [kind : EditKinds \union AllHandlers, qty : Int, key : JobKeys,
        handler : Handlers, user : Users, items : SUBSET Items,
        seen : Nat \union {NoVersion}, force : BOOLEAN]

ASSUME NoMoveAssumption == NoMove \notin Draft

LineKey(j, i) == IF j.handler \in Delivering THEN <<j.handler, j.key, i>> ELSE j.key

Committed(k) == \E i \in Items : \E n \in 1..Len(ledger[i]) : ledger[i][n].key = k

(* r's transaction holds an uncommitted movement row under key k. *)
Flushed(r, k) == \E i \in Items : draft[r][i] # NoMove /\ draft[r][i].move.key = k

NoLines == [i \in Items |-> NoMove]
NothingLoaded == [i \in Items |-> NotLoaded]

Init ==
    /\ stock = [i \in Items |-> OpeningQty]
    /\ version = [i \in Items |-> 0]
    /\ openingLocked = [i \in Items |-> FALSE]
    /\ ledger = [i \in Items |-> <<>>]
    /\ auditOpen = FALSE
    /\ lockedBy = [i \in Items |-> NoReq]
    /\ pc = [r \in Reqs |-> "idle"]
    /\ job = [r \in Reqs |-> NoJob]
    /\ view = [r \in Reqs |-> NothingLoaded]
    /\ left = [r \in Reqs |-> {}]
    /\ cur = [r \in Reqs |-> NoItem]
    /\ draft = [r \in Reqs |-> NoLines]

-----------------------------------------------------------------------------
(* The handlers: what each asks of the service, and what it loads first.     *)

(* The handler's own query puts the row of item i in the session. *)
LoadsAlways(j, i) == i \in j.items    \* mutation: every handler selects the item first
Loads(j, i) == j.handler \in Preloading /\ i \in j.items

Start(r, j) ==
    /\ pc[r] = "idle"
    /\ j.handler \in Handlers
    /\ pc' = [pc EXCEPT ![r] = "lines"]
    /\ job' = [job EXCEPT ![r] = j]
    /\ left' = [left EXCEPT ![r] = j.items]
    /\ view' = [view EXCEPT ![r] =
                  [i \in Items |->
                     IF Loads(j, i)
                     THEN [qty |-> stock[i], ver |-> version[i]]
                     ELSE NotLoaded]]
    /\ UNCHANGED <<dbVars, auditOpen, lockedBy, cur, draft>>

Request(h, kind, u, items, q, k, seen, force) ==
    [kind |-> kind, qty |-> q, key |-> k, handler |-> h, user |-> u, items |-> items,
     seen |-> seen, force |-> force]

Ask(h, u, items, q, k) == Request(h, h, u, items, q, k, NoVersion, FALSE)

(* An edit carries the version of any read its client made, or none. *)
Edit(r, h, u, i, q, k) ==
    \E a \in Adjustments, seen \in {NoVersion} \union 0..version[i] :
        Start(r, Request(h, a[1], u, {i}, q, k, seen, a[2]))

(* POST physical-update: sets the counted quantity; it never holds the row   *)
(* before the service locks it.                                              *)
UpdatePhysicalStock(r) ==
    \E i \in Items, u \in Users, q \in Qtys, k \in Keys \union {NoKey} :
        Edit(r, "physical_update", u, i, q, k)

(* PATCH stock: the same absolute edit, but the handler selects the item     *)
(* first, to refuse staff once the opening stock is locked.                  *)
PatchStockItem(r) ==
    \E i \in Items, u \in Users, q \in Qtys, k \in Keys \union {NoKey} :
        /\ openingLocked[i] => u \in Owners
        /\ Edit(r, "patch_stock", u, i, q, k)

(* POST staff-purchases and quick-purchase: adds a positive quantity. *)
CreateStaffPurchase(r) ==
    \E i \in Items, u \in Users, q \in Qtys \ {0}, k \in Keys \union {NoKey} :
        Start(r, Ask("quick_purchase", u, {i}, q, k))

(* POST verify-count: a count from the barcode screen, no version sent. *)
VerifyStockCount(r) ==
    \E i \in Items, u \in Users, q \in Qtys, k \in Keys \union {NoKey} :
        Start(r, Request("verify_count", "correction", u, {i}, q, k, NoVersion, FALSE))

(* POST opening-stock: owners only. *)
SetOpeningStock(r) ==
    \E i \in Items, u \in Owners, q \in Qtys, k \in Keys \union {NoKey} :
        Start(r, Ask("opening_stock", u, {i}, q, k))

(* POST undo-last: back to the quantity the user's last adjustment replaced. *)
MadeBy(u, i, n) == job[ledger[i][n].req].user = u
UndoLastStockChange(r) ==
    \E i \in Items, u \in Users :
        \E n \in 1..Len(ledger[i]) :
            /\ MadeBy(u, i, n)
            /\ \A m \in n + 1..Len(ledger[i]) : ~MadeBy(u, i, m)
            /\ job[ledger[i][n].req].handler = "opening_stock" => u \in Owners
            /\ Start(r, Ask("undo", u, {i}, ledger[i][n].before, <<"undo", i, n>>))

(* The stock part of committing a delivery, and of reversing it: one line    *)
(* per item of purchase p, whose rows the purchase query loaded.  A purchase *)
(* is received at most once, and reversed after it was received.             *)
Handles(r, h, p) == job[r] # NoJob /\ job[r].handler = h /\ job[r].key = p

ReceiveDelivery(r) ==
    \E items \in SUBSET Items \ {{}}, u \in Users, q \in Qtys \ {0}, p \in Keys :
        /\ \A s \in Reqs : ~Handles(s, "delivery_receive", p)
        /\ Start(r, Ask("delivery_receive", u, items, q, p))

RevokeDelivery(r) ==
    \E s \in Reqs, u \in Users, p \in Keys :
        /\ Handles(s, "delivery_receive", p)
        /\ pc[s] = "ok"
        /\ Start(r, Ask("delivery_revoke", u, job[s].items, -job[s].qty, p))

-----------------------------------------------------------------------------
(* The service, one line at a time.                                          *)

KeptLocks(r) == lockedBy               \* mutation: a session left open
FreedLocks(r) == [i \in Items |-> IF lockedBy[i] = r THEN NoReq ELSE lockedBy[i]]

(* The transaction is over: its session is closed and its locks are free. *)
CloseSession(r) ==
    /\ lockedBy' = FreedLocks(r)
    /\ draft' = [draft EXCEPT ![r] = NoLines]
    /\ view' = [view EXCEPT ![r] = NothingLoaded]
    /\ left' = [left EXCEPT ![r] = {}]
    /\ cur' = [cur EXCEPT ![r] = NoItem]

(* It ends with nothing written: PostgreSQL drops the flushed rows. *)
RollBack(r, answer) ==
    /\ pc' = [pc EXCEPT ![r] = answer]
    /\ CloseSession(r)
    /\ UNCHANGED <<dbVars, auditOpen, job>>

(* The audit guard lets r through. *)
Allowed(r) ==
    \/ ~auditOpen
    \/ job[r].user \in Owners
    \/ job[r].kind \in AuditExempt

(* A line starts: the key is looked up, then the guard asked, before any     *)
(* lock is taken.  A key already committed leads to the duplicate answer.    *)
LookUpKey(r) ==
    \E i \in left[r] :
        LET known == job[r].key # NoKey /\ Committed(LineKey(job[r], i))
        IN  /\ pc[r] = "lines"
            /\ known \/ Allowed(r)
            /\ pc' = [pc EXCEPT ![r] = IF known THEN "duplicate_lock" ELSE "lock"]
            /\ cur' = [cur EXCEPT ![r] = i]
            /\ left' = [left EXCEPT ![r] = @ \ {i}]
            /\ UNCHANGED <<dbVars, auditOpen, lockedBy, job, view, draft>>

RefuseDuringAudit(r) ==
    /\ pc[r] = "lines"
    /\ \E i \in left[r] : job[r].key = NoKey \/ ~Committed(LineKey(job[r], i))
    /\ ~Allowed(r)
    /\ RollBack(r, "rejected")

(* The duplicate answer still locks the item, and writes nothing. *)
AnswerDuplicate(r) ==
    /\ pc[r] = "duplicate_lock"
    /\ lockedBy[cur[r]] \in {NoReq, r}
    /\ lockedBy' = [lockedBy EXCEPT ![cur[r]] = r]
    /\ pc' = [pc EXCEPT ![r] = "lines"]
    /\ cur' = [cur EXCEPT ![r] = NoItem]
    /\ UNCHANGED <<dbVars, auditOpen, job, view, left, draft>>

(* The attributes the locking SELECT hands out: those already in the session *)
(* if the row was loaded before, the committed ones if it was not.           *)
LockedRow(r) ==
    IF view[r][cur[r]] # NotLoaded
    THEN view[r][cur[r]]
    ELSE [qty |-> stock[cur[r]], ver |-> version[cur[r]]]

VersionAcceptedOlder(j, row) ==        \* mutation: any older version tolerated
    j.seen = NoVersion \/ j.seen <= row.ver
VersionAccepted(j, row) ==
    \/ j.seen = NoVersion
    \/ j.seen = row.ver
    \/ j.force
    \/ row.ver - j.seen \in 1..Tolerance(j.kind)

After(j, row) == IF j.handler \in Additive THEN row.qty + j.qty ELSE j.qty

AtLockHeld(r) == pc[r] = "lock"        \* mutation: no lock taken
AtLock(r) == pc[r] = "lock" /\ lockedBy[cur[r]] = NoReq

RejectStaleVersion(r) ==
    /\ AtLock(r)
    /\ ~VersionAccepted(job[r], LockedRow(r))
    /\ RollBack(r, "rejected")

RejectNegative(r) ==
    /\ AtLock(r)
    /\ VersionAccepted(job[r], LockedRow(r))
    /\ After(job[r], LockedRow(r)) < 0
    /\ RollBack(r, "rejected")

AcceptedBelowZero(r) ==                \* mutation: the sign is not checked
    AtLock(r) /\ VersionAccepted(job[r], LockedRow(r))
Accepted(r) ==
    /\ AtLock(r)
    /\ VersionAccepted(job[r], LockedRow(r))
    /\ After(job[r], LockedRow(r)) >= 0

KeyTakenNever(r, k) == FALSE           \* mutation: no unique constraint
KeyTaken(r, k) == k # NoKey /\ (Committed(k) \/ Flushed(r, k))

(* The INSERT meets the unique key of a movement committed since the lookup: *)
(* the service rolls the whole transaction back and answers duplicate, unless *)
(* the handler then fails on the objects the rollback expired.               *)
LoseKeyRace(r) ==
    /\ Accepted(r)
    /\ KeyTaken(r, LineKey(job[r], cur[r]))
    /\ \E answer \in {"duplicate", "error"} : RollBack(r, answer)

(* The line is written and flushed.  PostgreSQL makes the INSERT wait while   *)
(* another transaction holds an uncommitted row with the same key.           *)
ApplyMovement(r) ==
    LET i == cur[r]
        row == LockedRow(r)
        k == LineKey(job[r], i)
    IN  /\ Accepted(r)
        /\ ~KeyTaken(r, k)
        /\ k # NoKey => \A s \in Reqs : ~Flushed(s, k)
        /\ draft' = [draft EXCEPT ![r][i] =
                       [move |-> [req |-> r,
                                  delta |-> After(job[r], row) - row.qty,
                                  before |-> row.qty,
                                  after |-> After(job[r], row),
                                  key |-> k],
                        ver |-> row.ver + 1]]
        /\ lockedBy' = [lockedBy EXCEPT ![i] = r]
        /\ pc' = [pc EXCEPT ![r] = "lines"]
        /\ cur' = [cur EXCEPT ![r] = NoItem]
        /\ UNCHANGED <<dbVars, auditOpen, job, view, left>>

Moved(r) == {i \in Items : draft[r][i] # NoMove}

LinesDoneAlways(r) == TRUE             \* mutation: each line commits on its own
LinesDone(r) == left[r] = {}

(* The handler commits.  The UPDATE carries only the columns whose value     *)
(* differs from the loaded one, so an unchanged quantity is not written.     *)
Commit(r) ==
    /\ pc[r] = "lines"
    /\ LinesDone(r)
    /\ pc' = [pc EXCEPT ![r] = IF Moved(r) = {} THEN "duplicate" ELSE "ok"]
    /\ stock' = [i \in Items |->
                   IF i \in Moved(r) /\ draft[r][i].move.after # draft[r][i].move.before
                   THEN draft[r][i].move.after
                   ELSE stock[i]]
    /\ version' = [i \in Items |-> IF i \in Moved(r) THEN draft[r][i].ver ELSE version[i]]
    /\ ledger' = [i \in Items |-> IF i \in Moved(r)
                                  THEN Append(ledger[i], draft[r][i].move)
                                  ELSE ledger[i]]
    /\ openingLocked' = [i \in Items |-> \/ openingLocked[i]
                                         \/ job[r].handler = "opening_stock" /\ i \in job[r].items]
    /\ CloseSession(r)
    /\ UNCHANGED <<auditOpen, job>>

(* The worker dies, or the connection drops, before the commit. *)
Crash(r) ==
    /\ pc[r] \in Open
    /\ RollBack(r, "error")

(* PostgreSQL aborts one transaction of a cycle of lock waits. *)
Deadlocked(r) ==
    \E S \in SUBSET Reqs :
        /\ r \in S
        /\ \A s \in S : /\ pc[s] \in Waiting
                        /\ \E t \in S \ {s} : pc[t] \in Waiting /\ lockedBy[cur[t]] = s
DeadlockVictim(r) == Deadlocked(r) /\ RollBack(r, "error")

(* Audits of the business open and close beside the requests. *)
ToggleAudit ==
    /\ AuditsHappen
    /\ auditOpen' = ~auditOpen
    /\ UNCHANGED <<dbVars, lockedBy, pc, job, view, left, cur, draft>>

Arrive(r) ==
    \/ UpdatePhysicalStock(r) \/ PatchStockItem(r) \/ CreateStaffPurchase(r)
    \/ VerifyStockCount(r) \/ SetOpeningStock(r) \/ UndoLastStockChange(r)
    \/ ReceiveDelivery(r) \/ RevokeDelivery(r)

Work(r) ==
    \/ LookUpKey(r) \/ RefuseDuringAudit(r) \/ AnswerDuplicate(r)
    \/ RejectStaleVersion(r) \/ RejectNegative(r) \/ LoseKeyRace(r)
    \/ ApplyMovement(r) \/ Commit(r) \/ DeadlockVictim(r)

Next == (\E r \in Reqs : Arrive(r) \/ Work(r) \/ Crash(r)) \/ ToggleAudit

Spec == Init /\ [][Next]_vars

(* A request the server has accepted keeps being scheduled by its event loop, *)
(* and PostgreSQL grants locks in turn and breaks deadlocks.                  *)
FairSpec == Spec /\ \A r \in Reqs : WF_vars(Work(r))

-----------------------------------------------------------------------------
(* Properties.                                                               *)

(* Types of every variable; committed stock and quantities after a movement  *)
(* are natural numbers.                                                      *)
TypeOK ==
    /\ stock \in [Items -> Nat]
    /\ version \in [Items -> Nat]
    /\ openingLocked \in [Items -> BOOLEAN]
    /\ ledger \in [Items -> Seq(Move)]
    /\ auditOpen \in BOOLEAN
    /\ lockedBy \in [Items -> Reqs \union {NoReq}]
    /\ pc \in [Reqs -> {"idle"} \union Open \union Answers]
    /\ job \in [Reqs -> Job \union {NoJob}]
    /\ view \in [Reqs -> [Items -> Row \union {NotLoaded}]]
    /\ left \in [Reqs -> SUBSET Items]
    /\ cur \in [Reqs -> Items \union {NoItem}]
    /\ draft \in [Reqs -> [Items -> Draft \union {NoMove}]]

(* An idempotency key moves stock once in the whole business, whichever      *)
(* requests, retries and items it is sent with                               *)
(* (test_stock_movement_idempotency.py: "Stock movement idempotency key      *)
(* prevents duplicate ledger rows").                                         *)
OneMovementPerKey ==
    \A i, k \in Items : \A n \in 1..Len(ledger[i]), m \in 1..Len(ledger[k]) :
        ledger[i][n].key # NoKey /\ ledger[i][n].key = ledger[k][m].key
            => i = k /\ n = m

(* The answer tells what happened: a request answered "ok" has committed     *)
(* every line of its job, itself or by an earlier movement of the same key,  *)
(* and one that was refused, crashed or is still open has committed none.    *)
AnswersTellTheLedger ==
    \A r \in Reqs :
        IF pc[r] = "ok"
        THEN \A i \in job[r].items :
                \/ \E n \in 1..Len(ledger[i]) : ledger[i][n].req = r
                \/ job[r].key # NoKey /\ Committed(LineKey(job[r], i))
        ELSE \A i \in Items : \A n \in 1..Len(ledger[i]) : ledger[i][n].req # r

(* Every request the server accepted is answered: lock waits end, also when  *)
(* two deliveries take the same items in opposite orders.                    *)
Answered == \A r \in Reqs : pc[r] \in Open ~> pc[r] \in Answers

(* The ledger explains the stock: the requests that read the item only under *)
(* its lock implement the abstract book.                                     *)
Book == INSTANCE StockBook
ImplementsBook == Book!Spec
LedgerBalanced == Book!Chained

(* Two device edits made from the same version of an item are never both     *)
(* accepted, verifications and forced edits aside (stock_detail.py:874:      *)
(* "corrections/deltas must reject stale versions so two staff devices       *)
(* cannot apply conflicting edits").                                         *)
Strict(j) ==
    /\ j.handler \in {"physical_update", "patch_stock"}
    /\ j.seen # NoVersion
    /\ ~j.force
    /\ Tolerance(j.kind) = 0
NoConflictingEdits ==
    \A i \in Items : \A n, m \in 1..Len(ledger[i]) :
        LET a == job[ledger[i][n].req]
            b == job[ledger[i][m].req]
        IN  n # m /\ Strict(a) /\ Strict(b) => a.seen # b.seen
=============================================================================
