-------------------------- MODULE PurchaseCreation --------------------------
(***************************************************************************)
(* How trade purchases are made (backend/app/services/                     *)
(* trade_purchase_service.py, routers/trade_purchases.py): the             *)
(* Idempotency-Key a server process keeps in its memory, the advisory lock *)
(* of one supplier and day, the search for a duplicate of the last day,    *)
(* the human id that is the largest one plus one, and the purchase memory  *)
(* (the catalog item's last-trade snapshot and the supplier-item default)  *)
(* that creating, editing, cancelling and deleting keep up to date.        *)
(*                                                                         *)
(* A request runs in a READ COMMITTED transaction: each step below is one  *)
(* database statement and sees what was committed before it.  All lines    *)
(* are of one catalog item; the total stands for what a purchase contains. *)
(* The stock of a purchase is the subject of PurchaseDelivery.             *)
(***************************************************************************)
EXTENDS Integers, FiniteSets

CONSTANTS
    Processes,      \* server processes
    Workers,        \* requests that may be open at once
    ProcessOf,      \* the process that serves a worker's requests
    Keys,           \* values of the Idempotency-Key header
    Suppliers,
    Days,           \* purchase dates
    Totals,         \* header totals
    DupTolerance,   \* _DUP_TOTAL_TOLERANCE: totals this close are the same
    MaxRequests,    \* bound: how many requests are made
    MaxRestarts,    \* bound: how often a process restarts
    NoKey,          \* no Idempotency-Key was sent
    None            \* NULL

CONSTANTS
    Kinds,          \* the handlers in use, a subset of AllKinds
    NewStatuses     \* statuses a purchase may be saved with

AllKinds == {"create", "edit", "cancel", "delete"}

ASSUME CreationAssumption ==
    /\ ProcessOf \in [Workers -> Processes]
    /\ Kinds \subseteq AllKinds /\ NewStatuses \subseteq {"draft", "saved", "confirmed"}
    /\ Days \subseteq Nat /\ Totals \subseteq Nat /\ DupTolerance \in Nat
    /\ MaxRequests \in Nat /\ MaxRestarts \in Nat
    /\ None \notin Nat /\ NoKey \notin Keys

VARIABLES
    rows,           \* the committed trade_purchases, by id
    dayOld,         \* purchases numbered up to this are older than a day
    lastTrade,      \* catalog_items.last_trade_purchase_id
    bought,         \* supplier_item_defaults.purchase_count, 0 without a row
    known,          \* _idempotency_purchase_ids of each process
    pc,             \* the next statement of a worker's request
    req,            \* the request a worker serves
    number,         \* the human id a worker's session computed
    seen,           \* what a worker's session read and will write from
    requests,       \* how many requests were made
    restarts        \* how often a process restarted

vars == <<rows, dayOld, lastTrade, bought, known, pc, req, number, seen, requests, restarts>>

Ids == 1..MaxRequests
Gone == {"cancelled", "deleted"}
(* _CATALOG_SNAPSHOT_SKIP_STATUSES *)
SnapshotSkipsFew == {"deleted", "draft"}     \* mutation: "cancelled" forgotten
SnapshotSkips == Gone \union {"draft"}

(* "edited" and "forced" record how the row came to be; the program keeps    *)
(* neither.                                                                  *)
Row == [number : Nat \ {0}, supplier : Suppliers, day : Days, total : Totals,
        status : NewStatuses \union Gone, forced : BOOLEAN, edited : BOOLEAN,
        key : Keys \union {NoKey}]

Creates == [kind : {"create"}, id : Ids, supplier : Suppliers, day : Days, total : Totals,
            status : NewStatuses, force : BOOLEAN, key : Keys \union {NoKey}]
Edits == [kind : {"edit"}, id : Ids, supplier : Suppliers, day : Days, total : Totals,
          status : NewStatuses, force : BOOLEAN, key : {NoKey}]
Closes == [kind : {"cancel", "delete"}, id : Ids]
Requests == {r \in Creates \union Edits \union Closes : r.kind \in Kinds}

Init ==
    /\ rows = <<>>
    /\ dayOld = 0
    /\ lastTrade = None
    /\ bought = [s \in Suppliers |-> 0]
    /\ known = [p \in Processes |-> [k \in Keys |-> None]]
    /\ pc = [w \in Workers |-> "idle"]
    /\ req = [w \in Workers |-> None]
    /\ number = [w \in Workers |-> 0]
    /\ seen = [w \in Workers |-> None]
    /\ requests = 0
    /\ restarts = 0

-----------------------------------------------------------------------------
(* What a statement finds.                                                   *)

Fresh(i) == rows[i].number > dayOld
Live(i) == rows[i].status \notin Gone

(* The heart of find_matching_duplicate_trade_purchase: header totals within *)
(* the tolerance and the same lines, up to rounding.                         *)
SameContent(t, u) == t - u <= DupTolerance /\ u - t <= DupTolerance
Duplicates(supplier, total, self) ==
    {i \in DOMAIN rows \ {self} : /\ Fresh(i) /\ Live(i)
                                  /\ rows[i].supplier = supplier
                                  /\ SameContent(rows[i].total, total)}

(* next_human_id: the largest committed number, plus one. *)
NextNumberOfSequence == requests        \* mutation: a database sequence, which leaves gaps
NextNumber == CHOOSE n \in {1} \union {rows[i].number + 1 : i \in DOMAIN rows} :
                 \A i \in DOMAIN rows : rows[i].number < n

(* refresh_catalog_last_trade_snapshots: the newest purchase that counts,    *)
(* by purchase date and then by creation.                                    *)
Newer(i, j) == \/ rows[i].day > rows[j].day
               \/ rows[i].day = rows[j].day /\ rows[i].number >= rows[j].number
Snapshot(self) ==
    LET counted == {i \in DOMAIN rows \ {self} : rows[i].status \notin SnapshotSkips}
        newest == {i \in counted : \A j \in counted : Newer(i, j)}
    IN IF newest = {} THEN None ELSE CHOOSE i \in newest : TRUE

(* pg_advisory_xact_lock tp_create:{supplier}:{date} and tp_update:{id}, held *)
(* until the transaction ends.                                                *)
Locked == {"check", "number", "insert", "write", "memory", "commit"}
LockNameByRequest(r) == <<r.kind, r.id>>        \* mutation: a lock nobody else asks for
LockName(r) == IF r.kind = "create" THEN <<r.supplier, r.day>> ELSE <<"edit", r.id>>
Holds(w) == pc[w] \in Locked /\ req[w].kind \in {"create", "edit"}
LockFree(w) == \A v \in Workers \ {w} : Holds(v) => LockName(req[v]) # LockName(req[w])

(* A row that was inserted or updated but not committed. *)
Flushed(w) == pc[w] \in {"memory", "commit"}

-----------------------------------------------------------------------------
(* How a request starts and ends.                                            *)

End(w) ==
    /\ pc' = [pc EXCEPT ![w] = "idle"]
    /\ req' = [req EXCEPT ![w] = None]
    /\ number' = [number EXCEPT ![w] = 0]
    /\ seen' = [seen EXCEPT ![w] = None]

(* What a session read: the row's status and the item's last trade as loaded  *)
(* with the purchase, later the supplier default and the newest other row.   *)
NothingRead == [status |-> "new", item |-> None, count |-> 0, newest |-> None]
Loaded(i) == [NothingRead EXCEPT !.status = rows[i].status, !.item = lastTrade]

Begin(w, r, next, read) ==
    /\ pc[w] = "idle"
    /\ requests < MaxRequests
    /\ requests' = requests + 1
    /\ pc' = [pc EXCEPT ![w] = next]
    /\ req' = [req EXCEPT ![w] = r]
    /\ seen' = [seen EXCEPT ![w] = read]
    /\ UNCHANGED <<rows, dayOld, lastTrade, bought, known, number, restarts>>

(* A request that is answered at once changes nothing. *)
AnswerAtOnce(w) ==
    /\ pc[w] = "idle"
    /\ requests < MaxRequests
    /\ requests' = requests + 1
    /\ UNCHANGED <<rows, dayOld, lastTrade, bought, known, pc, req, number, seen, restarts>>

(* An exception ends the transaction; nothing it wrote remains. *)
Fail(w) ==
    /\ End(w)
    /\ UNCHANGED <<rows, dayOld, lastTrade, bought, known, requests, restarts>>

Advance(w, next) ==
    /\ pc' = [pc EXCEPT ![w] = next]
    /\ UNCHANGED <<rows, dayOld, lastTrade, bought, known, req, requests, restarts>>

-----------------------------------------------------------------------------
(* POST /trade-purchases                                                     *)

(* A key this process remembers is answered with the purchase it made. *)
RememberedUnforced(p, r) ==             \* mutation: force_duplicate skips the look-up too
    r.key # NoKey /\ known[p][r.key] # None /\ ~r.force
Remembered(p, r) == r.key # NoKey /\ known[p][r.key] # None
AskCreate(w, r) ==
    /\ r.kind = "create" /\ r.id = requests + 1
    /\ IF Remembered(ProcessOf[w], r)
       THEN AnswerAtOnce(w)
       ELSE Begin(w, r, "lock", NothingRead)

TakeLock(w) ==
    /\ pc[w] = "lock"
    /\ LockFree(w)
    /\ Advance(w, "check")
    /\ UNCHANGED <<number, seen>>

(* Creating and editing both refuse a duplicate with 409, unless told not to. *)
Refused(r) ==
    /\ ~r.force
    /\ Duplicates(r.supplier, r.total, IF r.kind = "edit" THEN r.id ELSE 0) # {}
CheckDuplicate(w) ==
    /\ pc[w] = "check"
    /\ IF Refused(req[w])
       THEN Fail(w)
       ELSE /\ Advance(w, IF req[w].kind = "create" THEN "number" ELSE "write")
            /\ UNCHANGED <<number, seen>>

TakeNumber(w) ==
    /\ pc[w] = "number"
    /\ number' = [number EXCEPT ![w] = NextNumber]
    /\ Advance(w, "insert")
    /\ UNCHANGED seen

(* The INSERT waits for another transaction that inserted the same human id  *)
(* and has not ended, and fails when a committed row has it: the handler     *)
(* does not try another number.                                              *)
NumberTakenNever(w) == FALSE            \* mutation: no unique constraint on the human id
NumberTaken(w) == \E i \in DOMAIN rows : rows[i].number = number[w]
Insert(w) ==
    /\ pc[w] = "insert"
    /\ \A v \in Workers \ {w} : Flushed(v) => number[v] # number[w]
    /\ IF NumberTaken(w)
       THEN Fail(w)
       ELSE Advance(w, "memory") /\ UNCHANGED <<number, seen>>

(* _sync_purchase_memory reads the supplier's default of the item. *)
ReadMemory(w) ==
    /\ pc[w] = "memory"
    /\ seen' = [seen EXCEPT ![w].count = bought[req[w].supplier]]
    /\ Advance(w, "commit")
    /\ UNCHANGED number

(* The default the session read is counted up, or inserted if it saw none.   *)
(* The item is written when it changes what the session loaded.              *)
DefaultTaken(w) == seen[w].count = 0 /\ bought[req[w].supplier] # 0
SetLastTrade(w, id) == lastTrade' = IF id # seen[w].item THEN id ELSE lastTrade
WriteMemory(w) ==
    /\ bought' = [bought EXCEPT ![req[w].supplier] = seen[w].count + 1]
    /\ IF req[w].status = "confirmed" THEN SetLastTrade(w, req[w].id) ELSE UNCHANGED lastTrade

NewRow(w) ==
    [number |-> number[w], supplier |-> req[w].supplier, day |-> req[w].day,
     total |-> req[w].total, status |-> req[w].status, forced |-> req[w].force,
     edited |-> FALSE, key |-> req[w].key]
CommitCreate(w) ==
    /\ pc[w] = "commit" /\ req[w].kind = "create"
    /\ IF DefaultTaken(w)
       THEN Fail(w)
       ELSE /\ rows' = [i \in DOMAIN rows \union {req[w].id} |->
                           IF i = req[w].id THEN NewRow(w) ELSE rows[i]]
            /\ WriteMemory(w)
            /\ pc' = [pc EXCEPT ![w] = "remember"]
            /\ UNCHANGED <<dayOld, known, req, number, seen, requests, restarts>>

(* The key is remembered, and the answer given, after the commit. *)
Remember(w) ==
    /\ pc[w] = "remember"
    /\ known' = IF req[w].key = NoKey THEN known
                ELSE [known EXCEPT ![ProcessOf[w]][req[w].key] = req[w].id]
    /\ End(w)
    /\ UNCHANGED <<rows, dayOld, lastTrade, bought, requests, restarts>>

-----------------------------------------------------------------------------
(* PUT /trade-purchases/{id}                                                 *)

(* The guards look at the status the session loaded first: the second SELECT, *)
(* under the lock, does not refresh a loaded row.                             *)
AskEdit(w, r) ==
    /\ r.kind = "edit"
    /\ IF r.id \in DOMAIN rows /\ Live(r.id)
       THEN Begin(w, r, "lock", Loaded(r.id))
       ELSE AnswerAtOnce(w)

(* The UPDATE waits for other transactions that changed the row. *)
RowFree(w) == \A v \in Workers \ {w} :
                 Flushed(v) /\ req[v].kind # "create" => req[v].id # req[w].id
WriteRow(w) ==
    /\ pc[w] = "write"
    /\ RowFree(w)
    /\ Advance(w, "memory")
    /\ UNCHANGED <<number, seen>>

(* The UPDATE carries the columns that differ from what was loaded. *)
NewStatus(w, status) == IF status # seen[w].status THEN status ELSE rows[req[w].id].status
CommitEdit(w) ==
    /\ pc[w] = "commit" /\ req[w].kind = "edit"
    /\ IF DefaultTaken(w)
       THEN Fail(w)
       ELSE /\ rows' = [rows EXCEPT ![req[w].id] =
                           [@ EXCEPT !.supplier = req[w].supplier, !.day = req[w].day,
                                     !.total = req[w].total, !.edited = TRUE,
                                     !.status = NewStatus(w, req[w].status)]]
            /\ WriteMemory(w)
            /\ End(w)
            /\ UNCHANGED <<dayOld, known, requests, restarts>>

-----------------------------------------------------------------------------
(* POST /trade-purchases/{id}/cancel and DELETE /trade-purchases/{id}: both   *)
(* give up only on a deleted purchase, and delete is a status too.            *)

ClosedStatus(r) == IF r.kind = "cancel" THEN "cancelled" ELSE "deleted"

AskClose(w, r) ==
    /\ r.kind \in {"cancel", "delete"}
    /\ IF r.id \in DOMAIN rows /\ rows[r.id].status # "deleted"
       THEN Begin(w, r, "close", Loaded(r.id))
       ELSE AnswerAtOnce(w)

(* The status is written, then the snapshot is computed from the other rows. *)
FindSnapshot(w) ==
    /\ pc[w] = "close"
    /\ RowFree(w)
    /\ seen' = [seen EXCEPT ![w].newest = Snapshot(req[w].id)]
    /\ Advance(w, "commit")
    /\ UNCHANGED number

CommitClose(w) ==
    /\ pc[w] = "commit" /\ req[w].kind \in {"cancel", "delete"}
    /\ rows' = [rows EXCEPT ![req[w].id].status = NewStatus(w, ClosedStatus(req[w]))]
    /\ SetLastTrade(w, seen[w].newest)
    /\ End(w)
    /\ UNCHANGED <<dayOld, bought, known, requests, restarts>>

-----------------------------------------------------------------------------
(* What happens around the requests.                                         *)

(* Time passes: another purchase leaves the duplicate window of 24 hours. *)
Age ==
    /\ \E i \in DOMAIN rows : rows[i].number = dayOld + 1
    /\ dayOld' = dayOld + 1
    /\ UNCHANGED <<rows, lastTrade, bought, known, pc, req, number, seen, requests, restarts>>

(* A key outlives its purchase's day by no more than its request took. *)
Forget(p, k) ==
    /\ known[p][k] \in DOMAIN rows
    /\ ~Fresh(known[p][k])
    /\ known' = [known EXCEPT ![p][k] = None]
    /\ UNCHANGED <<rows, dayOld, lastTrade, bought, pc, req, number, seen, requests, restarts>>

(* A process ends and is started again: its memory is gone, its transactions *)
(* are rolled back and its clients get no answer.                            *)
Restart(p) ==
    /\ restarts < MaxRestarts
    /\ restarts' = restarts + 1
    /\ known' = [known EXCEPT ![p] = [k \in Keys |-> None]]
    /\ pc' = [w \in Workers |-> IF ProcessOf[w] = p THEN "idle" ELSE pc[w]]
    /\ req' = [w \in Workers |-> IF ProcessOf[w] = p THEN None ELSE req[w]]
    /\ number' = [w \in Workers |-> IF ProcessOf[w] = p THEN 0 ELSE number[w]]
    /\ seen' = [w \in Workers |-> IF ProcessOf[w] = p THEN None ELSE seen[w]]
    /\ UNCHANGED <<rows, dayOld, lastTrade, bought, requests>>

Ask(w) == \E r \in Requests : AskCreate(w, r) \/ AskEdit(w, r) \/ AskClose(w, r)
Step(w) == \/ TakeLock(w) \/ CheckDuplicate(w) \/ TakeNumber(w) \/ Insert(w)
           \/ ReadMemory(w) \/ CommitCreate(w) \/ Remember(w)
           \/ WriteRow(w) \/ CommitEdit(w) \/ FindSnapshot(w) \/ CommitClose(w)

Next == \/ \E w \in Workers : Ask(w) \/ Step(w)
        \/ Age
        \/ \E p \in Processes, k \in Keys : Forget(p, k)
        \/ \E p \in Processes : Restart(p)

Spec == Init /\ [][Next]_vars

-----------------------------------------------------------------------------
(* The purchases, the memory and the sessions have the shape their tables    *)
(* and handlers give them.                                                   *)
PCs == {"idle", "lock", "check", "number", "insert", "write", "memory", "close", "commit",
        "remember"}
Seen == [status : NewStatuses \union Gone \union {"new"}, item : Ids \union {None},
         count : Nat, newest : Ids \union {None}]
TypeOK ==
    /\ DOMAIN rows \subseteq Ids
    /\ \A i \in DOMAIN rows : rows[i] \in Row
    /\ dayOld \in Nat /\ requests \in 0..MaxRequests /\ restarts \in 0..MaxRestarts
    /\ lastTrade \in Ids \union {None}
    /\ bought \in [Suppliers -> Nat]
    /\ known \in [Processes -> [Keys -> Ids \union {None}]]
    /\ pc \in [Workers -> PCs]
    /\ number \in [Workers -> Nat]
    /\ \A w \in Workers : IF pc[w] = "idle" THEN req[w] = None /\ seen[w] = None
                          ELSE req[w] \in Requests /\ seen[w] \in Seen

(* The human ids of a year's purchases are 1, 2, 3, ... without a gap or a   *)
(* repetition, however creations overlap, fail and restart (next_human_id    *)
(* reads the largest one without a lock).                                    *)
NumbersDense ==
    /\ \A i, j \in DOMAIN rows : rows[i].number = rows[j].number => i = j
    /\ \A i \in DOMAIN rows : \A n \in 1..(rows[i].number - 1) :
          \E j \in DOMAIN rows : rows[j].number = n

(* Two purchases of one supplier and day with the same content, both made    *)
(* without force_duplicate and unedited since, are never both live within a  *)
(* day, however the requests, their retries and restarts overlap.            *)
Unforced(i) == ~rows[i].forced /\ ~rows[i].edited
NoTwins ==
    \A i, j \in DOMAIN rows :
        (/\ i # j /\ Live(i) /\ Live(j) /\ Fresh(i) /\ Fresh(j)
         /\ Unforced(i) /\ Unforced(j)
         /\ rows[i].supplier = rows[j].supplier /\ rows[i].day = rows[j].day)
        => ~SameContent(rows[i].total, rows[j].total)

(* purchase_count of a supplier's item counts every purchase that was made,  *)
(* as long as none was edited, although it is read, counted up in the        *)
(* session and written back without a lock: overlapping creations are kept   *)
(* apart by the unique human id.                                             *)
CountsEveryPurchase ==
    (\A i \in DOMAIN rows : ~rows[i].edited) =>
        \A s \in Suppliers :
            bought[s] = Cardinality({i \in DOMAIN rows : rows[i].supplier = s})

(* While requests come one at a time, the item's last trade is a purchase    *)
(* that was not cancelled or deleted, and there is one whenever some         *)
(* confirmed purchase is left.                                               *)
LastTradeIsLive ==
    /\ lastTrade # None => lastTrade \in DOMAIN rows /\ Live(lastTrade)
    /\ (\E i \in DOMAIN rows : rows[i].status = "confirmed") => lastTrade # None

(* An Idempotency-Key makes one purchase in a day (docs/ux/                  *)
(* UI_EDGE_CASE_MATRIX.md:40, rapid double click).                           *)
KeyMakesOnePurchase ==
    \A i, j \in DOMAIN rows :
        rows[i].key # NoKey /\ rows[i].key = rows[j].key /\ Fresh(i) /\ Fresh(j) => i = j
=============================================================================
