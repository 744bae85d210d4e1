----------------------------- MODULE StockCounts -----------------------------
(***************************************************************************)
(* Counting the warehouse: stock audits with their lines, the threshold    *)
(* above which a difference waits for the owner                            *)
(* (backend/app/services/stock_audit_service.py, routers/stock_audits.py), *)
(* the guard that stops routine stock changes meanwhile                    *)
(* (services/stock_change_guard.py), and the daily usage log with its      *)
(* snapshots (routers/operations.py).                                      *)
(*                                                                         *)
(* A request about an audit loads it with its lines and locks nothing      *)
(* (get_audit_for_business), decides on that copy, reads the stock of the  *)
(* items and commits later, so two workers' requests overlap.  The session *)
(* writes the columns it changed only; it fails when a line it changed is  *)
(* gone, or when the line it adds is there (uq_stock_audit_items_audit_    *)
(* item).  Creating an audit, reporting use, snapshots and deliveries are  *)
(* one step; what overlapping movements do to one item is the subject of   *)
(* StockLedger.  A line is known by its item.                              *)
(***************************************************************************)
EXTENDS Integers

CONSTANTS
    Items,
    Workers,        \* requests about audits served at the same time
    Audits,         \* audits that may be made
    Opening,        \* stock of every item at the start
    Counts,         \* quantities staff may count, or order
    Used,           \* quantities staff may report as used
    ApprovalUnits,  \* _APPROVAL_MIN_UNITS
    ApprovalShare,  \* _APPROVAL_PCT as a fraction: one in so many
    MaxRequests,    \* bound: requests about audits
    MaxMoves,       \* bound: movements from elsewhere, and usage reports
    MaxDay,         \* bound: days that pass
    None, NoLine, NoLog

VARIABLES
    stock,          \* catalog_items.current_stock
    audits,         \* stock_audits with their lines
    delivered,      \* what the purchases delivered today brought in
    logs,           \* daily_usage_logs of the items, by day
    day,
    moves,          \* movements from elsewhere and usage reports so far
    request,        \* the request each worker serves
    requests        \* requests about audits so far

vars == <<stock, audits, delivered, logs, day, moves, request, requests>>

Roles == {"owner", "staff"}
LineStatuses == {"matched", "mismatch", "pending_approval", "applied"}
(* row is the request that inserted the line.                                 *)
Line == [row : Nat, system : Nat, counted : Nat, difference : Int, status : LineStatuses]
Audit == [status : {"absent", "draft", "pending_review", "completed", "deleted"},
          lines : [Items -> Line \union {NoLine}]]
Log == [opening : Nat, purchased : Nat, used : Nat, closing : Nat]

Without(status) == [status |-> status, lines |-> [i \in Items |-> NoLine]]

Init ==
    /\ stock = [i \in Items |-> Opening]
    /\ audits = [a \in Audits |-> Without("absent")]
    /\ delivered = [i \in Items |-> 0]
    /\ logs = [i \in Items |-> [d \in 0..MaxDay |-> NoLog]]
    /\ day = 0
    /\ moves = 0
    /\ request = [w \in Workers |-> None]
    /\ requests = 0

-----------------------------------------------------------------------------
(* variance_needs_approval: more than the least number of units and more     *)
(* than the share of what the system has.                                    *)
Apart(m, n) == IF m < n THEN n - m ELSE m - n
NeedsApproval(system, counted) ==
    /\ Apart(system, counted) > ApprovalUnits
    /\ system > 0 => Apart(system, counted) * ApprovalShare > system

LineStatus(system, counted) ==
    IF system = counted THEN "matched"
    ELSE IF NeedsApproval(system, counted) THEN "pending_approval" ELSE "mismatch"

LinesOf(audit) == {i \in Items : audit.lines[i] # NoLine}
Having(audit, status) == {i \in LinesOf(audit) : audit.lines[i].status = status}

Open(audit) == audit.status \in {"draft", "pending_review"}
AuditOpen == \E a \in Audits : Open(audits[a])

(* assert_stock_changes_allowed: during an audit only owners change stock,    *)
(* except by the audit's own corrections.                                     *)
MayMove(role) == AuditOpen => role = "owner"

-----------------------------------------------------------------------------
(* Requests about audits: what each endpoint loads, and what it refuses.      *)

(* POST /stock-audits, sent without lines. *)
CreateAudit(a) ==
    /\ audits[a].status = "absent"
    /\ audits' = [audits EXCEPT ![a] = Without("draft")]
    /\ UNCHANGED <<stock, delivered, logs, day, moves, request, requests>>

(* The audit is loaded by an unlocked SELECT; the request goes on to read the *)
(* stock of items, and of each counted one it has a quantity.                 *)
Loaded(a, kind, items, counted, atOnce) ==
    [number |-> requests + 1, kind |-> kind, audit |-> a, items |-> items, counted |-> counted,
     atOnce |-> atOnce, copy |-> audits[a], seen |-> [i \in Items |-> None]]
Load(w, a, kind, items, counted, atOnce) ==
    /\ request[w] = None /\ requests < MaxRequests
    /\ request' = [request EXCEPT ![w] = Loaded(a, kind, items, counted, atOnce)]
    /\ requests' = requests + 1
    /\ UNCHANGED <<stock, audits, delivered, logs, day, moves>>
NoCounts == [i \in Items |-> None]

(* POST /stock-audits/{id}/lines counts an item, or counts it again; with     *)
(* apply_immediately a difference below the threshold goes to stock at once.  *)
UpsertLine(w, a, i, qty, atOnce) ==
    Open(audits[a]) /\ Load(w, a, "count", {i}, [NoCounts EXCEPT ![i] = qty], atOnce)

(* POST /stock-audits/{id}/complete *)
Complete(w, a) ==
    Open(audits[a]) /\ Load(w, a, "complete", LinesOf(audits[a]), NoCounts, FALSE)

(* POST /stock-audits/{id}/lines/{line}/approve looks at the line, not at the *)
(* status of the audit.                                                       *)
Approvable(audit, i) == i \in Having(audit, "pending_approval")
Approve(w, a, i) ==
    Approvable(audits[a], i) /\ Load(w, a, "approve", {i}, NoCounts, FALSE)

(* PUT /stock-audits/{id} replaces all lines, unless one was applied or waits. *)
Replace(w, a, counted) ==
    /\ Open(audits[a])
    /\ Having(audits[a], "applied") \union Having(audits[a], "pending_approval") = {}
    /\ Load(w, a, "replace", {i \in Items : counted[i] # None}, counted, FALSE)

(* DELETE /stock-audits/{id} is for drafts, applied lines or not. *)
Delete(w, a) ==
    audits[a].status = "draft" /\ Load(w, a, "delete", {}, NoCounts, FALSE)

(* The stock is read without a lock, by one SELECT, or for each line that     *)
(* replaces the others by one of its own.                                     *)
Unread(r) == {i \in r.items : r.seen[i] = None}
Selects(r) == IF r.kind = "replace" THEN {{i} : i \in Unread(r)} ELSE {Unread(r)}
ReadStock(w) ==
    /\ request[w] # None /\ Unread(request[w]) # {}
    /\ \E some \in Selects(request[w]) :
          request' = [request EXCEPT ![w].seen =
                        [i \in Items |-> IF i \in some THEN stock[i] ELSE @[i]]]
    /\ UNCHANGED <<stock, audits, delivered, logs, day, moves, requests>>

-----------------------------------------------------------------------------
(* What a request makes of the audit it loaded.                               *)

(* Completing applies every line with a difference that does not wait for     *)
(* approval; a count applies its line if asked to, below the threshold.       *)
Applies(r) ==
    {i \in Items :
        \/ /\ r.kind = "count" /\ i \in r.items /\ r.atOnce
           /\ LineStatus(r.seen[i], r.counted[i]) = "mismatch"
        \/ /\ r.kind = "complete" /\ i \in LinesOf(r.copy)
           /\ r.copy.lines[i].difference # 0
           /\ r.copy.lines[i].status \in {"matched", "mismatch"}
        \/ r.kind = "approve" /\ i \in r.items}
Agrees(line) == line # NoLine /\ line.difference = 0 /\ line.status # "pending_approval"

CountedLine(r, i) ==
    LET there == r.kind = "count" /\ r.copy.lines[i] # NoLine
    IN [row |-> IF there THEN r.copy.lines[i].row ELSE r.number,
        system |-> r.seen[i], counted |-> r.counted[i],
        difference |-> r.counted[i] - r.seen[i],
        status |-> IF i \in Applies(r) THEN "applied" ELSE LineStatus(r.seen[i], r.counted[i])]

LineAfter(r, i) ==
    LET line == r.copy.lines[i]
    IN IF r.counted[i] # None THEN CountedLine(r, i)
       ELSE IF r.kind = "replace" THEN NoLine
       ELSE IF i \in Applies(r) THEN [line EXCEPT !.status = "applied"]
       ELSE IF r.kind = "complete" /\ Agrees(line) THEN [line EXCEPT !.status = "matched"]
       ELSE line

(* The audit is left open if some line waits, and the last approval of an     *)
(* audit under review completes it.                                           *)
ReviewedAlways(audit) == "completed"    \* mutation: the lines that wait are forgotten
Reviewed(audit) == IF Having(audit, "pending_approval") = {} THEN "completed" ELSE "pending_review"
StatusAfter(r) ==
    IF \/ r.kind = "complete"
       \/ r.kind = "approve" /\ r.copy.status = "pending_review"
                             /\ Having(r.copy, "pending_approval") \subseteq r.items
    THEN Reviewed([r.copy EXCEPT !.lines = [i \in Items |-> LineAfter(r, i)]])
    ELSE r.copy.status

-----------------------------------------------------------------------------
(* The commit: columns that were changed are written to rows that are there.  *)

Written(now, old, new) == IF new = old THEN now ELSE new

SameRow(line, other) == line # NoLine /\ other # NoLine /\ line.row = other.row
Fits(r, i, now) ==
    LET old == r.copy.lines[i]
        new == LineAfter(r, i)
    IN \/ new = NoLine
       \/ SameRow(old, new) /\ (old # new \/ i \in Applies(r) => SameRow(now, old))
       \/ ~SameRow(old, new) /\ (now = NoLine \/ SameRow(now, old))

LineWritten(r, i, now) ==
    LET old == r.copy.lines[i]
        new == LineAfter(r, i)
    IN IF new = NoLine THEN IF SameRow(now, old) THEN NoLine ELSE now
       ELSE IF ~SameRow(old, new) THEN new
       ELSE IF ~SameRow(now, old) THEN now
       ELSE [row |-> now.row,
             system |-> Written(now.system, old.system, new.system),
             counted |-> Written(now.counted, old.counted, new.counted),
             difference |-> Written(now.difference, old.difference, new.difference),
             status |-> IF i \in Applies(r) THEN "applied"
                        ELSE Written(now.status, old.status, new.status)]

(* An audit is deleted whatever it became meanwhile, and its lines with it.   *)
AuditWritten(r, now) ==
    IF r.kind = "delete" THEN Without("deleted")
    ELSE [status |-> Written(now.status, r.copy.status, StatusAfter(r)),
          lines |-> [i \in Items |-> LineWritten(r, i, now.lines[i])]]

(* Each correction is absolute: what was counted replaces what is there, save *)
(* that the session writes no stock it has read to be that already.           *)
StockWritten(r, i) ==
    IF i \in Applies(r) /\ r.seen[i] # LineAfter(r, i).counted
    THEN LineAfter(r, i).counted ELSE stock[i]

Commit(w) ==
    LET r == request[w]
        now == audits[r.audit]
    IN /\ request[w] # None /\ Unread(r) = {}
       /\ r.kind # "delete" => /\ now.status # "deleted"
                               /\ \A i \in Items : Fits(r, i, now.lines[i])
       /\ audits' = [audits EXCEPT ![r.audit] = AuditWritten(r, now)]
       /\ stock' = [i \in Items |-> StockWritten(r, i)]
       /\ request' = [request EXCEPT ![w] = None]
       /\ UNCHANGED <<delivered, logs, day, moves, requests>>

(* A request that meets a missing or an added row, a deadlock or a crash      *)
(* leaves nothing.                                                            *)
Fail(w) ==
    /\ request[w] # None
    /\ request' = [request EXCEPT ![w] = None]
    /\ UNCHANGED <<stock, audits, delivered, logs, day, moves, requests>>

-----------------------------------------------------------------------------
(* Daily usage                                                               *)

Available(i) == stock[i] - delivered[i]
OpeningToday(i) == IF Available(i) < 0 THEN 0 ELSE Available(i)

(* POST /operations/usage/today writes today's log of the item anew and, when *)
(* the closing quantity is not the stock, moves the stock to it.              *)
UsableAlways(i, used) == TRUE           \* mutation: used quantities are not checked
Usable(i, used) == used <= OpeningToday(i) + delivered[i]
SubmitUsage(i, used, role) ==
    LET opening == OpeningToday(i)
        closing == opening + delivered[i] - used
    IN /\ moves < MaxMoves
       /\ Usable(i, used)
       /\ closing # stock[i] => MayMove(role)
       /\ logs' = [logs EXCEPT ![i][day] = [opening |-> opening, purchased |-> delivered[i],
                                            used |-> used, closing |-> closing]]
       /\ stock' = [stock EXCEPT ![i] = closing]
       /\ moves' = moves + 1
       /\ UNCHANGED <<audits, delivered, day, request, requests>>

(* POST /operations/snapshots/materialize writes the missing logs of the day   *)
(* for items in stock, opening with the closing quantity of the day before.    *)
SnapshotOf(i) ==
    LET opening == IF day > 0 /\ logs[i][day - 1] # NoLog THEN logs[i][day - 1].closing
                   ELSE OpeningToday(i)
    IN [opening |-> opening, purchased |-> delivered[i], used |-> 0,
        closing |-> opening + delivered[i]]
Materialize ==
    /\ logs' = [i \in Items |->
                  IF stock[i] > 0 /\ logs[i][day] = NoLog
                  THEN [logs[i] EXCEPT ![day] = SnapshotOf(i)] ELSE logs[i]]
    /\ UNCHANGED <<stock, audits, delivered, day, moves, request, requests>>

-----------------------------------------------------------------------------
(* What happens to the stock elsewhere.                                      *)

Deliver(i, qty, role) ==
    /\ moves < MaxMoves
    /\ MayMove(role)
    /\ stock' = [stock EXCEPT ![i] = @ + qty]
    /\ delivered' = [delivered EXCEPT ![i] = @ + qty]
    /\ moves' = moves + 1
    /\ UNCHANGED <<audits, logs, day, request, requests>>

NextDay ==
    /\ day < MaxDay
    /\ day' = day + 1
    /\ delivered' = [i \in Items |-> 0]
    /\ UNCHANGED <<stock, audits, logs, moves, request, requests>>

Asks(w) ==
    \E a \in Audits :
        \/ Complete(w, a) \/ Delete(w, a)
        \/ \E counted \in [Items -> Counts \union {None}] : Replace(w, a, counted)
        \/ \E i \in Items : \/ Approve(w, a, i)
                            \/ \E qty \in Counts, atOnce \in BOOLEAN :
                                  UpsertLine(w, a, i, qty, atOnce)

Next ==
    \/ \E a \in Audits : CreateAudit(a)
    \/ \E w \in Workers : Asks(w) \/ ReadStock(w) \/ Commit(w) \/ Fail(w)
    \/ \E i \in Items, role \in Roles : \/ \E used \in Used : SubmitUsage(i, used, role)
                                        \/ \E qty \in Counts : Deliver(i, qty, role)
    \/ Materialize
    \/ NextDay

Spec == Init /\ [][Next]_vars

-----------------------------------------------------------------------------
Request ==
    [number : 1..MaxRequests, kind : {"count", "complete", "approve", "replace", "delete"},
     audit : Audits, items : SUBSET Items, counted : [Items -> Counts \union {None}],
     atOnce : BOOLEAN, copy : Audit, seen : [Items -> Nat \union {None}]]

TypeOK ==
    /\ stock \in [Items -> Nat]
    /\ audits \in [Audits -> Audit]
    /\ delivered \in [Items -> Nat]
    /\ logs \in [Items -> [0..MaxDay -> Log \union {NoLog}]]
    /\ day \in 0..MaxDay /\ moves \in 0..MaxMoves
    /\ request \in [Workers -> Request \union {None}] /\ requests \in 0..MaxRequests

(* One request at a time: a completed audit never changes and none of its     *)
(* lines waits, so that it never moves stock again: approving a line checks   *)
(* the line only.  However lines are counted again, replaced and approved.    *)
CompletedIsFinal ==
    [][\A a \in Audits : audits[a].status = "completed"
           => /\ audits'[a] = audits[a]
              /\ \A i \in Items : ~Approvable(audits[a], i)]_vars

(* "Completed stock audits cannot be modified", whatever requests overlap     *)
(* (one that overlaps a deletion, asked for while it was a draft, is deleted). *)
CompletedNotModified ==
    [][\A a \in Audits : audits[a].status = "completed" =>
         audits'[a] = audits[a] \/ audits'[a].status = "deleted"]_vars
=============================================================================
