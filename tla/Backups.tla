------------------------------ MODULE Backups ------------------------------
(* Scheduled and manual backups: a file named by the second its run started,  *)
(* a log entry, and the retention that keeps the files of the newest          *)
(* successful entries; and the exports that select purchases by day.          *)
EXTENDS FiniteSets, Integers, Sequences

CONSTANTS
    None,
    Purchases, Workers,
    Keep,               \* successful entries whose files are kept, 14 in the code
    Span,               \* days of the JSON export, 90 in the code
    MaxZip,             \* purchases a ZIP may hold, 400 in the code
    MaxRows,            \* purchases the JSON and the PDF hold, 2000 in the code
    MaxDay, MaxRuns, MaxEdits

VARIABLES
    purchases,          \* [status, day]
    files,              \* second |-> purchases in the file, "torn", or None
    logs,               \* entries [path, status], oldest first
    running,            \* what each worker's run has reached, or None
    day, second,        \* second is the stamp of files; a run may start in the same one
    runs, edits
vars == <<purchases, files, logs, running, day, second, runs, edits>>

Seconds == 0..MaxRuns
Excluded == {"draft", "cancelled", "deleted"}
Statuses == {"confirmed", "draft", "cancelled"}
InReports == {p \in Purchases : purchases[p].status \notin Excluded}

-----------------------------------------------------------------------------
Start(w) ==
    /\ running[w] = None /\ runs < MaxRuns
    /\ running' = [running EXCEPT ![w] = [path |-> second, step |-> "read", held |-> {}]]
    /\ runs' = runs + 1
    /\ UNCHANGED <<purchases, files, logs, day, second, edits>>

At(w, step) == running[w] # None /\ running[w].step = step
GoTo(w, step) == running' = [running EXCEPT ![w].step = step]

(* The scheduled payload has every purchase in reports, of any day.           *)
Read(w) ==
    /\ At(w, "read")
    /\ \/ running' = [running EXCEPT ![w].step = "write", ![w].held = InReports]
       \/ GoTo(w, "log fail")
    /\ UNCHANGED <<purchases, files, logs, day, second, runs, edits>>

(* A write empties the file first: one that fails leaves it torn.             *)
Write(w) ==
    /\ At(w, "write")
    /\ \/ /\ files' = [files EXCEPT ![running[w].path] = running[w].held]
          /\ GoTo(w, "log success")
       \/ /\ files' = [files EXCEPT ![running[w].path] = "torn"]
          /\ GoTo(w, "log fail")
    /\ UNCHANGED <<purchases, logs, day, second, runs, edits>>

Log(w) ==
    /\ \E status \in {"success", "fail"} :
           /\ At(w, IF status = "success" THEN "log success" ELSE "log fail")
           /\ logs' = Append(logs, [path |-> running[w].path, status |-> status])
    /\ GoTo(w, "retain")
    /\ UNCHANGED <<purchases, files, day, second, runs, edits>>

(* The newest successful entries, and the paths they and the older ones name. *)
Successes == {k \in DOMAIN logs : logs[k].status = "success"}
Newest == {k \in Successes : Cardinality({j \in Successes : j > k}) < Keep}
PathsOf(entries) == {logs[k].path : k \in entries}
DroppedByEntry == PathsOf(Successes \ Newest)
Dropped == PathsOf(Successes \ Newest) \ PathsOf(Newest)

Retain(w) ==
    /\ At(w, "retain")
    /\ files' = [s \in Seconds |-> IF s \in Dropped THEN None ELSE files[s]]
    /\ running' = [running EXCEPT ![w] = None]
    /\ UNCHANGED <<purchases, logs, day, second, runs, edits>>

Crash(w) ==
    /\ running[w] # None
    /\ running' = [running EXCEPT ![w] = None]
    /\ UNCHANGED <<purchases, files, logs, day, second, runs, edits>>

-----------------------------------------------------------------------------
(* The exports of a request: by calendar month, 90 days, or all, to today.    *)
From(preset, monthStart) ==
    CASE preset = "month" -> monthStart
      [] preset = "quarter" -> day - (Span - 1)
      [] OTHER -> 0
Within(p, first) == first <= purchases[p].day /\ purchases[p].day <= day
Period(first) == {p \in InReports : Within(p, first)}
Zip(preset, monthStart) ==
    LET held == Period(From(preset, monthStart))
    IN IF held = {} \/ Cardinality(held) > MaxZip THEN None ELSE held

(* The JSON and the PDF hold the newest purchases; of one day, the PDF takes  *)
(* those of the highest numbers and the JSON any: either may hold any.        *)
NewestOf(rows) ==
    IF Cardinality(rows) <= MaxRows THEN {rows}
    ELSE {held \in SUBSET rows : /\ Cardinality(held) = MaxRows
                                 /\ \A p \in held, q \in rows \ held :
                                       purchases[q].day <= purchases[p].day}
JsonExports == NewestOf(Period(day - (Span - 1)))
MonthPdfs(monthStart) == NewestOf(Period(monthStart))
ScheduledExport == InReports

(* A restore is a dry run: it counts what a whole file would add.             *)
DryRun(file) == IF file \in {None, "torn"} THEN None ELSE Cardinality(file)

-----------------------------------------------------------------------------
(* What the rest of the program and time do.                                  *)
EditPurchase(p) ==
    /\ edits < MaxEdits /\ edits' = edits + 1
    /\ \E status \in Statuses, on \in 0..MaxDay :
           purchases' = [purchases EXCEPT ![p] = [status |-> status, day |-> on]]
    /\ UNCHANGED <<files, logs, running, day, second, runs>>

NextSecond ==
    /\ second < MaxRuns /\ second' = second + 1
    /\ UNCHANGED <<purchases, files, logs, running, day, runs, edits>>
NextDay ==
    /\ day < MaxDay /\ day' = day + 1
    /\ UNCHANGED <<purchases, files, logs, running, second, runs, edits>>

Init ==
    /\ purchases = [p \in Purchases |-> [status |-> "confirmed", day |-> 0]]
    /\ files = [s \in Seconds |-> None] /\ logs = <<>>
    /\ running = [w \in Workers |-> None]
    /\ day = 0 /\ second = 0 /\ runs = 0 /\ edits = 0

Next ==
    \/ \E w \in Workers :
          Start(w) \/ Read(w) \/ Write(w) \/ Log(w) \/ Retain(w) \/ Crash(w)
    \/ \E p \in Purchases : EditPurchase(p)
    \/ NextSecond \/ NextDay

Spec == Init /\ [][Next]_vars

(* The shape of the runs, files and entries.                                  *)
TypeOK ==
    /\ \A w \in Workers : running[w] # None => running[w].path \in Seconds
    /\ \A k \in DOMAIN logs : logs[k].path \in Seconds /\ logs[k].status \in {"success", "fail"}
    /\ second \in Seconds /\ runs \in 0..MaxRuns /\ day \in 0..MaxDay

(* One run at a time: the file of each of the newest successful entries is on *)
(* disk, though runs of one second share a file, older entries are dropped,   *)
(* runs fail and stop half-way.                                               *)
KeptBackupsExist == \A k \in Newest : files[logs[k].path] # None

(* Today, what one export holds of a period the others hold too, however few  *)
(* they may hold; a PDF that was cut off may hold others of its last day.     *)
ExportsAgree ==
    \A json \in JsonExports :
        /\ json \subseteq ScheduledExport
        /\ Zip("quarter", 0) \in {None, json}
        /\ \A start \in {s \in 0..day : day - s < Span} : \A pdf \in MonthPdfs(start) :
               /\ Cardinality(Period(start)) <= MaxRows => pdf \subseteq json
               /\ Zip("month", start) \in {None, pdf}
=============================================================================
