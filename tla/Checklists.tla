----------------------------- MODULE Checklists -----------------------------
(* The daily checklist of floor staff and the tasks assigned to them.  The    *)
(* list of a business is seeded when a request finds none, replaced as a      *)
(* whole, and ticked off by each member once a day; requests overlap between  *)
(* what they read and their commit.                                           *)
EXTENDS FiniteSets, Naturals

CONSTANTS
    None,
    Users, Workers,
    Tasks, Defaults,    \* <<slot, key>> of checklist tasks, and the seeded ones
    Assignments,        \* ids of assigned tasks
    MaxDay, MaxRequests

VARIABLES
    templates,          \* rows [task, at]: at tells the rows of two requests apart
    completions,        \* rows [user, day, task]
    activity,           \* staff activity entries [user, day, task, at]
    assigned,           \* None, or [staff, status, rejected]
    serving,            \* the request each worker is at, or None
    day, requests
vars == <<templates, completions, activity, assigned, serving, day, requests>>

TasksOf(rows) == {t.task : t \in rows}
RowsOf(tasks, at) == {[task |-> t, at |-> at] : t \in tasks}

-----------------------------------------------------------------------------
(* Every request that needs the list counts its rows first.                   *)
Request(op, user, task, list) ==
    [op |-> op, user |-> user, task |-> task, list |-> list, day |-> day,
     at |-> requests, step |-> "count", seen |-> {}]

Ask(w, request) ==
    /\ serving[w] = None /\ requests < MaxRequests
    /\ serving' = [serving EXCEPT ![w] = request]
    /\ requests' = requests + 1
    /\ UNCHANGED <<templates, completions, activity, assigned, day>>

AskToday(w, u) == Ask(w, Request("today", u, None, {}))
AskComplete(w, u, task) == Ask(w, Request("complete", u, task, {}))
AskReplace(w, u, list) ==
    Ask(w, [Request("replace", u, None, list) EXCEPT !.step = "delete"])

GoTo(w, step, seen) == serving' = [serving EXCEPT ![w].step = step, ![w].seen = seen]
Done(w) == serving' = [serving EXCEPT ![w] = None]
At(w, step) == serving[w] # None /\ serving[w].step = step

Count(w) ==
    /\ At(w, "count")
    /\ GoTo(w, IF templates = {} THEN "seed" ELSE "read", {})
    /\ UNCHANGED <<templates, completions, activity, assigned, day, requests>>

(* The rows are inserted and committed at once; a seed that lost the race to  *)
(* another fails on the unique constraint, and its request with it.           *)
Seed(w) ==
    /\ At(w, "seed")
    /\ IF TasksOf(templates) \intersect Defaults # {}
       THEN Done(w) /\ UNCHANGED templates
       ELSE /\ templates' = templates \union RowsOf(Defaults, serving[w].at)
            /\ GoTo(w, "read", {})
    /\ UNCHANGED <<completions, activity, assigned, day, requests>>

(* A completion must be of a task of the list, and not be there already.      *)
CompletionOf(r) == [user |-> r.user, day |-> r.day, task |-> r.task]
Read(w) ==
    LET r == serving[w] IN
    /\ At(w, "read")
    /\ IF r.op = "complete" /\ r.task \in TasksOf(templates) /\ CompletionOf(r) \notin completions
       THEN GoTo(w, "save", {}) ELSE Done(w)
    /\ UNCHANGED <<templates, completions, activity, assigned, day, requests>>

(* The row and its activity entry commit together, or a row that came first   *)
(* refuses both.                                                              *)
RefusedNever(r) == FALSE
Refused(r) == CompletionOf(r) \in completions
Save(w) ==
    LET r == serving[w] IN
    /\ At(w, "save")
    /\ IF Refused(r) THEN UNCHANGED <<completions, activity>>
       ELSE /\ completions' = completions \union {CompletionOf(r)}
            /\ activity' = activity \union
                   {[user |-> r.user, day |-> r.day, task |-> r.task, at |-> r.at]}
    /\ Done(w)
    /\ UNCHANGED <<templates, assigned, day, requests>>

(* A replacement deletes the rows it sees and inserts its own; rows another   *)
(* replacement commits in between are not seen, and stay or collide.          *)
DeleteRows(w) ==
    /\ At(w, "delete")
    /\ GoTo(w, "insert", templates)
    /\ UNCHANGED <<templates, completions, activity, assigned, day, requests>>

InsertRows(w) ==
    LET left == templates \ serving[w].seen IN
    /\ At(w, "insert")
    /\ templates' = IF TasksOf(left) \intersect serving[w].list # {} THEN templates
                    ELSE left \union RowsOf(serving[w].list, serving[w].at)
    /\ Done(w)
    /\ UNCHANGED <<completions, activity, assigned, day, requests>>

-----------------------------------------------------------------------------
(* Assigned tasks: the member a task is for accepts it and completes or       *)
(* rejects it, at any time and as often as wanted.                            *)
Handled(t, row) ==
    /\ requests < MaxRequests
    /\ requests' = requests + 1
    /\ assigned' = [assigned EXCEPT ![t] = row]
    /\ UNCHANGED <<templates, completions, activity, serving, day>>

CreateTask(t, u) ==
    assigned[t] = None /\ Handled(t, [staff |-> u, status |-> "assigned", rejected |-> FALSE])

AcceptTask(t, u) ==
    /\ assigned[t] # None /\ assigned[t].staff = u
    /\ Handled(t, [assigned[t] EXCEPT !.status = "accepted"])

CompleteTask(t, u, rejected) ==
    /\ assigned[t] # None /\ assigned[t].staff = u
    /\ Handled(t, [assigned[t] EXCEPT !.status = IF rejected THEN "rejected" ELSE "completed",
                                      !.rejected = rejected])

(* What the owner's summary counts of a member's tasks; the flag comes first. *)
TasksOfStaff(u) == {t \in Assignments : assigned[t] # None /\ assigned[t].staff = u}
PerformanceOf(u) ==
    LET rejected == {t \in TasksOfStaff(u) : assigned[t].rejected \/ assigned[t].status = "rejected"}
        completed == {t \in TasksOfStaff(u) \ rejected : assigned[t].status = "completed"}
        pending == {t \in TasksOfStaff(u) \ rejected : assigned[t].status \in {"assigned", "accepted"}}
    IN [total |-> Cardinality(TasksOfStaff(u)), rejected |-> Cardinality(rejected),
        completed |-> Cardinality(completed), pending |-> Cardinality(pending)]

(* A member's own list of today, and the business-wide summary: the tasks     *)
(* somebody ticked off today, those since removed from the list included.     *)
Ticked(u) == {t \in TasksOf(templates) : [user |-> u, day |-> day, task |-> t] \in completions}
SummaryDone == {c.task : c \in {x \in completions : x.day = day}}

-----------------------------------------------------------------------------
NextDay == /\ day < MaxDay /\ day' = day + 1
           /\ UNCHANGED <<templates, completions, activity, assigned, serving, requests>>

Init ==
    /\ templates = {} /\ completions = {} /\ activity = {}
    /\ assigned = [t \in Assignments |-> None]
    /\ serving = [w \in Workers |-> None]
    /\ day = 0 /\ requests = 0

Next ==
    \/ \E w \in Workers :
          \/ \E u \in Users :
                \/ AskToday(w, u)
                \/ \E task \in Tasks : AskComplete(w, u, task)
                \/ \E list \in SUBSET Tasks : AskReplace(w, u, list)
          \/ Count(w) \/ Seed(w) \/ Read(w) \/ Save(w) \/ DeleteRows(w) \/ InsertRows(w)
    \/ \E t \in Assignments, u \in Users :
          \/ CreateTask(t, u) \/ AcceptTask(t, u)
          \/ \E rejected \in BOOLEAN : CompleteTask(t, u, rejected)
    \/ NextDay

Spec == Init /\ [][Next]_vars

(* The shape of the rows; the list has no task twice.                         *)
TypeOK ==
    /\ TasksOf(templates) \subseteq Tasks
    /\ \A x, y \in templates : x.task = y.task => x = y
    /\ \A c \in completions : c.user \in Users /\ c.task \in Tasks /\ c.day \in 0..MaxDay
    /\ \A t \in Assignments : assigned[t] # None => assigned[t].staff \in Users
    /\ day \in 0..MaxDay /\ requests \in 0..MaxRequests

(* However often and by however many devices at once a member ticks a task,   *)
(* it shows once in the activity of that day; and whatever happens to the     *)
(* list meanwhile, the summary never misses what a member's own list shows.   *)
(* The owner's summary counts every task of a member in one column.           *)
TickedOnce ==
    /\ \A c \in completions :
           Cardinality({e \in activity : e.user = c.user /\ e.day = c.day /\ e.task = c.task}) = 1
    /\ \A u \in Users :
           LET sums == PerformanceOf(u) IN
           /\ Ticked(u) \subseteq SummaryDone
           /\ sums.rejected + sums.completed + sums.pending = sums.total
=============================================================================
