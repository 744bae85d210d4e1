------------------------------ MODULE Notices ------------------------------
(* In-app notices and damage reports: the jobs and handlers that emit         *)
(* notices, one row per target and transaction; what the members of the       *)
(* business do with theirs; and the damage reports whose filing and approval  *)
(* emit them.  Transactions overlap; a row whose dedupe key another open      *)
(* transaction has written waits for that transaction to end.                 *)
EXTENDS FiniteSets, Naturals

CONSTANTS
    None,
    Users, Boss,        \* the members of the business, and one who stays its owner
    Workers,            \* jobs and requests that can be served at once
    Concerns,           \* <<kind, about>>: what a scan may find
    Reports,            \* ids of damage reports
    ClientKeys,         \* dedupe keys devices send with their own failures
    MaxDay, MaxRequests

VARIABLES
    roles,              \* the role of each member
    concerns,           \* what holds now
    reports,            \* None, or [status, by]
    rows,               \* [user, notice, copy, read]; copy tells equal rows apart
    job,                \* what each worker has open, or None
    day, requests,
    told, meant,        \* history: whom each notice reached, and whom it was for
    interrupted         \* history: reports whose approval was cut off
vars == <<roles, concerns, reports, rows, job, day, requests, told, meant, interrupted>>
book == <<roles, concerns, reports, rows, day, told, meant, interrupted>>

OwnerRoles == {"owner", "manager"}
Roles == OwnerRoles \union {"staff"}
Decisions == {"approved", "returned", "rejected"}

(* A notice is its dedupe key: what it says follows from it.                  *)
Notice(kind, about, on) == [kind |-> kind, about |-> about, day |-> on]
ForAll(kind) == kind \in {"low_stock", "stock_variance", "delivery"}
ForOne(kind) == kind \in {"damage_acknowledged", "client"}

(* target_roles are stored with the row, and filter it wherever it is shown;  *)
(* owner_only picks the targets and is forgotten.                             *)
StoredRoles(kind) ==
    CASE kind = "damage_report" -> OwnerRoles
      [] kind = "delivery" -> Roles
      [] OTHER -> {}

Owners == {u \in Users : roles[u] \in OwnerRoles}
Targets(n, by) ==
    CASE ForAll(n.kind) -> Users
      [] ForOne(n.kind) -> {by}
      [] OTHER -> Owners

(* The unique index of the table is over the business and the dedupe key.     *)
IndexTakenNever(u, n, held) == FALSE
IndexTaken(u, n, held) == \E pair \in held : pair[2] = n

Committed == {<<row.user, row.notice>> : row \in rows}
Copies(pair) == Cardinality({row \in rows : <<row.user, row.notice>> = pair})
OthersMine(w) == UNION {job[v].mine : v \in {x \in Workers \ {w} : job[x] # None}}

-----------------------------------------------------------------------------
(* A job: the notices it still has to emit, the one it is emitting with the   *)
(* targets left, the rows it has inserted, whom they were for, and the step   *)
(* that follows its commit.                                                   *)
Job(by, todo, then) ==
    [by |-> by, todo |-> todo, now |-> None, left |-> {}, mine |-> {}, goal |-> {},
     on |-> day, then |-> then]
Then(step, r, status, was) == [step |-> step, report |-> r, status |-> status, was |-> was]
End == Then("end", None, None, None)

Start(w, j) ==
    /\ job[w] = None /\ requests < MaxRequests
    /\ job' = [job EXCEPT ![w] = j]
    /\ requests' = requests + 1

Found(kinds, on) == {Notice(c[1], c[2], on) : c \in {x \in concerns : x[1] \in kinds}}

(* The hourly and daily jobs of every server process.                         *)
ScanLowStock(w) ==
    /\ Found({"low_stock"}, day) # {}
    /\ Start(w, Job(None, Found({"low_stock"}, day), Then("mismatches", None, None, None)))
    /\ UNCHANGED book
ScanPurchases(w) ==
    /\ \E kind \in {"delivery_idle", "payment_due_soon"} :
           /\ Found({kind}, day) # {}
           /\ Start(w, Job(None, Found({kind}, day), End))
    /\ UNCHANGED book
RemindEvening(w) ==
    /\ Start(w, Job(None, {Notice("physical_count_reminder", None, day)}, End))
    /\ UNCHANGED book

(* A member's edit of stock: everyone is told when it is far from the last    *)
(* delivery, the owners when floor staff made it.                             *)
EditStock(w, u) ==
    /\ \E c \in {x \in Concerns : x[1] = "low_stock"}, far \in BOOLEAN :
           Start(w, Job(u, {n \in {Notice("stock_variance", c[2], day)} : far}
                           \union {n \in {Notice("staff_system_stock_edit", <<c[2], u>>, day)} :
                                       roles[u] \notin OwnerRoles}, End))
    /\ UNCHANGED book

(* A step of a delivery, told in a transaction after its own.                 *)
TellDelivery(w) ==
    /\ \E c \in {x \in Concerns : x[1] = "delivery_idle"} :
           Start(w, Job(None, {Notice("delivery", c[2], 0)}, End))
    /\ UNCHANGED book

(* A failure a device reports, for its user only.                             *)
ClientEvent(w, u, key) ==
    /\ Start(w, Job(u, {Notice("client", key, 0)}, End))
    /\ UNCHANGED book

(* A damage report is added with its notice, in one transaction.              *)
FileReport(w, u, r) ==
    /\ reports[r] = None
    /\ \A v \in Workers : job[v] # None => job[v].then.report # r
    /\ \E emits \in BOOLEAN :
           Start(w, Job(u, {n \in {Notice("damage_report", r, 0)} : emits},
                        Then("file", r, "pending", None)))
    /\ UNCHANGED book

(* An owner's decision reads the report, writes and commits, and only then    *)
(* acknowledges an approval, in a second transaction.                         *)
Review(w, u, r, status) ==
    /\ roles[u] \in OwnerRoles /\ reports[r] # None
    /\ Start(w, Job(u, {}, Then("save", r, status, reports[r].status)))
    /\ UNCHANGED book

AcknowledgesFirst(then) == then.status = "approved" /\ then.was = "pending"
Acknowledges(then) == then.status = "approved" /\ then.was # "approved"

Save(w) ==
    LET then == job[w].then IN
    /\ job[w] # None /\ then.step = "save"
    /\ reports' = IF then.status = then.was THEN reports
                  ELSE [reports EXCEPT ![then.report].status = then.status]
    /\ job' = [job EXCEPT ![w] = IF Acknowledges(then)
                                 THEN [@ EXCEPT !.then.step = "acknowledge"] ELSE None]
    /\ UNCHANGED <<roles, concerns, rows, day, requests, told, meant, interrupted>>

(* The report is refreshed first: the notice is of the status it has by then. *)
Acknowledge(w) ==
    LET r == job[w].then.report IN
    /\ job[w] # None /\ job[w].then.step = "acknowledge"
    /\ job' = [job EXCEPT ![w] =
           [@ EXCEPT !.by = reports[r].by, !.then.step = "tell",
                     !.todo = {Notice("damage_acknowledged", <<r, reports[r].status>>, 0)}]]
    /\ UNCHANGED <<book, requests>>

-----------------------------------------------------------------------------
(* emit_notification: who has the notice already is looked up once, then each *)
(* other target gets a row in a savepoint of its own, or is skipped.          *)
LookUp(w) ==
    /\ job[w] # None /\ job[w].left = {} /\ job[w].todo # {}
    /\ \E n \in job[w].todo :
           LET targets == Targets(n, job[w].by)
               pairs == {<<u, n>> : u \in targets}
               left == {u \in targets : <<u, n>> \notin Committed \union job[w].mine}
           IN job' = [job EXCEPT ![w] =
                  [job[w] EXCEPT !.todo = @ \ {n}, !.now = IF left = {} THEN None ELSE n,
                            !.left = left, !.goal = @ \union pairs]]
    /\ UNCHANGED <<book, requests>>

Insert(w) ==
    /\ job[w] # None
    /\ \E u \in job[w].left :
           LET n == job[w].now
               taken == IndexTaken(u, n, Committed \union job[w].mine)
               left == job[w].left \ {u}
           IN /\ ~ IndexTaken(u, n, OthersMine(w))
              /\ job' = [job EXCEPT ![w] =
                     [job[w] EXCEPT !.mine = IF taken THEN @ ELSE @ \union {<<u, n>>},
                               !.left = left, !.now = IF left = {} THEN None ELSE n]]
    /\ UNCHANGED <<book, requests>>

(* The low-stock scan goes on with the mismatches and delays of the items it  *)
(* finds then, in a transaction of its own.                                   *)
AfterCommit(j) ==
    LET more == Found({"stock_mismatch", "supplier_delayed"}, j.on) IN
    IF j.then.step = "mismatches" /\ more # {}
    THEN [Job(None, more, End) EXCEPT !.on = j.on] ELSE None

Commit(w) ==
    LET j == job[w] IN
    /\ j # None /\ j.todo = {} /\ j.left = {}
    /\ j.then.step \notin {"save", "acknowledge"}
    /\ rows' = rows \union {[user |-> p[1], notice |-> p[2], copy |-> Copies(p), read |-> FALSE] :
                             p \in j.mine}
    /\ reports' = IF j.then.step = "file"
                  THEN [reports EXCEPT ![j.then.report] = [status |-> "pending", by |-> j.by]]
                  ELSE reports
    /\ told' = told \union j.mine
    /\ meant' = meant \union j.goal
    /\ job' = [job EXCEPT ![w] = AfterCommit(j)]
    /\ UNCHANGED <<roles, concerns, day, requests, interrupted>>

(* The process stops, or the database ends the transaction.                   *)
Fail(w) ==
    LET j == job[w] IN
    /\ j # None
    /\ job' = [job EXCEPT ![w] = None]
    /\ interrupted' = interrupted \union
           {r \in Reports : j.then.step \in {"acknowledge", "tell"} /\ r = j.then.report}
    /\ UNCHANGED <<roles, concerns, reports, rows, day, requests, told, meant>>

-----------------------------------------------------------------------------
(* What members do with their notices, whether or not their role sees them.   *)
Request == requests < MaxRequests /\ requests' = requests + 1
NoticeKinds == {row.notice.kind : row \in rows}
Chosen(u, kinds) == {row \in rows : row.user = u /\ row.notice.kind \in kinds}
Asked == {NoticeKinds} \union {{k} : k \in NoticeKinds}

MarkAllRead(u) ==
    /\ Request
    /\ \E kinds \in Asked :
           /\ \E row \in Chosen(u, kinds) : ~ row.read
           /\ rows' = (rows \ Chosen(u, kinds))
                      \union {[row EXCEPT !.read = TRUE] : row \in Chosen(u, kinds)}
    /\ UNCHANGED <<roles, concerns, reports, job, day, told, meant, interrupted>>

ClearAll(u) ==
    /\ Request
    /\ \E kinds \in Asked :
           /\ Chosen(u, kinds) # {}
           /\ rows' = rows \ Chosen(u, kinds)
    /\ UNCHANGED <<roles, concerns, reports, job, day, told, meant, interrupted>>

PatchNotice(u) ==
    /\ Request
    /\ \E row \in Chosen(u, NoticeKinds) :
           rows' = (rows \ {row}) \union {[row EXCEPT !.read = ~ row.read]}
    /\ UNCHANGED <<roles, concerns, reports, job, day, told, meant, interrupted>>

(* The list filters by role in SQL and again in Python; the badge and the     *)
(* summary, in SQL only, where the role is looked for in the stored text.     *)
VisibleToRole(n, role) == StoredRoles(n.kind) # {} => role \in StoredRoles(n.kind)
RoleInPayload(n, role) == \/ StoredRoles(n.kind) = {}
                          \/ role \in StoredRoles(n.kind) \union {n.about}
Listed(u) == {row \in Chosen(u, NoticeKinds) : /\ RoleInPayload(row.notice, roles[u])
                                         /\ VisibleToRole(row.notice, roles[u])}
UnreadCount(u) ==
    Cardinality({row \in Chosen(u, NoticeKinds) : ~ row.read /\ RoleInPayload(row.notice, roles[u])})

-----------------------------------------------------------------------------
(* What the rest of the program changes: what a scan would find, and roles.   *)
ConcernsChange ==
    /\ \E c \in Concerns : concerns' = IF c \in concerns THEN concerns \ {c}
                                       ELSE concerns \union {c}
    /\ UNCHANGED <<roles, reports, rows, job, day, requests, told, meant, interrupted>>

SetRole(u) ==
    /\ Request /\ u # Boss
    /\ \E role \in Roles \ {roles[u], "owner"} : roles' = [roles EXCEPT ![u] = role]
    /\ UNCHANGED <<concerns, reports, rows, job, day, told, meant, interrupted>>

NextDay ==
    /\ day < MaxDay /\ day' = day + 1
    /\ UNCHANGED <<roles, concerns, reports, rows, job, requests, told, meant, interrupted>>

Init ==
    /\ roles = [u \in Users |-> IF u = Boss THEN "owner" ELSE "manager"]
    /\ concerns \in SUBSET Concerns
    /\ reports = [r \in Reports |-> None]
    /\ rows = {} /\ job = [w \in Workers |-> None]
    /\ day = 0 /\ requests = 0
    /\ told = {} /\ meant = {} /\ interrupted = {}

Next ==
    \/ \E w \in Workers :
          \/ ScanLowStock(w) \/ ScanPurchases(w) \/ RemindEvening(w) \/ TellDelivery(w)
          \/ \E u \in Users :
                \/ EditStock(w, u)
                \/ \E key \in ClientKeys : ClientEvent(w, u, key)
                \/ \E r \in Reports : \/ FileReport(w, u, r)
                                      \/ \E s \in Decisions : Review(w, u, r, s)
          \/ Save(w) \/ Acknowledge(w) \/ LookUp(w) \/ Insert(w) \/ Commit(w) \/ Fail(w)
    \/ \E u \in Users : MarkAllRead(u) \/ ClearAll(u) \/ PatchNotice(u) \/ SetRole(u)
    \/ ConcernsChange \/ NextDay

Spec == Init /\ [][Next]_vars

-----------------------------------------------------------------------------
(* The shape of the rows and reports; a notice is of a person or a day.       *)
TypeOK ==
    /\ roles \in [Users -> Roles] /\ roles[Boss] = "owner"
    /\ concerns \subseteq Concerns
    /\ \A r \in Reports : reports[r] # None =>
           reports[r].status \in Decisions \union {"pending"} /\ reports[r].by \in Users
    /\ \A row \in rows : row.user \in Users /\ row.read \in BOOLEAN
    /\ \A w \in Workers : job[w] # None => job[w].left \subseteq Users
    /\ day \in 0..MaxDay /\ requests \in 0..MaxRequests

(* Nobody has the same notice twice, however many jobs and requests look for  *)
(* it, find nothing, and emit it at the same time.                            *)
ToldOnce ==
    \A x, y \in rows : x.user = y.user /\ x.notice = y.notice => x = y

(* Once nobody is deciding on it, an approved report has been acknowledged to *)
(* the member who filed it, in whatever order decisions overlapped, unless    *)
(* the process stopped between the decision and its notice.                   *)
ApprovedIsTold ==
    \A r \in Reports :
        /\ reports[r] # None /\ reports[r].status = "approved"
        /\ \A w \in Workers : job[w] # None => job[w].then.report # r
        /\ r \notin interrupted
        => <<reports[r].by, Notice("damage_acknowledged", <<r, "approved">>, 0)>> \in told

(* The badge counts the unread notices of the list, whatever roles become.    *)
BadgeCountsTheList ==
    \A u \in Users : UnreadCount(u) = Cardinality({row \in Listed(u) : ~ row.read})

(* "Insert notification rows for each target user": whomever a committed      *)
(* transaction addressed has been told, by it or before.                      *)
EveryTargetIsTold == meant \subseteq told
=============================================================================
