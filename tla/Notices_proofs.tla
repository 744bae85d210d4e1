--------------------------- MODULE Notices_proofs ---------------------------
(***************************************************************************)
(* Theorems about Notices, for any members, jobs served at once, findings  *)
(* of the scans and damage reports.                                        *)
(***************************************************************************)
EXTENDS Notices, TLAPS

Statuses == Decisions \union {"pending"}
Steps == {"end", "mismatches", "file", "save", "acknowledge", "tell"}
Things == {c[2] : c \in Concerns}
Days == 0..MaxDay

(* The notices there can be, and what each kind is about.                    *)
ScanKinds == {"low_stock", "stock_mismatch", "supplier_delayed", "delivery_idle",
              "payment_due_soon"}
ThingKinds == ScanKinds \union {"stock_variance", "delivery"}
AllNotices ==
    [kind : ThingKinds, about : Things, day : Days]
    \union [kind : {"physical_count_reminder"}, about : {None}, day : Days]
    \union [kind : {"staff_system_stock_edit"}, about : Things \X Users, day : Days]
    \union [kind : {"client"}, about : ClientKeys, day : Days]
    \union [kind : {"damage_report"}, about : Reports, day : Days]
    \union [kind : {"damage_acknowledged"}, about : Reports \X Statuses, day : Days]

ReportRow == [status : Statuses, by : Users]
ThenRow == [step : Steps, report : Reports \union {None},
            status : Statuses \union {None}, was : Statuses \union {None}]
JobRow == [by : Users \union {None}, todo : SUBSET AllNotices, now : AllNotices \union {None},
           left : SUBSET Users, mine : SUBSET (Users \X AllNotices),
           goal : SUBSET (Users \X AllNotices), on : Days, then : ThenRow]
IsRow(row) ==
    /\ row = [user |-> row.user, notice |-> row.notice, copy |-> row.copy, read |-> row.read]
    /\ row.user \in Users /\ row.notice \in AllNotices /\ row.read \in BOOLEAN

(* What the constants must be; None is no user, report or row.               *)
Sensible ==
    /\ Boss \in Users /\ MaxDay \in Nat /\ MaxRequests \in Nat
    /\ None \notin Users /\ None \notin Reports /\ None \notin AllNotices
    /\ None \notin ReportRow /\ None \notin JobRow

Open(w) == job[w] # None

(* Types; who emits a notice for one member, or files a report, is a member. *)
ShapeInv ==
    /\ roles \in [Users -> Roles] /\ roles[Boss] = "owner"
    /\ concerns \subseteq Concerns
    /\ reports \in [Reports -> ReportRow \union {None}]
    /\ \A row \in rows : IsRow(row)
    /\ job \in [Workers -> JobRow \union {None}]
    /\ day \in Days /\ requests \in 0..MaxRequests
JobInv ==
    \A w \in Workers : Open(w) =>
        /\ \A n \in job[w].todo : ForOne(n.kind) => job[w].by \in Users
        /\ job[w].then.step = "file" => job[w].by \in Users
        /\ job[w].left # {} => job[w].now # None

(* A decision is on a report that is there; one that is filed is not there,  *)
(* and nobody else is at it.                                                 *)
DecideInv ==
    \A w \in Workers : Open(w) =>
        /\ job[w].then.step \in {"save", "acknowledge", "tell"} =>
              job[w].then.report \in Reports /\ reports[job[w].then.report] # None
        /\ job[w].then.step = "save" => job[w].then.status \in Decisions
        /\ job[w].then.step = "file" =>
              /\ job[w].then.report \in Reports /\ reports[job[w].then.report] = None
              /\ \A v \in Workers \ {w} : Open(v) => job[v].then.report # job[w].then.report
TypeInv == ShapeInv /\ JobInv /\ DecideInv

(* A notice is held once, by a row or by one open transaction.               *)
OnceInv ==
    /\ \A x, y \in rows : x.notice = y.notice => x = y
    /\ \A w \in Workers : Open(w) => \A p \in job[w].mine :
          /\ \A row \in rows : row.notice # p[2]
          /\ \A q \in job[w].mine : q[2] = p[2] => q = p
          /\ \A v \in Workers \ {w} : Open(v) => \A q \in job[v].mine : q[2] # p[2]

(* An acknowledgement is addressed to who filed the report, and to nobody    *)
(* else.                                                                     *)
IsAck(n) == n.kind = "damage_acknowledged"
FiledBy(u, n) == reports[n.about[1]] # None /\ u = reports[n.about[1]].by
AckJob(j) ==
    /\ \A p \in j.mine : IsAck(p[2]) => FiledBy(p[1], p[2])
    /\ \A n \in j.todo : IsAck(n) => FiledBy(j.by, n)
    /\ \A u \in j.left : IsAck(j.now) => FiledBy(u, j.now)
AckInv ==
    /\ Committed \subseteq told
    /\ \A row \in rows : IsAck(row.notice) => FiledBy(row.user, row.notice)
    /\ \A w \in Workers : Open(w) => AckJob(job[w])

(* Whoever approved a report is about to tell it, or it is told.             *)
Approval(r) == Notice("damage_acknowledged", <<r, "approved">>, 0)
Telling(w, r) ==
    /\ Open(w) /\ job[w].then.report = r
    /\ \/ job[w].then.step = "acknowledge"
       \/ /\ job[w].then.step = "tell"
          /\ \/ Approval(r) \in job[w].todo
             \/ job[w].now = Approval(r) /\ reports[r].by \in job[w].left
             \/ <<reports[r].by, Approval(r)>> \in job[w].mine
ToldInv ==
    \A r \in Reports :
        reports[r] # None /\ reports[r].status = "approved" /\ r \notin interrupted =>
            \/ <<reports[r].by, Approval(r)>> \in told
            \/ \E w \in Workers : Telling(w, r)

-----------------------------------------------------------------------------
(* The jobs that start.                                                      *)

(* A job that starts holds nothing, acknowledges nothing, and decides on a    *)
(* report that is there or files one that is not.                            *)
Starting == {"end", "mismatches", "file", "save"}
Fresh(j) ==
    /\ j \in JobRow /\ j.left = {} /\ j.mine = {} /\ j.then.step \in Starting
    /\ \A n \in j.todo : ~ IsAck(n) /\ (ForOne(n.kind) => j.by \in Users)
    /\ j.then.step = "save" => /\ j.then.report \in Reports /\ reports[j.then.report] # None
                               /\ j.then.status \in Decisions
    /\ j.then.step = "file" =>
          /\ j.by \in Users /\ j.then.report \in Reports /\ reports[j.then.report] = None
          /\ \A v \in Workers : Open(v) => job[v].then.report # j.then.report
    /\ j.then.step \notin {"save", "file"} => j.then.report = None

LEMMA NoticeTypes ==
    ASSUME NEW on \in Days
    PROVE  /\ \A kind \in ThingKinds, t \in Things : Notice(kind, t, on) \in AllNotices
           /\ Notice("physical_count_reminder", None, on) \in AllNotices
           /\ \A t \in Things, u \in Users :
                 Notice("staff_system_stock_edit", <<t, u>>, on) \in AllNotices
           /\ \A key \in ClientKeys : Notice("client", key, on) \in AllNotices
           /\ \A r \in Reports : Notice("damage_report", r, on) \in AllNotices
           /\ \A r \in Reports, s \in Statuses :
                 Notice("damage_acknowledged", <<r, s>>, on) \in AllNotices
BY DEF Notice, AllNotices

LEMMA FoundType ==
    ASSUME ShapeInv, NEW kinds \in SUBSET ScanKinds, NEW on \in Days
    PROVE  /\ Found(kinds, on) \subseteq AllNotices
           /\ \A n \in Found(kinds, on) : n.kind \in ScanKinds
<1> SUFFICES ASSUME NEW n \in Found(kinds, on) PROVE n \in AllNotices /\ n.kind \in ScanKinds
  OBVIOUS
<1>1. PICK c \in concerns : c[1] \in kinds /\ n = Notice(c[1], c[2], on)
  BY DEF Found
<1>2. c[2] \in Things /\ c[1] \in ThingKinds
  BY <1>1 DEF ShapeInv, Things, ThingKinds
<1> QED BY <1>1, <1>2, NoticeTypes DEF Notice

LEMMA ThenIs ==
    ASSUME NEW step \in Steps, NEW r \in Reports \union {None},
           NEW status \in Statuses \union {None}, NEW was \in Statuses \union {None}
    PROVE  /\ Then(step, r, status, was) \in ThenRow
           /\ Then(step, r, status, was).step = step /\ Then(step, r, status, was).report = r
           /\ Then(step, r, status, was).status = status
BY DEF Then, ThenRow

(* A job of a scan or an edit is fresh when it acknowledges nothing. *)
LEMMA PlainJob ==
    ASSUME Sensible, ShapeInv, NEW by \in Users \union {None}, NEW todo \in SUBSET AllNotices,
           NEW step \in {"end", "mismatches"},
           \A n \in todo : ~ IsAck(n) /\ (ForOne(n.kind) => by \in Users)
    PROVE  Fresh(Job(by, todo, Then(step, None, None, None)))
<1> PICK then : then = Then(step, None, None, None)
  OBVIOUS
<1>1. then \in ThenRow /\ then.step = step /\ then.report = None
  BY ThenIs DEF Steps
<1> PICK j : j = Job(by, todo, then)
  OBVIOUS
<1>2. /\ j \in JobRow /\ j.by = by /\ j.todo = todo /\ j.then = then
      /\ j.left = {} /\ j.mine = {}
  BY <1>1 DEF Job, JobRow, ShapeInv
<1> QED BY <1>1, <1>2 DEF Fresh, Starting

StartOf(w) ==
    \/ ScanLowStock(w) \/ ScanPurchases(w) \/ RemindEvening(w) \/ TellDelivery(w)
    \/ \E u \in Users :
          \/ EditStock(w, u)
          \/ \E key \in ClientKeys : ClientEvent(w, u, key)
          \/ \E r \in Reports : \/ FileReport(w, u, r)
                                \/ \E s \in Decisions : Review(w, u, r, s)

LEMMA StartsFresh ==
    ASSUME Sensible, ShapeInv, NEW w \in Workers, StartOf(w)
    PROVE  (\E j : Fresh(j) /\ Start(w, j)) /\ UNCHANGED book
<1>1. CASE ScanLowStock(w)
  <2> PICK todo : todo = Found({"low_stock"}, day)
    OBVIOUS
  <2>1. /\ Start(w, Job(None, todo, Then("mismatches", None, None, None)))
        /\ UNCHANGED book
    BY <1>1 DEF ScanLowStock
  <2>2. todo \in SUBSET AllNotices /\ \A n \in todo : ~ IsAck(n) /\ ~ ForOne(n.kind)
    BY FoundType DEF ShapeInv, ScanKinds, IsAck, ForOne
  <2> QED BY <2>1, <2>2, PlainJob
<1>2. CASE ScanPurchases(w)
  <2> PICK kind \in {"delivery_idle", "payment_due_soon"} :
          Start(w, Job(None, Found({kind}, day), End))
    BY <1>2 DEF ScanPurchases
  <2> PICK todo : todo = Found({kind}, day)
    OBVIOUS
  <2>1. Start(w, Job(None, todo, Then("end", None, None, None))) /\ UNCHANGED book
    BY <1>2 DEF ScanPurchases, End
  <2>2. todo \in SUBSET AllNotices /\ \A n \in todo : ~ IsAck(n) /\ ~ ForOne(n.kind)
    BY FoundType DEF ShapeInv, ScanKinds, IsAck, ForOne
  <2> QED BY <2>1, <2>2, PlainJob
<1>3. CASE RemindEvening(w)
  <2> PICK todo : todo = {Notice("physical_count_reminder", None, day)}
    OBVIOUS
  <2>1. Start(w, Job(None, todo, Then("end", None, None, None))) /\ UNCHANGED book
    BY <1>3 DEF RemindEvening, End
  <2>2. todo \in SUBSET AllNotices
    BY NoticeTypes DEF ShapeInv
  <2>3. \A n \in todo : ~ IsAck(n) /\ ~ ForOne(n.kind)
    BY DEF Notice, IsAck, ForOne
  <2> QED BY <2>1, <2>2, <2>3, PlainJob
<1>4. CASE TellDelivery(w)
  <2> PICK c \in Concerns : Start(w, Job(None, {Notice("delivery", c[2], 0)}, End))
    BY <1>4 DEF TellDelivery
  <2> PICK todo : todo = {Notice("delivery", c[2], 0)}
    OBVIOUS
  <2>1. Start(w, Job(None, todo, Then("end", None, None, None))) /\ UNCHANGED book
    BY <1>4 DEF TellDelivery, End
  <2>2. c[2] \in Things /\ 0 \in Days /\ "delivery" \in ThingKinds
    BY DEF Things, Days, Sensible, ThingKinds
  <2>3. todo \in SUBSET AllNotices
    BY <2>2, NoticeTypes
  <2>4. \A n \in todo : ~ IsAck(n) /\ ~ ForOne(n.kind)
    BY DEF Notice, IsAck, ForOne
  <2> QED BY <2>1, <2>3, <2>4, PlainJob
<1>5. ASSUME NEW u \in Users, EditStock(w, u)
      PROVE  (\E j : Fresh(j) /\ Start(w, j)) /\ UNCHANGED book
  <2> PICK c \in Concerns, far \in BOOLEAN :
          Start(w, Job(u, {n \in {Notice("stock_variance", c[2], day)} : far}
                           \union {n \in {Notice("staff_system_stock_edit", <<c[2], u>>, day)} :
                                       roles[u] \notin OwnerRoles}, End))
    BY <1>5 DEF EditStock
  <2> PICK todo : todo = {n \in {Notice("stock_variance", c[2], day)} : far}
                           \union {n \in {Notice("staff_system_stock_edit", <<c[2], u>>, day)} :
                                       roles[u] \notin OwnerRoles}
    OBVIOUS
  <2>1. Start(w, Job(u, todo, Then("end", None, None, None))) /\ UNCHANGED book
    BY <1>5 DEF EditStock, End
  <2>2. c[2] \in Things /\ "stock_variance" \in ThingKinds
    BY DEF Things, ThingKinds
  <2>3. todo \in SUBSET AllNotices
    BY <2>2, NoticeTypes DEF ShapeInv
  <2>4. \A n \in todo : ~ IsAck(n)
    BY DEF Notice, IsAck
  <2> QED BY <2>1, <2>3, <2>4, PlainJob
<1>6. ASSUME NEW u \in Users, NEW key \in ClientKeys, ClientEvent(w, u, key)
      PROVE  (\E j : Fresh(j) /\ Start(w, j)) /\ UNCHANGED book
  <2> PICK todo : todo = {Notice("client", key, 0)}
    OBVIOUS
  <2>1. Start(w, Job(u, todo, Then("end", None, None, None))) /\ UNCHANGED book
    BY <1>6 DEF ClientEvent, End
  <2>2. 0 \in Days
    BY DEF Days, Sensible
  <2>3. todo \in SUBSET AllNotices
    BY <2>2, NoticeTypes
  <2>4. \A n \in todo : ~ IsAck(n)
    BY DEF Notice, IsAck
  <2> QED BY <2>1, <2>3, <2>4, PlainJob
<1>7. ASSUME NEW u \in Users, NEW r \in Reports, FileReport(w, u, r)
      PROVE  (\E j : Fresh(j) /\ Start(w, j)) /\ UNCHANGED book
  <2> PICK emits \in BOOLEAN :
          Start(w, Job(u, {n \in {Notice("damage_report", r, 0)} : emits},
                       Then("file", r, "pending", None)))
    BY <1>7 DEF FileReport
  <2> PICK then : then = Then("file", r, "pending", None)
    OBVIOUS
  <2> PICK todo : todo = {n \in {Notice("damage_report", r, 0)} : emits}
    OBVIOUS
  <2> PICK j : j = Job(u, todo, then)
    OBVIOUS
  <2>1. /\ Start(w, j) /\ UNCHANGED book /\ reports[r] = None
        /\ \A v \in Workers : Open(v) => job[v].then.report # r
    BY <1>7 DEF FileReport, Open
  <2>2. 0 \in Days
    BY DEF Days, Sensible
  <2>3. todo \in SUBSET AllNotices
    BY <2>2, NoticeTypes
  <2>4. \A n \in todo : ~ IsAck(n)
    BY DEF Notice, IsAck
  <2>5. then \in ThenRow /\ then.step = "file" /\ then.report = r
    BY ThenIs DEF Steps, Statuses
  <2>6. /\ j \in JobRow /\ j.by = u /\ j.todo = todo /\ j.then = then
        /\ j.left = {} /\ j.mine = {}
    BY <2>3, <2>5 DEF Job, JobRow, ShapeInv
  <2> QED BY <2>1, <2>4, <2>5, <2>6 DEF Fresh, Starting
<1>8. ASSUME NEW u \in Users, NEW r \in Reports, NEW s \in Decisions, Review(w, u, r, s)
      PROVE  (\E j : Fresh(j) /\ Start(w, j)) /\ UNCHANGED book
  <2> PICK then : then = Then("save", r, s, reports[r].status)
    OBVIOUS
  <2> PICK j : j = Job(u, {}, then)
    OBVIOUS
  <2>1. Start(w, j) /\ UNCHANGED book /\ reports[r] # None
    BY <1>8 DEF Review
  <2>2. reports[r] \in ReportRow
    BY <2>1 DEF ShapeInv
  <2>3. reports[r].status \in Statuses
    BY <2>2 DEF ReportRow
  <2>4. then \in ThenRow /\ then.step = "save" /\ then.report = r /\ then.status = s
    BY <2>3, ThenIs DEF Steps, Statuses
  <2>5. /\ j \in JobRow /\ j.by = u /\ j.todo = {} /\ j.then = then
        /\ j.left = {} /\ j.mine = {}
    BY <2>4 DEF Job, JobRow, ShapeInv
  <2> QED BY <2>1, <2>4, <2>5 DEF Fresh, Starting
<1> QED BY <1>1, <1>2, <1>3, <1>4, <1>5, <1>6, <1>7, <1>8 DEF StartOf

-----------------------------------------------------------------------------
(* What the steps of a job make of it.                                       *)

LEMMA JobFrame ==
    ASSUME ShapeInv, NEW w \in Workers, NEW new, job' = [job EXCEPT ![w] = new]
    PROVE  /\ job'[w] = new /\ \A v \in Workers \ {w} : job'[v] = job[v]
           /\ new \in JobRow \union {None} => job' \in [Workers -> JobRow \union {None}]
BY DEF ShapeInv

LEMMA JobIsRow ==
    ASSUME ShapeInv, NEW w \in Workers, Open(w)
    PROVE  /\ job[w] \in JobRow /\ job[w].by \in Users \union {None}
           /\ job[w].todo \in SUBSET AllNotices /\ job[w].now \in AllNotices \union {None}
           /\ job[w].left \in SUBSET Users /\ job[w].mine \in SUBSET (Users \X AllNotices)
           /\ job[w].goal \in SUBSET (Users \X AllNotices) /\ job[w].on \in Days
           /\ job[w].then \in ThenRow /\ job[w].then.step \in Steps
           /\ job[w].then.report \in Reports \union {None}
           /\ job[w].then.status \in Statuses \union {None}
           /\ job[w].then.was \in Statuses \union {None}
<1>1. job[w] \in JobRow
  BY DEF ShapeInv, Open
<1>2. job[w].then \in ThenRow
  BY <1>1 DEF JobRow
<1> QED BY <1>1, <1>2 DEF JobRow, ThenRow

(* A decision keeps who filed each report. *)
LEMMA SaveIs ==
    ASSUME Sensible, TypeInv, NEW w \in Workers, Save(w), NEW c, c = job[w]
    PROVE  /\ Open(w) /\ c \in JobRow /\ c.then.step = "save"
           /\ c.then.report \in Reports /\ reports[c.then.report] # None
           /\ c.then.status \in Decisions
           /\ reports' \in [Reports -> ReportRow \union {None}]
           /\ \A r \in Reports : reports'[r] = None <=> reports[r] = None
           /\ \A r \in Reports : reports[r] # None => reports'[r].by = reports[r].by
           /\ \A r \in Reports \ {c.then.report} : reports'[r] = reports[r]
           /\ IF c.then.status = c.then.was THEN reports' = reports
              ELSE reports'[c.then.report].status = c.then.status
<1>1. Open(w) /\ c.then.step = "save" /\ c \in JobRow
  BY JobIsRow DEF Save, Open, TypeInv
<1>2. /\ c.then.report \in Reports /\ reports[c.then.report] # None
      /\ c.then.status \in Decisions
  BY <1>1 DEF TypeInv, DecideInv
<1>3. CASE c.then.status = c.then.was
  BY <1>1, <1>2, <1>3 DEF Save, TypeInv, ShapeInv
<1>4. CASE c.then.status # c.then.was
  <2> PICK r, old : r = c.then.report /\ old = reports[r]
    OBVIOUS
  <2> PICK row : row = [old EXCEPT !.status = c.then.status]
    OBVIOUS
  <2>1. old \in ReportRow
    BY <1>2 DEF TypeInv, ShapeInv
  <2>2. row \in ReportRow /\ row.status = c.then.status /\ row.by = old.by
    BY <1>2, <2>1 DEF ReportRow, Statuses
  <2>3. reports' = [reports EXCEPT ![r] = row]
    BY <1>4 DEF Save
  <2>4. row # None
    BY <2>2 DEF Sensible
  <2>5. reports \in [Reports -> ReportRow \union {None}]
    BY DEF TypeInv, ShapeInv
  <2> QED BY <1>1, <1>2, <1>4, <2>2, <2>3, <2>4, <2>5
<1> QED BY <1>3, <1>4

LEMMA SaveJob ==
    ASSUME Sensible, TypeInv, NEW w \in Workers, Save(w), NEW c, c = job[w]
    PROVE  \E new \in JobRow \union {None} :
              /\ job' = [job EXCEPT ![w] = new]
              /\ c.then.status = "approved" /\ c.then.was # "approved" => new # None
              /\ new # None => /\ new.todo = c.todo /\ new.left = c.left /\ new.mine = c.mine
                               /\ new.by = c.by /\ new.now = c.now
                               /\ new.then.step = "acknowledge"
                               /\ new.then.report = c.then.report
<1>1. Open(w) /\ c \in JobRow /\ c.then \in ThenRow
  BY JobIsRow DEF Save, Open, TypeInv
<1>2. CASE Acknowledges(c.then)
  <2>1. PICK then : then = [c.then EXCEPT !.step = "acknowledge"]
    OBVIOUS
  <2>2. then \in ThenRow /\ then.step = "acknowledge" /\ then.report = c.then.report
    BY <1>1, <2>1 DEF ThenRow, Steps
  <2>3. PICK new : new = [c EXCEPT !.then = then]
    OBVIOUS
  <2>4. /\ new \in JobRow /\ new.then = then /\ new.todo = c.todo /\ new.left = c.left
        /\ new.mine = c.mine /\ new.by = c.by /\ new.now = c.now
    BY <1>1, <2>2, <2>3 DEF JobRow
  <2>5. job' = [job EXCEPT ![w] = [c EXCEPT !.then.step = "acknowledge"]]
    BY <1>2 DEF Save
  <2>6. job' = [job EXCEPT ![w] = new]
    BY <2>1, <2>3, <2>5
  <2>7. new # None /\ new \in JobRow \union {None}
    BY <2>4 DEF Sensible
  <2> QED BY <2>2, <2>4, <2>6, <2>7
<1>3. CASE ~ Acknowledges(c.then)
  BY <1>3 DEF Save, Acknowledges
<1> QED BY <1>2, <1>3

LEMMA AcknowledgeIs ==
    ASSUME Sensible, TypeInv, NEW w \in Workers, Acknowledge(w), NEW c, c = job[w],
           NEW r, r = c.then.report
    PROVE  /\ Open(w) /\ r \in Reports /\ reports[r] \in ReportRow
           /\ \E new \in JobRow :
                 /\ job' = [job EXCEPT ![w] = new]
                 /\ new.todo = {Notice("damage_acknowledged", <<r, reports[r].status>>, 0)}
                 /\ new.left = c.left /\ new.mine = c.mine /\ new.now = c.now
                 /\ new.by = reports[r].by
                 /\ new.then.step = "tell" /\ new.then.report = r
<1>1. Open(w) /\ c \in JobRow /\ c.then \in ThenRow /\ c.then.step = "acknowledge"
  BY JobIsRow DEF Acknowledge, Open, TypeInv
<1>2. r \in Reports /\ reports[r] \in ReportRow
  BY <1>1 DEF TypeInv, DecideInv, ShapeInv
<1>3. reports[r].by \in Users /\ reports[r].status \in Statuses /\ 0 \in Days
  BY <1>2 DEF ReportRow, Days, Sensible
<1> PICK todo : todo = {Notice("damage_acknowledged", <<r, reports[r].status>>, 0)}
  OBVIOUS
<1>4. todo \in SUBSET AllNotices
  BY <1>2, <1>3, NoticeTypes
<1> PICK then : then = [c.then EXCEPT !.step = "tell"]
  OBVIOUS
<1>5. then \in ThenRow /\ then.step = "tell" /\ then.report = r
  BY <1>1 DEF ThenRow, Steps
<1> PICK new : new = [c EXCEPT !.by = reports[r].by, !.then = then, !.todo = todo]
  OBVIOUS
<1>6. /\ new \in JobRow /\ new.then = then /\ new.todo = todo /\ new.by = reports[r].by
      /\ new.left = c.left /\ new.mine = c.mine /\ new.now = c.now
  BY <1>1, <1>3, <1>4, <1>5 DEF JobRow
<1>7. job' = [job EXCEPT ![w] = new]
  BY DEF Acknowledge
<1> QED BY <1>1, <1>2, <1>5, <1>6, <1>7

(* The members a notice is for. *)
LEMMA TargetsAre ==
    ASSUME ShapeInv, NEW n, NEW by, ForOne(n.kind) => by \in Users
    PROVE  Targets(n, by) \in SUBSET Users /\ (IsAck(n) => Targets(n, by) = {by})
BY DEF Targets, Owners, ForAll, ForOne, IsAck

LEMMA LookUpIs ==
    ASSUME Sensible, TypeInv, NEW w \in Workers, LookUp(w), NEW c, c = job[w]
    PROVE  /\ Open(w) /\ c.left = {}
           /\ \E n \in c.todo, new \in JobRow :
                 /\ job' = [job EXCEPT ![w] = new]
                 /\ new.todo = c.todo \ {n}
                 /\ new.left = {u \in Targets(n, c.by) : <<u, n>> \notin Committed \union c.mine}
                 /\ new.left # {} => new.now = n
                 /\ new.mine = c.mine /\ new.by = c.by /\ new.then = c.then
<1>1. Open(w) /\ c \in JobRow /\ c.left = {}
  BY JobIsRow DEF LookUp, Open, TypeInv
<1>2. PICK n \in job[w].todo :
       LET targets == Targets(n, job[w].by)
           pairs == {<<u, n>> : u \in targets}
           left == {u \in targets : <<u, n>> \notin Committed \union job[w].mine}
       IN job' = [job EXCEPT ![w] =
              [job[w] EXCEPT !.todo = @ \ {n}, !.now = IF left = {} THEN None ELSE n,
                             !.left = left, !.goal = @ \union pairs]]
  BY DEF LookUp
<1>3. PICK targets : targets = Targets(n, job[w].by)
  OBVIOUS
<1>4. PICK pairs : pairs = {<<u, n>> : u \in targets}
  OBVIOUS
<1>5. PICK left : left = {u \in targets : <<u, n>> \notin Committed \union job[w].mine}
  OBVIOUS
<1>6. PICK now : now = IF left = {} THEN None ELSE n
  OBVIOUS
<1>7. PICK todo : todo = job[w].todo \ {n}
  OBVIOUS
<1>8. PICK goal : goal = job[w].goal \union pairs
  OBVIOUS
<1>9. PICK new : new = [c EXCEPT !.todo = todo, !.now = now, !.left = left, !.goal = goal]
  OBVIOUS
<1>10. job' = [job EXCEPT ![w] = new]
  BY <1>2, <1>3, <1>4, <1>5, <1>6, <1>7, <1>8, <1>9
<1>11. n \in AllNotices /\ c.todo \in SUBSET AllNotices
       /\ c.goal \in SUBSET (Users \X AllNotices)
  BY <1>1 DEF JobRow
<1>12. ForOne(n.kind) => c.by \in Users
  BY <1>1 DEF TypeInv, JobInv
<1>13. targets \in SUBSET Users
  BY <1>3, <1>12, TargetsAre DEF TypeInv
<1>14. left \in SUBSET Users /\ now \in AllNotices \union {None} /\ todo \in SUBSET AllNotices
  BY <1>5, <1>6, <1>7, <1>11, <1>13
<1>15. pairs \in SUBSET (Users \X AllNotices)
  BY <1>4, <1>11, <1>13
<1>16. goal \in SUBSET (Users \X AllNotices)
  BY <1>8, <1>11, <1>15
<1>17. /\ new \in JobRow /\ new.todo = todo /\ new.left = left /\ new.now = now
       /\ new.mine = c.mine /\ new.by = c.by /\ new.then = c.then
  BY <1>1, <1>9, <1>14, <1>16 DEF JobRow
<1>18. left = {u \in Targets(n, c.by) : <<u, n>> \notin Committed \union c.mine}
  BY <1>3, <1>5
<1>19. left # {} => now = n
  BY <1>6
<1> QED BY <1>1, <1>7, <1>10, <1>17, <1>18, <1>19

LEMMA InsertIs ==
    ASSUME Sensible, TypeInv, NEW w \in Workers, Insert(w), NEW c, c = job[w],
           NEW n, n = c.now
    PROVE  /\ Open(w) /\ n \in AllNotices
           /\ \E u \in c.left, new \in JobRow :
                 /\ job' = [job EXCEPT ![w] = new]
                 /\ \A pair \in OthersMine(w) : pair[2] # n
                 /\ \/ /\ new.mine = c.mine
                       /\ \E pair \in Committed \union c.mine : pair[2] = n
                    \/ /\ new.mine = c.mine \union {<<u, n>>}
                       /\ \A pair \in Committed \union c.mine : pair[2] # n
                 /\ new.left = c.left \ {u} /\ (new.left # {} => new.now = n)
                 /\ new.todo = c.todo /\ new.by = c.by /\ new.then = c.then
<1>1. Open(w) /\ c \in JobRow
  BY JobIsRow DEF Insert, Open, TypeInv
<1>2. PICK u \in job[w].left :
       LET m == job[w].now
           taken == IndexTaken(u, m, Committed \union job[w].mine)
           left == job[w].left \ {u}
       IN /\ ~ IndexTaken(u, m, OthersMine(w))
          /\ job' = [job EXCEPT ![w] =
                 [job[w] EXCEPT !.mine = IF taken THEN @ ELSE @ \union {<<u, m>>},
                                !.left = left, !.now = IF left = {} THEN None ELSE m]]
  BY DEF Insert
<1>3. u \in Users /\ c.mine \in SUBSET (Users \X AllNotices) /\ c.now \in AllNotices \union {None}
      /\ c.left \in SUBSET Users
  BY <1>1 DEF JobRow
<1>4. n \in AllNotices
  BY <1>1, <1>3 DEF TypeInv, JobInv
<1>5. PICK mine : mine = IF IndexTaken(u, n, Committed \union job[w].mine) THEN job[w].mine
                         ELSE job[w].mine \union {<<u, n>>}
  OBVIOUS
<1>6. PICK left : left = job[w].left \ {u}
  OBVIOUS
<1>7. PICK now : now = IF left = {} THEN None ELSE n
  OBVIOUS
<1>8. PICK new : new = [c EXCEPT !.mine = mine, !.left = left, !.now = now]
  OBVIOUS
<1>9. job' = [job EXCEPT ![w] = new] /\ ~ IndexTaken(u, n, OthersMine(w))
  BY <1>2, <1>5, <1>6, <1>7, <1>8
<1>10. mine \in SUBSET (Users \X AllNotices)
  BY <1>3, <1>4, <1>5
<1>11. left \in SUBSET Users /\ now \in AllNotices \union {None} /\ (left # {} => now = n)
  BY <1>3, <1>4, <1>6, <1>7
<1>12. /\ new \in JobRow /\ new.mine = mine /\ new.left = left /\ new.now = now
       /\ new.todo = c.todo /\ new.by = c.by /\ new.then = c.then
  BY <1>1, <1>8, <1>10, <1>11 DEF JobRow
<1>13. \A pair \in OthersMine(w) : pair[2] # n
  BY <1>9 DEF IndexTaken
<1>14. \/ mine = c.mine /\ \E pair \in Committed \union c.mine : pair[2] = n
       \/ mine = c.mine \union {<<u, n>>} /\ \A pair \in Committed \union c.mine : pair[2] # n
  BY <1>5 DEF IndexTaken
<1> QED BY <1>1, <1>4, <1>6, <1>9, <1>11, <1>12, <1>13, <1>14

-----------------------------------------------------------------------------
(* Types.                                                                    *)

Sound(j) ==
    /\ \A n \in j.todo : ForOne(n.kind) => j.by \in Users
    /\ j.then.step = "file" => j.by \in Users
    /\ j.left # {} => j.now # None

(* A job goes on with the decision or the filing it began. *)
GoesOn(j, c) ==
    /\ j.then.report = c.then.report
    /\ j.then.step \in {"save", "acknowledge", "tell"} =>
          c.then.step \in {"save", "acknowledge", "tell"}
    /\ j.then.step \in {"save", "file"} =>
          j.then.step = c.then.step /\ j.then.status = c.then.status

LEMMA JobStepType ==
    ASSUME Sensible, TypeInv, NEW w \in Workers, Open(w),
           NEW new \in JobRow \union {None}, job' = [job EXCEPT ![w] = new],
           new # None => Sound(new) /\ GoesOn(new, job[w]),
           UNCHANGED <<roles, concerns, day, requests>>,
           \A row \in rows' : IsRow(row),
           reports' \in [Reports -> ReportRow \union {None}],
           \A r \in Reports : reports'[r] = None <=> reports[r] = None
    PROVE  TypeInv'
<1>1. /\ job'[w] = new /\ \A v \in Workers \ {w} : job'[v] = job[v]
      /\ job' \in [Workers -> JobRow \union {None}]
  BY JobFrame DEF TypeInv
<1>2. ShapeInv'
  BY <1>1 DEF TypeInv, ShapeInv
<1>3. JobInv'
  BY <1>1 DEF TypeInv, JobInv, Open, Sound
<1>4. \A v \in Workers : Open(v)' => Open(v) /\ GoesOn(job'[v], job[v])
  BY <1>1 DEF Open, GoesOn
<1>5. DecideInv'
  <2> SUFFICES ASSUME NEW v \in Workers, Open(v)'
               PROVE  /\ job'[v].then.step \in {"save", "acknowledge", "tell"} =>
                            job'[v].then.report \in Reports /\ reports'[job'[v].then.report] # None
                      /\ job'[v].then.step = "save" => job'[v].then.status \in Decisions
                      /\ job'[v].then.step = "file" =>
                            /\ job'[v].then.report \in Reports
                            /\ reports'[job'[v].then.report] = None
                            /\ \A u \in Workers \ {v} :
                                  Open(u)' => job'[u].then.report # job'[v].then.report
    BY DEF DecideInv, Open
  <2>1. Open(v) /\ GoesOn(job'[v], job[v])
    BY <1>4
  <2>2. \A u \in Workers : Open(u)' => Open(u) /\ job'[u].then.report = job[u].then.report
    BY <1>4 DEF GoesOn
  <2> QED BY <2>1, <2>2 DEF TypeInv, DecideInv, GoesOn
<1> QED BY <1>2, <1>3, <1>5 DEF TypeInv

(* A fresh job changes nothing for the others. *)
LEMMA FreshType ==
    ASSUME Sensible, TypeInv, NEW w \in Workers, ~ Open(w), NEW new, Fresh(new),
           job' = [job EXCEPT ![w] = new], requests' \in 0..MaxRequests,
           UNCHANGED <<roles, concerns, reports, rows, day>>
    PROVE  TypeInv'
<1>1. /\ job'[w] = new /\ \A v \in Workers \ {w} : job'[v] = job[v]
      /\ job' \in [Workers -> JobRow \union {None}]
  BY JobFrame DEF TypeInv, Fresh
<1>2. ShapeInv'
  BY <1>1 DEF TypeInv, ShapeInv
<1>3. JobInv'
  BY <1>1 DEF TypeInv, JobInv, Open, Fresh
<1>4. \A v \in Workers \ {w} : Open(v) /\ job[v].then.step = "file" =>
         job[v].then.report # new.then.report
  BY DEF Fresh, TypeInv, DecideInv, Sensible, Starting
<1>5. DecideInv'
  <2> SUFFICES ASSUME NEW v \in Workers, Open(v)'
               PROVE  /\ job'[v].then.step \in {"save", "acknowledge", "tell"} =>
                            job'[v].then.report \in Reports /\ reports'[job'[v].then.report] # None
                      /\ job'[v].then.step = "save" => job'[v].then.status \in Decisions
                      /\ job'[v].then.step = "file" =>
                            /\ job'[v].then.report \in Reports
                            /\ reports'[job'[v].then.report] = None
                            /\ \A u \in Workers \ {v} :
                                  Open(u)' => job'[u].then.report # job'[v].then.report
    BY DEF DecideInv, Open
  <2>1. CASE v = w
    BY <1>1, <2>1 DEF Fresh, Starting, Open
  <2>2. CASE v # w
    <3>1. Open(v) /\ job'[v] = job[v] /\ reports' = reports
      BY <1>1, <2>2 DEF Open
    <3>2. \A u \in Workers \ {v} : Open(u)' =>
             \/ u = w /\ job'[u] = new
             \/ u # w /\ Open(u) /\ job'[u] = job[u]
      BY <1>1 DEF Open
    <3> QED BY <1>4, <2>2, <3>1, <3>2 DEF TypeInv, DecideInv
  <2> QED BY <2>1, <2>2
<1> QED BY <1>2, <1>3, <1>5 DEF TypeInv

LEMMA StartType ==
    ASSUME Sensible, TypeInv, NEW w \in Workers, NEW j, Fresh(j), Start(w, j), UNCHANGED book
    PROVE  TypeInv'
<1>1. requests' \in 0..MaxRequests /\ job' = [job EXCEPT ![w] = j] /\ ~ Open(w)
  BY DEF Start, Open, TypeInv, ShapeInv, Sensible
<1> QED BY <1>1, FreshType DEF book

LEMMA SaveType ==
    ASSUME Sensible, TypeInv, NEW w \in Workers, Save(w)
    PROVE  TypeInv'
<1>1. PICK c : c = job[w]
  OBVIOUS
<1>2. /\ Open(w) /\ c \in JobRow /\ c.then.step = "save"
      /\ reports' \in [Reports -> ReportRow \union {None}]
      /\ \A r \in Reports : reports'[r] = None <=> reports[r] = None
  BY <1>1, SaveIs
<1>3. PICK new \in JobRow \union {None} :
              /\ job' = [job EXCEPT ![w] = new]
              /\ new # None => /\ new.todo = c.todo /\ new.left = c.left /\ new.mine = c.mine
                               /\ new.by = c.by /\ new.now = c.now
                               /\ new.then.step = "acknowledge"
                               /\ new.then.report = c.then.report
  BY <1>1, SaveJob
<1>4. new # None => Sound(new) /\ GoesOn(new, job[w])
  BY <1>1, <1>2, <1>3 DEF Sound, GoesOn, TypeInv, JobInv
<1>5. UNCHANGED <<roles, concerns, rows, day, requests>> /\ \A row \in rows' : IsRow(row)
  BY DEF Save, TypeInv, ShapeInv
<1> QED BY <1>2, <1>3, <1>4, <1>5, JobStepType

LEMMA AcknowledgeType ==
    ASSUME Sensible, TypeInv, NEW w \in Workers, Acknowledge(w)
    PROVE  TypeInv'
<1>1. PICK c : c = job[w]
  OBVIOUS
<1>2. PICK r : r = c.then.report
  OBVIOUS
<1>3. Open(w) /\ r \in Reports /\ reports[r] \in ReportRow
  BY <1>1, <1>2, AcknowledgeIs
<1>4. PICK new \in JobRow :
         /\ job' = [job EXCEPT ![w] = new]
         /\ new.todo = {Notice("damage_acknowledged", <<r, reports[r].status>>, 0)}
         /\ new.left = c.left /\ new.mine = c.mine /\ new.now = c.now
         /\ new.by = reports[r].by
         /\ new.then.step = "tell" /\ new.then.report = r
  BY <1>1, <1>2, AcknowledgeIs
<1>5. reports[r].by \in Users
  BY <1>3 DEF ReportRow
<1>6. job[w].then.step = "acknowledge"
  BY DEF Acknowledge
<1>7. Sound(new)
  BY <1>1, <1>3, <1>4, <1>5 DEF Sound, TypeInv, JobInv
<1>8. GoesOn(new, job[w])
  BY <1>1, <1>2, <1>4, <1>6 DEF GoesOn
<1>9. /\ UNCHANGED <<roles, concerns, reports, rows, day, requests>>
      /\ \A row \in rows' : IsRow(row)
      /\ reports' \in [Reports -> ReportRow \union {None}]
  BY DEF Acknowledge, book, TypeInv, ShapeInv
<1> QED BY <1>3, <1>4, <1>7, <1>8, <1>9, JobStepType

LEMMA LookUpType ==
    ASSUME Sensible, TypeInv, NEW w \in Workers, LookUp(w)
    PROVE  TypeInv'
<1>1. PICK c : c = job[w]
  OBVIOUS
<1>2. Open(w) /\ c \in JobRow
  BY <1>1, LookUpIs, JobIsRow DEF TypeInv
<1>3. PICK n \in c.todo, new \in JobRow :
         /\ job' = [job EXCEPT ![w] = new]
         /\ new.todo = c.todo \ {n}
         /\ new.left # {} => new.now = n
         /\ new.by = c.by /\ new.then = c.then
  BY <1>1, LookUpIs
<1>4. n # None
  BY <1>2, <1>3 DEF JobRow, Sensible
<1>5. Sound(new)
  BY <1>1, <1>2, <1>3, <1>4 DEF Sound, TypeInv, JobInv
<1>6. GoesOn(new, job[w])
  BY <1>1, <1>3 DEF GoesOn
<1>7. /\ UNCHANGED <<roles, concerns, reports, rows, day, requests>>
      /\ \A row \in rows' : IsRow(row)
      /\ reports' \in [Reports -> ReportRow \union {None}]
  BY DEF LookUp, book, TypeInv, ShapeInv
<1> QED BY <1>2, <1>3, <1>5, <1>6, <1>7, JobStepType

LEMMA InsertType ==
    ASSUME Sensible, TypeInv, NEW w \in Workers, Insert(w)
    PROVE  TypeInv'
<1>1. PICK c : c = job[w]
  OBVIOUS
<1>2. PICK n : n = c.now
  OBVIOUS
<1>3. Open(w) /\ n \in AllNotices
  BY <1>1, <1>2, InsertIs
<1>4. PICK u \in c.left, new \in JobRow :
         /\ job' = [job EXCEPT ![w] = new]
         /\ new.left = c.left \ {u} /\ (new.left # {} => new.now = n)
         /\ new.todo = c.todo /\ new.by = c.by /\ new.then = c.then
  BY <1>1, <1>2, InsertIs
<1>5. n # None
  BY <1>3 DEF Sensible
<1>6. Sound(new)
  BY <1>1, <1>3, <1>4, <1>5 DEF Sound, TypeInv, JobInv
<1>7. GoesOn(new, job[w])
  BY <1>1, <1>4 DEF GoesOn
<1>8. /\ UNCHANGED <<roles, concerns, reports, rows, day, requests>>
      /\ \A row \in rows' : IsRow(row)
      /\ reports' \in [Reports -> ReportRow \union {None}]
  BY DEF Insert, book, TypeInv, ShapeInv
<1> QED BY <1>3, <1>4, <1>6, <1>7, <1>8, JobStepType

LEMMA FailType ==
    ASSUME Sensible, TypeInv, NEW w \in Workers, Fail(w)
    PROVE  TypeInv'
<1>1. /\ Open(w) /\ job' = [job EXCEPT ![w] = None]
      /\ UNCHANGED <<roles, concerns, reports, rows, day, requests>>
  BY DEF Fail, Open
<1>2. (\A row \in rows' : IsRow(row)) /\ reports' \in [Reports -> ReportRow \union {None}]
  BY <1>1 DEF TypeInv, ShapeInv
<1>3. None \in JobRow \union {None}
  OBVIOUS
<1> QED BY <1>1, <1>2, <1>3, JobStepType

(* What a scan goes on with after its commit. *)
LEMMA AfterIs ==
    ASSUME Sensible, ShapeInv, NEW c \in JobRow, NEW after, after = AfterCommit(c)
    PROVE  /\ after \in JobRow \union {None}
           /\ after # None =>
                 /\ after.left = {} /\ after.mine = {}
                 /\ after.then.step = "end" /\ after.then.report = None
                 /\ \A n \in after.todo : ~ IsAck(n) /\ ~ ForOne(n.kind)
<1>1. PICK more : more = Found({"stock_mismatch", "supplier_delayed"}, c.on)
  OBVIOUS
<1>2. c.on \in Days
  BY DEF JobRow
<1>3. more \in SUBSET AllNotices /\ \A n \in more : ~ IsAck(n) /\ ~ ForOne(n.kind)
  BY <1>1, <1>2, FoundType DEF ScanKinds, IsAck, ForOne
<1>4. PICK then : then = Then("end", None, None, None)
  OBVIOUS
<1>5. then \in ThenRow /\ then.step = "end" /\ then.report = None
  BY <1>4, ThenIs DEF Steps
<1>6. PICK j : j = Job(None, more, then)
  OBVIOUS
<1>7. /\ j \in JobRow /\ j.todo = more /\ j.then = then /\ j.left = {} /\ j.mine = {}
  BY <1>3, <1>5, <1>6 DEF Job, JobRow, ShapeInv
<1>8. PICK new : new = [j EXCEPT !.on = c.on]
  OBVIOUS
<1>9. /\ new \in JobRow /\ new.todo = more /\ new.then = then /\ new.left = {}
      /\ new.mine = {}
  BY <1>2, <1>7, <1>8 DEF JobRow
<1>10. after = new \/ after = None
  BY <1>1, <1>4, <1>6, <1>8 DEF AfterCommit, End
<1> QED BY <1>3, <1>5, <1>9, <1>10

LEMMA CommitIs ==
    ASSUME Sensible, TypeInv, NEW w \in Workers, Commit(w), NEW c, c = job[w]
    PROVE  /\ Open(w) /\ c \in JobRow /\ c.todo = {} /\ c.left = {}
           /\ c.then.step \notin {"save", "acknowledge"}
           /\ reports' \in [Reports -> ReportRow \union {None}]
           /\ IF c.then.step = "file"
              THEN /\ c.then.report \in Reports /\ reports[c.then.report] = None
                   /\ reports'[c.then.report] # None
                   /\ reports'[c.then.report].status = "pending"
                   /\ \A r \in Reports \ {c.then.report} : reports'[r] = reports[r]
              ELSE reports' = reports
           /\ job' = [job EXCEPT ![w] = AfterCommit(c)]
           /\ \A row \in rows' : row \in rows \/
                 \E p \in c.mine : row = [user |-> p[1], notice |-> p[2], copy |-> Copies(p),
                                          read |-> FALSE]
           /\ told' = told \union c.mine
           /\ UNCHANGED <<roles, concerns, day, requests, interrupted>>
<1>1. /\ Open(w) /\ c \in JobRow /\ c.todo = {} /\ c.left = {}
      /\ c.then.step \notin {"save", "acknowledge"}
  BY JobIsRow DEF Commit, Open, TypeInv
<1>2. /\ job' = [job EXCEPT ![w] = AfterCommit(c)] /\ told' = told \union c.mine
      /\ UNCHANGED <<roles, concerns, day, requests, interrupted>>
  BY DEF Commit
<1>3. \A row \in rows' : row \in rows \/
         \E p \in c.mine : row = [user |-> p[1], notice |-> p[2], copy |-> Copies(p),
                                  read |-> FALSE]
  BY DEF Commit
<1>4. CASE c.then.step = "file"
  <2>1. c.then.report \in Reports /\ reports[c.then.report] = None /\ c.by \in Users
    BY <1>1, <1>4 DEF TypeInv, DecideInv, JobInv
  <2>2. PICK row : row = [status |-> "pending", by |-> c.by]
    OBVIOUS
  <2>3. row \in ReportRow /\ row.status = "pending" /\ row # None
    BY <2>1, <2>2 DEF ReportRow, Statuses, Sensible
  <2>4. reports' = [reports EXCEPT ![c.then.report] = row]
    BY <1>4, <2>2 DEF Commit
  <2>5. reports \in [Reports -> ReportRow \union {None}]
    BY DEF TypeInv, ShapeInv
  <2> QED BY <1>1, <1>2, <1>3, <1>4, <2>1, <2>3, <2>4, <2>5
<1>5. CASE c.then.step # "file"
  <2>1. reports' = reports /\ reports \in [Reports -> ReportRow \union {None}]
    BY <1>5 DEF Commit, TypeInv, ShapeInv
  <2> QED BY <1>1, <1>2, <1>3, <1>5, <2>1
<1> QED BY <1>4, <1>5

LEMMA CommitType ==
    ASSUME Sensible, TypeInv, NEW w \in Workers, Commit(w)
    PROVE  TypeInv'
<1>1. PICK c : c = job[w]
  OBVIOUS
<1>2. PICK after : after = AfterCommit(c)
  OBVIOUS
<1>3. /\ Open(w) /\ c \in JobRow
      /\ reports' \in [Reports -> ReportRow \union {None}]
      /\ IF c.then.step = "file"
         THEN /\ c.then.report \in Reports /\ reports[c.then.report] = None
              /\ reports'[c.then.report] # None
              /\ \A r \in Reports \ {c.then.report} : reports'[r] = reports[r]
         ELSE reports' = reports
      /\ job' = [job EXCEPT ![w] = after]
      /\ UNCHANGED <<roles, concerns, day, requests, interrupted>>
  BY <1>1, <1>2, CommitIs
<1>4. /\ after \in JobRow \union {None}
      /\ after # None =>
            /\ after.left = {} /\ after.then.step = "end" /\ after.then.report = None
            /\ \A n \in after.todo : ~ ForOne(n.kind)
  BY <1>2, <1>3, AfterIs DEF TypeInv
<1>5. /\ job'[w] = after /\ \A v \in Workers \ {w} : job'[v] = job[v]
      /\ job' \in [Workers -> JobRow \union {None}]
  BY <1>3, <1>4, JobFrame DEF TypeInv
<1>6. \A row \in rows' : IsRow(row)
  <2> SUFFICES ASSUME NEW row \in rows' PROVE IsRow(row)
    OBVIOUS
  <2>1. CASE row \in rows
    BY <2>1 DEF TypeInv, ShapeInv
  <2>2. ASSUME NEW p \in c.mine,
               row = [user |-> p[1], notice |-> p[2], copy |-> Copies(p), read |-> FALSE]
        PROVE  IsRow(row)
    <3>1. p \in Users \X AllNotices
      BY <1>3 DEF JobRow
    <3> QED BY <2>2, <3>1 DEF IsRow
  <2> QED BY <1>1, <2>1, <2>2, CommitIs
<1>7. ShapeInv'
  BY <1>3, <1>5, <1>6 DEF TypeInv, ShapeInv
<1>8. JobInv'
  BY <1>4, <1>5 DEF TypeInv, JobInv, Open
<1>9. DecideInv'
  <2> SUFFICES ASSUME NEW v \in Workers, Open(v)'
               PROVE  /\ job'[v].then.step \in {"save", "acknowledge", "tell"} =>
                            job'[v].then.report \in Reports /\ reports'[job'[v].then.report] # None
                      /\ job'[v].then.step = "save" => job'[v].then.status \in Decisions
                      /\ job'[v].then.step = "file" =>
                            /\ job'[v].then.report \in Reports
                            /\ reports'[job'[v].then.report] = None
                            /\ \A u \in Workers \ {v} :
                                  Open(u)' => job'[u].then.report # job'[v].then.report
    BY DEF DecideInv, Open
  <2>1. CASE v = w
    BY <1>4, <1>5, <2>1 DEF Open
  <2>2. CASE v # w
    <3>1. Open(v) /\ job'[v] = job[v]
      BY <1>5, <2>2 DEF Open
    <3>2. \A r \in Reports : reports[r] # None => reports'[r] # None
      BY <1>3
    <3>3. CASE job[v].then.step # "file"
      BY <3>1, <3>2, <3>3 DEF TypeInv, DecideInv
    <3>4. CASE job[v].then.step = "file"
      <4>1. /\ job[v].then.report \in Reports /\ reports[job[v].then.report] = None
            /\ \A u \in Workers \ {v} : Open(u) => job[u].then.report # job[v].then.report
        BY <3>1, <3>4 DEF TypeInv, DecideInv
      <4>2. reports'[job[v].then.report] = None
        BY <1>1, <1>3, <2>2, <4>1
      <4>3. \A u \in Workers \ {v} : Open(u)' =>
               \/ job'[u].then.report = None
               \/ Open(u) /\ job'[u] = job[u]
        BY <1>4, <1>5 DEF Open
      <4> QED BY <3>1, <3>4, <4>1, <4>2, <4>3 DEF Sensible
    <3> QED BY <3>3, <3>4
  <2> QED BY <2>1, <2>2
<1> QED BY <1>7, <1>8, <1>9 DEF TypeInv

-----------------------------------------------------------------------------
(* What members do with their rows.                                          *)

LEMMA MarkIs ==
    ASSUME NEW row, IsRow(row), NEW read \in BOOLEAN, NEW new, new = [row EXCEPT !.read = read]
    PROVE  IsRow(new) /\ new.user = row.user /\ new.notice = row.notice
BY DEF IsRow

(* Each row that is left is an old one, or an old one marked or unmarked,    *)
(* and no old one leaves two.                                                *)
KeptRows ==
    /\ \A row \in rows' : IsRow(row)
    /\ \A row \in rows' : \E old \in rows : row.user = old.user /\ row.notice = old.notice
    /\ (\A x, y \in rows : x.notice = y.notice => x = y) =>
          \A x, y \in rows' : x.notice = y.notice => x = y

LEMMA MarkedKept ==
    ASSUME TypeInv, NEW chosen \in SUBSET rows, NEW read \in [chosen -> BOOLEAN],
           rows' = (rows \ chosen) \union {[row EXCEPT !.read = read[row]] : row \in chosen}
    PROVE  KeptRows
<1>1. ASSUME NEW new \in rows'
      PROVE  /\ IsRow(new)
             /\ \E old \in rows :
                   /\ new.user = old.user /\ new.notice = old.notice
                   /\ IF old \in chosen THEN new = [old EXCEPT !.read = read[old]] ELSE new = old
  <2>1. CASE new \in rows \ chosen
    BY <2>1 DEF TypeInv, ShapeInv
  <2>2. CASE new \notin rows \ chosen
    <3>1. PICK old \in chosen : new = [old EXCEPT !.read = read[old]]
      BY <2>2
    <3>2. IsRow(old) /\ read[old] \in BOOLEAN
      BY DEF TypeInv, ShapeInv
    <3> QED BY <3>1, <3>2, MarkIs
  <2> QED BY <2>1, <2>2
<1>2. ASSUME \A x, y \in rows : x.notice = y.notice => x = y,
             NEW x \in rows', NEW y \in rows', x.notice = y.notice
      PROVE  x = y
  <2>1. PICK a \in rows : /\ x.notice = a.notice
                          /\ IF a \in chosen THEN x = [a EXCEPT !.read = read[a]] ELSE x = a
    BY <1>1
  <2>2. PICK b \in rows : /\ y.notice = b.notice
                          /\ IF b \in chosen THEN y = [b EXCEPT !.read = read[b]] ELSE y = b
    BY <1>1
  <2>3. a = b
    BY <1>2, <2>1, <2>2
  <2> QED BY <2>1, <2>2, <2>3
<1> QED BY <1>1, <1>2 DEF KeptRows

MembersAct == \E u \in Users : MarkAllRead(u) \/ ClearAll(u) \/ PatchNotice(u)
LEMMA MembersKeep ==
    ASSUME Sensible, TypeInv, MembersAct
    PROVE  /\ KeptRows /\ requests' \in 0..MaxRequests
           /\ UNCHANGED <<roles, concerns, reports, job, day, told, meant, interrupted>>
<1>1. \A row \in rows : IsRow(row) /\ row.read \in BOOLEAN
  BY DEF TypeInv, ShapeInv, IsRow
<1>2. /\ requests' \in 0..MaxRequests
      /\ UNCHANGED <<roles, concerns, reports, job, day, told, meant, interrupted>>
  <2>1. Request /\ UNCHANGED <<roles, concerns, reports, job, day, told, meant, interrupted>>
    BY DEF MembersAct, MarkAllRead, ClearAll, PatchNotice
  <2> QED BY <2>1 DEF Request, TypeInv, ShapeInv, Sensible
<1>3. ASSUME NEW u \in Users, MarkAllRead(u) PROVE KeptRows
  <2>1. PICK kinds \in Asked :
           rows' = (rows \ Chosen(u, kinds))
                   \union {[row EXCEPT !.read = TRUE] : row \in Chosen(u, kinds)}
    BY <1>3 DEF MarkAllRead
  <2>2. PICK chosen : chosen = Chosen(u, kinds)
    OBVIOUS
  <2>3. PICK read : read = [row \in chosen |-> TRUE]
    OBVIOUS
  <2>4. read \in [chosen -> BOOLEAN] /\ chosen \in SUBSET rows
    BY <2>2, <2>3 DEF Chosen
  <2>5. rows' = (rows \ chosen) \union {[row EXCEPT !.read = read[row]] : row \in chosen}
    BY <2>1, <2>2, <2>3
  <2> QED BY <2>4, <2>5, MarkedKept
<1>4. ASSUME NEW u \in Users, ClearAll(u) PROVE KeptRows
  <2>1. rows' \subseteq rows
    BY <1>4 DEF ClearAll
  <2> QED BY <1>1, <2>1 DEF KeptRows
<1>5. ASSUME NEW u \in Users, PatchNotice(u) PROVE KeptRows
  <2>1. PICK row \in rows : rows' = (rows \ {row}) \union {[row EXCEPT !.read = ~ row.read]}
    BY <1>5 DEF PatchNotice, Chosen
  <2>2. PICK read : read = [old \in {row} |-> ~ row.read]
    OBVIOUS
  <2>3. read \in [{row} -> BOOLEAN] /\ {row} \in SUBSET rows /\ read[row] = ~ row.read
    BY <1>1, <2>2
  <2>4. rows' = (rows \ {row}) \union {[old EXCEPT !.read = read[old]] : old \in {row}}
    BY <2>1, <2>3
  <2> QED BY <2>3, <2>4, MarkedKept
<1> QED BY <1>2, <1>3, <1>4, <1>5 DEF MembersAct

(* Steps that leave the jobs and the reports alone. *)
LEMMA QuietType ==
    ASSUME TypeInv, UNCHANGED <<reports, job>>, \A row \in rows' : IsRow(row),
           roles' \in [Users -> Roles], roles'[Boss] = "owner", concerns' \subseteq Concerns,
           day' \in Days, requests' \in 0..MaxRequests
    PROVE  TypeInv'
<1>1. ShapeInv'
  BY DEF TypeInv, ShapeInv
<1>2. JobInv' /\ DecideInv'
  BY DEF TypeInv, JobInv, DecideInv, Open
<1> QED BY <1>1, <1>2 DEF TypeInv

LEMMA RolesType ==
    ASSUME Sensible, TypeInv, NEW u \in Users, SetRole(u)
    PROVE  /\ roles' \in [Users -> Roles] /\ roles'[Boss] = "owner"
           /\ requests' \in 0..MaxRequests
BY DEF SetRole, Request, Sensible, TypeInv, ShapeInv

LEMMA TypeNext == Sensible /\ TypeInv /\ [Next]_vars => TypeInv'
<1> SUFFICES ASSUME Sensible, TypeInv, [Next]_vars PROVE TypeInv'
  OBVIOUS
<1>1. CASE UNCHANGED vars
  BY <1>1, QuietType DEF vars, TypeInv, ShapeInv
<1>2. ASSUME NEW w \in Workers, StartOf(w) PROVE TypeInv'
  BY <1>2, StartsFresh, StartType DEF TypeInv
<1>3. ASSUME NEW w \in Workers,
             Save(w) \/ Acknowledge(w) \/ LookUp(w) \/ Insert(w) \/ Commit(w) \/ Fail(w)
      PROVE  TypeInv'
  BY <1>3, SaveType, AcknowledgeType, LookUpType, InsertType, CommitType, FailType
<1>4. CASE MembersAct
  BY <1>4, MembersKeep, QuietType DEF KeptRows, TypeInv, ShapeInv
<1>5. ASSUME NEW u \in Users, SetRole(u) PROVE TypeInv'
  BY <1>5, RolesType, QuietType DEF SetRole, TypeInv, ShapeInv
<1>6. CASE ConcernsChange
  BY <1>6, QuietType DEF ConcernsChange, TypeInv, ShapeInv
<1>7. CASE NextDay
  <2>1. day' \in Days
    BY <1>7 DEF NextDay, TypeInv, ShapeInv, Days, Sensible
  <2> QED BY <1>7, <2>1, QuietType DEF NextDay, TypeInv, ShapeInv
<1> QED BY <1>1, <1>2, <1>3, <1>4, <1>5, <1>6, <1>7 DEF Next, StartOf, MembersAct

LEMMA TypeInit == Sensible /\ Init => TypeInv
<1> SUFFICES ASSUME Sensible, Init PROVE TypeInv
  OBVIOUS
<1>1. roles \in [Users -> Roles] /\ roles[Boss] = "owner"
  BY DEF Init, Sensible, Roles, OwnerRoles
<1>2. day \in Days /\ requests \in 0..MaxRequests
  BY DEF Init, Sensible, Days
<1>3. \A w \in Workers : ~ Open(w)
  BY DEF Init, Open
<1> QED BY <1>1, <1>2, <1>3 DEF Init, TypeInv, ShapeInv, JobInv, DecideInv

(* Rows, reports and the jobs that emit notices keep their shape, for any    *)
(* members, findings and reports.                                            *)
THEOREM TypeCorrect == Sensible => (Spec => []TypeOK)
<1> SUFFICES ASSUME Sensible PROVE Spec => []TypeOK
  OBVIOUS
<1>1. TypeInv => TypeOK
  <2> SUFFICES ASSUME TypeInv PROVE TypeOK
    OBVIOUS
  <2>1. \A r \in Reports : reports[r] # None =>
           reports[r].status \in Decisions \union {"pending"} /\ reports[r].by \in Users
    BY DEF TypeInv, ShapeInv, ReportRow, Statuses
  <2>2. \A w \in Workers : job[w] # None => job[w].left \subseteq Users
    BY JobIsRow DEF Open, TypeInv
  <2> QED BY <2>1, <2>2 DEF TypeOK, TypeInv, ShapeInv, IsRow, Days
<1> QED BY <1>1, TypeInit, TypeNext, PTL DEF Spec

-----------------------------------------------------------------------------
(* Nobody is told twice.                                                     *)

LEMMA OnceKept ==
    ASSUME OnceInv, rows' = rows,
           \A v \in Workers : Open(v)' => job'[v].mine = {} \/ (Open(v) /\ job'[v].mine = job[v].mine)
    PROVE  OnceInv'
BY DEF OnceInv, Open

(* How each step of a job leaves what is held. *)
LEMMA StartHolds ==
    ASSUME Sensible, TypeInv, NEW w \in Workers, NEW j, Fresh(j), Start(w, j)
    PROVE  \A v \in Workers : Open(v)' =>
              job'[v].mine = {} \/ (Open(v) /\ job'[v].mine = job[v].mine)
<1>1. job' = [job EXCEPT ![w] = j] /\ j.mine = {}
  BY DEF Start, Fresh
<1> QED BY <1>1, JobFrame DEF TypeInv, Open

LEMMA StepHolds ==
    ASSUME Sensible, TypeInv, NEW w \in Workers,
           Save(w) \/ Acknowledge(w) \/ LookUp(w) \/ Fail(w)
    PROVE  /\ rows' = rows
           /\ \A v \in Workers : Open(v)' => Open(v) /\ job'[v].mine = job[v].mine
<1>1. PICK c : c = job[w]
  OBVIOUS
<1>2. PICK r : r = c.then.report
  OBVIOUS
<1>3. Open(w)
  BY DEF Save, Acknowledge, LookUp, Fail, Open
<1>4. \E new \in JobRow \union {None} :
         job' = [job EXCEPT ![w] = new] /\ (new # None => new.mine = c.mine)
  <2>1. CASE Save(w)
    BY <1>1, <2>1, SaveJob
  <2>2. CASE Acknowledge(w)
    <3>1. PICK new \in JobRow :
             /\ job' = [job EXCEPT ![w] = new]
             /\ new.todo = {Notice("damage_acknowledged", <<r, reports[r].status>>, 0)}
             /\ new.left = c.left /\ new.mine = c.mine /\ new.now = c.now
             /\ new.by = reports[r].by
             /\ new.then.step = "tell" /\ new.then.report = r
      BY <1>1, <1>2, <2>2, AcknowledgeIs
    <3> QED BY <3>1
  <2>3. CASE LookUp(w)
    BY <1>1, <2>3, LookUpIs
  <2>4. CASE Fail(w)
    BY <2>4 DEF Fail
  <2> QED BY <2>1, <2>2, <2>3, <2>4
<1>5. rows' = rows
  BY DEF Save, Acknowledge, LookUp, Fail, book
<1> QED BY <1>1, <1>3, <1>4, <1>5, JobFrame DEF TypeInv, Open

LEMMA InsertOnce ==
    ASSUME Sensible, TypeInv, OnceInv, NEW w \in Workers, Insert(w)
    PROVE  OnceInv'
<1>1. PICK c : c = job[w]
  OBVIOUS
<1>2. PICK n : n = c.now
  OBVIOUS
<1>3. PICK u \in c.left, new \in JobRow :
         /\ job' = [job EXCEPT ![w] = new]
         /\ \A pair \in OthersMine(w) : pair[2] # n
         /\ \/ /\ new.mine = c.mine
               /\ \E pair \in Committed \union c.mine : pair[2] = n
            \/ /\ new.mine = c.mine \union {<<u, n>>}
               /\ \A pair \in Committed \union c.mine : pair[2] # n
         /\ new.left = c.left \ {u} /\ (new.left # {} => new.now = n)
         /\ new.todo = c.todo /\ new.by = c.by /\ new.then = c.then
  BY <1>1, <1>2, InsertIs
<1>4. Open(w) /\ rows' = rows
  BY DEF Insert, book, Open
<1>5. job'[w] = new /\ \A v \in Workers \ {w} : job'[v] = job[v]
  BY <1>3, JobFrame DEF TypeInv
<1>6. CASE new.mine = c.mine
  BY <1>1, <1>4, <1>5, <1>6, OnceKept DEF Open
<1>7. CASE /\ new.mine = c.mine \union {<<u, n>>}
           /\ \A pair \in Committed \union c.mine : pair[2] # n
  <2>1. ASSUME NEW row \in rows PROVE row.notice # n
    <3>1. <<row.user, row.notice>> \in Committed
      BY DEF Committed
    <3> QED BY <1>7, <3>1
  <2>2. \A v \in Workers \ {w} : Open(v) => \A q \in job[v].mine : q[2] # n
    BY <1>3 DEF OthersMine, Open
  <2>3. \A p \in new.mine : p \in c.mine \/ p = <<u, n>>
    BY <1>7
  <2>4. \A x, y \in rows' : x.notice = y.notice => x = y
    BY <1>4 DEF OnceInv
  <2>5. ASSUME NEW p \in new.mine
        PROVE  /\ \A row \in rows' : row.notice # p[2]
               /\ \A q \in new.mine : q[2] = p[2] => q = p
               /\ \A v \in Workers \ {w} : Open(v)' => \A q \in job'[v].mine : q[2] # p[2]
    <3>1. CASE p \in c.mine
      <4>1. \A row \in rows' : row.notice # p[2]
        BY <1>1, <1>4, <3>1 DEF OnceInv
      <4>2. \A q \in c.mine : q[2] = p[2] => q = p
        BY <1>1, <1>4, <3>1 DEF OnceInv
      <4>3. p[2] # n
        BY <1>7, <3>1
      <4>4. \A v \in Workers \ {w} : Open(v) => \A q \in job[v].mine : q[2] # p[2]
        BY <1>1, <1>4, <3>1 DEF OnceInv
      <4> QED BY <1>5, <2>3, <4>1, <4>2, <4>3, <4>4 DEF Open
    <3>2. CASE p = <<u, n>>
      BY <1>4, <1>5, <1>7, <2>1, <2>2, <2>3, <3>2 DEF Open
    <3> QED BY <2>3, <3>1, <3>2
  <2>6. ASSUME NEW v \in Workers \ {w}, Open(v)', NEW p \in job'[v].mine
        PROVE  /\ \A row \in rows' : row.notice # p[2]
               /\ \A q \in job'[v].mine : q[2] = p[2] => q = p
               /\ \A x \in Workers \ {v} : Open(x)' => \A q \in job'[x].mine : q[2] # p[2]
    <3>1. Open(v) /\ job'[v] = job[v]
      BY <1>5, <2>6 DEF Open
    <3>2. /\ \A row \in rows' : row.notice # p[2]
          /\ \A q \in job'[v].mine : q[2] = p[2] => q = p
      BY <1>4, <2>6, <3>1 DEF OnceInv
    <3>3. \A q \in new.mine : q[2] # p[2]
      BY <2>5, <2>6
    <3>4. ASSUME NEW x \in Workers \ {v}, Open(x)', x # w
          PROVE  \A q \in job'[x].mine : q[2] # p[2]
      <4>1. Open(x) /\ job'[x] = job[x]
        BY <1>5, <3>4 DEF Open
      <4> QED BY <2>6, <3>1, <4>1 DEF OnceInv
    <3> QED BY <1>5, <3>2, <3>3, <3>4
  <2> QED BY <1>5, <2>4, <2>5, <2>6 DEF OnceInv
<1> QED BY <1>3, <1>6, <1>7

LEMMA CommitOnce ==
    ASSUME Sensible, TypeInv, OnceInv, NEW w \in Workers, Commit(w)
    PROVE  OnceInv'
<1>1. PICK c : c = job[w]
  OBVIOUS
<1>2. PICK after : after = AfterCommit(c)
  OBVIOUS
<1>3. /\ Open(w) /\ c \in JobRow /\ job' = [job EXCEPT ![w] = after]
      /\ \A row \in rows' : row \in rows \/
            \E p \in c.mine : row = [user |-> p[1], notice |-> p[2], copy |-> Copies(p),
                                     read |-> FALSE]
  BY <1>1, <1>2, CommitIs
<1>4. after # None => after.mine = {}
  BY <1>2, <1>3, AfterIs DEF TypeInv
<1>5. job'[w] = after /\ \A v \in Workers \ {w} : job'[v] = job[v]
  BY <1>3, JobFrame DEF TypeInv
<1>6. \A row \in rows' : row \in rows \/ \E p \in c.mine : row.notice = p[2]
  BY <1>3
<1>7. ASSUME NEW x \in rows', NEW y \in rows', x.notice = y.notice
      PROVE  x = y
  <2>1. \A p \in c.mine : \A row \in rows : row.notice # p[2]
    BY <1>1, <1>3 DEF OnceInv
  <2>2. CASE x \in rows
    <3>1. y \in rows
      BY <1>6, <1>7, <2>1, <2>2
    <3> QED BY <1>7, <2>2, <3>1 DEF OnceInv
  <2>3. CASE x \notin rows
    <3>1. PICK p \in c.mine : x = [user |-> p[1], notice |-> p[2], copy |-> Copies(p),
                                   read |-> FALSE]
      BY <1>3, <2>3
    <3>2. y \notin rows
      BY <1>7, <2>1, <3>1
    <3>3. PICK q \in c.mine : y = [user |-> q[1], notice |-> q[2], copy |-> Copies(q),
                                   read |-> FALSE]
      BY <1>3, <3>2
    <3>4. p = q
      BY <1>1, <1>3, <1>7, <3>1, <3>3 DEF OnceInv
    <3> QED BY <3>1, <3>3, <3>4
  <2> QED BY <2>2, <2>3
<1>8. ASSUME NEW v \in Workers, Open(v)', NEW p \in job'[v].mine
      PROVE  /\ \A row \in rows' : row.notice # p[2]
             /\ \A q \in job'[v].mine : q[2] = p[2] => q = p
             /\ \A x \in Workers \ {v} : Open(x)' => \A q \in job'[x].mine : q[2] # p[2]
  <2>1. v # w /\ Open(v) /\ job'[v] = job[v]
    BY <1>4, <1>5, <1>8 DEF Open
  <2>2. \A row \in rows : row.notice # p[2]
    BY <1>8, <2>1 DEF OnceInv
  <2>3. \A q \in c.mine : q[2] # p[2]
    BY <1>1, <1>3, <1>8, <2>1 DEF OnceInv
  <2>4. \A row \in rows' : row.notice # p[2]
    BY <1>6, <2>2, <2>3
  <2>5. \A q \in job'[v].mine : q[2] = p[2] => q = p
    BY <1>8, <2>1 DEF OnceInv
  <2>6. ASSUME NEW x \in Workers \ {v}, Open(x)'
        PROVE  \A q \in job'[x].mine : q[2] # p[2]
    <3>1. job'[x].mine = {} \/ (Open(x) /\ job'[x] = job[x])
      BY <1>4, <1>5, <2>6 DEF Open
    <3> QED BY <1>8, <2>1, <3>1 DEF OnceInv
  <2> QED BY <2>4, <2>5, <2>6
<1> QED BY <1>7, <1>8 DEF OnceInv

LEMMA MembersOnce ==
    ASSUME Sensible, TypeInv, OnceInv, MembersAct
    PROVE  OnceInv'
<1>1. KeptRows /\ job' = job
  BY MembersKeep
<1>2. \A x, y \in rows' : x.notice = y.notice => x = y
  BY <1>1 DEF KeptRows, OnceInv
<1>3. \A row \in rows' : \E old \in rows : row.notice = old.notice
  BY <1>1 DEF KeptRows
<1> QED BY <1>1, <1>2, <1>3 DEF OnceInv, Open

LEMMA OnceNext == Sensible /\ TypeInv /\ OnceInv /\ [Next]_vars => OnceInv'
<1> SUFFICES ASSUME Sensible, TypeInv, OnceInv, [Next]_vars PROVE OnceInv'
  OBVIOUS
<1>1. ASSUME UNCHANGED <<rows, job>> PROVE OnceInv'
  BY <1>1, OnceKept DEF Open
<1>2. ASSUME NEW w \in Workers, StartOf(w) PROVE OnceInv'
  <2>1. PICK j : Fresh(j) /\ Start(w, j)
    BY <1>2, StartsFresh DEF TypeInv
  <2>2. rows' = rows
    BY <1>2, StartsFresh DEF TypeInv, book
  <2> QED BY <2>1, <2>2, StartHolds, OnceKept
<1>3. ASSUME NEW w \in Workers, Save(w) \/ Acknowledge(w) \/ LookUp(w) \/ Fail(w)
      PROVE  OnceInv'
  BY <1>3, StepHolds, OnceKept
<1>4. ASSUME NEW w \in Workers, Insert(w) \/ Commit(w) PROVE OnceInv'
  BY <1>4, InsertOnce, CommitOnce
<1>5. CASE MembersAct
  BY <1>5, MembersOnce
<1>6. ASSUME ConcernsChange \/ NextDay \/ (\E u \in Users : SetRole(u)) PROVE UNCHANGED <<rows, job>>
  BY <1>6 DEF ConcernsChange, NextDay, SetRole
<1>7. UNCHANGED vars => UNCHANGED <<rows, job>>
  BY DEF vars
<1> QED BY <1>1, <1>2, <1>3, <1>4, <1>5, <1>6, <1>7 DEF Next, StartOf, MembersAct

(* Nobody has the same notice twice, however many jobs and requests look for *)
(* it, find nothing, and emit it at the same time: the index holds each      *)
(* notice for one row, and an insert waits for the transactions that hold it. *)
THEOREM NobodyIsToldTwice == Sensible => (Spec => []ToldOnce)
<1> SUFFICES ASSUME Sensible PROVE Spec => []ToldOnce
  OBVIOUS
<1>1. Init => OnceInv
  BY DEF Init, OnceInv, Open
<1>2. TypeInv /\ OnceInv /\ [Next]_vars => (TypeInv /\ OnceInv)'
  BY TypeNext, OnceNext
<1>3. OnceInv => ToldOnce
  BY DEF OnceInv, ToldOnce
<1> QED BY <1>1, <1>2, <1>3, TypeInit, PTL DEF Spec

(* The badge counts the unread notices of the list, whatever roles become and *)
(* whatever is emitted, as long as no report and nothing a delivery is about  *)
(* is named like a role.                                                     *)
NamesAreNoRoles == Reports \intersect Roles = {} /\ Things \intersect Roles = {}
THEOREM BadgeIsRight == Sensible /\ NamesAreNoRoles => (Spec => []BadgeCountsTheList)
<1> SUFFICES ASSUME Sensible, NamesAreNoRoles PROVE Spec => []BadgeCountsTheList
  OBVIOUS
<1>1. TypeInv => BadgeCountsTheList
  <2> SUFFICES ASSUME TypeInv, NEW u \in Users
               PROVE  UnreadCount(u) = Cardinality({row \in Listed(u) : ~ row.read})
    BY DEF BadgeCountsTheList
  <2>1. roles[u] \in Roles
    BY DEF TypeInv, ShapeInv
  <2>2. ASSUME NEW n \in AllNotices, RoleInPayload(n, roles[u]) PROVE VisibleToRole(n, roles[u])
    <3>1. n.kind = "damage_report" => n.about \in Reports
      BY DEF AllNotices, ThingKinds, ScanKinds
    <3>2. n.kind = "delivery" => n.about \in Things
      BY DEF AllNotices, ThingKinds, ScanKinds
    <3>3. StoredRoles(n.kind) # {} => n.kind \in {"damage_report", "delivery"}
      BY DEF StoredRoles
    <3> QED BY <2>1, <2>2, <3>1, <3>2, <3>3 DEF RoleInPayload, VisibleToRole, NamesAreNoRoles
  <2>3. \A row \in rows : row.notice \in AllNotices
    BY DEF TypeInv, ShapeInv, IsRow
  <2>4. {row \in Listed(u) : ~ row.read}
        = {row \in Chosen(u, NoticeKinds) : ~ row.read /\ RoleInPayload(row.notice, roles[u])}
    BY <2>2, <2>3 DEF Listed, Chosen
  <2> QED BY <2>4 DEF UnreadCount
<1> QED BY <1>1, TypeInit, TypeNext, PTL DEF Spec

-----------------------------------------------------------------------------
(* Whoever filed a report is told of its approval.                           *)

(* A report stays, with who filed it; only a decision on a report that was   *)
(* not approved when it was read approves it.                                *)
Grown ==
    \A r \in Reports : reports[r] # None => reports'[r] # None /\ reports'[r].by = reports[r].by
IsApproved(r) == reports[r] # None /\ reports[r].status = "approved"

LEMMA ReportsStep ==
    ASSUME Sensible, TypeInv, [Next]_vars
    PROVE  /\ Grown
           /\ \A r \in Reports : IsApproved(r)' =>
                 \/ IsApproved(r)
                 \/ \E w \in Workers : /\ Save(w) /\ job[w].then.report = r
                                       /\ job[w].then.status = "approved"
                                       /\ job[w].then.was # "approved"
<1>1. ASSUME NEW w \in Workers, Save(w)
      PROVE  /\ Grown
             /\ \A r \in Reports : IsApproved(r)' =>
                   \/ IsApproved(r)
                   \/ /\ job[w].then.report = r /\ job[w].then.status = "approved"
                      /\ job[w].then.was # "approved"
  <2>1. PICK c : c = job[w]
    OBVIOUS
  <2>2. /\ c.then.report \in Reports /\ reports[c.then.report] # None
        /\ \A r \in Reports : reports'[r] = None <=> reports[r] = None
        /\ \A r \in Reports : reports[r] # None => reports'[r].by = reports[r].by
        /\ \A r \in Reports \ {c.then.report} : reports'[r] = reports[r]
        /\ IF c.then.status = c.then.was THEN reports' = reports
           ELSE reports'[c.then.report].status = c.then.status
    BY <1>1, <2>1, SaveIs
  <2>3. Grown
    BY <2>2 DEF Grown
  <2>4. ASSUME NEW r \in Reports, IsApproved(r)', ~ IsApproved(r)
        PROVE  /\ job[w].then.report = r /\ job[w].then.status = "approved"
               /\ job[w].then.was # "approved"
    <3>1. r = c.then.report /\ reports' # reports
      BY <2>2, <2>4 DEF IsApproved
    <3> QED BY <2>1, <2>2, <2>4, <3>1 DEF IsApproved
  <2> QED BY <2>3, <2>4
<1>2. ASSUME NEW w \in Workers, Commit(w)
      PROVE  Grown /\ \A r \in Reports : IsApproved(r)' => IsApproved(r)
  <2>1. PICK c : c = job[w]
    OBVIOUS
  <2>2. IF c.then.step = "file"
        THEN /\ c.then.report \in Reports /\ reports[c.then.report] = None
             /\ reports'[c.then.report] # None
             /\ reports'[c.then.report].status = "pending"
             /\ \A r \in Reports \ {c.then.report} : reports'[r] = reports[r]
        ELSE reports' = reports
    BY <1>2, <2>1, CommitIs
  <2> QED BY <2>2 DEF Grown, IsApproved
<1>3. ASSUME reports' = reports
      PROVE  Grown /\ \A r \in Reports : IsApproved(r)' => IsApproved(r)
  BY <1>3 DEF Grown, IsApproved
<1>4. ASSUME NEW w \in Workers, StartOf(w) \/ Acknowledge(w) \/ LookUp(w) \/ Insert(w) \/ Fail(w)
      PROVE  reports' = reports
  <2>1. StartOf(w) => reports' = reports
    BY StartsFresh DEF TypeInv, book
  <2> QED BY <1>4, <2>1 DEF Acknowledge, LookUp, Insert, Fail, book
<1>5. MembersAct => reports' = reports
  BY MembersKeep
<1>6. ASSUME ConcernsChange \/ NextDay \/ (\E u \in Users : SetRole(u)) \/ UNCHANGED vars
      PROVE  reports' = reports
  BY <1>6 DEF ConcernsChange, NextDay, SetRole, vars
<1> QED BY <1>1, <1>2, <1>3, <1>4, <1>5, <1>6 DEF Next, StartOf, MembersAct

LEMMA AckAbout == ASSUME NEW n \in AllNotices, IsAck(n) PROVE n.about[1] \in Reports
BY DEF AllNotices, ThingKinds, ScanKinds, IsAck

LEMMA FiledByKept ==
    ASSUME Grown, NEW u, NEW n \in AllNotices, IsAck(n), FiledBy(u, n)
    PROVE  reports'[n.about[1]] # None /\ u = reports'[n.about[1]].by
BY AckAbout DEF Grown, FiledBy

(* The new state of a job, whatever became of the reports. *)
AckJobNext(j) ==
    /\ \A p \in j.mine : IsAck(p[2]) => reports'[p[2].about[1]] # None
                                        /\ p[1] = reports'[p[2].about[1]].by
    /\ \A n \in j.todo : IsAck(n) => reports'[n.about[1]] # None
                                     /\ j.by = reports'[n.about[1]].by
    /\ \A u \in j.left : IsAck(j.now) => reports'[j.now.about[1]] # None
                                         /\ u = reports'[j.now.about[1]].by

LEMMA AckJobKept ==
    ASSUME Grown, NEW j \in JobRow, AckJob(j), j.left # {} => j.now \in AllNotices
    PROVE  AckJobNext(j)
<1>1. /\ \A p \in j.mine : p[2] \in AllNotices
      /\ \A n \in j.todo : n \in AllNotices
  BY DEF JobRow
<1>2. \A p \in j.mine : IsAck(p[2]) => reports'[p[2].about[1]] # None
                                       /\ p[1] = reports'[p[2].about[1]].by
  BY <1>1, FiledByKept DEF AckJob
<1>3. \A n \in j.todo : IsAck(n) => reports'[n.about[1]] # None
                                    /\ j.by = reports'[n.about[1]].by
  BY <1>1, FiledByKept DEF AckJob
<1>4. \A u \in j.left : IsAck(j.now) => reports'[j.now.about[1]] # None
                                        /\ u = reports'[j.now.about[1]].by
  BY FiledByKept DEF AckJob
<1> QED BY <1>2, <1>3, <1>4 DEF AckJobNext

LEMMA NowIsNotice ==
    ASSUME TypeInv, NEW w \in Workers, Open(w), job[w].left # {}
    PROVE  job[w].now \in AllNotices
BY JobIsRow DEF TypeInv, JobInv

(* A job that starts, or goes on, addresses acknowledgements as it should. *)
LEMMA AckJobStep ==
    ASSUME Sensible, TypeInv, AckInv, Grown, NEW w \in Workers,
           \/ StartOf(w) \/ Save(w) \/ Acknowledge(w) \/ LookUp(w) \/ Insert(w) \/ Commit(w)
           \/ Fail(w),
           NEW v \in Workers, Open(v)'
    PROVE  AckJobNext(job'[v])
<1>1. ASSUME Open(v) PROVE AckJobNext(job[v])
  BY <1>1, AckJobKept, JobIsRow, NowIsNotice DEF AckInv, TypeInv
<1>2. PICK c : c = job[w]
  OBVIOUS
<1>3. ASSUME NEW new, job' = [job EXCEPT ![w] = new], new # None => AckJobNext(new)
      PROVE  AckJobNext(job'[v])
  <2>1. job'[w] = new /\ \A x \in Workers \ {w} : job'[x] = job[x]
    BY <1>3, JobFrame DEF TypeInv
  <2> QED BY <1>1, <1>3, <2>1 DEF Open
<1>4. CASE StartOf(w)
  <2>1. PICK j : Fresh(j) /\ Start(w, j)
    BY <1>4, StartsFresh DEF TypeInv
  <2>2. job' = [job EXCEPT ![w] = j] /\ AckJobNext(j)
    BY <2>1 DEF Start, Fresh, AckJobNext
  <2> QED BY <1>3, <2>2
<1>5. CASE Save(w)
  <2>1. Open(w) /\ c \in JobRow /\ AckJobNext(c)
    BY <1>2, <1>5, SaveIs, AckJobKept, NowIsNotice DEF AckInv
  <2>2. PICK new \in JobRow \union {None} :
              /\ job' = [job EXCEPT ![w] = new]
              /\ new # None => /\ new.todo = c.todo /\ new.left = c.left /\ new.mine = c.mine
                               /\ new.by = c.by /\ new.now = c.now
                               /\ new.then.step = "acknowledge"
                               /\ new.then.report = c.then.report
    BY <1>2, <1>5, SaveJob
  <2>3. new # None => AckJobNext(new)
    BY <2>1, <2>2 DEF AckJobNext
  <2> QED BY <1>3, <2>2, <2>3
<1>6. CASE Acknowledge(w)
  <2>1. PICK r : r = c.then.report
    OBVIOUS
  <2>2. Open(w) /\ r \in Reports /\ reports[r] \in ReportRow
    BY <1>2, <1>6, <2>1, AcknowledgeIs
  <2>3. c \in JobRow /\ AckJobNext(c)
    BY <1>2, <2>2, JobIsRow, AckJobKept, NowIsNotice DEF AckInv, TypeInv
  <2>4. PICK new \in JobRow :
           /\ job' = [job EXCEPT ![w] = new]
           /\ new.todo = {Notice("damage_acknowledged", <<r, reports[r].status>>, 0)}
           /\ new.left = c.left /\ new.mine = c.mine /\ new.now = c.now
           /\ new.by = reports[r].by
           /\ new.then.step = "tell" /\ new.then.report = r
    BY <1>2, <1>6, <2>1, AcknowledgeIs
  <2>5. \A n \in new.todo : n.about[1] = r
    BY <2>4 DEF Notice
  <2>6. reports'[r] # None /\ reports'[r].by = reports[r].by
    BY <2>2 DEF Grown, Sensible
  <2>7. AckJobNext(new)
    BY <2>3, <2>4, <2>5, <2>6 DEF AckJobNext
  <2> QED BY <1>3, <2>4, <2>7
<1>7. CASE LookUp(w)
  <2>1. Open(w) /\ c \in JobRow
    BY <1>2, <1>7, LookUpIs, JobIsRow DEF TypeInv
  <2>2. AckJobNext(c)
    BY <1>2, <2>1, AckJobKept, NowIsNotice DEF AckInv
  <2>3. PICK n \in c.todo, new \in JobRow :
           /\ job' = [job EXCEPT ![w] = new]
           /\ new.todo = c.todo \ {n}
           /\ new.left = {u \in Targets(n, c.by) : <<u, n>> \notin Committed \union c.mine}
           /\ new.left # {} => new.now = n
           /\ new.mine = c.mine /\ new.by = c.by /\ new.then = c.then
    BY <1>2, <1>7, LookUpIs
  <2>4. ForOne(n.kind) => c.by \in Users
    BY <1>2, <2>1, <2>3 DEF TypeInv, JobInv
  <2>5. IsAck(n) => \A u \in new.left : u = c.by
    BY <2>3, <2>4, TargetsAre DEF TypeInv
  <2>6. AckJobNext(new)
    BY <2>2, <2>3, <2>5 DEF AckJobNext
  <2> QED BY <1>3, <2>3, <2>6
<1>8. CASE Insert(w)
  <2>1. PICK n : n = c.now
    OBVIOUS
  <2>2. Open(w) /\ c \in JobRow
    BY <1>2, <1>8, <2>1, InsertIs, JobIsRow DEF TypeInv
  <2>3. AckJobNext(c)
    BY <1>2, <2>2, AckJobKept, NowIsNotice DEF AckInv
  <2>4. PICK u \in c.left, new \in JobRow :
         /\ job' = [job EXCEPT ![w] = new]
         /\ \A pair \in OthersMine(w) : pair[2] # n
         /\ \/ /\ new.mine = c.mine
               /\ \E pair \in Committed \union c.mine : pair[2] = n
            \/ /\ new.mine = c.mine \union {<<u, n>>}
               /\ \A pair \in Committed \union c.mine : pair[2] # n
         /\ new.left = c.left \ {u} /\ (new.left # {} => new.now = n)
         /\ new.todo = c.todo /\ new.by = c.by /\ new.then = c.then
    BY <1>2, <1>8, <2>1, InsertIs
  <2>5. \A p \in new.mine : p \in c.mine \/ p = <<u, n>>
    BY <2>4
  <2>6. AckJobNext(new)
    BY <2>1, <2>3, <2>4, <2>5 DEF AckJobNext
  <2> QED BY <1>3, <2>4, <2>6
<1>9. CASE Commit(w)
  <2>1. PICK after : after = AfterCommit(c)
    OBVIOUS
  <2>2. c \in JobRow /\ job' = [job EXCEPT ![w] = after]
    BY <1>2, <1>9, <2>1, CommitIs
  <2>3. after # None => AckJobNext(after)
    BY <2>1, <2>2, AfterIs DEF AckJobNext, TypeInv
  <2> QED BY <1>3, <2>2, <2>3
<1>10. CASE Fail(w)
  BY <1>3, <1>10 DEF Fail
<1> QED BY <1>4, <1>5, <1>6, <1>7, <1>8, <1>9, <1>10

(* Rows are of who was told, and acknowledgements of who filed the report. *)
LEMMA RowsAddressed ==
    ASSUME TypeInv, AckInv, NEW row \in rows
    PROVE  /\ <<row.user, row.notice>> \in told /\ row.notice \in AllNotices
           /\ IsAck(row.notice) => FiledBy(row.user, row.notice)
BY DEF AckInv, Committed, TypeInv, ShapeInv, IsRow

LEMMA AckRows ==
    ASSUME Sensible, TypeInv, AckInv, Grown,
           \A w \in Workers : Open(w)' => AckJobNext(job'[w]),
           \A row \in rows' : /\ <<row.user, row.notice>> \in told'
                              /\ row.notice \in AllNotices
                              /\ IsAck(row.notice) => FiledBy(row.user, row.notice)
    PROVE  AckInv'
<1>1. Committed' \subseteq told'
  BY DEF Committed
<1>2. \A row \in rows' : IsAck(row.notice) => reports'[row.notice.about[1]] # None
                                              /\ row.user = reports'[row.notice.about[1]].by
  BY FiledByKept
<1>3. \A w \in Workers : Open(w)' => AckJob(job[w])'
  BY DEF AckJobNext, AckJob, FiledBy, IsAck
<1> QED BY <1>1, <1>2, <1>3 DEF AckInv, IsAck, FiledBy, Open

LEMMA AckNext == Sensible /\ TypeInv /\ AckInv /\ [Next]_vars => AckInv'
<1> SUFFICES ASSUME Sensible, TypeInv, AckInv, [Next]_vars PROVE AckInv'
  OBVIOUS
<1>1. Grown
  BY ReportsStep
<1>2. ASSUME UNCHANGED job PROVE \A w \in Workers : Open(w)' => AckJobNext(job'[w])
  BY <1>1, <1>2, AckJobKept, JobIsRow, NowIsNotice DEF AckInv, TypeInv, Open
<1>3. ASSUME NEW w \in Workers,
             \/ StartOf(w) \/ Save(w) \/ Acknowledge(w) \/ LookUp(w) \/ Insert(w) \/ Fail(w)
      PROVE  AckInv'
  <2>1. UNCHANGED <<rows, told>>
    <3>1. StartOf(w) => UNCHANGED <<rows, told>>
      BY StartsFresh DEF TypeInv, book
    <3> QED BY <1>3, <3>1 DEF Save, Acknowledge, LookUp, Insert, Fail, book
  <2>2. \A v \in Workers : Open(v)' => AckJobNext(job'[v])
    BY <1>1, <1>3, AckJobStep
  <2> QED BY <1>1, <2>1, <2>2, RowsAddressed, AckRows
<1>4. ASSUME NEW w \in Workers, Commit(w) PROVE AckInv'
  <2>1. PICK c : c = job[w]
    OBVIOUS
  <2>2. /\ Open(w) /\ c \in JobRow
        /\ \A row \in rows' : row \in rows \/
              \E p \in c.mine : row = [user |-> p[1], notice |-> p[2], copy |-> Copies(p),
                                       read |-> FALSE]
        /\ told' = told \union c.mine
    BY <1>4, <2>1, CommitIs
  <2>3. ASSUME NEW row \in rows'
        PROVE  /\ <<row.user, row.notice>> \in told' /\ row.notice \in AllNotices
               /\ IsAck(row.notice) => FiledBy(row.user, row.notice)
    <3>1. CASE row \in rows
      BY <2>2, <3>1, RowsAddressed
    <3>2. CASE row \notin rows
      <4>1. PICK p \in c.mine : row = [user |-> p[1], notice |-> p[2], copy |-> Copies(p),
                                      read |-> FALSE]
        BY <2>2, <3>2
      <4>2. p \in Users \X AllNotices
        BY <2>2 DEF JobRow
      <4>3. <<row.user, row.notice>> = p /\ row.user = p[1] /\ row.notice = p[2]
        BY <4>1, <4>2
      <4>4. IsAck(p[2]) => FiledBy(p[1], p[2])
        BY <2>1, <2>2 DEF AckInv, AckJob
      <4> QED BY <2>2, <4>2, <4>3, <4>4
    <3> QED BY <3>1, <3>2
  <2>4. \A v \in Workers : Open(v)' => AckJobNext(job'[v])
    BY <1>1, <1>4, AckJobStep
  <2> QED BY <1>1, <2>3, <2>4, AckRows
<1>5. CASE MembersAct
  <2>1. KeptRows /\ UNCHANGED <<job, told>>
    BY <1>5, MembersKeep
  <2>2. ASSUME NEW row \in rows'
        PROVE  /\ <<row.user, row.notice>> \in told' /\ row.notice \in AllNotices
               /\ IsAck(row.notice) => FiledBy(row.user, row.notice)
    <3>1. PICK old \in rows : row.user = old.user /\ row.notice = old.notice
      BY <2>1 DEF KeptRows
    <3> QED BY <2>1, <3>1, RowsAddressed
  <2> QED BY <1>1, <1>2, <2>1, <2>2, AckRows
<1>6. ASSUME ConcernsChange \/ NextDay \/ (\E u \in Users : SetRole(u)) \/ UNCHANGED vars
      PROVE  AckInv'
  <2>1. UNCHANGED <<rows, told, job>>
    BY <1>6 DEF ConcernsChange, NextDay, SetRole, vars
  <2> QED BY <1>1, <1>2, <2>1, RowsAddressed, AckRows
<1> QED BY <1>3, <1>4, <1>5, <1>6 DEF Next, StartOf, MembersAct

(* What a job is to tell it goes on telling, or it is told, unless the job is *)
(* cut off.                                                                  *)
Told(r) == <<reports[r].by, Approval(r)>> \in told

LEMMA ApprovalIs ==
    ASSUME NEW r \in Reports
    PROVE  /\ IsAck(Approval(r)) /\ Approval(r).about[1] = r
           /\ Approval(r).kind = "damage_acknowledged"
BY DEF Approval, Notice, IsAck

LEMMA TellingOthers ==
    ASSUME Grown, NEW r \in Reports, reports[r] # None, NEW w \in Workers, Telling(w, r),
           job'[w] = job[w]
    PROVE  Telling(w, r)'
BY DEF Telling, Open, Grown

LEMMA TellingLookUp ==
    ASSUME Sensible, TypeInv, AckInv, Grown, NEW r \in Reports, reports[r] # None,
           NEW w \in Workers, Telling(w, r), LookUp(w)
    PROVE  Telling(w, r)' \/ Told(r)
<1>1. PICK c : c = job[w]
  OBVIOUS
<1>2. PICK n \in c.todo, new \in JobRow :
         /\ job' = [job EXCEPT ![w] = new]
         /\ new.todo = c.todo \ {n}
         /\ new.left = {u \in Targets(n, c.by) : <<u, n>> \notin Committed \union c.mine}
         /\ new.left # {} => new.now = n
         /\ new.mine = c.mine /\ new.by = c.by /\ new.then = c.then
  BY <1>1, LookUpIs
<1>3. Open(w) /\ c.left = {} /\ job'[w] = new /\ Open(w)' /\ reports'[r].by = reports[r].by
  BY <1>1, <1>2, LookUpIs, JobFrame DEF TypeInv, Open, Sensible, Grown
<1>4. CASE c.then.step = "acknowledge"
  BY <1>1, <1>2, <1>3, <1>4 DEF Telling
<1>5. CASE <<reports[r].by, Approval(r)>> \in c.mine
  BY <1>1, <1>2, <1>3, <1>5 DEF Telling
<1>6. CASE Approval(r) \in c.todo /\ n # Approval(r)
  BY <1>1, <1>2, <1>3, <1>6 DEF Telling
<1>7. CASE n = Approval(r)
  <2>2. c.by = reports[r].by /\ ForOne(n.kind)
    BY <1>1, <1>2, <1>3, <1>7, ApprovalIs DEF AckInv, AckJob, FiledBy, ForOne
  <2>3. c.by \in Users
    BY <1>1, <1>2, <1>3, <2>2 DEF TypeInv, JobInv
  <2>4. Targets(n, c.by) = {c.by}
    BY <1>7, <2>3, ApprovalIs, TargetsAre DEF TypeInv
  <2>5. CASE <<c.by, n>> \in Committed
    BY <1>7, <2>2, <2>5 DEF AckInv, Told
  <2>6. CASE <<c.by, n>> \in c.mine
    BY <1>5, <1>7, <2>2, <2>6
  <2>7. CASE <<c.by, n>> \notin Committed \union c.mine
    <3>1. c.by \in new.left
      BY <1>2, <2>4, <2>7
    <3> QED BY <1>1, <1>2, <1>3, <1>7, <2>2, <3>1 DEF Telling
  <2> QED BY <2>5, <2>6, <2>7
<1> QED BY <1>1, <1>3, <1>4, <1>5, <1>6, <1>7 DEF Telling

LEMMA TellingInsert ==
    ASSUME Sensible, TypeInv, AckInv, Grown, NEW r \in Reports, reports[r] # None,
           NEW w \in Workers, Telling(w, r), Insert(w)
    PROVE  Telling(w, r)' \/ Told(r)
<1>1. PICK c : c = job[w]
  OBVIOUS
<1>2. PICK n : n = c.now
  OBVIOUS
<1>3. PICK u \in c.left, new \in JobRow :
         /\ job' = [job EXCEPT ![w] = new]
         /\ \A pair \in OthersMine(w) : pair[2] # n
         /\ \/ /\ new.mine = c.mine
               /\ \E pair \in Committed \union c.mine : pair[2] = n
            \/ /\ new.mine = c.mine \union {<<u, n>>}
               /\ \A pair \in Committed \union c.mine : pair[2] # n
         /\ new.left = c.left \ {u} /\ (new.left # {} => new.now = n)
         /\ new.todo = c.todo /\ new.by = c.by /\ new.then = c.then
  BY <1>1, <1>2, InsertIs
<1>4. Open(w) /\ c \in JobRow
  BY <1>1, <1>2, InsertIs, JobIsRow DEF TypeInv
<1>5. job'[w] = new /\ Open(w)' /\ reports'[r].by = reports[r].by
  BY <1>3, JobFrame DEF TypeInv, Open, Sensible, Grown
<1>6. CASE c.then.step = "acknowledge"
  BY <1>1, <1>3, <1>5, <1>6 DEF Telling
<1>7. CASE <<reports[r].by, Approval(r)>> \in new.mine
  BY <1>1, <1>3, <1>5, <1>7 DEF Telling
<1>8. CASE <<reports[r].by, Approval(r)>> \in c.mine
  BY <1>3, <1>7, <1>8
<1>9. CASE Approval(r) \in c.todo
  BY <1>1, <1>3, <1>5, <1>9 DEF Telling
<1>10. CASE n = Approval(r)
  <2>1. u = reports[r].by
    <3>1. IsAck(n) /\ n.about[1] = r
      BY <1>10, ApprovalIs
    <3>2. AckJob(c)
      BY <1>1, <1>4 DEF AckInv
    <3>4. FiledBy(u, n)
      BY <1>2, <1>3, <3>1, <3>2 DEF AckJob
    <3> QED BY <3>1, <3>4 DEF FiledBy
  <2>2. CASE new.mine = c.mine \union {<<u, n>>}
    BY <1>7, <1>10, <2>1, <2>2
  <2>3. ASSUME NEW pair \in c.mine, pair[2] = n
        PROVE  Telling(w, r)' \/ Told(r)
    <3>1. pair \in Users \X AllNotices
      BY <1>4 DEF JobRow
    <3>2. pair[1] = reports[r].by
      BY <1>1, <1>4, <1>10, <2>3, ApprovalIs DEF AckInv, AckJob, FiledBy
    <3>3. pair = <<reports[r].by, Approval(r)>>
      BY <1>10, <2>3, <3>1, <3>2
    <3> QED BY <1>8, <3>3
  <2>4. ASSUME NEW pair \in Committed, pair[2] = n
        PROVE  Told(r)
    <3>1. PICK row \in rows : pair = <<row.user, row.notice>>
      BY DEF Committed
    <3>2. row.notice = n /\ row.user = reports[r].by
      BY <1>10, <2>4, <3>1, ApprovalIs DEF AckInv, FiledBy
    <3> QED BY <1>10, <2>4, <3>1, <3>2 DEF AckInv, Told
  <2> QED BY <1>3, <2>2, <2>3, <2>4
<1> QED BY <1>1, <1>2, <1>4, <1>6, <1>8, <1>9, <1>10 DEF Telling

(* What is told stays told, and an approval that was cut off stays so. *)
LEMMA ToldGrows ==
    ASSUME Sensible, TypeInv, [Next]_vars
    PROVE  told \subseteq told' /\ interrupted \subseteq interrupted'
<1>1. ASSUME NEW w \in Workers, StartOf(w) PROVE UNCHANGED <<told, interrupted>>
  BY <1>1, StartsFresh DEF TypeInv, book
<1>2. MembersAct => UNCHANGED <<told, interrupted>>
  BY MembersKeep
<1>3. ASSUME NEW w \in Workers,
             Save(w) \/ Acknowledge(w) \/ LookUp(w) \/ Insert(w) \/ Commit(w) \/ Fail(w)
      PROVE  told \subseteq told' /\ interrupted \subseteq interrupted'
  BY <1>3 DEF Save, Acknowledge, LookUp, Insert, Commit, Fail, book
<1>4. ASSUME ConcernsChange \/ NextDay \/ (\E u \in Users : SetRole(u)) \/ UNCHANGED vars
      PROVE  UNCHANGED <<told, interrupted>>
  BY <1>4 DEF ConcernsChange, NextDay, SetRole, vars
<1> QED BY <1>1, <1>2, <1>3, <1>4 DEF Next, StartOf, MembersAct

LEMMA TellingStep ==
    ASSUME Sensible, TypeInv, AckInv, [Next]_vars, NEW r \in Reports, reports[r] # None,
           reports[r].status = "approved", r \notin interrupted',
           NEW w \in Workers, Telling(w, r)
    PROVE  Telling(w, r)' \/ Told(r)'
<1>1. Grown
  BY ReportsStep
<1>2. Open(w) /\ job[w].then.report = r /\ job[w].then.step \in {"acknowledge", "tell"}
  BY DEF Telling
<1>3. Told(r) => Told(r)'
  BY <1>1, ToldGrows DEF Told, Grown
<1>4. ASSUME job'[w] = job[w] PROVE Telling(w, r)'
  BY <1>1, <1>4, TellingOthers
<1>5. ASSUME NEW v \in Workers, StartOf(v) PROVE Telling(w, r)'
  <2>1. PICK j : Start(v, j)
    BY <1>5, StartsFresh DEF TypeInv
  <2>2. v # w /\ job' = [job EXCEPT ![v] = j]
    BY <1>2, <2>1 DEF Start, Open
  <2> QED BY <1>4, <2>2, JobFrame DEF TypeInv
<1>6. ASSUME NEW v \in Workers \ {w},
             Save(v) \/ Acknowledge(v) \/ LookUp(v) \/ Insert(v) \/ Commit(v) \/ Fail(v)
      PROVE  job'[w] = job[w]
  BY <1>6 DEF Save, Acknowledge, LookUp, Insert, Commit, Fail, TypeInv, ShapeInv
<1>7. ~ Save(w)
  BY <1>2 DEF Save
<1>8. CASE Acknowledge(w)
  <2>1. PICK c : c = job[w]
    OBVIOUS
  <2>2. PICK new \in JobRow :
           /\ job' = [job EXCEPT ![w] = new]
           /\ new.todo = {Notice("damage_acknowledged", <<r, reports[r].status>>, 0)}
           /\ new.left = c.left /\ new.mine = c.mine /\ new.now = c.now
           /\ new.by = reports[r].by
           /\ new.then.step = "tell" /\ new.then.report = r
    BY <1>2, <1>8, <2>1, AcknowledgeIs
  <2>3. job'[w] = new /\ Open(w)'
    BY <2>2, JobFrame DEF TypeInv, Open, Sensible
  <2>4. Approval(r) \in new.todo
    BY <2>2 DEF Approval
  <2> QED BY <2>2, <2>3, <2>4 DEF Telling
<1>9. CASE LookUp(w)
  BY <1>1, <1>3, <1>9, TellingLookUp
<1>10. CASE Insert(w)
  BY <1>1, <1>3, <1>10, TellingInsert
<1>11. CASE Commit(w)
  <2>1. <<reports[r].by, Approval(r)>> \in job[w].mine
    BY <1>11 DEF Commit, Telling
  <2>2. told' = told \union job[w].mine
    BY <1>11 DEF Commit
  <2> QED BY <1>1, <2>1, <2>2 DEF Told, Grown
<1>12. ~ Fail(w)
  BY <1>2 DEF Fail
<1>13. MembersAct => job' = job
  BY MembersKeep
<1>14. ASSUME ConcernsChange \/ NextDay \/ (\E u \in Users : SetRole(u)) \/ UNCHANGED vars
       PROVE  job' = job
  BY <1>14 DEF ConcernsChange, NextDay, SetRole, vars
<1> QED
  BY <1>4, <1>5, <1>6, <1>7, <1>8, <1>9, <1>10, <1>11, <1>12, <1>13, <1>14
     DEF Next, StartOf, MembersAct

LEMMA ToldNext == Sensible /\ TypeInv /\ AckInv /\ ToldInv /\ [Next]_vars => ToldInv'
<1> SUFFICES ASSUME Sensible, TypeInv, AckInv, ToldInv, [Next]_vars,
                    NEW r \in Reports, IsApproved(r)', r \notin interrupted'
             PROVE  Told(r)' \/ \E w \in Workers : Telling(w, r)'
  BY DEF ToldInv, IsApproved, Told
<1>1. Grown
  BY ReportsStep
<1>2. interrupted \subseteq interrupted' /\ (Told(r) /\ reports[r] # None => Told(r)')
  BY <1>1, ToldGrows DEF Told, Grown
<1>3. CASE IsApproved(r)
  <2>1. Told(r) \/ \E w \in Workers : Telling(w, r)
    BY <1>2, <1>3 DEF ToldInv, IsApproved, Told
  <2> QED BY <1>2, <1>3, <2>1, TellingStep DEF IsApproved
<1>4. CASE ~ IsApproved(r)
  <2>1. PICK w \in Workers : /\ Save(w) /\ job[w].then.report = r
                             /\ job[w].then.status = "approved"
                             /\ job[w].then.was # "approved"
    BY <1>4, ReportsStep
  <2>2. PICK c : c = job[w]
    OBVIOUS
  <2>3. PICK new \in JobRow \union {None} :
              /\ job' = [job EXCEPT ![w] = new]
              /\ c.then.status = "approved" /\ c.then.was # "approved" => new # None
              /\ new # None => /\ new.todo = c.todo /\ new.left = c.left /\ new.mine = c.mine
                               /\ new.by = c.by /\ new.now = c.now
                               /\ new.then.step = "acknowledge"
                               /\ new.then.report = c.then.report
    BY <2>1, <2>2, SaveJob
  <2>4. job'[w] = new /\ new # None
    BY <2>1, <2>2, <2>3, JobFrame DEF TypeInv
  <2>5. Telling(w, r)'
    BY <2>1, <2>2, <2>3, <2>4 DEF Telling, Open
  <2> QED BY <2>5
<1> QED BY <1>3, <1>4

(* Once nobody is deciding on it, an approved report has been acknowledged to *)
(* the member who filed it, in whatever order any number of decisions        *)
(* overlapped, were taken back and taken again, unless the process stopped   *)
(* between a decision and its notice.                                        *)
THEOREM ApprovalIsTold == Sensible => (Spec => []ApprovedIsTold)
<1> SUFFICES ASSUME Sensible PROVE Spec => []ApprovedIsTold
  OBVIOUS
<1>1. Init => AckInv /\ ToldInv
  BY DEF Init, AckInv, ToldInv, Committed, Open
<1>2. TypeInv /\ AckInv /\ ToldInv /\ [Next]_vars => (TypeInv /\ AckInv /\ ToldInv)'
  BY TypeNext, AckNext, ToldNext
<1>3. ToldInv => ApprovedIsTold
  BY DEF ToldInv, ApprovedIsTold, Telling, Open, Approval
<1> QED BY <1>1, <1>2, <1>3, TypeInit, PTL DEF Spec
=============================================================================
