----------------------------- MODULE MCWorkspace -----------------------------
(* The components around the ledger and the purchases, each on a small        *)
(* instance of its own: a behaviour stays in the mode it starts in, and the   *)
(* variables of the other components stay None.                               *)
EXTENDS PurchaseCreation

CONSTANTS NoLine, NoLog,
          i1, i2, a1,                   \* items and an audit
          Boss, u1, w1, w2,             \* users and request workers
          b1, b2, s1, s2, c1, c2, t1, t2, t3, p1, p2, r1, r2, k1,
          Clerk, Laptop, Phone, Server, Standby

VARIABLES mode,
    stock, audits, delivered, moves,                                \* StockCounts
    accounts, sessions, resets, revoked, granted,                   \* Accounts
    brokers, supplier, links, categories, type, defaults, memory, refused,  \* Directory
    version, generation, cache, lastGood, reader, writer, answer, announced, now,
    writes, kinds,                                                  \* ReadCache
    status, total, paid, due, today,                                \* Payments
    purchase, logged, used, net, count, reorder,                    \* StockViews
    roles, concerns, reports, notices, job, told, meant, interrupted,  \* Notices
    catalog, call, asked,                                           \* ItemCodes
    templates, completions, activity, assigned, serving,            \* Checklists
    files, running, second, runs, edits,                            \* Backups
    enabled, stored, sendings, received, forced, unheard,           \* OrderMessages
    row, line, atHand, spent, moved, serves, loaded, applied,       \* PurchaseDelivery
    memberships, entries, boot, overlapped,                         \* Seeding
    day, request, item, purchases, changes, logs                    \* of several

counting == <<stock, audits, delivered, moves>>
access == <<accounts, sessions, resets, revoked, granted>>
directory == <<brokers, supplier, links, categories, type, defaults, memory, refused>>
caching == <<version, generation, cache, lastGood, reader, writer, answer, announced, now,
             writes, kinds>>
paying == <<status, total, paid, due, today>>
viewing == <<purchase, logged, used, net, count, reorder>>
creating == <<rows, bought, dayOld, lastTrade, known, pc, req, number, seen, restarts>>
noticing == <<roles, concerns, reports, notices, job, told, meant, interrupted>>
coding == <<catalog, call, asked>>
ticking == <<templates, completions, activity, assigned, serving>>
saving == <<files, running, second, runs, edits>>
sending == <<enabled, stored, sendings, received, forced, unheard>>
delivering == <<row, line, atHand, spent, moved, serves, loaded, applied>>
seeding == <<memberships, entries, boot, overlapped>>
shared == <<day, request, requests, item, purchases, changes, logs>>
mcVars == <<mode, counting, access, directory, caching, paying, viewing, creating, noticing,
            coding, ticking, saving, sending, delivering, seeding, shared>>

(* A component owns some of the variables; the others are None, or empty, and *)
(* stay so.                                                                   *)
Unused(own) ==
    /\ IF "counting" \in own THEN TRUE ELSE
           stock = None /\ audits = None /\ delivered = None /\ moves = None
    /\ IF "access" \in own THEN TRUE ELSE
           /\ accounts = None /\ sessions = None /\ resets = None
           /\ revoked = None /\ granted = None
    /\ IF "directory" \in own THEN TRUE ELSE
           /\ brokers = None /\ supplier = None /\ links = None /\ categories = None
           /\ type = None /\ defaults = None /\ memory = None /\ refused = None
    /\ IF "caching" \in own THEN TRUE ELSE
           /\ version = None /\ generation = None /\ cache = None /\ lastGood = None
           /\ reader = None /\ writer = None /\ answer = None /\ announced = None
           /\ now = None /\ writes = None /\ kinds = None
    /\ IF "paying" \in own THEN TRUE ELSE
           status = None /\ total = None /\ paid = None /\ due = None /\ today = None
    /\ IF "viewing" \in own THEN TRUE ELSE
           /\ purchase = None /\ logged = None /\ used = None /\ net = None
           /\ count = None /\ reorder = None
    /\ IF "creating" \in own THEN TRUE ELSE
           /\ rows = <<>> /\ bought = [s \in Suppliers |-> 0]
           /\ dayOld = None /\ lastTrade = None /\ known = None /\ pc = None
           /\ req = None /\ number = None /\ seen = None /\ restarts = None
    /\ IF "noticing" \in own THEN TRUE ELSE
           /\ roles = None /\ concerns = None /\ reports = None /\ notices = None /\ job = None
           /\ told = None /\ meant = None /\ interrupted = None
    /\ IF "coding" \in own THEN TRUE ELSE catalog = None /\ call = None /\ asked = None
    /\ IF "ticking" \in own THEN TRUE ELSE
           /\ templates = None /\ completions = None /\ activity = None
           /\ assigned = None /\ serving = None
    /\ IF "saving" \in own THEN TRUE ELSE
           files = None /\ running = None /\ second = None /\ runs = None /\ edits = None
    /\ IF "sending" \in own THEN TRUE ELSE
           /\ enabled = None /\ stored = None /\ sendings = None
           /\ received = None /\ forced = None /\ unheard = None
    /\ IF "delivering" \in own THEN TRUE ELSE
           /\ row = None /\ line = None /\ atHand = None /\ spent = None
           /\ moved = None /\ serves = None /\ loaded = None /\ applied = None
    /\ IF "seeding" \in own THEN TRUE ELSE
           memberships = None /\ entries = None /\ boot = None /\ overlapped = None
    /\ IF "day" \in own THEN TRUE ELSE day = None
    /\ IF "request" \in own THEN TRUE ELSE request = None
    /\ IF "requests" \in own THEN TRUE ELSE requests = None
    /\ IF "item" \in own THEN TRUE ELSE item = None
    /\ IF "purchases" \in own THEN TRUE ELSE purchases = None
    /\ IF "changes" \in own THEN TRUE ELSE changes = None
    /\ IF "logs" \in own THEN TRUE ELSE logs = None

-----------------------------------------------------------------------------
TwoItems == {i1, i2}
OneItem == {i1}
OneAudit == {a1}
Members == {Boss, u1}
OneWorker == {w1}
TwoWorkers == {w1, w2}
TwoReaders == {r1, r2}
OnePurchase == {p1}
TwoPurchases == {p1, p2}
TwoCategories == {c1, c2}
TwoTypes == {t1, t2}
ThreeTypes == {t1, t2, t3}

(* An audit of two items, one of one item by overlapping requests, and use    *)
(* and deliveries of one item over two days.                                  *)
Auditing == INSTANCE StockCounts WITH
    Items <- TwoItems, Workers <- OneWorker, Audits <- OneAudit, Opening <- 4,
    Counts <- {3, 8}, Used <- {0, 2}, ApprovalUnits <- 2, ApprovalShare <- 50,
    MaxRequests <- 4, MaxMoves <- 0, MaxDay <- 0
AuditingAtOnce == INSTANCE StockCounts WITH
    Items <- OneItem, Workers <- TwoWorkers, Audits <- OneAudit, Opening <- 4,
    Counts <- {3, 8}, Used <- {0}, ApprovalUnits <- 2, ApprovalShare <- 50,
    MaxRequests <- 3, MaxMoves <- 0, MaxDay <- 0
Using == INSTANCE StockCounts WITH
    Items <- OneItem, Workers <- OneWorker, Audits <- OneAudit, Opening <- 4,
    Counts <- {3, 8}, Used <- {0, 2}, ApprovalUnits <- 2, ApprovalShare <- 50,
    MaxRequests <- 2, MaxMoves <- 2, MaxDay <- 1

(* One request at a time by everyone who is signed in, and two at a time.     *)
Defaults == [owner |-> {"edit"}, admin |-> {"edit"}, staff |-> {}]
People == INSTANCE Accounts WITH
    Users <- Members, Workers <- OneWorker, Permissions <- {"edit"}, RoleDefaults <- Defaults,
    MaxRequests <- 5
Overlap == INSTANCE Accounts WITH
    Users <- Members, Workers <- TwoWorkers, Permissions <- {"edit"},
    RoleDefaults <- Defaults, MaxRequests <- 4

Listing == INSTANCE Directory WITH
    Workers <- OneWorker, Brokers <- {b1, b2}, Suppliers <- {s1}, Categories <- TwoCategories,
    Types <- ThreeTypes, Items <- OneItem, Purchases <- OnePurchase, MaxRequests <- 5

(* Two reports, or two lists, raced by two purchases; and one report over a   *)
(* longer time, with every kind of write.                                     *)
RaceReports == INSTANCE ReadCache WITH
    Readers <- TwoReaders, Writers <- TwoWorkers, Places <- {"report"}, WriteKinds <- {"purchase"},
    Ttl <- 1, Budget <- 1, MaxWrites <- 2, MaxTime <- 0
RaceLists == INSTANCE ReadCache WITH
    Readers <- TwoReaders, Writers <- TwoWorkers, Places <- {"list"}, WriteKinds <- {"purchase"},
    Ttl <- 1, Budget <- 1, MaxWrites <- 2, MaxTime <- 0
AgeReports == INSTANCE ReadCache WITH
    Readers <- {r1}, Writers <- OneWorker, Places <- {"report"},
    WriteKinds <- {"purchase", "movement", "contact"},
    Ttl <- 1, Budget <- 1, MaxWrites <- 1, MaxTime <- 3

(* Six bills: of catalogued items, weighed ones, an old line without saved    *)
(* totals, an item that is not in the catalog, without supplier, of no lines. *)
BillLine(name, i, unit, typed, qty, rate, perKg, weight, selling, amount, profit) ==
    [name |-> name, item |-> i, unit |-> unit, typed |-> typed, qty |-> qty, rate |-> rate,
     perKg |-> perKg, weight |-> weight, selling |-> selling, total |-> amount,
     profit |-> profit]
Soap == BillLine("soap", i1, "box", TRUE, 2, 10, 0, 0, 12, 21, 2)
Rice == BillLine("rice", i2, "bag", TRUE, 3, 20, 4, 5, None, 60, None)
Old == BillLine("rice", i2, "bag", FALSE, 1, 20, 2, 5, 22, None, None)
Loose == BillLine("sugar", None, "kg", TRUE, 4, 5, 0, 0, 6, 20, 4)
Bill(st, s, b, d, ls) ==
    [status |-> st, supplier |-> s, broker |-> b, day |-> d, lines |-> ls,
     delivered |-> FALSE]
SomeBills ==
    {Bill("confirmed", s1, b1, 1, {Soap, Rice}), Bill("confirmed", s2, None, 2, {Rice, Loose}),
     Bill("draft", None, None, 1, {Soap}), Bill("confirmed", s1, None, 2, {Old, Soap}),
     Bill("saved", None, b1, 2, {Loose}), Bill("confirmed", s2, b1, 1, {})}
Sums == INSTANCE Reports WITH
    Bills <- SomeBills, Purchases <- TwoPurchases, Items <- TwoItems, Categories <- TwoCategories,
    Types <- {t1}, Suppliers <- {s1, s2}, Brokers <- {b1}, Days <- 1..2, MaxChanges <- 1

Paying == INSTANCE Payments WITH
    Workers <- OneWorker, Totals <- {0, 5, 10}, Terms <- {None, 0, 1}, MaxDay <- 2,
    MaxRequests <- 3

Views == INSTANCE StockViews WITH
    Items <- OneItem, Purchases <- TwoPurchases, Units <- {"bag", "kg"},
    KgPerBag <- [i \in OneItem |-> 5], Levels <- {0, 4},
    Quantities <- {1, 2}, DelayDays <- 1, TruckDays <- 0, MaxDay <- 1, MaxChanges <- 4,
    bought <- logged

(* The purchases' handlers one request at a time, and bills of similar totals; *)
(* two overlapping creations and cancellations on two processes are this       *)
(* module's own constants.                                                     *)
ServedBy == [w \in {Laptop, Phone} |-> IF w = Laptop THEN Server ELSE Standby]
Sequence == INSTANCE PurchaseCreation WITH
    Workers <- {Clerk}, Processes <- {Server}, ProcessOf <- [w \in {Clerk} |-> Server],
    Keys <- {}, Days <- {1}, Totals <- {10}, MaxRequests <- 4, MaxRestarts <- 0,
    Kinds <- AllKinds, NewStatuses <- {"draft", "confirmed"}
Similar == INSTANCE PurchaseCreation WITH
    Workers <- {Clerk}, Processes <- {Server}, ProcessOf <- [w \in {Clerk} |-> Server],
    Keys <- {k1}, Days <- {1}, Totals <- {10, 11, 12}, MaxRequests <- 3, MaxRestarts <- 0,
    Kinds <- {"create", "cancel"}, NewStatuses <- {"confirmed"}

(* Jobs and edits of stock that emit notices to two members over two days;    *)
(* and a damage report with overlapping decisions.                            *)
Scans == INSTANCE Notices WITH
    Users <- Members, Workers <- TwoWorkers, Reports <- {}, ClientKeys <- {},
    Concerns <- {<<"low_stock", i1>>, <<"delivery_idle", p1>>},
    MaxDay <- 1, MaxRequests <- 2, rows <- notices
Decisions == INSTANCE Notices WITH
    Users <- Members, Workers <- TwoWorkers, Reports <- {r1}, ClientKeys <- {k1},
    Concerns <- {}, MaxDay <- 0, MaxRequests <- 3, rows <- notices

(* Codes and barcodes, one request at a time and two.                         *)
Coding == INSTANCE ItemCodes WITH
    Items <- TwoItems, Workers <- OneWorker, Words <- {}, MaxNumber <- 3, MaxRequests <- 4
CodingAtOnce == INSTANCE ItemCodes WITH
    Items <- TwoItems, Workers <- TwoWorkers, Words <- {}, MaxNumber <- 2, MaxRequests <- 3

Lists == INSTANCE Checklists WITH
    Users <- {u1}, Workers <- TwoWorkers, Tasks <- TwoCategories, Defaults <- {c1},
    Assignments <- {t1}, MaxDay <- 1, MaxRequests <- 3

Saving == INSTANCE Backups WITH
    Purchases <- TwoPurchases, Workers <- OneWorker, Keep <- 1, Span <- 2, MaxZip <- 1,
    MaxRows <- 1, MaxDay <- 2, MaxRuns <- 2, MaxEdits <- 1

(* Orders sent one at a time and two at a time; one of them is of no purchase. *)
Sending == INSTANCE OrderMessages WITH
    Orders <- TwoPurchases, Lost <- {p2}, Workers <- OneWorker, MaxAttempts <- 2, MaxRequests <- 3,
    call <- sendings
SendingAtOnce == INSTANCE OrderMessages WITH
    Orders <- OnePurchase, Lost <- {}, Workers <- TwoWorkers, MaxAttempts <- 2, MaxRequests <- 2,
    call <- sendings

Bootstraps == INSTANCE Seeding WITH
    Users <- Members, Workspaces <- {a1, i1}, Workers <- TwoWorkers,
    Defaults <- {<<"supplier", s1>>, <<"category", c1>>}, Mandatory <- {<<"category", c2>>},
    MaxRequests <- 3

(* One purchase by every handler, one request at a time.                      *)
EveryHandler == {"dispatch", "arrive", "verify", "commit", "patch_delivery", "cancel", "delete",
                 "update", "lifecycle", "pay"}
Delivering == INSTANCE PurchaseDelivery WITH
    Workers <- {Clerk}, Handlers <- EveryHandler, Ordered <- {1, 2}, Counted <- {0, 1, 2},
    OpeningQty <- 0, MaxUsed <- 1, MaxRequests <- 8,
    StartStatuses <- {"active", "supplier_confirmed"}, NoCount <- None, NotLoaded <- None,
    stock <- atHand, used <- spent, pc <- serves, seen <- loaded

(* Two items and two purchases by three names, one request at a time, "grain" *)
(* above rice; and two requests at a time.                                    *)
Naming == INSTANCE Searches WITH
    Items <- TwoItems, Workers <- OneWorker, Types <- TwoTypes, Names <- {"rice", "sugar", "grain"},
    Purchases <- TwoPurchases, MaxChanges <- 3,
    Above <- [t \in {t1, t2} |-> IF t = t1 THEN {"grain"} ELSE {}],
    Like <- [T \in SUBSET {"rice", "sugar", "grain"} |-> {"sugar"} \union T]
NamingAtOnce == INSTANCE Searches WITH
    Items <- TwoItems, Workers <- TwoWorkers, Types <- {t1}, Names <- {"rice", "sugar"},
    Purchases <- OnePurchase, MaxChanges <- 3,
    Above <- [t \in {t1} |-> {}], Like <- [T \in SUBSET {"rice", "sugar"} |-> T]

-----------------------------------------------------------------------------
InCounts == {"counts", "counts_at_once", "usage"}
InAccounts == {"accounts", "overlap"}
InCache == {"race_reports", "race_lists", "age_reports"}
InNames == {"names", "names_at_once"}
InCreation == {"creation", "sequence", "similar"}
InNotices == {"scans", "decisions"}
InCodes == {"codes", "codes_at_once"}
InOrders == {"orders", "orders_at_once"}

Own(m) ==
    CASE m \in InCounts -> {"counting", "day", "request", "requests", "logs"}
      [] m \in InAccounts -> {"access", "request", "requests"}
      [] m = "directory" -> {"directory", "request", "requests", "item", "purchases"}
      [] m \in InCache -> {"caching"}
      [] m = "reports" -> {"item", "purchases", "changes"}
      [] m \in InNames -> {"request", "item", "purchases", "changes"}
      [] m = "payments" -> {"paying", "request", "requests"}
      [] m = "views" -> {"viewing", "day", "item", "changes"}
      [] m \in InCreation -> {"creating", "requests"}
      [] m \in InNotices -> {"noticing", "day", "requests"}
      [] m \in InCodes -> {"coding"}
      [] m = "checklists" -> {"ticking", "day", "requests"}
      [] m = "backups" -> {"saving", "day", "purchases", "logs"}
      [] m \in InOrders -> {"sending", "requests", "logs"}
      [] m = "deliveries" -> {"delivering", "requests"}
      [] m = "bootstraps" -> {"seeding", "requests"}

MCInit ==
    /\ \/ mode = "counts" /\ Auditing!Init
       \/ mode = "counts_at_once" /\ AuditingAtOnce!Init
       \/ mode = "usage" /\ Using!Init
       \/ mode = "accounts" /\ People!Init
       \/ mode = "overlap" /\ Overlap!Init
       \/ mode = "directory" /\ Listing!Init
       \/ mode = "race_reports" /\ RaceReports!Init
       \/ mode = "race_lists" /\ RaceLists!Init
       \/ mode = "age_reports" /\ AgeReports!Init
       \/ mode = "reports" /\ Sums!Init
       \/ mode = "names" /\ Naming!Init
       \/ mode = "names_at_once" /\ NamingAtOnce!Init
       \/ mode = "payments" /\ Paying!Init
       \/ mode = "views" /\ Views!Init
       \/ mode = "creation" /\ Init
       \/ mode = "sequence" /\ Sequence!Init
       \/ mode = "similar" /\ Similar!Init
       \/ mode = "scans" /\ Scans!Init
       \/ mode = "decisions" /\ Decisions!Init
       \/ mode = "codes" /\ Coding!Init
       \/ mode = "codes_at_once" /\ CodingAtOnce!Init
       \/ mode = "checklists" /\ Lists!Init
       \/ mode = "backups" /\ Saving!Init
       \/ mode = "orders" /\ Sending!Init
       \/ mode = "orders_at_once" /\ SendingAtOnce!Init
       \/ mode = "deliveries" /\ Delivering!Init
       \/ mode = "bootstraps" /\ Bootstraps!Init
    /\ Unused(Own(mode))

MCNext ==
    /\ UNCHANGED mode
    /\ \/ /\ \/ mode = "counts" /\ Auditing!Next
             \/ mode = "counts_at_once" /\ AuditingAtOnce!Next
             \/ mode = "usage" /\ Using!Next
          /\ UNCHANGED <<access, directory, caching, paying, viewing, creating, noticing, coding,
                         ticking, saving, sending, delivering, seeding, item, purchases, changes>>
       \/ /\ \/ mode = "accounts" /\ People!Next
             \/ mode = "overlap" /\ Overlap!Next
          /\ UNCHANGED <<counting, directory, caching, paying, viewing, creating, noticing,
                         coding, ticking, saving, sending, delivering, seeding, day, item,
                         purchases, changes, logs>>
       \/ /\ mode = "directory" /\ Listing!Next
          /\ UNCHANGED <<counting, access, caching, paying, viewing, creating, noticing, coding,
                         ticking, saving, sending, delivering, seeding, day, changes, logs>>
       \/ /\ \/ mode = "race_reports" /\ RaceReports!Next
             \/ mode = "race_lists" /\ RaceLists!Next
             \/ mode = "age_reports" /\ AgeReports!Next
          /\ UNCHANGED <<counting, access, directory, paying, viewing, creating, noticing,
                         coding, ticking, saving, sending, delivering, seeding, day, request,
                         requests, item, purchases, changes, logs>>
       \/ /\ mode = "reports" /\ Sums!Next
          /\ UNCHANGED <<counting, access, directory, caching, paying, viewing, creating,
                         noticing, coding, ticking, saving, sending, delivering, seeding, day,
                         request, requests, logs>>
       \/ /\ \/ mode = "names" /\ Naming!Next
             \/ mode = "names_at_once" /\ NamingAtOnce!Next
          /\ UNCHANGED <<counting, access, directory, caching, paying, viewing, creating,
                         noticing, coding, ticking, saving, sending, delivering, seeding, day,
                         requests, logs>>
       \/ /\ mode = "payments" /\ Paying!Next
          /\ UNCHANGED <<counting, access, directory, caching, viewing, creating, noticing,
                         coding, ticking, saving, sending, delivering, seeding, day, item,
                         purchases, changes, logs>>
       \/ /\ mode = "views" /\ Views!Next
          /\ UNCHANGED <<counting, access, directory, caching, paying, creating, noticing,
                         coding, ticking, saving, sending, delivering, seeding, request,
                         requests, purchases, logs>>
       \/ /\ \/ mode = "creation" /\ Next
             \/ mode = "sequence" /\ Sequence!Next
             \/ mode = "similar" /\ Similar!Next
          /\ UNCHANGED <<counting, access, directory, caching, paying, viewing, noticing, coding,
                         ticking, saving, sending, delivering, seeding, day, request, item,
                         purchases, changes, logs>>
       \/ /\ \/ mode = "scans" /\ Scans!Next
             \/ mode = "decisions" /\ Decisions!Next
          /\ UNCHANGED <<counting, access, directory, caching, paying, viewing, creating, coding,
                         ticking, saving, sending, delivering, seeding, request, item, purchases,
                         changes, logs>>
       \/ /\ \/ mode = "codes" /\ Coding!Next
             \/ mode = "codes_at_once" /\ CodingAtOnce!Next
          /\ UNCHANGED <<counting, access, directory, caching, paying, viewing, creating,
                         noticing, ticking, saving, sending, delivering, seeding, day, request,
                         requests, item, purchases, changes, logs>>
       \/ /\ mode = "checklists" /\ Lists!Next
          /\ UNCHANGED <<counting, access, directory, caching, paying, viewing, creating,
                         noticing, coding, saving, sending, delivering, seeding, request, item,
                         purchases, changes, logs>>
       \/ /\ mode = "backups" /\ Saving!Next
          /\ UNCHANGED <<counting, access, directory, caching, paying, viewing, creating,
                         noticing, coding, ticking, sending, delivering, seeding, request,
                         requests, item, changes>>
       \/ /\ \/ mode = "orders" /\ Sending!Next
             \/ mode = "orders_at_once" /\ SendingAtOnce!Next
          /\ UNCHANGED <<counting, access, directory, caching, paying, viewing, creating,
                         noticing, coding, ticking, saving, delivering, delivering, seeding, day,
                         request, item, purchases, changes>>
       \/ /\ mode = "deliveries" /\ Delivering!Next
          /\ UNCHANGED <<counting, access, directory, caching, paying, viewing, creating,
                         noticing, coding, ticking, saving, sending, seeding, day, request, item,
                         purchases, changes, logs>>
       \/ /\ mode = "bootstraps" /\ Bootstraps!Next
          /\ UNCHANGED <<counting, access, directory, caching, paying, viewing, creating,
                         noticing, coding, ticking, saving, sending, delivering, day, request,
                         item, purchases, changes, logs>>

MCSpec == MCInit /\ [][MCNext]_mcVars

-----------------------------------------------------------------------------
(* The components' properties, each in the modes it is about.                 *)

(* Every component's variables stay within their types.                       *)
Typed ==
    CASE mode = "counts" -> Auditing!TypeOK
      [] mode = "counts_at_once" -> AuditingAtOnce!TypeOK
      [] mode = "usage" -> Using!TypeOK
      [] mode = "accounts" -> People!TypeOK
      [] mode = "overlap" -> Overlap!TypeOK
      [] mode = "directory" -> Listing!TypeOK
      [] mode = "race_reports" -> RaceReports!TypeOK
      [] mode = "race_lists" -> RaceLists!TypeOK
      [] mode = "age_reports" -> AgeReports!TypeOK
      [] mode = "reports" -> Sums!TypeOK
      [] mode = "names" -> Naming!TypeOK
      [] mode = "names_at_once" -> NamingAtOnce!TypeOK
      [] mode = "payments" -> Paying!TypeOK
      [] mode = "views" -> Views!TypeOK
      [] mode = "creation" -> TypeOK
      [] mode = "sequence" -> Sequence!TypeOK
      [] mode = "similar" -> Similar!TypeOK
      [] mode = "scans" -> Scans!TypeOK
      [] mode = "decisions" -> Decisions!TypeOK
      [] mode = "codes" -> Coding!TypeOK
      [] mode = "codes_at_once" -> CodingAtOnce!TypeOK
      [] mode = "checklists" -> Lists!TypeOK
      [] mode = "backups" -> Saving!TypeOK
      [] mode = "orders" -> Sending!TypeOK
      [] mode = "orders_at_once" -> SendingAtOnce!TypeOK
      [] mode = "deliveries" -> Delivering!TypeOK
      [] mode = "bootstraps" -> Bootstraps!TypeOK

(* One request at a time: a completed audit never changes and never moves     *)
(* stock again, however its lines are counted again, replaced and approved.   *)
CompletedIsFinal ==
    [][\A a \in {a1} : mode \in {"counts", "usage"} /\ audits[a].status = "completed"
           => /\ audits'[a] = audits[a]
              /\ \A i \in {i1, i2} : mode = "counts" => ~Auditing!Approvable(audits[a], i)
       ]_counting

(* One request at a time: a session revoked when its account was closed, or   *)
(* given a new password by an owner or admin, is never accepted again.        *)
RevokedStaysRevoked == mode = "accounts" => People!RevokedStaysRevoked

(* One request at a time: a member's permissions are those of the role or     *)
(* were given in it.                                                          *)
PermissionsAreGranted == mode = "accounts" => People!PermissionsAreGranted

(* A deleted account never comes back, even when requests overlap.            *)
DeletedStaysDeleted ==
    [][(mode \in InAccounts) =>
         \A u \in {Boss, u1} : accounts[u] # None /\ accounts[u].deleted
             => accounts'[u].deleted]_accounts

(* An item's type is always one of its category.                              *)
TypeInCategory == mode = "directory" => Listing!TypeInCategory

(* An item leaves the catalog only by a request to delete that item.          *)
ItemsLeaveOnlyByDeletion ==
    [][mode = "directory" /\ item[i1] # None /\ item'[i1] = None =>
         Listing!Serving(w1, "delete item") /\ Listing!Args(w1).item = i1]_item

(* Deletions fail at the database only because of past purchases.             *)
DeletesFailForHistoryOnly == mode = "directory" => Listing!DeletesFailForHistoryOnly

(* Whoever saw a purchase saved sees it in every report and list asked for    *)
(* afterwards.                                                                *)
ReadsSeePurchases ==
    /\ mode = "race_reports" => RaceReports!ReadsSeePurchases
    /\ mode = "race_lists" => RaceLists!ReadsSeePurchases

(* An answer not marked degraded is not older than an entry may be.           *)
StaleForTtlOnly == mode = "age_reports" => AgeReports!StaleForTtlOnly

(* Every breakdown of a period adds up to the same spend and quantity, and    *)
(* the page of a supplier, item or category shows what the breakdowns say.    *)
ReportsAgree == mode = "reports" => Sums!ReportsAgree /\ Sums!PagesAgree

(* Profit is the same by whatever it is grouped.                              *)
ProfitsAgree == mode = "reports" => Sums!ProfitsAgree

(* One request at a time: no purchase is paid more than it costs.             *)
PaidWithinTotal == mode = "payments" => Paying!PaidWithinTotal

(* What the database selects for a payment filter is shown by the list; what  *)
(* is listed under a name is found by it and, one request at a time, alone    *)
(* has it in its type.                                                        *)
ListsAreWhole ==
    /\ mode = "payments" => Paying!NoShortPages
    /\ mode = "names" => Naming!NamesUnique /\ Naming!ItemsAreFound /\ Naming!PurchasesAreFound
    /\ mode = "names_at_once" => NamingAtOnce!ItemsAreFound /\ NamingAtOnce!PurchasesAreFound

(* Whatever page asks, an item has the same stock status, and the same        *)
(* purchases are on their way.                                                *)
ViewsAgree == mode = "views" => Views!StatusesAgree /\ Views!TrucksAgree

(* One request at a time: an item's last trade is live.                       *)
LastTradeIsLiveInSequence == mode = "sequence" => Sequence!LastTradeIsLive

(* Nobody has the same notice twice, and the badge counts what the list shows. *)
ToldOnce ==
    /\ mode = "scans" => Scans!ToldOnce /\ Scans!BadgeCountsTheList
    /\ mode = "decisions" => Decisions!ToldOnce /\ Decisions!BadgeCountsTheList

(* Whoever filed an approved damage report has been told.                     *)
ApprovedIsTold == mode = "decisions" => Decisions!ApprovedIsTold

(* A number handed out as a code was never another item's.                    *)
CodesAreFresh == mode = "codes" => Coding!CodesAreFresh

(* The label of an item finds that item.                                      *)
LabelsFindTheirItem ==
    /\ mode = "codes" => Coding!LabelsFindTheirItem
    /\ mode = "codes_at_once" => CodingAtOnce!LabelsFindTheirItem

(* A task ticked once a day shows once in the activity and in every list.     *)
TickedOnce == mode = "checklists" => Lists!TickedOnce

(* The newest backups are on disk, and what exports of a period hold agrees.  *)
BackupsAgree == mode = "backups" => Saving!KeptBackupsExist /\ Saving!ExportsAgree

(* An order reaches the supplier once, but for resends and lost answers, and  *)
(* a row that says so has its message.                                        *)
OrderReachesOnce ==
    /\ mode = "orders" => Sending!OrderReachesOnce /\ Sending!SentIsReceived
    /\ mode = "orders_at_once" => SendingAtOnce!SentIsReceived

(* One request at a time: a purchase marked committed has its stock in,       *)
(* through any sequence of arrivals, counts, commits, edits and revocations.  *)
CommittedInSequence == mode = "deliveries" => Delivering!CommittedIsInStock

(* Nobody gets a second workspace and no default entry is there twice.        *)
SeededOnce == mode = "bootstraps" => Bootstraps!SeededOnce
=============================================================================
