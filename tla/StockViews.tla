------------------------------ MODULE StockViews ------------------------------
(***************************************************************************)
(* What the stock pages say: services/stock_inventory.py and               *)
(* stock_helpers.py, which compute the figures of an item,                 *)
(* routers/stock/stock_list.py, stock_ops.py and stock_detail.py, which    *)
(* list and count the items, and low_stock_priority.py with                *)
(* low_stock_ops_enrichment.py, which rank the shortages.                  *)
(*                                                                         *)
(* Each query is an operator over the tables; the actions are the requests *)
(* that write them, one at a time and as far as the pages can tell.        *)
(* Names, searching, order, paging, money and the conversion of quantities *)
(* from one unit to another are left out.  Nothing in the program opens a  *)
(* dispute case or rejects an audit line, so an item is disputed when its  *)
(* last count differed.                                                    *)
(***************************************************************************)
EXTENDS Integers, FiniteSets, FiniteSetsExt

CONSTANTS
    Items, Purchases,
    Units,          \* units of the items: of "bag", "kg", "box", "tin", "piece"
    KgPerBag,       \* default_kg_per_bag of each item
    Levels,         \* reorder levels, in halves of a unit
    Quantities,     \* quantities bought, used and counted, in halves of a unit
    DelayDays,      \* a supplier is late after so many days
    TruckDays,      \* _DELIVERED_TRUCK_MAX_DAYS
    MaxDay,         \* bound: days that pass
    MaxChanges,     \* bound: requests
    None

VARIABLES
    item,           \* catalog_items
    purchase,       \* trade_purchases, one line each
    bought,         \* staff_purchase_logs of an item, by day
    used,           \* daily_usage_logs of an item, by day
    net,            \* sum of an item's stock_adjustment_logs but those of purchases
    count,          \* difference in an item's last physical count
    reorder,        \* how many entries of each status an item has in reorder_list
    day, changes

vars == <<item, purchase, bought, used, net, count, reorder, day, changes>>

One == 2            \* a whole unit
DayRange == 0..MaxDay
Statuses == {"draft", "confirmed", "verified", "verification_pending", "added_to_stock",
             "cancelled"}
Deliveries == {"pending", "arrived", "partial", "staff_verified", "stock_committed",
               "cancelled"}

(* unit is default_unit; stockUnit is the first of stock_unit, default_unit and *)
(* selling_unit that is set.  last is the purchase last_trade_purchase_id names, *)
(* since last_purchase_at.                                                      *)
Entries == {"pending", "ordered", "done"}
Item == [unit : Units, stockUnit : Units, stock : Nat, level : Levels, opening : Nat \union {None},
         archived : BOOLEAN, last : Purchases \union {None}, since : DayRange \union {None}]
(* moved holds the kinds of the purchase's movements, which their keys keep   *)
(* from being made again.                                                     *)
Purchase == [item : Items, qty : Nat, recv : Nat \union {None}, day : DayRange,
             status : Statuses, delivery : Deliveries, delivered : BOOLEAN,
             moved : SUBSET {"receive", "revert"}]

Init ==
    /\ item \in [Items -> [unit : Units, stockUnit : Units, stock : {0}, level : Levels,
                           opening : {None}, archived : {FALSE}, last : {None},
                           since : {None}]]
    /\ purchase = [p \in Purchases |-> None]
    /\ bought = [i \in Items |-> [d \in DayRange |-> 0]]
    /\ used = [i \in Items |-> [d \in DayRange |-> 0]]
    /\ net = [i \in Items |-> 0]
    /\ count = [i \in Items |-> None]
    /\ reorder = [i \in Items |-> [s \in Entries |-> 0]]
    /\ day = 0
    /\ changes = 0

-----------------------------------------------------------------------------
(* The figures of an item: stock_inventory.py, stock_helpers.py              *)

Larger(m, n) == IF m < n THEN n ELSE m
Distance(m, n) == IF m < n THEN n - m ELSE m - n

Status(i) ==
    LET cur == item[i].stock
        level == item[i].level
    IN IF cur = 0 THEN "out"
       ELSE IF level = 0 /\ cur < One THEN "low"
       ELSE IF level > 0 /\ 2 * cur <= level THEN "critical"
       ELSE IF level > 0 /\ cur <= level THEN "low"
       ELSE "healthy"

SaleUnits(p) == purchase[p].qty                     \* line_qty_in_stock_unit
StockUnits(p) ==                                    \* line_qty_for_stock_commit
    IF purchase[p].recv = None THEN purchase[p].qty ELSE purchase[p].recv

Live(p) == purchase[p] # None /\ purchase[p].status # "cancelled"
LinesOf(i) == {p \in Purchases : Live(p) /\ purchase[p].item = i /\ ~item[i].archived}

CommittedQty(i) ==
    MapThenSumSet(StockUnits, {p \in LinesOf(i) : purchase[p].delivery = "stock_committed"})

(* The sum of delivery_receive movements, whatever became of the purchase. *)
MovementQty(i) ==
    MapThenSumSet(StockUnits, {p \in Purchases : /\ purchase[p] # None
                                                 /\ purchase[p].item = i
                                                 /\ "receive" \in purchase[p].moved})
DeliveredQty(i) == Larger(MovementQty(i), CommittedQty(i))

(* _last_trade_meta_map *)
LastTrade(i) == IF item[i].last # None /\ Live(item[i].last) THEN item[i].last ELSE None

(* _lifetime_purchase_qty_maps, for the page of an item *)
LifetimePending(i) == {p \in LinesOf(i) : ~purchase[p].delivered}
(* _pending_order_meta_map, for the lists *)
PendingOrders(i) ==
    {p \in LinesOf(i) : purchase[p].delivery \notin {"stock_committed", "cancelled"}}
HasPending(i) == PendingOrders(i) # {}
PendingDays(i) == IF HasPending(i) THEN day - Min({purchase[p].day : p \in PendingOrders(i)})
                  ELSE 0

(* _classify_delivery_indicator *)
Indicator(i) ==
    IF HasPending(i) THEN "pending"
    ELSE IF LastTrade(i) = None THEN "none"
    ELSE IF purchase[LastTrade(i)].delivery # "stock_committed" THEN "pending"
    ELSE IF item[i].since # None /\ day - item[i].since > TruckDays THEN "none"
    ELSE "delivered"

Received == {"stock_committed", "partial", "staff_verified"}
ReceivedLines(i, from, to) ==
    {p \in LinesOf(i) : purchase[p].delivery \in Received /\ purchase[p].day \in from..to}
StaffBought(i, from, to) == MapThenSumSet(LAMBDA d : bought[i][d], from..to)
(* _period_purchased_map, _catalog_item_ids_purchased_in_period, _period_usage_map *)
Purchased(i, from, to) ==
    MapThenSumSet(SaleUnits, ReceivedLines(i, from, to)) + StaffBought(i, from, to)
PurchasedItems(from, to) ==
    {i \in Items : ReceivedLines(i, from, to) # {} \/ StaffBought(i, from, to) > 0}
Usage(i, from, to) == MapThenSumSet(LAMBDA d : used[i][d], from..to)

(* _ledger_variance_map *)
Variance(i) ==
    LET purchased == Purchased(i, 0, MaxDay)
        usage == Usage(i, 0, MaxDay)
    IN IF purchased = 0 /\ usage = 0 /\ net[i] = 0 THEN None
       ELSE item[i].stock - (purchased - usage + net[i])

(* The list asks for the variance only with include_ledger. *)
Verify(i, from, to, ledger) ==
    LET purchased == Purchased(i, from, to)
        off == IF ledger /\ Variance(i) # None THEN Distance(Variance(i), 0)
               ELSE Distance(item[i].stock, purchased)
    IN purchased > 0 /\ 10 * off > purchased

-----------------------------------------------------------------------------
(* The lists: stock_list.py, stock_ops.py                                    *)

Active == {i \in Items : ~item[i].archived}

(* _stock_status_sql_filter *)
Filter(i, status) ==
    LET cur == item[i].stock
        level == item[i].level
    IN CASE status = "out" -> cur <= 0
         [] status = "critical" -> level > 0 /\ cur > 0 /\ 2 * cur <= level
         [] status = "low" -> \/ level > 0 /\ 2 * cur > level /\ cur <= level
                              \/ level <= 0 /\ cur > 0 /\ cur < One
Shortage(i) == \E status \in {"out", "critical", "low"} : Filter(i, status)

(* _query_items, and the row of each item it finds *)
Listed(status, reorderOnly, only) ==
    {i \in Active \intersect only :
        /\ status = "all" \/ (status = "shortage" /\ Shortage(i))
              \/ (status \notin {"all", "shortage"} /\ Filter(i, status))
        /\ reorderOnly => item[i].level > 0 /\ item[i].stock <= item[i].level}
Row(i, from, to, ledger) ==
    [stock |-> item[i].stock, status |-> Status(i), purchased |-> Purchased(i, from, to),
     usage |-> Usage(i, from, to), verify |-> Verify(i, from, to, ledger),
     pending |-> PendingOrders(i), delivered |-> DeliveredQty(i), differs |-> count[i]]
ListPage(status, reorderOnly, inPeriod, from, to, ledger) ==
    {Row(i, from, to, ledger) :
        i \in Listed(status, reorderOnly, IF inPeriod THEN PurchasedItems(from, to) ELSE Items)}
TopLowStock == Listed("low", FALSE, Items)

(* _compute_delivery_indicator_counts *)
DeliveryCounts == [kind \in {"pending", "delivered"} |->
                      Cardinality({i \in Active : Indicator(i) = kind})]

(* compute_stock_alerts_summary, warehouse_alerts_from_stock *)
Alerts ==
    LET counted(test(_)) == Cardinality({i \in Active : test(i)})
    IN [low |-> counted(LAMBDA i : Filter(i, "low")),
        critical |-> counted(LAMBDA i : Filter(i, "critical")),
        out |-> counted(LAMBDA i : Filter(i, "out")),
        activeOut |-> counted(LAMBDA i : /\ Filter(i, "out")
                                         /\ \/ item[i].opening \notin {None, 0}
                                            \/ item[i].since # None),
        unlogged |-> Larger(0, Cardinality(Active)
                                 - Cardinality({i \in Items : used[i][day] > 0}))]
Awaited == {p \in Purchases : Live(p) /\ ~purchase[p].delivered}
WarehouseAlerts == [deliveries |-> Cardinality(Awaited), low |-> Alerts.low,
                    critical |-> Alerts.critical]

(* compute_low_stock_priority, item_is_disputed, derive_lifecycle_stage *)
Out(i) == Status(i) = "out"
Delayed(i) == HasPending(i) /\ PendingDays(i) >= DelayDays
Mismatch(i) == count[i] \notin {None, 0}
Disputed(i) == Mismatch(i)
EntriesOf(i) == {s \in Entries : reorder[i][s] > 0}
Band(i, from, to) ==
    IF Out(i) \/ Mismatch(i) \/ (Delayed(i) /\ PendingDays(i) >= 2 * DelayDays) THEN "critical"
    ELSE IF Delayed(i) \/ Verify(i, from, to, FALSE) THEN "high" ELSE "normal"
(* The stages a page may show: of several entries in reorder_list the status   *)
(* of the one read last stands, and they are read in no order.                 *)
Stages(i, from, to) ==
    CASE Out(i) -> {"out"}
      [] ~Out(i) /\ HasPending(i) -> {IF Delayed(i) THEN "delayed" ELSE "ordered"}
      [] ~Out(i) /\ ~HasPending(i) ->
            IF Verify(i, from, to, FALSE) THEN {"verification"}
            ELSE IF EntriesOf(i) # {}
            THEN {IF s = "pending" THEN "reorder_requested" ELSE "reorder_done" :
                     s \in EntriesOf(i)}
            ELSE {IF Status(i) \in {"low", "critical"} THEN "low" ELSE "attention"}

(* low_stock_operations_summary, low_stock_operations with its filters *)
LowStockSummary(from, to) ==
    LET found == Listed("shortage", FALSE, Items)
        counted(test(_)) == Cardinality({i \in found : test(i)})
    IN [attention |-> counted(LAMBDA i : Out(i) \/ Status(i) \in {"low", "critical"}),
        out |-> counted(Out), pending |-> counted(HasPending), delayed |-> counted(Delayed),
        mismatch |-> counted(Mismatch), disputed |-> counted(Disputed),
        verify |-> counted(LAMBDA i : Verify(i, from, to, FALSE))]
LowStockOperations(filter, from, to) ==
    {i \in Listed("shortage", FALSE, Items) :
        CASE filter = "all" -> TRUE
          [] filter = "low" -> Status(i) \in {"low", "critical"} /\ ~Out(i)
          [] filter = "out" -> Out(i)
          [] filter = "pending" -> HasPending(i)
          [] filter = "delayed" -> Delayed(i)
          [] filter = "disputed" -> Disputed(i)
          [] filter = "verification" -> Verify(i, from, to, FALSE)
          [] filter = "urgent" -> Band(i, from, to) \in {"critical", "high"}}
OperationsPage(filter, from, to) ==
    {[id |-> i, row |-> Row(i, from, to, FALSE), stages |-> Stages(i, from, to)] :
        i \in LowStockOperations(filter, from, to)}

(* The set-up of opening stock.  The page tests the status of an item to be   *)
(* the one asked for, so "shortage" finds nothing.                            *)
Unset(i) == item[i].opening = None
OpeningSummary == [pending |-> Cardinality({i \in Active : Unset(i)}),
                   completed |-> Cardinality({i \in Active : ~Unset(i)})]
OpeningSetup(setup, status) ==
    {i \in Active : /\ setup = "pending" => Unset(i)
                    /\ setup = "completed" => ~Unset(i)
                    /\ status # "all" => Status(i) = status}
MissingOpening == {i \in Active : Unset(i)}

(* compute_inventory_summary sorts the stock by its stock unit, with all that *)
(* is not in bags, boxes or tins under kg; stock_totals sorts it by the        *)
(* default unit, drops other units and adds the weight of the bags to the kg. *)
Buckets == {"bag", "box", "tin", "kg"}
Bucket(unit) == IF unit \in Buckets THEN unit ELSE "kg"
InStock(set) == MapThenSumSet(LAMBDA i : item[i].stock, set)
BagWeight ==
    MapThenSumSet(LAMBDA i : item[i].stock * KgPerBag[i], {i \in Active : item[i].unit = "bag"})
Inventory == [b \in Buckets |->
    InStock({i \in Active : Bucket(item[i].stockUnit) = b /\ item[i].stock > 0})]
StockTotals == [b \in Buckets |->
    InStock({i \in Active : item[i].unit = b}) + IF b = "kg" THEN BagWeight ELSE 0]

(* get_stock_item and get_stock_intelligence *)
StockPage(i, from, to) ==
    [row |-> Row(i, from, to, TRUE), delivered |-> DeliveredQty(i),
     pending |-> LifetimePending(i)]
Intelligence(i, from, to) ==
    [purchased |-> Purchased(i, from, to), variance |-> Variance(i),
     verify |-> Verify(i, from, to, TRUE),
     purchases |-> {p \in LinesOf(i) : purchase[p].status # "draft"}]
ReorderList(status) ==
    {i \in Active : status \in EntriesOf(i) \/ (status = "all" /\ EntriesOf(i) # {})}

-----------------------------------------------------------------------------
(* The requests.                                                             *)

Purchasing == UNCHANGED <<bought, used, net, count, reorder, day>>
SetRow(p, row) == purchase' = [purchase EXCEPT ![p] = row]
SetItem(i, row) == item' = [item EXCEPT ![i] = row]

(* create_trade_purchase *)
Create(p, i, qty, status) ==
    /\ purchase[p] = None
    /\ ~item[i].archived
    /\ SetRow(p, [item |-> i, qty |-> qty, recv |-> None, day |-> day, status |-> status,
                  delivery |-> "pending", delivered |-> FALSE, moved |-> {}])
    /\ SetItem(i, IF status = "confirmed" THEN [item[i] EXCEPT !.last = p] ELSE item[i])
    /\ Purchasing

Arrive(p) ==
    /\ Live(p) /\ purchase[p].delivery = "pending"
    /\ SetRow(p, [purchase[p] EXCEPT !.delivery = "arrived"])
    /\ UNCHANGED item
    /\ Purchasing

(* commit_trade_purchase_delivery, from row on; the row stays when the stock  *)
(* was received before, and a purchase that brings nothing is refused.        *)
Commit(p, row) ==
    LET gain == IF row.recv = None THEN row.qty ELSE row.recv
    IN \/ /\ "receive" \in row.moved
          /\ SetRow(p, row)
          /\ UNCHANGED item
       \/ /\ "receive" \notin row.moved
          /\ gain > 0 /\ ~item[row.item].archived
          /\ SetRow(p, [row EXCEPT !.delivery = "stock_committed", !.delivered = TRUE,
                                   !.status = "added_to_stock",
                                   !.moved = @ \union {"receive"}])
          /\ SetItem(row.item, [item[row.item] EXCEPT !.stock = @ + gain, !.since = day])

(* verify_trade_purchase_delivery; a full count is committed at once. *)
VerifyDelivery(p, counted) ==
    LET short == counted < purchase[p].qty
        row == [purchase[p] EXCEPT
                   !.recv = counted,
                   !.delivery = IF short THEN "partial" ELSE "staff_verified",
                   !.status = IF short THEN "verification_pending" ELSE "verified"]
    IN /\ Live(p) /\ purchase[p].delivery = "arrived"
       /\ IF short THEN SetRow(p, row) /\ UNCHANGED item ELSE Commit(p, row)
       /\ Purchasing
CommitDelivery(p) ==
    /\ Live(p) /\ purchase[p].delivery \in {"partial", "staff_verified"}
    /\ Commit(p, purchase[p])
    /\ Purchasing

(* revert_confirmed_purchase_stock: what a committed purchase takes back. *)
Reversible(p) ==
    purchase[p].delivered /\ StockUnits(p) > 0 /\ ~item[purchase[p].item].archived
Loss(p) == IF Reversible(p) /\ "revert" \notin purchase[p].moved THEN StockUnits(p) ELSE 0
TakenBack(p, row) ==
    [row EXCEPT !.moved = IF Reversible(p) THEN @ \union {"revert"} ELSE @]

(* patch_trade_purchase_delivery *)
PendingAgainKeeps(p) ==                  \* mutation: is_delivered is left
    [purchase[p] EXCEPT !.delivery = "pending"]
PendingAgain(p) == [purchase[p] EXCEPT !.delivery = "pending", !.delivered = FALSE]
RevertDelivery(p) ==
    /\ Live(p)
    /\ purchase[p].delivered => purchase[p].delivery = "stock_committed"
    /\ item[purchase[p].item].stock >= Loss(p)
    /\ SetRow(p, TakenBack(p, PendingAgain(p)))
    /\ SetItem(purchase[p].item, [item[purchase[p].item] EXCEPT !.stock = @ - Loss(p)])
    /\ Purchasing

(* cancel_trade_purchase with refresh_catalog_last_trade_snapshots *)
Latest(i, others) ==
    LET live == {q \in others : /\ Live(q) /\ purchase[q].item = i
                                /\ purchase[q].status # "draft"}
    IN IF live = {} THEN {None}
       ELSE {q \in live : \A r \in live : purchase[r].day <= purchase[q].day}
Cancel(p) ==
    /\ Live(p)
    /\ item[purchase[p].item].stock >= Loss(p)
    /\ SetRow(p, TakenBack(p, [purchase[p] EXCEPT !.status = "cancelled", !.delivered = FALSE,
                                                  !.delivery = "cancelled"]))
    /\ \E q \in Latest(purchase[p].item, Purchases \ {p}) :
          SetItem(purchase[p].item,
                  [item[purchase[p].item] EXCEPT
                      !.stock = @ - Loss(p), !.last = q, !.since = IF q = None THEN None ELSE @])
    /\ Purchasing

(* create_item_quick_purchase *)
QuickPurchase(i, qty) ==
    /\ ~item[i].archived
    /\ bought' = [bought EXCEPT ![i][day] = @ + qty]
    /\ SetItem(i, [item[i] EXCEPT !.stock = @ + qty])
    /\ UNCHANGED <<purchase, used, net, count, reorder, day>>

(* usage_submit *)
BoughtToday(i) ==
    MapThenSumSet(SaleUnits, {p \in LinesOf(i) : purchase[p].delivered /\ purchase[p].day = day})
SubmitUsage(i, qty) ==
    LET closing == Larger(item[i].stock, BoughtToday(i)) - qty
    IN /\ ~item[i].archived
       /\ closing >= 0
       /\ used' = [used EXCEPT ![i][day] = qty]
       /\ net' = [net EXCEPT ![i] = @ + closing - item[i].stock]
       /\ SetItem(i, [item[i] EXCEPT !.stock = closing])
       /\ UNCHANGED <<purchase, bought, count, reorder, day>>

(* record_physical_stock_count; update_physical_stock also sets the stock. *)
CountItem(i, qty, update) ==
    /\ ~item[i].archived
    /\ count' = [count EXCEPT ![i] = qty - item[i].stock]
    /\ IF update
       THEN /\ SetItem(i, [item[i] EXCEPT !.stock = qty])
            /\ net' = [net EXCEPT ![i] = @ + qty - item[i].stock]
       ELSE UNCHANGED <<item, net>>
    /\ UNCHANGED <<purchase, bought, used, reorder, day>>

(* set_opening_stock *)
SetOpening(i, qty) ==
    /\ ~item[i].archived /\ Unset(i)
    /\ SetItem(i, [item[i] EXCEPT !.stock = qty, !.opening = qty])
    /\ net' = [net EXCEPT ![i] = @ + qty - item[i].stock]
    /\ UNCHANGED <<purchase, bought, used, count, reorder, day>>

SetLevel(i, level) ==
    /\ ~item[i].archived
    /\ SetItem(i, [item[i] EXCEPT !.level = level])
    /\ UNCHANGED <<purchase, bought, used, net, count, reorder, day>>
Archive(i) ==
    /\ ~item[i].archived
    /\ SetItem(i, [item[i] EXCEPT !.archived = TRUE])
    /\ UNCHANGED <<purchase, bought, used, net, count, reorder, day>>

(* update_catalog_item: a new default unit takes its own stock unit, a bag     *)
(* that of kg; a piece, or a new name, what unit_resolution_service.py makes   *)
(* of the name.  The stock stays the number it was.                            *)
SyncedUnit(unit) == IF unit = "bag" THEN "kg" ELSE unit
SetUnit(i, unit, stockUnit) ==
    /\ ~item[i].archived
    /\ unit \notin {item[i].unit, "piece"} => stockUnit = SyncedUnit(unit)
    /\ SetItem(i, [item[i] EXCEPT !.unit = unit, !.stockUnit = stockUnit])
    /\ UNCHANGED <<purchase, bought, used, net, count, reorder, day>>

(* add_item_to_reorder_list renews the pending entry or makes one; the index   *)
(* of reorder_list refuses a second.  patch_reorder_entry, delete_reorder_entry *)
AddReorder(i) ==
    /\ ~item[i].archived
    /\ reorder' = [reorder EXCEPT ![i]["pending"] = 1]
PatchReorder(i, s, to) ==
    /\ s \in EntriesOf(i) /\ s # to
    /\ to = "pending" => "pending" \notin EntriesOf(i)
    /\ reorder' = [reorder EXCEPT ![i][s] = @ - 1, ![i][to] = @ + 1]
DeleteReorder(i, s) ==
    /\ s \in EntriesOf(i)
    /\ reorder' = [reorder EXCEPT ![i][s] = @ - 1]
Reorder(i) ==
    /\ \/ AddReorder(i)
       \/ \E s \in Entries : DeleteReorder(i, s) \/ \E to \in Entries : PatchReorder(i, s, to)
    /\ UNCHANGED <<item, purchase, bought, used, net, count, day>>

NewDay == /\ day < MaxDay
          /\ day' = day + 1
          /\ UNCHANGED <<item, purchase, bought, used, net, count, reorder>>

Next ==
    /\ changes < MaxChanges
    /\ changes' = changes + 1
    /\ \/ \E p \in Purchases :
             \/ \E i \in Items, qty \in Quantities, status \in {"draft", "confirmed"} :
                   Create(p, i, qty, status)
             \/ Arrive(p) \/ CommitDelivery(p) \/ RevertDelivery(p) \/ Cancel(p)
             \/ \E counted \in Quantities : VerifyDelivery(p, counted)
       \/ \E i \in Items :
             \/ \E qty \in Quantities : \/ QuickPurchase(i, qty) \/ SubmitUsage(i, qty)
                                        \/ SetOpening(i, qty)
                                        \/ \E update \in BOOLEAN : CountItem(i, qty, update)
             \/ \E level \in Levels : SetLevel(i, level)
             \/ \E unit, stockUnit \in Units : SetUnit(i, unit, stockUnit)
             \/ Archive(i) \/ Reorder(i)
       \/ NewDay

Spec == Init /\ [][Next]_vars

-----------------------------------------------------------------------------

TypeOK ==
    /\ \A i \in Items :
          /\ item[i].unit \in Units /\ item[i].stockUnit \in Units
          /\ item[i].stock \in Nat /\ item[i].level \in Levels
          /\ item[i].last \in Purchases \union {None} /\ item[i].since \in DayRange \union {None}
    /\ \A p \in Purchases : purchase[p] # None =>
          /\ purchase[p].status \in Statuses /\ purchase[p].delivery \in Deliveries
          /\ purchase[p].moved \subseteq {"receive", "revert"}
    /\ net \in [Items -> Int]
    /\ reorder \in [Items -> [Entries -> Nat]] /\ \A i \in Items : reorder[i]["pending"] <= 1
    /\ day \in DayRange /\ changes \in 0..MaxChanges

(* Whatever page asks, an item has the same status: the lists' conditions in  *)
(* SQL, the Python function behind every row, the alert counts, the           *)
(* low-stock pages and the opening set-up agree ("SQL WHERE fragments         *)
(* matching stock_status() semantics", stock_helpers.py:609).  The totals are *)
(* the inventory summary's and the weight of the bags, as long as every item  *)
(* is stocked in its default unit.                                            *)
StatusesAgree ==
    LET size(set) == Cardinality(set)
        summary == LowStockSummary(0, day)
        ops(filter) == LowStockOperations(filter, 0, day)
    IN /\ \A status \in {"out", "critical", "low"} :
             Listed(status, FALSE, Items) = OpeningSetup("all", status)
       /\ Alerts.out = size(OpeningSetup("all", "out"))
       /\ summary.attention = size(Listed("shortage", FALSE, Items))
       /\ summary.attention = Alerts.out + Alerts.critical + Alerts.low
       /\ summary.out = Alerts.out
       /\ ops("all") = ops("low") \union ops("out")
       /\ TopLowStock \union Listed("critical", FALSE, Items) = ops("low")
       /\ Listed("all", TRUE, Items) \subseteq ops("all")
       /\ ops("out") \union ops("delayed") \subseteq ops("urgent")
       /\ \A shown \in OperationsPage("all", 0, day) :
             /\ shown.row.status # "healthy" /\ "attention" \notin shown.stages
             /\ "reorder_requested" \in shown.stages => shown.id \in ReorderList("pending")
       /\ OpeningSummary.pending = size(MissingOpening)
       /\ OpeningSummary.completed = size(OpeningSetup("completed", "all"))
       /\ (\A i \in Active : item[i].unit = Bucket(item[i].stockUnit)) =>
             \A b \in Buckets : StockTotals[b] = Inventory[b] + IF b = "kg" THEN BagWeight ELSE 0

(* The trucks of the stock list, its counts, the page of an item and the      *)
(* warehouse alerts show the same purchases on their way, through deliveries, *)
(* reversals and cancellations; and "delivered" is shown only of stock that   *)
(* was taken in.                                                              *)
TrucksAgree ==
    /\ \A i \in Active : LET page == StockPage(i, 0, day) IN page.pending = page.row.pending
    /\ (\A i \in Items : i \in Active) =>
          WarehouseAlerts.deliveries = Cardinality(UNION {PendingOrders(i) : i \in Items})
    /\ UNION {PendingOrders(i) : i \in Active} =
          {p \in Awaited : ~item[purchase[p].item].archived}
    /\ DeliveryCounts["pending"] = Cardinality({i \in Active : HasPending(i)})
    /\ \A i \in Active : Indicator(i) = "delivered" => DeliveredQty(i) > 0

(* An item whose purchases were all counted in full and taken in shows no     *)
(* variance after purchases and use ("Reconcile on-hand stock vs all-time     *)
(* purchases - usage +/- manual adjustments", stock_helpers.py:527).          *)
VarianceIsZero ==
    \A i \in Active :
        (\A p \in LinesOf(i) : /\ purchase[p].delivery \notin {"partial", "staff_verified"}
                               /\ purchase[p].recv \in {None, purchase[p].qty}
                               /\ "revert" \notin purchase[p].moved)
            => Variance(i) \in {None, 0}
===============================================================================
