------------------------------- MODULE Reports -------------------------------
(***************************************************************************)
(* The reports over purchase lines: backend/app/services/trade_query.py    *)
(* with the handlers that group its sums (routers/reports_trade.py,        *)
(* services/trade_mapping.py, routers/contacts.py, routers/catalog.py,     *)
(* services/owner_dashboard.py).                                           *)
(*                                                                         *)
(* Each query is an operator over the rows it joins.  The actions bring    *)
(* the purchases and the catalog into the states the queries can meet.     *)
(* Names of suppliers, brokers, categories and types are unique here;      *)
(* ratios, order, paging and caches are left out.                          *)
(***************************************************************************)
EXTENDS Integers, FiniteSets, FiniteSetsExt

CONSTANTS
    Bills,          \* purchases as they may be saved, see Purchase
    Purchases, Items, Categories, Types, Suppliers, Brokers,
    Days,           \* an interval
    MaxChanges,     \* bound: changes of a status or of the catalog
    None

VARIABLES purchases, item, changes

vars == <<purchases, item, changes>>

(* total and profit are the columns line_total and profit: None in rows that  *)
(* older versions wrote, as is kind (unit_type).  weight is kg_per_unit.      *)
Line == [name : STRING, item : Items \union {None}, unit : {"bag", "box", "kg"}, typed : BOOLEAN,
         qty : Nat, rate : Nat, perKg : Nat, weight : Nat, selling : Nat \union {None},
         total : Nat \union {None}, profit : Int \union {None}]
Statuses == {"draft", "saved", "confirmed", "paid", "cancelled", "deleted"}
Purchase == [status : Statuses, supplier : Suppliers \union {None},
             broker : Brokers \union {None}, day : Days, lines : SUBSET Line,
             delivered : BOOLEAN]
ItemRow == [category : Categories, type : Types \union {None}, archived : BOOLEAN]

Init ==
    /\ purchases = [p \in Purchases |-> None]
    /\ item \in [Items -> [category : Categories, type : {None}, archived : {FALSE}]]
    /\ changes = 0

-----------------------------------------------------------------------------
(* trade_query.py                                                            *)

Sum(value(_), rows) == MapThenSumSet(value, rows)
Either(x, default) == IF x = None THEN default ELSE x

Reported(p) == purchases[p].status \notin {"draft", "cancelled", "deleted"}

InPeriod(p, from, to) ==
    purchases[p] # None /\ Reported(p) /\ purchases[p].day \in from..to

(* TradePurchaseLine joined to TradePurchase under trade_purchase_date_filter *)
Rows(from, to) ==
    UNION {{<<p, l>> : l \in purchases[p].lines} :
              p \in {q \in Purchases : InPeriod(q, from, to)}}

AllRows ==                              \* those of all time
    UNION {{<<p, l>> : l \in purchases[p].lines} :
              p \in {q \in Purchases : purchases[q] # None /\ Reported(q)}}

WeightPriced(l) == l.weight > 0 /\ l.perKg > 0 /\ l.weight * l.perKg = l.rate
Amount(r) == LET l == r[2]
             IN Either(l.total, IF WeightPriced(l) THEN l.qty * l.weight * l.perKg
                                ELSE l.qty * l.rate)
Qty(r) == r[2].qty
QtyOf(unit, r) == IF r[2].unit = unit THEN r[2].qty ELSE 0
Bags(r) == QtyOf("bag", r)
Boxes(r) == QtyOf("box", r)
Weight(r) ==
    LET l == r[2]
    IN CASE l.unit = "bag" -> l.qty * l.weight [] l.unit = "kg" -> l.qty [] OTHER -> 0
Selling(r) == IF r[2].selling = None THEN 0 ELSE r[2].qty * r[2].selling
ProfitSaved(r) == Either(r[2].profit, 0)        \* mutation: no profit where none was saved
Profit(r) == Either(r[2].profit, Selling(r) - Amount(r))

Deals(rows) == Cardinality({r[1] : r \in rows})
TotalsOf(rows) == [amount |-> Sum(Amount, rows), qty |-> Sum(Qty, rows),
                   bags |-> Sum(Bags, rows), boxes |-> Sum(Boxes, rows),
                   weight |-> Sum(Weight, rows)]

(* GROUP BY: one row for each key that occurs *)
GroupsBy(key(_), rows) ==
    {[key |-> k, rows |-> {r \in rows : key(r) = k}] : k \in {key(r) : r \in rows}}

(* Outer joins to the catalog give archived items up, and items a line does   *)
(* not name.                                                                  *)
Catalogued(r) == r[2].item # None /\ ~item[r[2].item].archived
CategoryOf(r) == IF Catalogued(r) THEN item[r[2].item].category ELSE "Uncategorized"
TypeOf(r) == IF Catalogued(r) /\ item[r[2].item].type # None THEN item[r[2].item].type
             ELSE "No type"
JoinInner(rows) == {r \in rows : Catalogued(r)}     \* mutation: an inner join
JoinCatalog(rows) == rows

-----------------------------------------------------------------------------
(* routers/reports_trade.py                                                  *)

SupplierRows(from, to) ==
    LET supplierOf(r) == purchases[r[1]].supplier
    IN {[supplier |-> g.key, deals |-> Deals(g.rows), totals |-> TotalsOf(g.rows),
         profit |-> Sum(Profit, g.rows)] : g \in GroupsBy(supplierOf, Rows(from, to))}

(* The filters of /trade-items; an empty set is no filter. *)
ItemRows(from, to, cats, types, sups) ==
    LET wanted(r) ==
            /\ sups # {} => purchases[r[1]].supplier \in sups
            /\ cats # {} => Catalogued(r) /\ item[r[2].item].category \in cats
            /\ types # {} => Catalogued(r) /\ item[r[2].item].type \in types
        nameOf(r) == r[2].name
    IN {[name |-> g.key, deals |-> Deals(g.rows), totals |-> TotalsOf(g.rows),
         selling |-> Sum(Selling, g.rows),
         profit |-> Sum(Selling, g.rows) - Sum(Amount, g.rows)] :
           g \in GroupsBy(nameOf, {r \in Rows(from, to) : wanted(r)})}
ItemBreakdown(from, to) == ItemRows(from, to, {}, {}, {})

TypeRows(from, to) ==
    LET typeOf(r) == <<CategoryOf(r), TypeOf(r)>>
    IN {[type |-> g.key, totals |-> TotalsOf(g.rows), profit |-> Sum(Profit, g.rows)] :
           g \in GroupsBy(typeOf, JoinCatalog(Rows(from, to)))}

CategoryRows(from, to) ==
    {[category |-> g.key, lines |-> Cardinality(g.rows), totals |-> TotalsOf(g.rows),
      items |-> Cardinality({r[2].item : r \in g.rows} \ {None}),
      profit |-> Sum(Profit, g.rows)] : g \in GroupsBy(CategoryOf, JoinCatalog(Rows(from, to)))}

(* The dashboard's figures, its categories (a group of lines of one name       *)
(* counts as bags when its greatest unit is the bag), and its purchases.       *)
Summary(from, to) ==
    LET rows == Rows(from, to)
    IN [deals |-> Deals(rows), totals |-> TotalsOf(rows), selling |-> Sum(Selling, rows),
        profit |-> Sum(Selling, rows) - Sum(Amount, rows)]
DashboardCategories(from, to) ==
    LET nameOf(r) == <<CategoryOf(r), r[2].name>>
        named == {[category |-> g.key[1], name |-> g.key[2], qty |-> Sum(Qty, g.rows),
                   amount |-> Sum(Amount, g.rows)] :
                     g \in GroupsBy(nameOf, JoinCatalog(Rows(from, to)))}
    IN {[category |-> c, items |-> {n \in named : n.category = c}] :
           c \in {n.category : n \in named}}
DashboardCounts(from, to) ==
    LET inPeriod == {p \in Purchases : InPeriod(p, from, to)}
    IN [suppliers |-> Cardinality({purchases[p].supplier : p \in inPeriod} \ {None}),
        brokers |-> Cardinality({purchases[p].broker : p \in inPeriod} \ {None}),
        received |-> Cardinality({p \in inPeriod : purchases[p].delivered}),
        pending |-> Cardinality({p \in Purchases : purchases[p] # None
                       /\ ~purchases[p].delivered
                       /\ purchases[p].status \notin {"deleted", "cancelled"}})]

TradeSummary(from, to, s) ==            \* GET /trade-summary, of one supplier or of all
    LET rows == {r \in Rows(from, to) : s # None => purchases[r[1]].supplier = s}
    IN [deals |-> Deals(rows), totals |-> TotalsOf(rows)]

DailyProfit(from, to) ==
    LET dayOf(r) == purchases[r[1]].day
    IN {[day |-> g.key, profit |-> Sum(Profit, g.rows)] : g \in GroupsBy(dayOf, Rows(from, to))}

(* The purchases counted by /period-comparison and listed by /activity-feed    *)
(* need no line.                                                               *)
PeriodTotals(from, to) ==
    LET inPeriod == {p \in Purchases : InPeriod(p, from, to)}
    IN [amount |-> Sum(Amount, Rows(from, to)), weight |-> Sum(Weight, Rows(from, to)),
        deals |-> Cardinality(inPeriod),
        suppliers |-> Cardinality({purchases[p].supplier : p \in inPeriod} \ {None})]
PeriodComparison(from, to) ==
    LET span == to - from + 1
    IN [current |-> PeriodTotals(from, to), prior |-> PeriodTotals(from - span, from - 1)]
ActivityFeed(from, to) == {p \in Purchases : InPeriod(p, from, to)}

ItemReport(i, from, to) ==
    LET rows == {r \in Rows(from, to) : r[2].item = i}
    IN [deals |-> Deals(rows), amount |-> Sum(Amount, rows), qty |-> Sum(Qty, rows),
        lines |-> rows]

-----------------------------------------------------------------------------
(* services/trade_mapping.py, contacts.py, catalog.py, owner_dashboard.py    *)

SupplierBrokerMap(from, to) ==
    LET known == {r \in Rows(from, to) : r[2].item # None /\ purchases[r[1]].supplier # None}
        pairOf(r) == [item |-> r[2].item, supplier |-> purchases[r[1]].supplier,
                      broker |-> purchases[r[1]].broker]
    IN {[of |-> g.key, deals |-> Deals(g.rows), qty |-> Sum(Qty, g.rows),
         amount |-> Sum(Amount, g.rows)] : g \in GroupsBy(pairOf, known)}

SupplierMetrics(s, from, to) ==
    LET rows == {r \in Rows(from, to) : purchases[r[1]].supplier = s}
    IN [deals |-> Deals(rows), amount |-> Sum(Amount, rows), profit |-> Sum(Profit, rows)]
BrokerMetrics(b, from, to) ==
    LET rows == {r \in Rows(from, to) : purchases[r[1]].broker = b}
    IN [deals |-> Cardinality({p \in Purchases : InPeriod(p, from, to)
                                                  /\ purchases[p].broker = b}),
        profit |-> Sum(Profit, rows)]

(* GET /contacts/category-items: inner joins, and the profit column alone *)
CategoryItems(c, from, to) ==
    LET nameOf(r) == r[2].name
        saved(r) == Either(r[2].profit, 0)
        rows == {r \in Rows(from, to) : r[2].item # None /\ item[r[2].item].category = c}
    IN {[name |-> g.key, qty |-> Sum(Qty, g.rows), profit |-> Sum(saved, g.rows)] :
           g \in GroupsBy(nameOf, rows)}

(* The catalog's own figures include archived items.  The sums its category    *)
(* page calls those of the period ("period_line_total") are of all time.       *)
CategoryTradeSummary(c) ==
    LET rowsOf(i) == {r \in AllRows : r[2].item = i}
    IN {[item |-> i, amount |-> Sum(Amount, rowsOf(i)), bags |-> Sum(Bags, rowsOf(i)),
         weight |-> Sum(Weight, rowsOf(i))] : i \in {j \in Items : item[j].category = c}}
ItemInsights(i, from, to) ==
    LET rows == {r \in Rows(from, to) : r[2].item = i}
    IN [lines |-> Cardinality(rows), deals |-> Deals(rows), profit |-> Sum(Profit, rows)]
ItemLines(i, from, to) ==
    {[line |-> r, profit |-> Profit(r)] : r \in {q \in Rows(from, to) : q[2].item = i}}
CategoryInsights(c, from, to) ==
    LET members == {i \in Items : item[i].category = c}
        rows == {r \in Rows(from, to) : r[2].item \in members}
    IN [items |-> Cardinality(members), lines |-> Cardinality(rows),
        profit |-> Sum(Profit, rows)]

(* Latest price of each supplier, of all time; the best is the cheapest on     *)
(* average among those with two deals, or the cheapest of the latest prices.   *)
SupplierPrices(i) ==
    LET all == {r \in AllRows : r[2].item = i /\ purchases[r[1]].supplier # None}
        supplierOf(r) == purchases[r[1]].supplier
        latest(rows) == {r \in rows : \A q \in rows : purchases[q[1]].day <= purchases[r[1]].day}
    IN {[supplier |-> g.key, deals |-> Deals(g.rows), qty |-> Sum(Qty, g.rows),
         amount |-> Sum(Amount, g.rows), latest |-> {r[2].rate : r \in latest(g.rows)}] :
           g \in GroupsBy(supplierOf, all)}
SpendOfWeek(from, to) == Sum(Amount, Rows(from, to))

-----------------------------------------------------------------------------
Record(p, bill) ==
    /\ purchases[p] = None /\ bill.status \in {"draft", "saved", "confirmed"}
    /\ bill.status = "confirmed" => bill.supplier # None
    /\ purchases' = [purchases EXCEPT ![p] = bill]
    /\ UNCHANGED <<item, changes>>

SetStatus(p, to) ==
    /\ purchases[p] # None /\ purchases[p].status # "deleted" /\ changes < MaxChanges
    /\ purchases' = [purchases EXCEPT ![p].status = to,
                                      ![p].delivered = @ /\ to \notin {"cancelled", "deleted"}]
    /\ changes' = changes + 1
    /\ UNCHANGED item

Deliver(p) ==
    /\ purchases[p] # None /\ Reported(p) /\ changes < MaxChanges
    /\ purchases' = [purchases EXCEPT ![p].delivered = TRUE]
    /\ changes' = changes + 1
    /\ UNCHANGED item

Reclassify(i, row) ==                   \* archived, moved to a category or a type
    /\ changes < MaxChanges
    /\ item' = [item EXCEPT ![i] = row]
    /\ changes' = changes + 1
    /\ UNCHANGED purchases

Next ==
    \/ \E p \in Purchases : \/ \E bill \in Bills : Record(p, bill)
                            \/ \E to \in Statuses : SetStatus(p, to)
                            \/ Deliver(p)
    \/ \E i \in Items, row \in ItemRow : Reclassify(i, row)

Spec == Init /\ [][Next]_vars

-----------------------------------------------------------------------------

IsLine(l) ==
    /\ l.item \in Items \union {None} /\ l.unit \in {"bag", "box", "kg"}
    /\ {l.qty, l.rate, l.perKg, l.weight} \subseteq Nat
    /\ {l.selling, l.total} \subseteq Nat \union {None}
    /\ l.profit \in Int \union {None}
TypeOK ==
    /\ \A p \in Purchases : purchases[p] # None =>
          LET b == purchases[p]
          IN /\ b.status \in Statuses /\ b.day \in Days /\ b.delivered \in BOOLEAN
             /\ b.supplier \in Suppliers \union {None} /\ b.broker \in Brokers \union {None}
             /\ \A l \in b.lines : IsLine(l)
    /\ item \in [Items -> ItemRow]
    /\ changes \in 0..MaxChanges

Amounts(groups) == LET amount(g) == g.totals.amount IN Sum(amount, groups)
Volumes(groups) == LET qty(g) == g.totals.qty IN Sum(qty, groups)
Profits(groups) == LET profit(g) == g.profit IN Sum(profit, groups)

(* Whatever was bought, cancelled, archived or reclassified, every breakdown  *)
(* of a period - by supplier, item, type, category, the dashboard, the week   *)
(* and the comparison of periods - adds up to the same spend and quantity     *)
(* ("report KPIs use line sums", reports_trade.py:1008).                      *)
ReportsAgree ==
    \A from, to \in Days :
        LET all == Summary(from, to)
            dashboard == DashboardCategories(from, to)
            spent(n) == n.amount
            spentIn(c) == Sum(spent, c.items)
        IN /\ \A breakdown \in {SupplierRows(from, to), ItemBreakdown(from, to),
                                TypeRows(from, to), CategoryRows(from, to)} :
                 /\ Amounts(breakdown) = all.totals.amount
                 /\ Volumes(breakdown) = all.totals.qty
           /\ Sum(spentIn, dashboard) = all.totals.amount
           /\ TradeSummary(from, to, None) = [deals |-> all.deals, totals |-> all.totals]
           /\ SpendOfWeek(from, to) = all.totals.amount
           /\ LET period == PeriodComparison(from, to).current
              IN /\ period.amount = all.totals.amount /\ period.weight = all.totals.weight
                 /\ period.deals = Cardinality(ActivityFeed(from, to))
                 /\ period.suppliers = DashboardCounts(from, to).suppliers

(* The page of a supplier, item or category shows what the breakdowns         *)
(* say of it; for categories, as long as none of their items is archived.     *)
(* The prices of an item and the spend of a category take no dates: they are  *)
(* those of the period only when it holds all that was ever bought.           *)
PagesAgree ==
    \A from, to \in Days :
        /\ \A g \in SupplierRows(from, to) : g.supplier # None =>
              LET page == SupplierMetrics(g.supplier, from, to)
                  summary == TradeSummary(from, to, g.supplier)
              IN /\ page.amount = g.totals.amount /\ page.profit = g.profit
                 /\ page.deals = g.deals
                 /\ summary.totals = g.totals /\ summary.deals = g.deals
                 /\ Amounts(ItemRows(from, to, {}, {}, {g.supplier})) = g.totals.amount
        /\ \A i \in Items :
              LET page == ItemReport(i, from, to)
                  pairs == {d \in SupplierBrokerMap(from, to) : d.of.item = i}
                  spent(d) == d.amount
                  earned(l) == l.profit
              IN /\ (\A r \in page.lines : purchases[r[1]].supplier # None)
                       => Sum(spent, pairs) = page.amount
                 /\ Sum(earned, ItemLines(i, from, to)) = ItemInsights(i, from, to).profit
                 /\ ItemInsights(i, from, to).deals = page.deals
                 /\ Rows(from, to) = AllRows =>
                       Sum(spent, pairs) = Sum(spent, SupplierPrices(i))
        /\ \A g \in CategoryRows(from, to) :
              g.category \in Categories
                 /\ (\A i \in Items : item[i].category = g.category => ~item[i].archived) =>
              LET spent(n) == n.amount
                  bought(n) == n.qty
              IN /\ Rows(from, to) = AllRows =>
                       Sum(spent, CategoryTradeSummary(g.category)) = g.totals.amount
                 /\ Sum(bought, CategoryItems(g.category, from, to)) = g.totals.qty
                 /\ Amounts(ItemRows(from, to, {g.category}, {}, {})) = g.totals.amount
                 /\ CategoryInsights(g.category, from, to).profit = g.profit
                 /\ CategoryInsights(g.category, from, to).lines = g.lines

(* Profit by supplier, broker, type, category and day is the same; so is the   *)
(* dashboard's and that of the items, as long as no line has charges, which   *)
(* only the saved profit deducts.                                             *)
ProfitsAgree ==
    \A from, to \in Days :
        LET profit == Profits(SupplierRows(from, to))
            rows == Rows(from, to)
            charged(r) == r[2].profit # None /\ r[2].profit < Selling(r) - Amount(r)
            brokered(b) == BrokerMetrics(b, from, to).profit
        IN /\ Profits(TypeRows(from, to)) = profit
           /\ Profits(CategoryRows(from, to)) = profit
           /\ Profits(DailyProfit(from, to)) = profit
           /\ profit = Sum(brokered, Brokers)
                          + Sum(Profit, {r \in rows : purchases[r[1]].broker = None})
           /\ Summary(from, to).profit = Profits(ItemBreakdown(from, to))
           /\ (\A r \in rows : ~charged(r)) => Summary(from, to).profit = profit
=============================================================================
