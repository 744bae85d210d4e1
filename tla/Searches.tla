------------------------------ MODULE Searches ------------------------------
(***************************************************************************)
(* Finding items and purchases by their names: the catalog list and its    *)
(* duplicate hints (backend/app/routers/catalog.py), the search bar        *)
(* (routers/search.py), the contacts' search (routers/contacts.py) and the *)
(* purchases of an item (services/trade_purchase_service.py).              *)
(*                                                                         *)
(* A search term is the set of the names that contain it.  A purchase has  *)
(* one line, which carries an item and the name the client sent.  Limits   *)
(* on rows, ranking, and suppliers and brokers, which are searched like    *)
(* items, are left out.                                                    *)
(*                                                                         *)
(* A request that names an item looks whether the name is taken by an      *)
(* unlocked SELECT, and commits later: nothing in the database keeps a     *)
(* name to one item.  Two requests of one name both create their item only *)
(* if the client sends their codes: the codes are taken from the highest   *)
(* one, and ItemCodes says what becomes of two that take the same.         *)
(***************************************************************************)
EXTENDS Integers, FiniteSets

CONSTANTS
    Items, Types, Names, Purchases,
    Workers,        \* requests that name an item served at the same time
    Above,          \* the names of a type and of its category
    Like,           \* the names that are similar to a term
    MaxChanges,     \* bound: changes of the catalog and the purchases
    None

VARIABLES
    item,           \* catalog_items; "moved" and "renamed" record what happened to a row
    purchases,      \* trade_purchases with their line
    request,        \* the request to create or change an item that each worker serves
    changes         \* changes so far

vars == <<item, purchases, request, changes>>

Item == [name : Names, type : Types, archived : BOOLEAN, moved : BOOLEAN, renamed : BOOLEAN]
Purchase == [item : Items \union {None}, name : Names,
             status : {"draft", "confirmed", "cancelled", "deleted"}]

(* Lines older than the rule that a line names an item (TradePurchaseLineIn). *)
Unlinked == [item : {None}, name : Names, status : {"confirmed"}]
Init ==
    /\ item = [i \in Items |-> None]
    /\ purchases \in [Purchases -> {None} \union Unlinked]
    /\ request = [w \in Workers |-> None]
    /\ changes = 0

Exists(i) == item[i] # None
Listed == {i \in Items : Exists(i) /\ ~item[i].archived}

Change ==
    /\ changes < MaxChanges
    /\ changes' = changes + 1

(* _item_dup: a name is taken within a type, by archived items too. *)
TakenByListed(self, n, t) ==            \* mutation: archived items give up their names
    \E i \in Listed \ {self} : item[i].name = n /\ item[i].type = t
Taken(self, n, t) ==
    \E i \in Items \ {self} : Exists(i) /\ item[i].name = n /\ item[i].type = t

Serve(w, i, n, t) ==
    /\ request[w] = None
    /\ Change
    /\ request' = [request EXCEPT ![w] = [item |-> i, name |-> n, type |-> t, copy |-> item[i]]]
    /\ UNCHANGED <<item, purchases>>

(* POST /catalog-items: the item will have an id of its own. *)
CreateItem(w, i, n, t) ==
    /\ ~Exists(i) /\ \A v \in Workers : request[v] # None => request[v].item # i
    /\ ~Taken(i, n, t)
    /\ Serve(w, i, n, t)

(* PATCH /catalog-items/{id} loads the item.  The name is looked for when it  *)
(* is sent, in the type the item will have; not when only the type is sent.   *)
RenameItem(w, i, n, t) == Exists(i) /\ ~Taken(i, n, t) /\ Serve(w, i, n, t)
MoveItem(w, i, t) == Exists(i) /\ item[i].type # t /\ Serve(w, i, None, t)

(* The commit inserts the item, or writes the columns that differ from what   *)
(* the request loaded.                                                        *)
Written(now, old, new) == IF new = old THEN now ELSE new
ItemWritten(r, now) ==
    IF r.copy = None
    THEN [name |-> r.name, type |-> r.type, archived |-> FALSE, moved |-> FALSE, renamed |-> FALSE]
    ELSE [now EXCEPT !.name = IF r.name = None THEN @ ELSE Written(@, r.copy.name, r.name),
                     !.type = Written(@, r.copy.type, r.type),
                     !.moved = @ \/ r.name = None,
                     !.renamed = @ \/ r.name \notin {None, r.copy.name}]
CommitItem(w) ==
    LET r == request[w]
    IN /\ r # None
       /\ item' = [item EXCEPT ![r.item] = ItemWritten(r, @)]
       /\ request' = [request EXCEPT ![w] = None]
       /\ UNCHANGED <<purchases, changes>>

(* A request refused, by the index of the codes too, or cut off. *)
Fail(w) ==
    /\ request[w] # None
    /\ request' = [request EXCEPT ![w] = None]
    /\ UNCHANGED <<item, purchases, changes>>

ArchiveItem(i) ==
    /\ i \in Listed
    /\ Change
    /\ item' = [item EXCEPT ![i].archived = TRUE]
    /\ UNCHANGED <<purchases, request>>

(* The line is saved with the name in the request: clients send the name the *)
(* item has at that time.                                                     *)
Buy(p, i, status) ==
    /\ purchases[p] = None
    /\ Exists(i)
    /\ Change
    /\ purchases' = [purchases EXCEPT ![p] = [item |-> i, name |-> item[i].name,
                                              status |-> status]]
    /\ UNCHANGED <<item, request>>
Confirm(p) ==
    /\ purchases[p] # None /\ purchases[p].status = "draft"
    /\ Change
    /\ purchases' = [purchases EXCEPT ![p].status = "confirmed"]
    /\ UNCHANGED <<item, request>>
Close(p, status) ==
    /\ purchases[p] # None /\ purchases[p].status # "deleted"
    /\ Change
    /\ purchases' = [purchases EXCEPT ![p].status = status]
    /\ UNCHANGED <<item, request>>

Next ==
    \/ \E w \in Workers, i \in Items, t \in Types :
          \/ \E n \in Names : CreateItem(w, i, n, t) \/ RenameItem(w, i, n, t)
          \/ MoveItem(w, i, t)
    \/ \E w \in Workers : CommitItem(w) \/ Fail(w)
    \/ \E i \in Items : ArchiveItem(i)
    \/ \E p \in Purchases : \/ \E i \in Items, status \in {"draft", "confirmed"} : Buy(p, i, status)
                            \/ \E status \in {"cancelled", "deleted"} : Close(p, status)
                            \/ Confirm(p)

Spec == Init /\ [][Next]_vars

-----------------------------------------------------------------------------
(* The pages.                                                                *)

(* GET /catalog-items, of a type or of all. *)
ItemsOfType(t) == {i \in Listed : item[i].type = t}

(* GET /search: items by their own name or those above them; similar names    *)
(* only when there is none.                                                   *)
Matching(T) ==
    {i \in Listed : item[i].name \in T \/ Above[item[i].type] \intersect T # {}}
FoundItems(T) == IF Matching(T) # {} THEN Matching(T)
                 ELSE {i \in Listed : item[i].name \in Like[T]}

(* Its types: by name, with those of the items found; else similar ones. *)
FoundTypes(T) ==
    LET found == {t \in Types : Above[t] \intersect T # {}}
                 \union {item[i].type : i \in FoundItems(T)}
    IN IF found # {} THEN found ELSE {t \in Types : Above[t] \intersect Like[T] # {}}

Counted(p) == purchases[p] # None /\ purchases[p].status = "confirmed"

(* Its purchases, by the names of their lines. *)
FoundPurchases(T) == {p \in Purchases : Counted(p) /\ purchases[p].name \in T}

(* GET /contacts/search: the names on counted lines and in the catalog, each  *)
(* once, with an item of that name if there is one; archived items too.       *)
HitNames(T) == T \intersect ({purchases[p].name : p \in {q \in Purchases : Counted(q)}}
                             \union {item[i].name : i \in {j \in Items : Exists(j)}})
HitItems(n) == LET bearers == {i \in Items : Exists(i) /\ item[i].name = n}
               IN IF bearers = {} THEN {None} ELSE bearers

(* GET /trade-purchases?catalog_item_id: lines of the item, and lines without *)
(* an item that carry its name.                                               *)
PurchasesOf(i) ==
    {p \in Purchases : Counted(p) /\ (\/ purchases[p].item = i
                                      \/ /\ purchases[p].item = None /\ Exists(i)
                                         /\ purchases[p].name = item[i].name)}

(* GET /catalog/fuzzy-check: items with a name like the one being typed. *)
Hints(n) == {i \in Listed : item[i].name \in Like[{n}] \union {n}}

-----------------------------------------------------------------------------
Request == [item : Items, name : Names \union {None}, type : Types, copy : Item \union {None}]

TypeOK ==
    /\ item \in [Items -> Item \union {None}]
    /\ request \in [Workers -> Request \union {None}]
    /\ purchases \in [Purchases -> Purchase \union {None}]
    /\ changes \in 0..MaxChanges

(* One request at a time, two items of one type never have the same name,     *)
(* archived ones included, unless one was given another type by a request     *)
(* that did not send its name.                                                *)
NamesUnique ==
    \A i, j \in Items : i # j /\ Exists(i) /\ Exists(j) /\ ~item[i].moved /\ ~item[j].moved =>
        item[i].name # item[j].name \/ item[i].type # item[j].type

(* The searches show what the lists show: an item of the list is found by its *)
(* name and warned of when the name is typed again, what is found is in the   *)
(* list of its type, and that type is found with it; a name without an item   *)
(* is no item's.                                                              *)
ItemsAreFound ==
    \A T \in SUBSET Names :
        /\ \A i \in Listed : item[i].name \in T =>
              /\ i \in FoundItems(T) /\ i \in Hints(item[i].name)
              /\ item[i].name \in HitNames(T)
        /\ \A i \in FoundItems(T) : i \in ItemsOfType(item[i].type) /\ item[i].type \in FoundTypes(T)
        /\ \A n \in HitNames(T) : HitItems(n) = {None} => \A i \in Listed : item[i].name # n

(* The purchases of an item that was never renamed are those found by its     *)
(* name, but for lines of another item of that name.                          *)
PurchasesAreFound ==
    \A i \in Listed : ~item[i].renamed =>
        PurchasesOf(i) = {p \in FoundPurchases({item[i].name}) : purchases[p].item \in {None, i}}
=============================================================================
