------------------------------ MODULE Directory ------------------------------
(***************************************************************************)
(* Whom the business deals with and what it sells: suppliers and brokers   *)
(* with the links between them (backend/app/routers/contacts.py), and      *)
(* categories, their types and the items (routers/catalog.py).             *)
(*                                                                         *)
(* A request makes its checks (Ask) and writes later (Commit): what other  *)
(* requests write in between is not seen, except by the database, which    *)
(* refuses to break a reference.  Names, prices and the other columns are  *)
(* left out.                                                               *)
(***************************************************************************)
EXTENDS Integers, FiniteSets

CONSTANTS
    Workers,        \* requests served at the same time
    Brokers, Suppliers, Categories, Types, Items, Purchases,
    MaxRequests,    \* bound: requests
    None

VARIABLES
    brokers,        \* brokers
    supplier,       \* suppliers with their broker_id (None: not a supplier)
    links,          \* broker_supplier_m2m
    categories,     \* item_categories
    type,           \* category_types with their category; one may be the general type
    item,           \* catalog_items with category_id and type_id
    defaults,       \* catalog_item_default_suppliers
    memory,         \* supplier_item_defaults
    purchases,      \* trade_purchases, with one line each
    request,        \* the request each worker is serving
    requests,       \* requests so far
    refused         \* history: deletions that the database refused

rows == <<brokers, supplier, links, categories, type, item, defaults, memory, purchases>>
vars == <<rows, request, requests, refused>>

NoBroker == "no broker"
NoType == "no type"
Supplier == [broker : Brokers \union {NoBroker}]
Item == [category : Categories, type : Types \union {NoType}, archived : BOOLEAN]
Purchase == [supplier : Suppliers, broker : Brokers \union {NoBroker}, item : Items,
             live : BOOLEAN]

IsSupplier(s) == supplier[s] # None
TypeRow == [category : Categories, general : BOOLEAN]
TypesOf(c) == {t \in Types : type[t] # None /\ type[t].category = c}
ItemsOf(c) == {i \in Items : item[i] # None /\ item[i].category = c}

Init ==
    /\ brokers = {}
    /\ supplier = [s \in Suppliers |-> None]
    /\ links = {}
    /\ categories = {}
    /\ type = [t \in Types |-> None]
    /\ item = [i \in Items |-> None]
    /\ defaults = {}
    /\ memory = {}
    /\ purchases = [p \in Purchases |-> None]
    /\ request = [w \in Workers |-> None]
    /\ requests = 0
    /\ refused = {}

-----------------------------------------------------------------------------
(* _get_or_create_general_type_id: the general type of a category, or a new   *)
(* row for it, which the request that asked for it writes.                    *)
NewTypes == {t \in Types : type[t] = None}
GeneralTypes(c) == LET general == {t \in TypesOf(c) : type[t].general}
                   IN IF general = {} THEN NewTypes ELSE general

WithType(t, c) == IF t \in NewTypes
                  THEN [type EXCEPT ![t] = [category |-> c, general |-> TRUE]] ELSE type

Ask(w, kind, r) ==
    /\ requests < MaxRequests /\ request[w] = None
    /\ request' = [request EXCEPT ![w] = [kind |-> kind, args |-> r]]
    /\ requests' = requests + 1
    /\ UNCHANGED <<rows, refused>>

Serving(w, kind) == request[w] # None /\ request[w].kind = kind
Args(w) == request[w].args
Done(w) == request' = [request EXCEPT ![w] = None] /\ UNCHANGED requests

(* The transaction fails on a foreign key: nothing is written. *)
Fails(w) ==
    /\ Done(w)
    /\ refused' = refused \union {request[w]}
    /\ UNCHANGED rows

-----------------------------------------------------------------------------
(* Brokers                                                                   *)

AskCreateBroker(w, b, some) ==
    /\ b \notin brokers
    /\ \A s \in some : IsSupplier(s)
    /\ Ask(w, "create broker", [broker |-> b, suppliers |-> some])
AskUpdateBroker(w, b, some) ==
    /\ b \in brokers
    /\ \A s \in some : IsSupplier(s)
    /\ Ask(w, "update broker", [broker |-> b, suppliers |-> some])

(* The suppliers listed are linked and get this broker as their own; those    *)
(* listed before lose the link and keep the broker.                           *)
CommitBroker(w) ==
    LET b == Args(w).broker
        some == Args(w).suppliers
    IN /\ Serving(w, "create broker") \/ Serving(w, "update broker")
       /\ IF (\A s \in some : IsSupplier(s)) /\ (Serving(w, "update broker") => b \in brokers)
          THEN /\ brokers' = brokers \union {b}
               /\ links' = {l \in links : l[1] # b} \union ({b} \X some)
               /\ supplier' = [s \in Suppliers |-> IF s \in some THEN [broker |-> b]
                                                   ELSE supplier[s]]
               /\ Done(w)
               /\ UNCHANGED <<categories, type, item, defaults, memory, purchases, refused>>
          ELSE Fails(w)

AskDeleteBroker(w, b) ==
    /\ b \in brokers
    /\ \A p \in Purchases : purchases[p] # None =>
          ~(purchases[p].live /\ purchases[p].broker = b)
    /\ \A s \in Suppliers : supplier[s] # [broker |-> b]
    /\ Ask(w, "delete broker", [broker |-> b])

LinksLeft(b) == links                   \* mutation: the links are not cleared first
LinksWithout(b) == {l \in links : l[1] # b}
CommitDeleteBroker(w) ==
    LET b == Args(w).broker
    IN /\ Serving(w, "delete broker")
       /\ IF /\ \A l \in LinksWithout(b) : l[1] # b
             /\ \A p \in Purchases : purchases[p] # None => purchases[p].broker # b
             /\ \A s \in Suppliers : supplier[s] # [broker |-> b]
          THEN /\ brokers' = brokers \ {b}
               /\ links' = LinksWithout(b)
               /\ Done(w)
               /\ UNCHANGED <<supplier, categories, type, item, defaults, memory,
                              purchases, refused>>
          ELSE Fails(w)

-----------------------------------------------------------------------------
(* Suppliers: the first broker given becomes broker_id, all are linked.      *)

AskCreateSupplier(w, s, first, some) ==
    /\ ~IsSupplier(s)
    /\ some \subseteq brokers
    /\ first \in IF some = {} THEN {NoBroker} ELSE some
    /\ Ask(w, "create supplier", [supplier |-> s, first |-> first, brokers |-> some])
AskUpdateSupplier(w, s, first, some) ==
    /\ IsSupplier(s)
    /\ some \subseteq brokers
    /\ first \in IF some = {} THEN {NoBroker} ELSE some
    /\ Ask(w, "update supplier", [supplier |-> s, first |-> first, brokers |-> some])
CommitSupplier(w) ==
    LET s == Args(w).supplier
    IN /\ Serving(w, "create supplier") \/ Serving(w, "update supplier")
       /\ IF Args(w).brokers \subseteq brokers
             /\ (Serving(w, "update supplier") => IsSupplier(s))
          THEN /\ supplier' = [supplier EXCEPT ![s] = [broker |-> Args(w).first]]
               /\ links' = {l \in links : l[2] # s} \union (Args(w).brokers \X {s})
               /\ Done(w)
               /\ UNCHANGED <<brokers, categories, type, item, defaults, memory,
                              purchases, refused>>
          ELSE Fails(w)

AskDeleteSupplier(w, s) ==
    /\ IsSupplier(s)
    /\ \A p \in Purchases : purchases[p] # None =>
          ~(purchases[p].live /\ purchases[p].supplier = s)
    /\ Ask(w, "delete supplier", [supplier |-> s])
CommitDeleteSupplier(w) ==
    LET s == Args(w).supplier
    IN /\ Serving(w, "delete supplier")
       /\ IF \A p \in Purchases : purchases[p] # None => purchases[p].supplier # s
          THEN /\ supplier' = [supplier EXCEPT ![s] = None]
               /\ links' = {l \in links : l[2] # s}
               /\ memory' = {m \in memory : m[1] # s}
               /\ defaults' = {d \in defaults : d[1] # s}
               /\ Done(w)
               /\ UNCHANGED <<brokers, categories, type, item, purchases, refused>>
          ELSE Fails(w)

-----------------------------------------------------------------------------
(* Categories and types                                                      *)

AskCreateCategory(w, c) ==
    /\ c \notin categories /\ NewTypes # {}
    /\ Ask(w, "create category", [category |-> c])
CommitCreateCategory(w) ==
    /\ Serving(w, "create category")
    /\ categories' = categories \union {Args(w).category}
    /\ \E t \in NewTypes :
          type' = [type EXCEPT ![t] = [category |-> Args(w).category, general |-> TRUE]]
    /\ Done(w)
    /\ UNCHANGED <<brokers, supplier, links, item, defaults, memory, purchases, refused>>

(* What the session deletes with the category: its types, and, by the cascade *)
(* of the relationship, the items it has by now.                              *)
DeletableAlways(c) == c \in categories  \* mutation: items are not looked for
Deletable(c) == c \in categories /\ ItemsOf(c) = {}
AskDeleteCategory(w, c) ==
    Deletable(c) /\ Ask(w, "delete category", [category |-> c])
CommitDeleteCategory(w) ==
    LET c == Args(w).category
    IN /\ Serving(w, "delete category")
       /\ IF \A i \in ItemsOf(c) : /\ \A m \in memory : m[2] # i
                                   /\ \A p \in Purchases : purchases[p] # None =>
                                         purchases[p].item # i
          THEN /\ categories' = categories \ {c}
               /\ type' = [t \in Types |-> IF t \in TypesOf(c) THEN None ELSE type[t]]
               /\ item' = [i \in Items |-> IF i \in ItemsOf(c) THEN None ELSE item[i]]
               /\ defaults' = {d \in defaults : d[2] \notin ItemsOf(c)}
               /\ Done(w)
               /\ UNCHANGED <<brokers, supplier, links, memory, purchases, refused>>
          ELSE Fails(w)

AskCreateType(w, c, t) ==
    /\ c \in categories /\ t \in NewTypes
    /\ Ask(w, "create type", [category |-> c, type |-> t])
CommitCreateType(w) ==
    /\ Serving(w, "create type")
    /\ IF Args(w).category \in categories /\ Args(w).type \in NewTypes
       THEN /\ type' = [type EXCEPT ![Args(w).type] =
                           [category |-> Args(w).category, general |-> FALSE]]
            /\ Done(w)
            /\ UNCHANGED <<brokers, supplier, links, categories, item, defaults, memory,
                           purchases, refused>>
       ELSE Fails(w)

AskDeleteType(w, t) ==
    /\ type[t] # None
    /\ \A i \in Items : item[i] # None => item[i].type # t
    /\ Ask(w, "delete type", [type |-> t])
CommitDeleteType(w) ==                  \* ON DELETE SET NULL
    LET t == Args(w).type
    IN /\ Serving(w, "delete type")
       /\ type' = [type EXCEPT ![t] = None]
       /\ item' = [i \in Items |-> IF item[i] # None /\ item[i].type = t
                                   THEN [item[i] EXCEPT !.type = NoType] ELSE item[i]]
       /\ Done(w)
       /\ UNCHANGED <<brokers, supplier, links, categories, defaults, memory, purchases,
                      refused>>

-----------------------------------------------------------------------------
(* Items                                                                     *)

(* POST /catalog-items, one of POST /catalog-items/batch, and the scan form   *)
(* (which names no suppliers): the type is checked to be of the category, or  *)
(* the general type of the category is taken.                                 *)
AskCreateItem(w, i, c, t, some) ==
    /\ item[i] = None
    /\ c \in categories /\ t \in TypesOf(c) \union GeneralTypes(c)
    /\ \A s \in some : IsSupplier(s)
    /\ Ask(w, "create item", [item |-> i, category |-> c, type |-> t, suppliers |-> some])
CommitCreateItem(w) ==
    LET r == Args(w)
        i == r.item
    IN /\ Serving(w, "create item")
       /\ IF /\ r.category \in categories
             /\ r.type \in TypesOf(r.category) \union NewTypes
             /\ \A s \in r.suppliers : IsSupplier(s)
          THEN /\ type' = WithType(r.type, r.category)
               /\ item' = [item EXCEPT ![i] = [category |-> r.category, type |-> r.type,
                                               archived |-> FALSE]]
               /\ defaults' = defaults \union (r.suppliers \X {i})
               /\ memory' = memory \union (r.suppliers \X {i})
               /\ Done(w)
               /\ UNCHANGED <<brokers, supplier, links, categories, purchases, refused>>
          ELSE Fails(w)

(* PATCH /catalog-items/{id} with another category takes the general type of   *)
(* that category; with a type only, one that is of the category it loaded.     *)
MovedTypeKept(i, c) == {item[i].type}   \* mutation: the type is left as it was
MovedType(i, c) == GeneralTypes(c)
AskMoveItem(w, i, c) ==
    /\ item[i] # None /\ c \in categories
    /\ \E t \in MovedType(i, c) :
          Ask(w, "move item", [item |-> i, category |-> c, type |-> t])
AskRetypeItem(w, i, t) ==
    /\ item[i] # None /\ t \in TypesOf(item[i].category)
    /\ Ask(w, "retype item", [item |-> i, type |-> t])
CommitMoveItem(w) ==
    LET r == Args(w)
    IN /\ Serving(w, "move item")
       /\ IF item[r.item] # None /\ r.category \in categories
          THEN /\ type' = WithType(r.type, r.category)
               /\ item' = [item EXCEPT ![r.item] = [@ EXCEPT !.category = r.category,
                                                              !.type = r.type]]
               /\ Done(w)
               /\ UNCHANGED <<brokers, supplier, links, categories, defaults, memory,
                              purchases, refused>>
          ELSE Fails(w)
CommitRetypeItem(w) ==
    LET r == Args(w)
    IN /\ Serving(w, "retype item")
       /\ IF item[r.item] # None /\ type[r.type] # None
          THEN /\ item' = [item EXCEPT ![r.item] = [@ EXCEPT !.type = r.type]]
               /\ Done(w)
               /\ UNCHANGED <<brokers, supplier, links, categories, type, defaults, memory,
                              purchases, refused>>
          ELSE Fails(w)

AskDefaultSuppliers(w, i, some) ==
    /\ item[i] # None /\ some # {} /\ \A s \in some : IsSupplier(s)
    /\ Ask(w, "default suppliers", [item |-> i, suppliers |-> some])
CommitDefaultSuppliers(w) ==
    LET r == Args(w)
    IN /\ Serving(w, "default suppliers")
       /\ IF item[r.item] # None /\ \A s \in r.suppliers : IsSupplier(s)
          THEN /\ defaults' = {d \in defaults : d[2] # r.item} \union (r.suppliers \X {r.item})
               /\ memory' = memory \union (r.suppliers \X {r.item})
               /\ Done(w)
               /\ UNCHANGED <<brokers, supplier, links, categories, type, item, purchases,
                              refused>>
          ELSE Fails(w)

(* POST /catalog/items/bulk-archive, one item of it. *)
AskArchiveItem(w, i) ==
    /\ item[i] # None /\ ~item[i].archived
    /\ Ask(w, "archive item", [item |-> i])
CommitArchiveItem(w) ==
    /\ Serving(w, "archive item")
    /\ item' = IF item[Args(w).item] = None THEN item
               ELSE [item EXCEPT ![Args(w).item].archived = TRUE]
    /\ Done(w)
    /\ UNCHANGED <<brokers, supplier, links, categories, type, defaults, memory, purchases,
                   refused>>

AskDeleteItem(w, i) ==
    /\ item[i] # None
    /\ \A p \in Purchases : purchases[p] # None => purchases[p].item # i
    /\ Ask(w, "delete item", [item |-> i])
CommitDeleteItem(w) ==                  \* supplier_item_defaults do not cascade
    LET i == Args(w).item
    IN /\ Serving(w, "delete item")
       /\ IF /\ \A m \in memory : m[2] # i
             /\ \A p \in Purchases : purchases[p] # None => purchases[p].item # i
          THEN /\ item' = [item EXCEPT ![i] = None]
               /\ defaults' = {d \in defaults : d[2] # i}
               /\ Done(w)
               /\ UNCHANGED <<brokers, supplier, links, categories, type, memory, purchases,
                              refused>>
          ELSE Fails(w)

-----------------------------------------------------------------------------
(* Purchases refer to the directory, cancelled and deleted ones too.         *)

AskPurchase(w, p, s, b, i) ==
    /\ purchases[p] = None /\ IsSupplier(s) /\ b \in brokers \union {NoBroker} /\ item[i] # None
    /\ Ask(w, "purchase", [purchase |-> p, supplier |-> s, broker |-> b, item |-> i])
CommitPurchase(w) ==
    LET r == Args(w)
    IN /\ Serving(w, "purchase")
       /\ IF IsSupplier(r.supplier) /\ r.broker \in brokers \union {NoBroker} /\ item[r.item] # None
          THEN /\ purchases' = [purchases EXCEPT ![r.purchase] =
                                   [supplier |-> r.supplier, broker |-> r.broker,
                                    item |-> r.item, live |-> TRUE]]
               /\ memory' = memory \union {<<r.supplier, r.item>>}
               /\ Done(w)
               /\ UNCHANGED <<brokers, supplier, links, categories, type, item, defaults,
                              refused>>
          ELSE Fails(w)
ClosePurchase(p) ==
    /\ purchases[p] # None /\ purchases[p].live
    /\ purchases' = [purchases EXCEPT ![p].live = FALSE]
    /\ UNCHANGED <<brokers, supplier, links, categories, type, item, defaults, memory,
                   request, requests, refused>>

-----------------------------------------------------------------------------
AskContacts(w) ==
    \/ \E b \in Brokers : \/ AskDeleteBroker(w, b)
                          \/ \E some \in SUBSET Suppliers : \/ AskCreateBroker(w, b, some)
                                                            \/ AskUpdateBroker(w, b, some)
    \/ \E s \in Suppliers :
          \/ AskDeleteSupplier(w, s)
          \/ \E some \in SUBSET Brokers, first \in Brokers \union {NoBroker} :
                AskCreateSupplier(w, s, first, some) \/ AskUpdateSupplier(w, s, first, some)
    \/ \E p \in Purchases, s \in Suppliers, b \in Brokers \union {NoBroker}, i \in Items :
          AskPurchase(w, p, s, b, i)
AskCatalog(w) ==
    \/ \E c \in Categories :
          \/ AskCreateCategory(w, c) \/ AskDeleteCategory(w, c)
          \/ \E t \in Types : AskCreateType(w, c, t)
          \/ \E i \in Items : \/ AskMoveItem(w, i, c)
                              \/ \E t \in Types, some \in SUBSET Suppliers :
                                    AskCreateItem(w, i, c, t, some)
    \/ \E t \in Types : AskDeleteType(w, t) \/ \E i \in Items : AskRetypeItem(w, i, t)
    \/ \E i \in Items : \/ AskArchiveItem(w, i) \/ AskDeleteItem(w, i)
                        \/ \E some \in SUBSET Suppliers : AskDefaultSuppliers(w, i, some)
Commit(w) ==
    \/ CommitBroker(w) \/ CommitDeleteBroker(w) \/ CommitSupplier(w) \/ CommitDeleteSupplier(w)
    \/ CommitCreateCategory(w) \/ CommitDeleteCategory(w)
    \/ CommitCreateType(w) \/ CommitDeleteType(w)
    \/ CommitCreateItem(w) \/ CommitMoveItem(w) \/ CommitRetypeItem(w)
    \/ CommitDefaultSuppliers(w) \/ CommitArchiveItem(w) \/ CommitDeleteItem(w)
    \/ CommitPurchase(w)

Next ==
    \/ \E w \in Workers : AskContacts(w) \/ AskCatalog(w) \/ Commit(w)
    \/ \E p \in Purchases : ClosePurchase(p)

Spec == Init /\ [][Next]_vars

-----------------------------------------------------------------------------
TypeOK ==
    /\ brokers \subseteq Brokers
    /\ supplier \in [Suppliers -> Supplier \union {None}]
    /\ links \subseteq Brokers \X Suppliers
    /\ categories \subseteq Categories
    /\ type \in [Types -> TypeRow \union {None}]
    /\ item \in [Items -> Item \union {None}]
    /\ defaults \subseteq Suppliers \X Items
    /\ memory \subseteq Suppliers \X Items
    /\ purchases \in [Purchases -> Purchase \union {None}]
    /\ requests \in 0..MaxRequests

(* When requests are served one at a time, an item's type is always one of    *)
(* its category, however items are moved and types made and deleted.          *)
TypeInCategory ==
    \A i \in Items : item[i] # None /\ item[i].type # NoType =>
        item[i].type \in TypesOf(item[i].category)

(* When requests are served one at a time, an item leaves the catalog only by *)
(* a request to delete that item, never with its category.                    *)
ItemsLeaveOnlyByDeletion ==
    [][\A i \in Items : item[i] # None /\ item'[i] = None =>
          \E w \in Workers : Serving(w, "delete item") /\ Args(w).item = i]_vars

(* When requests are served one at a time, a deletion of a broker or supplier *)
(* that passed its checks fails at the database only because of a purchase    *)
(* that was cancelled or deleted, never because of links, defaults or memory. *)
DeletesFailForHistoryOnly ==
    \A r \in refused :
        /\ r.kind = "delete broker" =>
              \E p \in Purchases : purchases[p] # None /\ purchases[p].broker = r.args.broker
        /\ r.kind = "delete supplier" =>
              \E p \in Purchases : purchases[p] # None /\ purchases[p].supplier = r.args.supplier
=============================================================================
