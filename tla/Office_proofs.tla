---------------------------- MODULE Office_proofs ----------------------------
(***************************************************************************)
(* Theorems about the components around the stock that keep lists: the     *)
(* codes of items, the orders sent to suppliers, the checklists, the       *)
(* entries a workspace starts with, the directory of contacts and items,   *)
(* payments, exports and backups, and searches by name; for any items,     *)
(* members, workspaces, orders and requests.  Each component is an         *)
(* instance with a specification of its own: the names two of them have in *)
(* common (day, item, purchases, running) are one variable in this text    *)
(* only, and no theorem is about two components at once.                   *)
(***************************************************************************)
EXTENDS FiniteSets, Naturals, Sequences, FiniteSetTheorems, TLAPS

CONSTANTS None, Workers, Users, MaxRequests,
          Items, Words, MaxNumber,              \* ItemCodes
          Orders, Lost, MaxAttempts,            \* OrderMessages
          Tasks, Defaults, Assignments, MaxDay, \* Checklists
          Workspaces, SeedDefaults, Mandatory,  \* Seeding
          Brokers, Suppliers, Categories, Types, Purchases,  \* Directory
          Totals, Terms,                        \* Payments
          Keep, Span, MaxZip, MaxRows, MaxRuns, MaxEdits, \* Backups
          Names, Above, Like, MaxChanges        \* Searches

VARIABLES catalog, call, asked,
          enabled, stored, logs, sendings, received, forced, unheard,
          templates, completions, activity, assigned, serving, day,
          memberships, entries, boot, overlapped,
          brokers, supplier, links, categories, type, item, defaults, memory, purchases, refused,
          lifecycle, total, paid, due, today, request,
          files, running, second, runs, edits, changes,
          requests

Coding == INSTANCE ItemCodes
Sending == INSTANCE OrderMessages WITH call <- sendings
Lists == INSTANCE Checklists
Bootstraps == INSTANCE Seeding WITH Defaults <- SeedDefaults
Listing == INSTANCE Directory
Paying == INSTANCE Payments WITH status <- lifecycle
Saving == INSTANCE Backups
Naming == INSTANCE Searches

(* One request at a time.                                                     *)
Serial == \A v, w \in Workers : v = w

-----------------------------------------------------------------------------
(* A finite set of numbers has a largest one, and Max is it.                 *)

LEMMA MaxExists ==
    ASSUME NEW S, IsFiniteSet(S), S \subseteq Nat, S # {}
    PROVE  \E x \in S : \A y \in S : x >= y
<1> DEFINE HasMax(T) == \E x \in T : \A y \in T : x >= y
<1> DEFINE Bad == {T \in FiniteSubsetsOf(S) : T # {} /\ ~ HasMax(T)}
<1> SUFFICES ASSUME Bad # {} PROVE FALSE
  BY DEF FiniteSubsetsOf
<1>1. PICK T \in Bad : \A U \in Bad : <<U, T>> \notin StrictSubsetOrdering(S)
  BY FS_StrictSubsetOrderingWellFounded, WFMin
<1>2. T \in SUBSET S /\ IsFiniteSet(T) /\ T # {} /\ ~ HasMax(T)
  BY DEF FiniteSubsetsOf
<1>3. PICK t \in T : TRUE
  BY <1>2
<1> DEFINE U == T \ {t}
<1>4. IsFiniteSet(U) /\ U \in SUBSET S
  BY <1>2, FS_RemoveElement
<1>5. U # {}
  <2> SUFFICES ASSUME U = {} PROVE HasMax(T)
    BY <1>2
  <2>1. T = {t} /\ t \in Nat
    BY <1>2, <1>3
  <2> QED BY <2>1
<1>6. <<U, T>> \in StrictSubsetOrdering(S)
  BY <1>2, <1>3, <1>4 DEF StrictSubsetOrdering
<1>7. HasMax(U)
  BY <1>1, <1>4, <1>5, <1>6 DEF FiniteSubsetsOf
<1>8. PICK u \in U : \A y \in U : u >= y
  BY <1>7
<1>9. HasMax(T)
  <2>1. t \in Nat /\ u \in Nat /\ u \in T /\ \A y \in T : y \in Nat
    BY <1>2, <1>3
  <2>2. CASE u >= t
    BY <1>8, <2>1, <2>2
  <2>3. CASE ~ (u >= t)
    <3>1. \A y \in T : t >= y
      BY <1>8, <2>1, <2>3
    <3> QED BY <1>3, <3>1
  <2> QED BY <2>2, <2>3
<1> QED BY <1>2, <1>9

-----------------------------------------------------------------------------
(* Codes and barcodes.                                                       *)

CodeOps == {"generate", "code", "update"}
Ops == Coding!Inserts \union CodeOps \union {"barcode", "archive", "delete"}
Texts == [number : Nat, word : Words \union {None}, caps : BOOLEAN]
IsItem(row) ==
    /\ row = [code |-> row.code, barcode |-> row.barcode, live |-> row.live]
    /\ row.live \in BOOLEAN
    /\ row.code # None => row.code \in Texts

(* Items are finitely many, and None is no code.                             *)
CodesSensible ==
    IsFiniteSet(Items) /\ MaxNumber \in Nat /\ MaxRequests \in Nat /\ None \notin Texts

IsCall(c) ==
    /\ c = [op |-> c.op, item |-> c.item, row |-> c.row]
    /\ c.op \in Ops /\ c.item \in Items
    /\ c.op \in Coding!Inserts => IsItem(c.row)
    /\ c.op \in CodeOps /\ c.row # None => c.row \in Texts
CodesTyped ==
    /\ catalog = [i \in Items |-> catalog[i]]
    /\ call = [w \in Workers |-> call[w]]
    /\ \A i \in Items : catalog[i] # None => IsItem(catalog[i])
    /\ \A w \in Workers : call[w] # None => IsCall(call[w])
    /\ asked \in 0..MaxRequests

(* No two live items have a barcode in common.                               *)
BarcodesInv ==
    \A i, j \in Coding!Live : catalog[i].barcode # None /\ catalog[i].barcode = catalog[j].barcode
        => i = j

LEMMA TypedIsText ==
    ASSUME CodesSensible, NEW text \in Coding!Typed
    PROVE  text \in Texts
BY DEF Coding!Typed, Coding!Text, Texts, CodesSensible

LEMMA RowIsItem ==
    ASSUME NEW code, NEW barcode, code # None => code \in Texts
    PROVE  IsItem(Coding!Row(code, barcode))
BY DEF Coding!Row, IsItem

(* The next number is larger than the number of every code in capitals.      *)
LEMMA NextIsFresh ==
    ASSUME CodesSensible, CodesTyped
    PROVE  /\ Coding!NextCode \in Texts
           /\ \A i \in Coding!Present : catalog[i].code # Coding!NextCode
<1> DEFINE numbered == Coding!Numbered
           number == [i \in numbered |-> catalog[i].code.number]
           S == {0} \union {catalog[i].code.number : i \in numbered}
<1>1. numbered \subseteq Items /\ IsFiniteSet(numbered)
  <2>1. numbered \in SUBSET Items
    BY DEF Coding!Numbered, Coding!Present
  <2> QED BY <2>1, FS_Subset DEF CodesSensible
<1>2. \A i \in numbered : catalog[i].code \in Texts
  BY DEF Coding!Numbered, Coding!Present, CodesTyped, IsItem
<1>3. \A i \in numbered : number[i] \in Nat
  BY <1>2 DEF Texts
<1> DEFINE R == {catalog[i].code.number : i \in numbered}
<1>4. number \in Surjection(numbered, R)
  BY DEF Surjection
<1>5. IsFiniteSet(R)
  BY <1>1, <1>4, FS_Surjection
<1>6. IsFiniteSet(S) /\ S \subseteq Nat /\ S # {}
  BY <1>3, <1>5, FS_AddElement
<1>7. PICK m : m = Coding!Max(S)
  OBVIOUS
<1>8. m \in S /\ \A y \in S : m >= y
  BY <1>6, <1>7, MaxExists DEF Coding!Max
<1>9. Coding!NextCode = [number |-> m + 1, word |-> None, caps |-> TRUE]
  BY <1>7 DEF Coding!NextCode, Coding!Text
<1>10. m \in Nat
  BY <1>6, <1>8
<1>11. Coding!NextCode \in Texts
  BY <1>9, <1>10 DEF Texts
<1>12. ASSUME NEW i \in Coding!Present, catalog[i].code = Coding!NextCode
       PROVE  FALSE
  <2>1. CASE catalog[i].code = None
    <3> QED BY <1>11, <1>12, <2>1 DEF CodesSensible
  <2>2. CASE catalog[i].code # None
    <3>1. i \in numbered
      BY <1>9, <1>12, <2>2 DEF Coding!Numbered
    <3>2. catalog[i].code.number = m + 1
      BY <1>9, <1>12
    <3>3. m >= m + 1
      BY <1>8, <3>1, <3>2
    <3> QED BY <1>10, <3>3
  <2> QED BY <2>1, <2>2
<1> QED BY <1>11, <1>12

(* A request that asks changes nothing but its worker's call.                *)
CodesAsk ==
    \E w \in Workers, i \in Items :
        \/ Coding!Create(w, i) \/ Coding!CreateBatch(w, i) \/ Coding!CreateFromScan(w, i)
        \/ Coding!GenerateCode(w, i) \/ Coding!PatchCode(w, i) \/ Coding!PatchBarcode(w, i)
        \/ Coding!Update(w, i) \/ Coding!Archive(w, i) \/ Coding!Delete(w, i)

(* What a request may be about to write, and that a handed out number is the *)
(* next one.                                                                 *)
Asked(w, op, row) ==
    \E i \in Items :
        /\ Coding!Ask(w, op, i, row)
        /\ op \in Ops
        /\ op \in Coding!Inserts => IsItem(row)
        /\ op \in CodeOps /\ row # None => row \in Texts
        /\ op = "next" => row.code = Coding!NextCode
        /\ op = "generate" => row = Coding!NextCode

LEMMA AskIs ==
    ASSUME CodesSensible, CodesTyped, CodesAsk
    PROVE  \E w \in Workers : \E op, row : Asked(w, op, row)
<1>1. PICK w \in Workers, i \in Items :
        \/ Coding!Create(w, i) \/ Coding!CreateBatch(w, i) \/ Coding!CreateFromScan(w, i)
        \/ Coding!GenerateCode(w, i) \/ Coding!PatchCode(w, i) \/ Coding!PatchBarcode(w, i)
        \/ Coding!Update(w, i) \/ Coding!Archive(w, i) \/ Coding!Delete(w, i)
  BY DEF CodesAsk
<1>2. \A text \in Coding!Typed : text \in Texts
  BY TypedIsText
<1>3. Coding!NextCode \in Texts
  BY NextIsFresh
<1>4. CASE Coding!Create(w, i)
  <2> DEFINE codeOf(typed) == IF typed = None THEN Coding!NextCode ELSE typed
  <2>1. PICK typed \in Coding!Typed \union {None}, scanned \in Coding!Typed \union {None} :
           Coding!Ask(w, IF typed = None THEN "next" ELSE "create", i,
                      Coding!Row(codeOf(typed),
                                 IF scanned = None THEN codeOf(typed) ELSE scanned))
    BY <1>4 DEF Coding!Create
  <2>6. PICK code : code = codeOf(typed)
    OBVIOUS
  <2>2. PICK row : row = Coding!Row(code, IF scanned = None THEN code ELSE scanned)
    OBVIOUS
  <2>3. IsItem(row) /\ row.code = code
    BY <1>2, <1>3, <2>2, <2>6, RowIsItem DEF Coding!Row
  <2>4. CASE typed = None
    <3>1. Coding!Ask(w, "next", i, row) /\ row.code = Coding!NextCode
      BY <2>1, <2>2, <2>3, <2>4, <2>6
    <3>2. Asked(w, "next", row)
      BY <2>3, <3>1 DEF Asked, Ops, CodeOps, Coding!Inserts
    <3> QED BY <3>2
  <2>5. CASE typed # None
    <3>1. Coding!Ask(w, "create", i, row)
      BY <2>1, <2>2, <2>5, <2>6
    <3>2. Asked(w, "create", row)
      BY <2>3, <3>1 DEF Asked, Ops, CodeOps, Coding!Inserts
    <3> QED BY <3>2
  <2> QED BY <2>4, <2>5
<1>5. CASE Coding!CreateBatch(w, i)
  <2>1. Coding!Ask(w, "create", i, Coding!Row(None, None)) /\ IsItem(Coding!Row(None, None))
    BY <1>5, RowIsItem DEF Coding!CreateBatch
  <2>2. Asked(w, "create", Coding!Row(None, None))
    BY <2>1 DEF Asked, Ops, CodeOps, Coding!Inserts
  <2> QED BY <2>2
<1>6. CASE Coding!CreateFromScan(w, i)
  <2>1. PICK code \in Coding!Typed, barcode \in Coding!Typed :
           Coding!Ask(w, "scan", i, Coding!Row(code, barcode))
    BY <1>6 DEF Coding!CreateFromScan
  <2>2. IsItem(Coding!Row(code, barcode))
    BY <1>2, RowIsItem
  <2>3. Asked(w, "scan", Coding!Row(code, barcode))
    BY <2>1, <2>2 DEF Asked, Ops, CodeOps, Coding!Inserts
  <2> QED BY <2>3
<1>7. CASE Coding!GenerateCode(w, i)
  <2>1. Asked(w, "generate", Coding!NextCode)
    BY <1>3, <1>7 DEF Coding!GenerateCode, Asked, Ops, CodeOps, Coding!Inserts
  <2> QED BY <2>1
<1>8. CASE Coding!PatchCode(w, i)
  <2>1. PICK text \in Coding!Typed : Coding!Ask(w, "code", i, text)
    BY <1>8 DEF Coding!PatchCode
  <2>2. Asked(w, "code", text)
    BY <1>2, <2>1 DEF Asked, Ops, CodeOps, Coding!Inserts
  <2> QED BY <2>2
<1>9. CASE Coding!PatchBarcode(w, i)
  <2>1. PICK text \in Coding!Typed : Coding!Ask(w, "barcode", i, text)
    BY <1>9 DEF Coding!PatchBarcode
  <2>2. Asked(w, "barcode", text)
    BY <2>1 DEF Asked, Ops, CodeOps, Coding!Inserts
  <2> QED BY <2>2
<1>10. CASE Coding!Update(w, i)
  <2>1. PICK text \in Coding!Typed \union {None} : Coding!Ask(w, "update", i, text)
    BY <1>10 DEF Coding!Update
  <2>2. Asked(w, "update", text)
    BY <1>2, <2>1 DEF Asked, Ops, CodeOps, Coding!Inserts
  <2> QED BY <2>2
<1>11. CASE Coding!Archive(w, i)
  <2>1. Asked(w, "archive", None)
    BY <1>11 DEF Coding!Archive, Asked, Ops, CodeOps, Coding!Inserts
  <2> QED BY <2>1
<1>12. CASE Coding!Delete(w, i)
  <2>1. Asked(w, "delete", None)
    BY <1>12 DEF Coding!Delete, Asked, Ops, CodeOps, Coding!Inserts
  <2> QED BY <2>1
<1> QED BY <1>1, <1>4, <1>5, <1>6, <1>7, <1>8, <1>9, <1>10, <1>11, <1>12

LEMMA AskTyped ==
    ASSUME CodesSensible, CodesTyped, NEW w \in Workers, NEW op, NEW row, Asked(w, op, row)
    PROVE  CodesTyped' /\ catalog' = catalog
<1>1. PICK i \in Items :
        /\ Coding!Ask(w, op, i, row)
        /\ op \in Ops
        /\ op \in Coding!Inserts => IsItem(row)
        /\ op \in CodeOps /\ row # None => row \in Texts
  BY DEF Asked
<1>2. PICK c : c = [op |-> op, item |-> i, row |-> row]
  OBVIOUS
<1>3. /\ call' = [call EXCEPT ![w] = c] /\ UNCHANGED catalog
      /\ asked < MaxRequests /\ asked' = asked + 1
  BY <1>1, <1>2 DEF Coding!Ask
<1>4. IsCall(c)
  BY <1>1, <1>2 DEF IsCall
<1>5. asked' \in 0..MaxRequests
  BY <1>3 DEF CodesTyped, CodesSensible
<1>6. /\ call' = [v \in Workers |-> call'[v]]
      /\ \A v \in Workers : call'[v] # None => IsCall(call'[v])
  BY <1>3, <1>4 DEF CodesTyped
<1> QED BY <1>3, <1>5, <1>6 DEF CodesTyped, IsItem

(* A write leaves the other items, and writes an item or removes it.         *)
LEMMA WriteIs ==
    ASSUME CodesSensible, CodesTyped, NEW w \in Workers, Coding!Write(w)
    PROVE  /\ asked' = asked /\ call' = [call EXCEPT ![w] = None]
           /\ \/ catalog' = catalog
              \/ \E i \in Items : \E row :
                    /\ i = call[w].item /\ catalog' = [catalog EXCEPT ![i] = row]
                    /\ row # None =>
                         /\ IsItem(row)
                         /\ \/ catalog[i] # None /\ row.barcode = catalog[i].barcode
                               /\ (row.live => catalog[i].live)
                            \/ ~ Coding!IndexRefuses(i, row)
<1>1. PICK c : c = call[w]
  OBVIOUS
<1>2. /\ c # None /\ asked' = asked /\ call' = [call EXCEPT ![w] = None]
      /\ catalog' = IF Coding!Fails(c) THEN catalog
                    ELSE [catalog EXCEPT ![c.item] = Coding!Written(c)]
  BY <1>1 DEF Coding!Write
<1>3. IsCall(c)
  BY <1>1, <1>2 DEF CodesTyped
<1>4. CASE Coding!Fails(c)
  BY <1>2, <1>4
<1>5. CASE ~ Coding!Fails(c)
  <2>1. PICK i \in Items : i = c.item
    BY <1>3 DEF IsCall
  <2>2. PICK row : row = Coding!Written(c)
    OBVIOUS
  <2>3. catalog' = [catalog EXCEPT ![i] = row] /\ catalog'[i] = row
    BY <1>2, <1>5, <2>1, <2>2 DEF CodesTyped
  <2>4. ASSUME row # None
        PROVE  /\ IsItem(row)
               /\ \/ catalog[i] # None /\ row.barcode = catalog[i].barcode
                     /\ (row.live => catalog[i].live)
                  \/ ~ Coding!IndexRefuses(i, row)
    <3>1. CASE c.op \in Coding!Inserts
      <4>1. row = c.row
        BY <2>2, <3>1 DEF Coding!Written, Coding!Inserts
      <4>2. ~ Coding!IndexRefuses(i, row)
        BY <1>5, <2>1, <3>1, <4>1 DEF Coding!Fails
      <4> QED BY <1>3, <3>1, <4>1, <4>2 DEF IsCall
    <3>2. CASE c.op \notin Coding!Inserts
      <4>1. catalog[i] # None /\ IsItem(catalog[i])
        BY <1>5, <2>1, <3>2 DEF Coding!Fails, CodesTyped
      <4>2. CASE c.op \in CodeOps
        <5>1. row = [catalog[i] EXCEPT !.code = c.row]
          BY <2>1, <2>2, <4>2 DEF Coding!Written, CodeOps, Coding!Inserts
        <5>2. c.row # None => c.row \in Texts
          BY <1>3, <4>2 DEF IsCall
        <5> QED BY <4>1, <5>1, <5>2 DEF IsItem
      <4>3. CASE c.op = "barcode"
        <5>1. row = [catalog[i] EXCEPT !.barcode = c.row]
          BY <2>1, <2>2, <4>3 DEF Coding!Written, CodeOps, Coding!Inserts
        <5>2. ~ Coding!IndexRefuses(i, row)
          BY <1>5, <2>1, <2>2, <3>2, <4>3 DEF Coding!Fails
        <5> QED BY <4>1, <5>1, <5>2 DEF IsItem
      <4>4. CASE c.op = "archive"
        <5>1. row = [catalog[i] EXCEPT !.live = FALSE]
          BY <2>1, <2>2, <4>4 DEF Coding!Written, CodeOps, Coding!Inserts
        <5> QED BY <4>1, <5>1 DEF IsItem
      <4>5. CASE c.op = "delete"
        BY <2>2, <2>4, <4>5 DEF Coding!Written, Coding!Inserts
      <4> QED BY <1>3, <3>2, <4>2, <4>3, <4>4, <4>5 DEF IsCall, Ops
    <3> QED BY <3>1, <3>2
  <2> QED BY <1>1, <1>2, <2>1, <2>3, <2>4
<1> QED BY <1>4, <1>5

LEMMA CodesInit == CodesSensible => (Coding!Init => CodesTyped /\ BarcodesInv)
<1> SUFFICES ASSUME CodesSensible, Coding!Init PROVE CodesTyped /\ BarcodesInv
  OBVIOUS
<1>1. catalog = [i \in Items |-> None] /\ call = [w \in Workers |-> None] /\ asked = 0
  BY DEF Coding!Init
<1>2. Coding!Live = {}
  BY <1>1 DEF Coding!Live, Coding!Present
<1>3. CodesTyped
  BY <1>1 DEF CodesTyped, CodesSensible
<1> QED BY <1>2, <1>3 DEF BarcodesInv

LEMMA CodesSteps ==
    ASSUME Coding!Next
    PROVE  CodesAsk \/ \E w \in Workers : Coding!Write(w)
BY DEF Coding!Next, CodesAsk

LEMMA WriteTyped ==
    ASSUME CodesSensible, CodesTyped, NEW w \in Workers, Coding!Write(w)
    PROVE  CodesTyped'
<1>1. /\ asked' = asked /\ call' = [call EXCEPT ![w] = None]
      /\ \/ catalog' = catalog
         \/ \E i \in Items : \E row :
               catalog' = [catalog EXCEPT ![i] = row] /\ (row # None => IsItem(row))
  BY WriteIs
<1>2. /\ call' = [v \in Workers |-> call'[v]]
      /\ \A v \in Workers : call'[v] # None => IsCall(call'[v])
  BY <1>1 DEF CodesTyped
<1>3. /\ catalog' = [i \in Items |-> catalog'[i]]
      /\ \A i \in Items : catalog'[i] # None => IsItem(catalog'[i])
  <2>1. CASE catalog' = catalog
    BY <2>1 DEF CodesTyped
  <2>2. ASSUME NEW i \in Items, NEW row, catalog' = [catalog EXCEPT ![i] = row],
               row # None => IsItem(row)
        PROVE  /\ catalog' = [j \in Items |-> catalog'[j]]
               /\ \A j \in Items : catalog'[j] # None => IsItem(catalog'[j])
    BY <2>2 DEF CodesTyped
  <2> QED BY <1>1, <2>1, <2>2
<1> QED BY <1>1, <1>2, <1>3 DEF CodesTyped, IsCall, IsItem

LEMMA WriteBarcodes ==
    ASSUME CodesSensible, CodesTyped, BarcodesInv, NEW w \in Workers, Coding!Write(w)
    PROVE  BarcodesInv'
<1>1. CASE catalog' = catalog
  BY <1>1 DEF BarcodesInv, Coding!Live, Coding!Present
<1>2. ASSUME NEW i \in Items, NEW row, catalog' = [catalog EXCEPT ![i] = row],
             row # None =>
                 /\ IsItem(row)
                 /\ \/ catalog[i] # None /\ row.barcode = catalog[i].barcode
                       /\ (row.live => catalog[i].live)
                    \/ ~ Coding!IndexRefuses(i, row)
      PROVE  BarcodesInv'
  <2>1. /\ \A j \in Items \ {i} : catalog'[j] = catalog[j]
        /\ catalog'[i] = row
    BY <1>2 DEF CodesTyped
  <2>2. Coding!Live' \ {i} = Coding!Live \ {i}
    BY <2>1 DEF Coding!Live, Coding!Present
  <2>3. ASSUME NEW j \in Coding!Live \ {i}, i \in Coding!Live',
               row.barcode # None, row.barcode = catalog[j].barcode
        PROVE  FALSE
    <3>1. row # None /\ row.live
      BY <2>1, <2>3 DEF Coding!Live, Coding!Present
    <3>2. ~ Coding!IndexRefuses(i, row) => FALSE
      BY <2>3, <3>1 DEF Coding!IndexRefuses, Coding!BarcodeUsed
    <3>3. i \in Coding!Live /\ catalog[i].barcode = row.barcode
      BY <1>2, <3>1, <3>2 DEF Coding!Live, Coding!Present
    <3> QED BY <2>3, <3>3 DEF BarcodesInv
  <2>4. ASSUME NEW j \in Coding!Live', NEW k \in Coding!Live', catalog'[j].barcode # None,
               catalog'[j].barcode = catalog'[k].barcode, j # k
        PROVE  FALSE
    <3>0. j \in Items /\ k \in Items
      BY DEF Coding!Live, Coding!Present
    <3>1. CASE j = i
      <4>1. k \in Coding!Live \ {i} /\ catalog'[k] = catalog[k]
        BY <2>1, <2>2, <2>4, <3>0, <3>1
      <4> QED BY <2>1, <2>3, <2>4, <3>1, <4>1
    <3>2. CASE k = i
      <4>1. j \in Coding!Live \ {i} /\ catalog'[j] = catalog[j]
        BY <2>1, <2>2, <2>4, <3>0, <3>2
      <4> QED BY <2>1, <2>3, <2>4, <3>2, <4>1
    <3>3. CASE j # i /\ k # i
      <4>1. /\ j \in Coding!Live /\ catalog'[j] = catalog[j]
            /\ k \in Coding!Live /\ catalog'[k] = catalog[k]
        BY <2>1, <2>2, <3>0, <3>3
      <4> QED BY <2>4, <4>1 DEF BarcodesInv
    <3> QED BY <3>1, <3>2, <3>3
  <2> QED BY <2>4 DEF BarcodesInv
<1> QED BY <1>1, <1>2, WriteIs

LEMMA CodesNext ==
    ASSUME CodesSensible, CodesTyped, BarcodesInv, [Coding!Next]_(Coding!vars)
    PROVE  CodesTyped' /\ BarcodesInv'
<1>1. CASE CodesAsk
  <2>1. PICK w \in Workers : \E op, row : Asked(w, op, row)
    BY <1>1, AskIs
  <2>2. CodesTyped' /\ catalog' = catalog
    BY <2>1, AskTyped
  <2> QED BY <2>2 DEF BarcodesInv, Coding!Live, Coding!Present
<1>2. ASSUME NEW w \in Workers, Coding!Write(w) PROVE CodesTyped' /\ BarcodesInv'
  BY <1>2, WriteTyped, WriteBarcodes
<1>3. CASE UNCHANGED Coding!vars
  BY <1>3 DEF Coding!vars, CodesTyped, BarcodesInv, Coding!Live, Coding!Present, IsItem, IsCall
<1> QED BY <1>1, <1>2, <1>3, CodesSteps

LEMMA CardinalityOfCodes == \A S : Coding!Cardinality(S) = Cardinality(S)
BY DEF Coding!Cardinality, Cardinality

(* The label of an item finds that item and no other, whatever requests       *)
(* overlap between looking for a barcode and writing theirs: the index is     *)
(* over the barcodes of live items, and nothing makes an item live again.     *)
THEOREM LabelsAreFound == CodesSensible => (Coding!Spec => []Coding!LabelsFindTheirItem)
<1> SUFFICES ASSUME CodesSensible PROVE Coding!Spec => []Coding!LabelsFindTheirItem
  OBVIOUS
<1>1. Coding!Init => CodesTyped /\ BarcodesInv
  BY CodesInit
<1>2. CodesTyped /\ BarcodesInv /\ [Coding!Next]_(Coding!vars) => (CodesTyped /\ BarcodesInv)'
  BY CodesNext
<1>3. BarcodesInv => Coding!LabelsFindTheirItem
  <2> SUFFICES ASSUME BarcodesInv, NEW i \in Coding!Live, catalog[i].barcode # None
               PROVE  Coding!Lookup(Coding!Label(i)) = i /\ Coding!PublicLookup(Coding!Label(i)) = i
    BY DEF Coding!LabelsFindTheirItem
  <2>1. Coding!Label(i) = catalog[i].barcode
    BY DEF Coding!Label
  <2>2. Coding!ByBarcode(catalog[i].barcode) = {i}
    BY DEF BarcodesInv, Coding!ByBarcode
  <2>3. Coding!Cardinality({i}) = 1
    BY FS_Singleton, CardinalityOfCodes
  <2>5. (CHOOSE j \in {i} : TRUE) = i
    OBVIOUS
  <2>4. Coding!Only({i}) = i
    BY <2>3, <2>5 DEF Coding!Only
  <2> QED BY <2>1, <2>2, <2>4 DEF Coding!Lookup, Coding!PublicLookup
<1> QED BY <1>1, <1>2, <1>3, PTL DEF Coding!Spec

(* Handled one at a time, a request is never handed out a number that is      *)
(* another item's code, archived items included, however the items' codes     *)
(* were typed, changed and cleared before.                                    *)
THEOREM NumbersAreFresh ==
    CodesSensible /\ Serial => (Coding!Spec => []Coding!CodesAreFresh)
<1> SUFFICES ASSUME CodesSensible, Serial PROVE Coding!Spec => []Coding!CodesAreFresh
  OBVIOUS
<1>1. Coding!Init => CodesTyped /\ BarcodesInv /\ Coding!CodesAreFresh
  BY CodesInit DEF Coding!Init, Coding!CodesAreFresh
<1>2. ASSUME CodesTyped, BarcodesInv, Coding!CodesAreFresh, [Coding!Next]_(Coding!vars)
      PROVE  CodesTyped' /\ BarcodesInv' /\ Coding!CodesAreFresh'
  <2>1. CodesTyped' /\ BarcodesInv'
    BY <1>2, CodesNext
  <2>2. CASE CodesAsk
    <3>1. PICK w \in Workers : \E op, row : Asked(w, op, row)
      BY <1>2, <2>2, AskIs
    <3>2. PICK op, row : Asked(w, op, row)
      BY <3>1
    <3>3. PICK i \in Items : Coding!Ask(w, op, i, row)
      BY <3>2 DEF Asked
    <3>4. PICK c : c = [op |-> op, item |-> i, row |-> row]
      OBVIOUS
    <3>5. call'[w] = c /\ catalog' = catalog /\ Workers = {w}
      BY <1>2, <3>3, <3>4 DEF Coding!Ask, CodesTyped, Serial
    <3>6. Coding!HandedOut(c) \subseteq {Coding!NextCode}
      BY <3>2, <3>4 DEF Asked, Coding!HandedOut
    <3>7. \A j \in Coding!Present : catalog[j].code \notin Coding!HandedOut(c)
      BY <1>2, <3>6, NextIsFresh
    <3>8. Coding!Present' = Coding!Present
      BY <3>5 DEF Coding!Present
    <3> QED BY <2>1, <3>5, <3>7, <3>8 DEF Coding!CodesAreFresh, Coding!HandedOut
  <2>3. ASSUME NEW w \in Workers, Coding!Write(w) PROVE Coding!CodesAreFresh'
    <3>1. call'[w] = None /\ Workers = {w}
      BY <1>2, <2>3, WriteIs DEF CodesTyped, Serial
    <3> QED BY <3>1 DEF Coding!CodesAreFresh
  <2>4. CASE UNCHANGED Coding!vars
    <3>1. call' = call /\ catalog' = catalog
      BY <2>4 DEF Coding!vars
    <3>2. Coding!Present' = Coding!Present
      BY <3>1 DEF Coding!Present
    <3>3. \A w \in Workers : Coding!HandedOut(call[w])' = Coding!HandedOut(call[w])
      BY <3>1 DEF Coding!HandedOut
    <3> QED BY <1>2, <2>1, <3>1, <3>2, <3>3 DEF Coding!CodesAreFresh
  <2> QED BY <1>2, <2>1, <2>2, <2>3, <2>4, CodesSteps
<1> QED BY <1>1, <1>2, PTL DEF Coding!Spec

-----------------------------------------------------------------------------
(* Orders sent to suppliers.                                                 *)

Delivery == [order : Orders, force : BOOLEAN, step : {"begin", "attempt", "sent"},
             attempts : 0..MaxAttempts, at : Nat]
SendingSensible == MaxAttempts \in Nat /\ MaxRequests \in Nat /\ None \notin Delivery

LogRow == [order : Orders, status : Sending!Statuses, attempts : 0..MaxAttempts, at : Nat]
SendingTyped ==
    /\ stored \subseteq Sending!Credentials
    /\ logs \subseteq LogRow
    /\ sendings \in [Workers -> Delivery \union {None}]
    /\ requests \in 0..MaxRequests
    /\ received \in [Orders -> Nat] /\ forced \in [Orders -> Nat] /\ unheard \in [Orders -> Nat]

(* Every committed "sent" row, every delivery that is about to write one, and *)
(* every message whose row was lost is a message of its own.                  *)
Sends(w, o) == sendings[w] # None /\ sendings[w].order = o
Heard(o) == {w \in Workers : Sends(w, o) /\ sendings[w].step = "sent"}
HeardFor(o) ==
    /\ IsFiniteSet(Sending!Sent(o)) /\ IsFiniteSet(Heard(o))
    /\ Cardinality(Sending!Sent(o)) + Cardinality(Heard(o)) + unheard[o] <= received[o]
HeardInv == \A o \in Orders : HeardFor(o)

(* A resend that is not through has a message to its credit; whoever else is  *)
(* at an attempt found no "sent" row, and there is none.                      *)
Credit(o) ==
    IF \E w \in Workers : Sends(w, o) /\ sendings[w].force /\ sendings[w].step # "sent"
    THEN 1 ELSE 0
Got(o) ==
    IF \/ Sending!Sent(o) # {}
       \/ \E w \in Workers : Sends(w, o) /\ sendings[w].step = "sent" /\ ~ sendings[w].force
    THEN 1 ELSE 0
FirstInv ==
    \A w \in Workers :
        sendings[w] # None /\ ~ sendings[w].force /\ sendings[w].step = "attempt"
            => Sending!Sent(sendings[w].order) = {}
ReachedInv == FirstInv /\ \A o \in Orders : received[o] + Credit(o) <= forced[o] + unheard[o] + Got(o)

(* The steps of a delivery, each by what it changes.                         *)
Ended(w, status) ==
    /\ sendings' = [sendings EXCEPT ![w] = None]
    /\ logs' = logs \union {Sending!RowOf(sendings[w], status)}
Left(w) == sendings' = [sendings EXCEPT ![w] = None] /\ logs' = logs

LEMMA BeginIs ==
    ASSUME SendingTyped, NEW w \in Workers, Sending!Begin(w)
    PROVE  /\ sendings[w] # None /\ sendings[w].step = "begin"
           /\ UNCHANGED <<stored, requests, received, forced, unheard>>
           /\ \/ Left(w)
              \/ Ended(w, "pending_manual")
              \/ Ended(w, "failed")
              \/ /\ sendings' = [sendings EXCEPT ![w].step = "attempt"] /\ logs' = logs
                 /\ sendings[w].force \/ Sending!Sent(sendings[w].order) = {}
<1>1. PICK c : c = sendings[w]
  OBVIOUS
<1>2. /\ c # None /\ c.step = "begin"
      /\ UNCHANGED <<stored, requests, received, forced, unheard>>
  BY <1>1 DEF Sending!Begin
<1>3. CASE enabled /\ Sending!SentBefore(c.order, c.force)
  BY <1>1, <1>2, <1>3 DEF Sending!Begin, Left
<1>4. CASE ~ (enabled /\ Sending!SentBefore(c.order, c.force))
  <2>1. PICK inEnvironment \in BOOLEAN, printed \in BOOLEAN :
           LET usable == /\ enabled /\ "number" \in stored
                         /\ "key" \in stored \/ inEnvironment
           IN CASE ~ usable -> Sending!End(w, "pending_manual")
                [] usable /\ (c.order \in Lost \/ ~ printed) -> Sending!End(w, "failed")
                [] OTHER -> Sending!GoTo(w, "attempt")
    BY <1>1, <1>4 DEF Sending!Begin
  <2>2. PICK usable \in BOOLEAN : usable <=> /\ enabled /\ "number" \in stored
                                             /\ "key" \in stored \/ inEnvironment
    OBVIOUS
  <2>3. CASE ~ usable
    <3>1. Sending!End(w, "pending_manual")
      BY <2>1, <2>2, <2>3
    <3> QED BY <1>1, <1>2, <3>1 DEF Sending!End, Ended
  <2>4. CASE usable /\ (c.order \in Lost \/ ~ printed)
    <3>1. Sending!End(w, "failed")
      BY <2>1, <2>2, <2>4
    <3> QED BY <1>1, <1>2, <3>1 DEF Sending!End, Ended
  <2>5. CASE usable /\ ~ (c.order \in Lost \/ ~ printed)
    <3>1. Sending!GoTo(w, "attempt")
      BY <2>1, <2>2, <2>5
    <3>2. c.force \/ Sending!Sent(c.order) = {}
      BY <1>4, <2>2, <2>5 DEF Sending!SentBefore
    <3> QED BY <1>1, <1>2, <3>1, <3>2 DEF Sending!GoTo
  <2> QED BY <2>2, <2>3, <2>4, <2>5
<1> QED BY <1>3, <1>4

(* One delivery among several: what changes of the others.                   *)
LEMMA AttemptIs ==
    ASSUME SendingSensible, SendingTyped, NEW w \in Workers, Sending!Attempt(w)
    PROVE  \E o \in Orders : \E new :
              /\ sendings[w] # None /\ sendings[w].step = "attempt" /\ sendings[w].order = o
              /\ new \in Delivery /\ new.order = o /\ new.force = sendings[w].force
              /\ sendings' = [sendings EXCEPT ![w] = new]
              /\ UNCHANGED <<stored, requests, logs, forced>>
              /\ \/ /\ received' = [received EXCEPT ![o] = @ + 1] /\ unheard' = unheard
                    /\ new.step = "sent"
                 \/ /\ received' = [received EXCEPT ![o] = @ + 1]
                    /\ unheard' = [unheard EXCEPT ![o] = @ + 1]
                    /\ new.step = "attempt"
                 \/ received' = received /\ unheard' = unheard /\ new.step = "attempt"
<1>1. PICK c : c = sendings[w]
  OBVIOUS
<1>2. /\ c # None /\ c.step = "attempt" /\ c.attempts < MaxAttempts
      /\ UNCHANGED <<stored, requests, logs, forced>>
  BY <1>1 DEF Sending!Attempt
<1>3. c \in Delivery
  BY <1>1, <1>2 DEF SendingTyped
<1>4. PICK o \in Orders : o = c.order
  BY <1>3 DEF Delivery
<1>5. PICK tried : tried = [c EXCEPT !.attempts = @ + 1]
  OBVIOUS
<1>6. c.attempts + 1 \in 0..MaxAttempts
  BY <1>2, <1>3 DEF Delivery, SendingSensible
<1>7. /\ tried \in Delivery /\ tried.order = o /\ tried.force = c.force /\ tried.step = "attempt"
  BY <1>2, <1>3, <1>4, <1>5, <1>6 DEF Delivery
<1>12. PICK sent : sent = [tried EXCEPT !.step = "sent"]
  OBVIOUS
<1>13. sent \in Delivery /\ sent.order = o /\ sent.force = c.force /\ sent.step = "sent"
  BY <1>7, <1>12 DEF Delivery
<1>8. PICK taken \in BOOLEAN, heard \in BOOLEAN :
         /\ received' = [received EXCEPT ![o] = IF taken THEN @ + 1 ELSE @]
         /\ unheard' = [unheard EXCEPT ![o] = IF taken /\ ~heard THEN @ + 1 ELSE @]
         /\ sendings' = [sendings EXCEPT ![w] =
                IF taken /\ heard THEN sent ELSE tried]
  BY <1>1, <1>4, <1>5, <1>12 DEF Sending!Attempt
<1>9. CASE taken /\ heard
  BY <1>1, <1>2, <1>4, <1>8, <1>9, <1>13 DEF SendingTyped
<1>10. CASE taken /\ ~heard
  BY <1>1, <1>2, <1>4, <1>7, <1>8, <1>10 DEF SendingTyped
<1>11. CASE ~taken
  BY <1>1, <1>2, <1>4, <1>7, <1>8, <1>11 DEF SendingTyped
<1> QED BY <1>9, <1>10, <1>11

LEMMA FinishIs ==
    ASSUME NEW w \in Workers, Sending!Finish(w)
    PROVE  /\ sendings[w] # None /\ UNCHANGED <<stored, requests, received, forced, unheard>>
           /\ \/ sendings[w].step = "sent" /\ Ended(w, "sent")
              \/ sendings[w].step = "attempt" /\ Ended(w, "pending_manual")
BY DEF Sending!Finish, Sending!End, Ended

LEMMA CrashIs ==
    ASSUME SendingTyped, NEW w \in Workers, Sending!Crash(w)
    PROVE  \E o \in Orders :
              /\ sendings[w] # None /\ sendings[w].order = o
              /\ Left(w) /\ UNCHANGED <<stored, requests, received, forced>>
              /\ \/ sendings[w].step = "sent" /\ unheard' = [unheard EXCEPT ![o] = @ + 1]
                 \/ sendings[w].step # "sent" /\ unheard' = unheard
<1>1. PICK c : c = sendings[w]
  OBVIOUS
<1>2. c # None /\ c \in Delivery
  BY <1>1 DEF Sending!Crash, SendingTyped
<1>3. PICK o \in Orders : o = c.order
  BY <1>2 DEF Delivery
<1>4. /\ Left(w) /\ UNCHANGED <<stored, requests, received, forced>>
      /\ unheard' = [unheard EXCEPT ![o] = IF c.step = "sent" THEN @ + 1 ELSE @]
  BY <1>1, <1>3 DEF Sending!Crash, Left
<1>5. CASE c.step = "sent"
  BY <1>1, <1>2, <1>3, <1>4, <1>5
<1>6. CASE c.step # "sent"
  BY <1>1, <1>2, <1>3, <1>4, <1>6 DEF SendingTyped
<1> QED BY <1>5, <1>6

LEMMA AskIsNew ==
    ASSUME SendingSensible, SendingTyped,
           NEW w \in Workers, NEW o \in Orders, NEW force \in BOOLEAN, Sending!Ask(w, o, force)
    PROVE  \E new \in Delivery :
              /\ new.order = o /\ new.force = force /\ new.step = "begin"
              /\ sendings[w] = None /\ sendings' = [sendings EXCEPT ![w] = new]
              /\ UNCHANGED <<stored, logs, received, unheard>>
              /\ requests' \in 0..MaxRequests
              /\ \/ force /\ forced' = [forced EXCEPT ![o] = @ + 1]
                 \/ ~force /\ forced' = forced
<1>1. PICK new : new = [order |-> o, force |-> force, step |-> "begin",
                        attempts |-> 0, at |-> requests]
  OBVIOUS
<1>2. /\ sendings[w] = None /\ sendings' = [sendings EXCEPT ![w] = new]
      /\ UNCHANGED <<stored, logs, received, unheard>>
      /\ requests < MaxRequests /\ requests' = requests + 1
      /\ forced' = [forced EXCEPT ![o] = IF force THEN @ + 1 ELSE @]
  BY <1>1 DEF Sending!Ask
<1>3. new \in Delivery /\ requests' \in 0..MaxRequests
  BY <1>1, <1>2 DEF Delivery, SendingTyped, SendingSensible
<1>4. CASE force
  BY <1>1, <1>2, <1>3, <1>4
<1>5. CASE ~force
  BY <1>1, <1>2, <1>3, <1>5 DEF SendingTyped
<1> QED BY <1>4, <1>5

LEMMA EndedTyped ==
    ASSUME SendingTyped, NEW w \in Workers, sendings[w] # None,
           NEW status \in Sending!Statuses, Ended(w, status)
    PROVE  /\ logs' \subseteq LogRow
           /\ sendings' \in [Workers -> Delivery \union {None}]
<1>1. sendings[w] \in Delivery
  BY DEF SendingTyped
<1>2. Sending!RowOf(sendings[w], status) \in LogRow
  BY <1>1 DEF Sending!RowOf, LogRow, Delivery
<1> QED BY <1>2 DEF Ended, SendingTyped

LEMMA SendingTypedNext ==
    ASSUME SendingSensible, SendingTyped, [Sending!Next]_(Sending!vars)
    PROVE  SendingTyped'
<1>1. ASSUME NEW w \in Workers, NEW o \in Orders, NEW force \in BOOLEAN, Sending!Ask(w, o, force)
      PROVE  SendingTyped'
  BY <1>1, AskIsNew DEF SendingTyped
<1>2. ASSUME NEW w \in Workers, Sending!Begin(w) PROVE SendingTyped'
  <2>1. /\ sendings[w] # None
        /\ UNCHANGED <<stored, requests, received, forced, unheard>>
        /\ \/ Left(w) \/ Ended(w, "pending_manual") \/ Ended(w, "failed")
           \/ sendings' = [sendings EXCEPT ![w].step = "attempt"] /\ logs' = logs
    BY <1>2, BeginIs
  <2>2. logs' \subseteq LogRow /\ sendings' \in [Workers -> Delivery \union {None}]
    <3>1. CASE Left(w)
      BY <3>1 DEF Left, SendingTyped
    <3>2. CASE Ended(w, "pending_manual") \/ Ended(w, "failed")
      BY <2>1, <3>2, EndedTyped DEF Sending!Statuses
    <3>3. CASE sendings' = [sendings EXCEPT ![w].step = "attempt"] /\ logs' = logs
      <4>1. [sendings[w] EXCEPT !.step = "attempt"] \in Delivery
        BY <2>1 DEF SendingTyped, Delivery
      <4> QED BY <3>3, <4>1 DEF SendingTyped
    <3> QED BY <2>1, <3>1, <3>2, <3>3
  <2> QED BY <2>1, <2>2 DEF SendingTyped
<1>3. ASSUME NEW w \in Workers, Sending!Attempt(w) PROVE SendingTyped'
  BY <1>3, AttemptIs DEF SendingTyped
<1>4. ASSUME NEW w \in Workers, Sending!Finish(w) PROVE SendingTyped'
  <2>1. logs' \subseteq LogRow /\ sendings' \in [Workers -> Delivery \union {None}]
    BY <1>4, FinishIs, EndedTyped DEF Sending!Statuses
  <2> QED BY <1>4, <2>1, FinishIs DEF SendingTyped
<1>5. ASSUME NEW w \in Workers, Sending!Crash(w) PROVE SendingTyped'
  BY <1>5, CrashIs DEF SendingTyped, Left
<1>6. ASSUME Sending!PutCredential PROVE SendingTyped'
  BY <1>6 DEF Sending!PutCredential, SendingTyped
<1>7. ASSUME UNCHANGED Sending!vars PROVE SendingTyped'
  BY <1>7 DEF Sending!vars, SendingTyped
<1> QED BY <1>1, <1>2, <1>3, <1>4, <1>5, <1>6, <1>7 DEF Sending!Next

(* The rows that say "sent", after a step that adds a row or none; and who is *)
(* about to write one, after a step of one worker.                           *)
LEMMA SentGrows ==
    ASSUME NEW row, logs' = logs \union {row}, NEW o
    PROVE  Sending!Sent(o)' = IF row.order = o /\ row.status = "sent"
                              THEN Sending!Sent(o) \union {row} ELSE Sending!Sent(o)
BY DEF Sending!Sent

LEMMA HeardChanges ==
    ASSUME SendingTyped, NEW w \in Workers, NEW new, sendings' = [sendings EXCEPT ![w] = new],
           NEW o
    PROVE  Heard(o)' = IF new # None /\ new.order = o /\ new.step = "sent"
                       THEN Heard(o) \union {w} ELSE Heard(o) \ {w}
BY DEF SendingTyped, Heard, Sends

(* Nobody heard anything and no row says "sent" that did not before.         *)
LEMMA HeardStays ==
    ASSUME SendingTyped, HeardInv, NEW w \in Workers, NEW new,
           sendings' = [sendings EXCEPT ![w] = new],
           sendings[w] = None \/ sendings[w].step # "sent", new = None \/ new.step # "sent",
           NEW o \in Orders, Sending!Sent(o)' = Sending!Sent(o),
           received'[o] - unheard'[o] >= received[o] - unheard[o],
           received' \in [Orders -> Nat], unheard' \in [Orders -> Nat]
    PROVE  HeardFor(o)'
<1>1. Heard(o)' = Heard(o) \ {w}
  BY HeardChanges
<1>2. w \notin Heard(o)
  BY DEF Heard, Sends
<1>3. Heard(o)' = Heard(o)
  BY <1>1, <1>2
<1>4. HeardFor(o) /\ received[o] \in Nat /\ unheard[o] \in Nat
  BY DEF HeardInv, SendingTyped
<1>5. Cardinality(Sending!Sent(o)) \in Nat /\ Cardinality(Heard(o)) \in Nat
  BY <1>4, FS_CardinalityType DEF HeardFor
<1>6. received'[o] \in Nat /\ unheard'[o] \in Nat
  OBVIOUS
<1> QED BY <1>3, <1>4, <1>5, <1>6 DEF HeardFor

LEMMA EndedQuietly ==
    ASSUME SendingTyped, HeardInv, NEW w \in Workers, sendings[w] # None,
           sendings[w].step # "sent", NEW status \in {"pending_manual", "failed"},
           Ended(w, status), UNCHANGED <<received, unheard>>
    PROVE  HeardInv'
<1>1. PICK row : row = Sending!RowOf(sendings[w], status)
  OBVIOUS
<1>2. row.status # "sent" /\ logs' = logs \union {row}
  BY <1>1 DEF Sending!RowOf, Ended
<1> SUFFICES ASSUME NEW o \in Orders PROVE HeardFor(o)'
  BY DEF HeardInv
<1>3. Sending!Sent(o)' = Sending!Sent(o)
  BY <1>2, SentGrows
<1>4. sendings' = [sendings EXCEPT ![w] = None]
  BY DEF Ended
<1>5. received'[o] - unheard'[o] >= received[o] - unheard[o]
  BY DEF SendingTyped
<1> QED BY <1>3, <1>4, <1>5, HeardStays DEF SendingTyped

LEMMA HeardNext ==
    ASSUME SendingSensible, SendingTyped, HeardInv, [Sending!Next]_(Sending!vars)
    PROVE  HeardInv'
<1>0. SendingTyped'
  BY SendingTypedNext
<1>1. ASSUME NEW w \in Workers, NEW n \in Orders, NEW force \in BOOLEAN, Sending!Ask(w, n, force)
      PROVE  HeardInv'
  <2> SUFFICES ASSUME NEW o \in Orders PROVE HeardFor(o)'
    BY DEF HeardInv
  <2>1. PICK new \in Delivery :
           /\ new.step = "begin" /\ sendings[w] = None
           /\ sendings' = [sendings EXCEPT ![w] = new] /\ UNCHANGED <<logs, received, unheard>>
    BY <1>1, AskIsNew
  <2>2. Sending!Sent(o)' = Sending!Sent(o)
    BY <2>1 DEF Sending!Sent
  <2>3. received'[o] - unheard'[o] >= received[o] - unheard[o]
    BY <2>1 DEF SendingTyped
  <2> QED BY <1>0, <2>1, <2>2, <2>3, HeardStays DEF SendingTyped
<1>2. ASSUME NEW w \in Workers, Sending!Begin(w) PROVE HeardInv'
  <2>1. /\ sendings[w] # None /\ sendings[w].step = "begin" /\ UNCHANGED <<received, unheard>>
        /\ \/ Left(w) \/ Ended(w, "pending_manual") \/ Ended(w, "failed")
           \/ sendings' = [sendings EXCEPT ![w].step = "attempt"] /\ logs' = logs
    BY <1>2, BeginIs
  <2>2. CASE Ended(w, "pending_manual") \/ Ended(w, "failed")
    BY <2>1, <2>2, EndedQuietly
  <2>3. ASSUME NEW new, sendings' = [sendings EXCEPT ![w] = new], new = None \/ new.step # "sent",
               logs' = logs
        PROVE  HeardInv'
    <3> SUFFICES ASSUME NEW o \in Orders PROVE HeardFor(o)'
      BY DEF HeardInv
    <3>1. Sending!Sent(o)' = Sending!Sent(o)
      BY <2>3 DEF Sending!Sent
    <3>2. received'[o] - unheard'[o] >= received[o] - unheard[o]
      BY <2>1 DEF SendingTyped
    <3> QED BY <1>0, <2>1, <2>3, <3>1, <3>2, HeardStays DEF SendingTyped
  <2>4. CASE Left(w)
    BY <2>3, <2>4 DEF Left
  <2>5. CASE sendings' = [sendings EXCEPT ![w].step = "attempt"] /\ logs' = logs
    <3>1. PICK new : new = [sendings[w] EXCEPT !.step = "attempt"]
      OBVIOUS
    <3>2. new.step # "sent" /\ sendings' = [sendings EXCEPT ![w] = new]
      BY <2>1, <2>5, <3>1 DEF SendingTyped, Delivery
    <3> QED BY <2>3, <2>5, <3>2
  <2> QED BY <2>1, <2>2, <2>4, <2>5
<1>3. ASSUME NEW w \in Workers, Sending!Attempt(w) PROVE HeardInv'
  <2>1. PICK n \in Orders : \E new :
              /\ sendings[w] # None /\ sendings[w].step = "attempt" /\ sendings[w].order = n
              /\ new \in Delivery /\ new.order = n /\ new.force = sendings[w].force
              /\ sendings' = [sendings EXCEPT ![w] = new]
              /\ UNCHANGED <<stored, requests, logs, forced>>
              /\ \/ /\ received' = [received EXCEPT ![n] = @ + 1] /\ unheard' = unheard
                    /\ new.step = "sent"
                 \/ /\ received' = [received EXCEPT ![n] = @ + 1]
                    /\ unheard' = [unheard EXCEPT ![n] = @ + 1]
                    /\ new.step = "attempt"
                 \/ received' = received /\ unheard' = unheard /\ new.step = "attempt"
    BY <1>3, AttemptIs
  <2>2. PICK new :
              /\ sendings[w] # None /\ sendings[w].step = "attempt" /\ sendings[w].order = n
              /\ new \in Delivery /\ new.order = n
              /\ sendings' = [sendings EXCEPT ![w] = new] /\ logs' = logs
              /\ \/ /\ received' = [received EXCEPT ![n] = @ + 1] /\ unheard' = unheard
                    /\ new.step = "sent"
                 \/ /\ received' = [received EXCEPT ![n] = @ + 1]
                    /\ unheard' = [unheard EXCEPT ![n] = @ + 1]
                    /\ new.step = "attempt"
                 \/ received' = received /\ unheard' = unheard /\ new.step = "attempt"
    BY <2>1
  <2> SUFFICES ASSUME NEW o \in Orders PROVE HeardFor(o)'
    BY DEF HeardInv
  <2>3. Sending!Sent(o)' = Sending!Sent(o)
    BY <2>2 DEF Sending!Sent
  <2>4. received[o] \in Nat /\ unheard[o] \in Nat
    BY DEF SendingTyped
  <2>5. CASE new.step = "attempt"
    <3>1. received'[o] - unheard'[o] >= received[o] - unheard[o]
      BY <2>2, <2>4, <2>5 DEF SendingTyped
    <3> QED BY <1>0, <2>2, <2>3, <2>5, <3>1, HeardStays DEF SendingTyped
  <2>6. CASE new.step # "attempt"
    <3>1. new.step = "sent" /\ received' = [received EXCEPT ![n] = @ + 1] /\ unheard' = unheard
      BY <2>2, <2>6
    <3>2. HeardFor(o) /\ new # None
      BY <2>2 DEF HeardInv, SendingSensible
    <3>3. Cardinality(Sending!Sent(o)) \in Nat /\ Cardinality(Heard(o)) \in Nat
      BY <3>2, FS_CardinalityType DEF HeardFor
    <3>4. CASE o = n
      <4>4. Heard(o)' = Heard(o) \union {w}
        BY <2>2, <3>1, <3>2, <3>4, HeardChanges
      <4>5. w \notin Heard(o)
        BY <2>2 DEF Heard, Sends
      <4>1. Heard(o)' = Heard(o) \union {w} /\ w \notin Heard(o)
        BY <4>4, <4>5
      <4>2. IsFiniteSet(Heard(o)') /\ Cardinality(Heard(o)') = Cardinality(Heard(o)) + 1
        BY <3>2, <4>1, FS_AddElement DEF HeardFor
      <4>3. received'[o] = received[o] + 1 /\ unheard'[o] = unheard[o]
        BY <3>1, <3>4 DEF SendingTyped
      <4> QED BY <2>3, <2>4, <3>2, <3>3, <4>2, <4>3 DEF HeardFor
    <3>5. CASE o # n
      <4>3. Heard(o)' = Heard(o) \ {w}
        BY <2>2, <3>5, HeardChanges
      <4>4. w \notin Heard(o)
        BY <2>2 DEF Heard, Sends
      <4>1. Heard(o)' = Heard(o)
        BY <4>3, <4>4
      <4>2. received'[o] = received[o] /\ unheard'[o] = unheard[o]
        BY <3>1, <3>5 DEF SendingTyped
      <4> QED BY <2>3, <3>2, <4>1, <4>2 DEF HeardFor
    <3> QED BY <3>4, <3>5
  <2> QED BY <2>5, <2>6
<1>4. ASSUME NEW w \in Workers, Sending!Finish(w) PROVE HeardInv'
  <2>1. /\ sendings[w] # None /\ UNCHANGED <<received, unheard>>
        /\ \/ sendings[w].step = "sent" /\ Ended(w, "sent")
           \/ sendings[w].step = "attempt" /\ Ended(w, "pending_manual")
    BY <1>4, FinishIs
  <2>2. CASE Ended(w, "pending_manual") /\ sendings[w].step = "attempt"
    BY <2>1, <2>2, EndedQuietly
  <2>3. CASE Ended(w, "sent") /\ sendings[w].step = "sent"
    <3> SUFFICES ASSUME NEW o \in Orders PROVE HeardFor(o)'
      BY DEF HeardInv
    <3>1. PICK row : row = Sending!RowOf(sendings[w], "sent")
      OBVIOUS
    <3>2. /\ logs' = logs \union {row} /\ row.status = "sent" /\ row.order = sendings[w].order
          /\ sendings' = [sendings EXCEPT ![w] = None]
      BY <2>3, <3>1 DEF Ended, Sending!RowOf
    <3>3. Heard(o)' = Heard(o) \ {w}
      BY <3>2, HeardChanges
    <3>4. HeardFor(o) /\ received[o] \in Nat /\ unheard[o] \in Nat
      BY DEF HeardInv, SendingTyped
    <3>5. Cardinality(Sending!Sent(o)) \in Nat /\ Cardinality(Heard(o)) \in Nat
      BY <3>4, FS_CardinalityType DEF HeardFor
    <3>6. CASE o = sendings[w].order
      <4>1. Sending!Sent(o)' = Sending!Sent(o) \union {row} /\ w \in Heard(o)
        BY <2>1, <2>3, <3>2, <3>6, SentGrows DEF Heard, Sends
      <4>2. /\ IsFiniteSet(Heard(o) \ {w}) /\ Cardinality(Heard(o) \ {w}) = Cardinality(Heard(o)) - 1
        BY <3>4, <4>1, FS_RemoveElement DEF HeardFor
      <4>3. /\ IsFiniteSet(Sending!Sent(o) \union {row})
            /\ Cardinality(Sending!Sent(o) \union {row}) \in
                   {Cardinality(Sending!Sent(o)), Cardinality(Sending!Sent(o)) + 1}
        BY <3>4, FS_AddElement DEF HeardFor
      <4> QED BY <2>1, <3>3, <3>4, <3>5, <4>1, <4>2, <4>3 DEF HeardFor
    <3>7. CASE o # sendings[w].order
      <4>1. Sending!Sent(o)' = Sending!Sent(o)
        BY <3>2, <3>7, SentGrows
      <4>2. Heard(o)' = Heard(o)
        BY <3>3, <3>7 DEF Heard, Sends
      <4> QED BY <2>1, <3>4, <4>1, <4>2 DEF HeardFor
    <3> QED BY <3>6, <3>7
  <2> QED BY <2>1, <2>2, <2>3
<1>5. ASSUME NEW w \in Workers, Sending!Crash(w) PROVE HeardInv'
  <2>1. PICK n \in Orders :
           /\ sendings[w] # None /\ sendings[w].order = n
           /\ Left(w) /\ received' = received
           /\ \/ sendings[w].step = "sent" /\ unheard' = [unheard EXCEPT ![n] = @ + 1]
              \/ sendings[w].step # "sent" /\ unheard' = unheard
    BY <1>5, CrashIs
  <2> SUFFICES ASSUME NEW o \in Orders PROVE HeardFor(o)'
    BY DEF HeardInv
  <2>2. Sending!Sent(o)' = Sending!Sent(o) /\ sendings' = [sendings EXCEPT ![w] = None]
    BY <2>1 DEF Sending!Sent, Left
  <2>3. Heard(o)' = Heard(o) \ {w}
    BY <2>2, HeardChanges
  <2>4. HeardFor(o) /\ received[o] \in Nat /\ unheard[o] \in Nat
    BY DEF HeardInv, SendingTyped
  <2>5. Cardinality(Sending!Sent(o)) \in Nat /\ Cardinality(Heard(o)) \in Nat
    BY <2>4, FS_CardinalityType DEF HeardFor
  <2>6. CASE o = n /\ sendings[w].step = "sent"
    <3>1. w \in Heard(o)
      BY <2>1, <2>6 DEF Heard, Sends
    <3>2. IsFiniteSet(Heard(o) \ {w}) /\ Cardinality(Heard(o) \ {w}) = Cardinality(Heard(o)) - 1
      BY <2>4, <3>1, FS_RemoveElement DEF HeardFor
    <3>3. unheard'[o] = unheard[o] + 1
      BY <2>1, <2>6 DEF SendingTyped
    <3> QED BY <2>1, <2>2, <2>3, <2>4, <2>5, <3>2, <3>3 DEF HeardFor
  <2>7. CASE o # n \/ sendings[w].step # "sent"
    <3>1. Heard(o)' = Heard(o)
      BY <2>1, <2>3, <2>7 DEF Heard, Sends
    <3>2. unheard'[o] = unheard[o]
      BY <2>1, <2>7 DEF SendingTyped
    <3> QED BY <2>1, <2>2, <2>4, <3>1, <3>2 DEF HeardFor
  <2> QED BY <2>6, <2>7
<1>6. ASSUME UNCHANGED <<logs, sendings, received, unheard>> PROVE HeardInv'
  BY <1>6 DEF HeardInv, HeardFor, Sending!Sent, Heard, Sends
<1>7. Sending!PutCredential \/ UNCHANGED Sending!vars => UNCHANGED <<logs, sendings, received, unheard>>
  BY DEF Sending!PutCredential, Sending!vars
<1> QED BY <1>1, <1>2, <1>3, <1>4, <1>5, <1>6, <1>7 DEF Sending!Next

(* With one worker, credit and what was got are that worker's.               *)
CreditOf(c, o) == IF c # None /\ c.order = o /\ c.force /\ c.step # "sent" THEN 1 ELSE 0
GotOf(c, o, sent) ==
    IF sent # {} \/ (c # None /\ c.order = o /\ c.step = "sent" /\ ~ c.force) THEN 1 ELSE 0

LEMMA OneDelivery ==
    ASSUME Serial, NEW w \in Workers, NEW o
    PROVE  /\ Credit(o) = CreditOf(sendings[w], o)
           /\ Got(o) = GotOf(sendings[w], o, Sending!Sent(o))
<1>1. Workers = {w}
  BY DEF Serial
<1>2. Credit(o) = CreditOf(sendings[w], o)
  BY <1>1 DEF Credit, CreditOf, Sends
<1>3. Got(o) = GotOf(sendings[w], o, Sending!Sent(o))
  BY <1>1 DEF Got, GotOf, Sends
<1> QED BY <1>2, <1>3

LEMMA OneDeliveryThen ==
    ASSUME Serial, NEW w \in Workers, NEW o
    PROVE  /\ Credit(o)' = CreditOf(sendings'[w], o)
           /\ Got(o)' = GotOf(sendings'[w], o, Sending!Sent(o)')
<1>1. Workers = {w}
  BY DEF Serial
<1>2. Credit(o)' = CreditOf(sendings'[w], o)
  BY <1>1 DEF Credit, CreditOf, Sends
<1>3. Got(o)' = GotOf(sendings'[w], o, Sending!Sent(o)')
  BY <1>1 DEF Got, GotOf, Sends
<1> QED BY <1>2, <1>3

(* A step of the one worker, by what the delivery was and is.                *)
LEMMA ReachedStep ==
    ASSUME Serial, SendingTyped, SendingTyped', ReachedInv, NEW w \in Workers,
           NEW c, c = sendings[w], NEW d, d = sendings'[w],
           \A o \in Orders :
               received'[o] + CreditOf(d, o) - forced'[o] - unheard'[o]
                        - GotOf(d, o, Sending!Sent(o)')
               <= received[o] + CreditOf(c, o) - forced[o] - unheard[o]
                        - GotOf(c, o, Sending!Sent(o)),
           d # None /\ ~ d.force /\ d.step = "attempt" => Sending!Sent(d.order)' = {}
    PROVE  ReachedInv'
<1>1. FirstInv'
  BY DEF Serial, FirstInv
<1>2. ASSUME NEW o \in Orders
      PROVE  received'[o] + Credit(o)' <= forced'[o] + unheard'[o] + Got(o)'
  <2>1. /\ received[o] \in Nat /\ forced[o] \in Nat /\ unheard[o] \in Nat
        /\ received'[o] \in Nat /\ forced'[o] \in Nat /\ unheard'[o] \in Nat
    BY DEF SendingTyped
  <2>2. /\ CreditOf(c, o) \in Nat /\ CreditOf(d, o) \in Nat
        /\ GotOf(c, o, Sending!Sent(o)) \in Nat /\ GotOf(d, o, Sending!Sent(o)') \in Nat
    BY DEF CreditOf, GotOf
  <2>3. received[o] + CreditOf(c, o) <= forced[o] + unheard[o] + GotOf(c, o, Sending!Sent(o))
    BY OneDelivery DEF ReachedInv
  <2>4. received'[o] + CreditOf(d, o) <= forced'[o] + unheard'[o] + GotOf(d, o, Sending!Sent(o)')
    BY <2>1, <2>2, <2>3
  <2> QED BY <2>4, OneDeliveryThen
<1> QED BY <1>1, <1>2 DEF ReachedInv

LEMMA ReachedNext ==
    ASSUME Serial, SendingSensible, SendingTyped, ReachedInv, [Sending!Next]_(Sending!vars)
    PROVE  ReachedInv'
<1>0. SendingTyped'
  BY SendingTypedNext
<1>9. \A o \in Orders : /\ received[o] \in Nat /\ forced[o] \in Nat /\ unheard[o] \in Nat
  BY DEF SendingTyped
<1>1. ASSUME NEW w \in Workers, NEW n \in Orders, NEW force \in BOOLEAN, Sending!Ask(w, n, force)
      PROVE  ReachedInv'
  <2>1. PICK new \in Delivery :
              /\ new.order = n /\ new.force = force /\ new.step = "begin"
              /\ sendings[w] = None /\ sendings' = [sendings EXCEPT ![w] = new]
              /\ UNCHANGED <<stored, logs, received, unheard>>
              /\ requests' \in 0..MaxRequests
              /\ \/ force /\ forced' = [forced EXCEPT ![n] = @ + 1]
                 \/ ~force /\ forced' = forced
    BY <1>1, AskIsNew
  <2>2. sendings'[w] = new
    BY <2>1 DEF SendingTyped
  <2>3. ASSUME NEW o \in Orders
        PROVE  received'[o] + CreditOf(new, o) - forced'[o] - unheard'[o]
                        - GotOf(new, o, Sending!Sent(o)')
               <= received[o] + CreditOf(None, o) - forced[o] - unheard[o]
                        - GotOf(None, o, Sending!Sent(o))
    <3>1. Sending!Sent(o)' = Sending!Sent(o)
      BY <2>1 DEF Sending!Sent
    <3>2. GotOf(new, o, Sending!Sent(o)') = GotOf(None, o, Sending!Sent(o))
      BY <2>1, <3>1 DEF GotOf
    <3>3. GotOf(None, o, Sending!Sent(o)) \in Nat /\ CreditOf(None, o) = 0
      BY DEF GotOf, CreditOf
    <3>4. received'[o] = received[o] /\ unheard'[o] = unheard[o]
      BY <2>1
    <3>5. forced'[o] \in Nat /\ CreditOf(new, o) - forced'[o] <= - forced[o]
      BY <1>9, <2>1 DEF CreditOf, SendingTyped
    <3>6. CreditOf(new, o) \in Nat
      BY DEF CreditOf
    <3> QED BY <1>9, <3>2, <3>3, <3>4, <3>5, <3>6
  <2> QED BY <1>0, <2>1, <2>2, <2>3, ReachedStep
<1>2. ASSUME NEW w \in Workers, Sending!Begin(w) PROVE ReachedInv'
  <2>1. PICK c : c = sendings[w]
    OBVIOUS
  <2>2. /\ c # None /\ c.step = "begin" /\ UNCHANGED <<received, forced, unheard>>
        /\ \/ Left(w)
           \/ Ended(w, "pending_manual")
           \/ Ended(w, "failed")
           \/ /\ sendings' = [sendings EXCEPT ![w].step = "attempt"] /\ logs' = logs
              /\ c.force \/ Sending!Sent(c.order) = {}
    BY <1>2, <2>1, BeginIs
  <2>3. PICK d : d = sendings'[w]
    OBVIOUS
  <2>4. \A o : Sending!Sent(o)' = Sending!Sent(o)
    BY <2>2 DEF Left, Ended, Sending!Sent, Sending!RowOf
  <2>5. \/ d = None
        \/ /\ d.order = c.order /\ d.force = c.force /\ d.step = "attempt"
           /\ c.force \/ Sending!Sent(c.order) = {}
    BY <2>1, <2>2, <2>3 DEF Left, Ended, SendingTyped, Delivery
  <2>6. ASSUME NEW o \in Orders
        PROVE  received'[o] + CreditOf(d, o) - forced'[o] - unheard'[o]
                        - GotOf(d, o, Sending!Sent(o)')
               <= received[o] + CreditOf(c, o) - forced[o] - unheard[o]
                        - GotOf(c, o, Sending!Sent(o))
    <3>1. GotOf(d, o, Sending!Sent(o)') = GotOf(c, o, Sending!Sent(o))
      BY <2>2, <2>4, <2>5 DEF GotOf
    <3>2. CreditOf(d, o) <= CreditOf(c, o) /\ CreditOf(c, o) \in Nat /\ CreditOf(d, o) \in Nat
      BY <2>2, <2>5 DEF CreditOf
    <3>3. GotOf(c, o, Sending!Sent(o)) \in Nat
      BY DEF GotOf
    <3> QED BY <1>9, <2>2, <3>1, <3>2, <3>3
  <2>7. d # None /\ ~ d.force /\ d.step = "attempt" => Sending!Sent(d.order)' = {}
    BY <2>4, <2>5
  <2> QED BY <1>0, <2>1, <2>3, <2>6, <2>7, ReachedStep
<1>3. ASSUME NEW w \in Workers, Sending!Attempt(w) PROVE ReachedInv'
  <2>1. PICK n \in Orders : \E new :
              /\ sendings[w] # None /\ sendings[w].step = "attempt" /\ sendings[w].order = n
              /\ new \in Delivery /\ new.order = n /\ new.force = sendings[w].force
              /\ sendings' = [sendings EXCEPT ![w] = new]
              /\ UNCHANGED <<stored, requests, logs, forced>>
              /\ \/ /\ received' = [received EXCEPT ![n] = @ + 1] /\ unheard' = unheard
                    /\ new.step = "sent"
                 \/ /\ received' = [received EXCEPT ![n] = @ + 1]
                    /\ unheard' = [unheard EXCEPT ![n] = @ + 1]
                    /\ new.step = "attempt"
                 \/ received' = received /\ unheard' = unheard /\ new.step = "attempt"
    BY <1>3, AttemptIs
  <2>2. PICK c : c = sendings[w]
    OBVIOUS
  <2>3. PICK d :
              /\ c # None /\ c.step = "attempt" /\ c.order = n
              /\ d \in Delivery /\ d.order = n /\ d.force = c.force
              /\ sendings' = [sendings EXCEPT ![w] = d]
              /\ UNCHANGED <<logs, forced>>
              /\ \/ /\ received' = [received EXCEPT ![n] = @ + 1] /\ unheard' = unheard
                    /\ d.step = "sent"
                 \/ /\ received' = [received EXCEPT ![n] = @ + 1]
                    /\ unheard' = [unheard EXCEPT ![n] = @ + 1]
                    /\ d.step = "attempt"
                 \/ received' = received /\ unheard' = unheard /\ d.step = "attempt"
    BY <2>1, <2>2
  <2>4. d = sendings'[w] /\ d # None
    BY <2>3 DEF SendingTyped, SendingSensible
  <2>5. \A o : Sending!Sent(o)' = Sending!Sent(o)
    BY <2>3 DEF Sending!Sent
  <2>6. ~ c.force => Sending!Sent(n) = {}
    BY <2>2, <2>3 DEF ReachedInv, FirstInv
  <2>7. ASSUME NEW o \in Orders
        PROVE  received'[o] + CreditOf(d, o) - forced'[o] - unheard'[o]
                        - GotOf(d, o, Sending!Sent(o)')
               <= received[o] + CreditOf(c, o) - forced[o] - unheard[o]
                        - GotOf(c, o, Sending!Sent(o))
    <3>1. /\ GotOf(d, o, Sending!Sent(o)') \in Nat /\ GotOf(c, o, Sending!Sent(o)) \in Nat
          /\ CreditOf(c, o) \in Nat /\ CreditOf(d, o) \in Nat /\ forced'[o] = forced[o]
      BY <2>3 DEF GotOf, CreditOf
    <3>2. CASE o # n
      <4>1. /\ GotOf(d, o, Sending!Sent(o)') = GotOf(c, o, Sending!Sent(o))
            /\ CreditOf(d, o) = CreditOf(c, o)
        BY <2>3, <2>5, <3>2 DEF GotOf, CreditOf
      <4>2. received'[o] = received[o] /\ unheard'[o] = unheard[o]
        BY <2>3, <3>2 DEF SendingTyped
      <4> QED BY <1>9, <3>1, <4>1, <4>2
    <3>3. CASE o = n /\ d.step = "attempt"
      <4>1. /\ GotOf(d, o, Sending!Sent(o)') = GotOf(c, o, Sending!Sent(o))
            /\ CreditOf(d, o) = CreditOf(c, o)
        BY <2>3, <2>4, <2>5, <3>3 DEF GotOf, CreditOf
      <4>2. received'[o] - unheard'[o] = received[o] - unheard[o]
            /\ received'[o] \in Nat /\ unheard'[o] \in Nat
        BY <1>9, <2>3, <3>3 DEF SendingTyped
      <4> QED BY <1>9, <3>1, <4>1, <4>2
    <3>4. CASE o = n /\ d.step = "sent"
      <4>1. received'[o] = received[o] + 1 /\ unheard'[o] = unheard[o]
        BY <2>3, <3>4 DEF SendingTyped
      <4>2. CASE c.force
        <5>1. CreditOf(c, o) = 1 /\ CreditOf(d, o) = 0
          BY <2>3, <3>4, <4>2 DEF CreditOf
        <5>2. GotOf(d, o, Sending!Sent(o)') = GotOf(c, o, Sending!Sent(o))
          BY <2>3, <2>5, <3>4, <4>2 DEF GotOf
        <5> QED BY <1>9, <3>1, <4>1, <5>1, <5>2
      <4>3. CASE ~ c.force
        <5>1. CreditOf(c, o) = 0 /\ CreditOf(d, o) = 0
          BY <2>3, <4>3 DEF CreditOf
        <5>2. GotOf(d, o, Sending!Sent(o)') = 1 /\ GotOf(c, o, Sending!Sent(o)) = 0
          BY <2>3, <2>4, <2>6, <3>4, <4>3 DEF GotOf
        <5> QED BY <1>9, <3>1, <4>1, <5>1, <5>2
      <4> QED BY <4>2, <4>3
    <3> QED BY <2>3, <3>2, <3>3, <3>4
  <2>8. d # None /\ ~ d.force /\ d.step = "attempt" => Sending!Sent(d.order)' = {}
    BY <2>3, <2>5, <2>6
  <2> QED BY <1>0, <2>2, <2>4, <2>7, <2>8, ReachedStep
<1>4. ASSUME NEW w \in Workers, Sending!Finish(w) PROVE ReachedInv'
  <2>1. PICK c : c = sendings[w]
    OBVIOUS
  <2>2. /\ c # None /\ UNCHANGED <<received, forced, unheard>>
        /\ \/ c.step = "sent" /\ Ended(w, "sent")
           \/ c.step = "attempt" /\ Ended(w, "pending_manual")
    BY <1>4, <2>1, FinishIs
  <2>3. None = sendings'[w]
    BY <2>2 DEF Ended, SendingTyped
  <2>4. ASSUME NEW o \in Orders
        PROVE  received'[o] + CreditOf(None, o) - forced'[o] - unheard'[o]
                        - GotOf(None, o, Sending!Sent(o)')
               <= received[o] + CreditOf(c, o) - forced[o] - unheard[o]
                        - GotOf(c, o, Sending!Sent(o))
    <3>1. /\ GotOf(None, o, Sending!Sent(o)') \in Nat /\ GotOf(c, o, Sending!Sent(o)) \in Nat
          /\ CreditOf(c, o) \in Nat /\ CreditOf(None, o) = 0
      BY DEF GotOf, CreditOf
    <3>2. Sending!Sent(o) \subseteq Sending!Sent(o)'
      BY <2>2 DEF Ended, Sending!Sent
    <3>3. c.order = o /\ c.step = "sent" => Sending!Sent(o)' # {}
      <4> SUFFICES ASSUME c.order = o, c.step = "sent" PROVE Sending!Sent(o)' # {}
        OBVIOUS
      <4>1. PICK row : row = Sending!RowOf(c, "sent")
        OBVIOUS
      <4>2. logs' = logs \union {row} /\ row.order = o /\ row.status = "sent"
        BY <2>1, <2>2, <4>1 DEF Ended, Sending!RowOf
      <4> QED BY <4>2, SentGrows
    <3>4. GotOf(c, o, Sending!Sent(o)) <= GotOf(None, o, Sending!Sent(o)')
      BY <3>2, <3>3 DEF GotOf
    <3> QED BY <1>9, <2>2, <3>1, <3>4
  <2> QED BY <1>0, <2>1, <2>3, <2>4, ReachedStep
<1>5. ASSUME NEW w \in Workers, Sending!Crash(w) PROVE ReachedInv'
  <2>1. PICK c : c = sendings[w]
    OBVIOUS
  <2>2. PICK n \in Orders :
              /\ c # None /\ c.order = n
              /\ Left(w) /\ UNCHANGED <<received, forced>>
              /\ \/ c.step = "sent" /\ unheard' = [unheard EXCEPT ![n] = @ + 1]
                 \/ c.step # "sent" /\ unheard' = unheard
    BY <1>5, <2>1, CrashIs
  <2>3. None = sendings'[w] /\ \A o : Sending!Sent(o)' = Sending!Sent(o)
    BY <2>2 DEF Left, SendingTyped, Sending!Sent
  <2>4. ASSUME NEW o \in Orders
        PROVE  received'[o] + CreditOf(None, o) - forced'[o] - unheard'[o]
                        - GotOf(None, o, Sending!Sent(o)')
               <= received[o] + CreditOf(c, o) - forced[o] - unheard[o]
                        - GotOf(c, o, Sending!Sent(o))
    <3>1. /\ GotOf(None, o, Sending!Sent(o)') \in Nat /\ GotOf(c, o, Sending!Sent(o)) \in Nat
          /\ CreditOf(c, o) \in Nat /\ CreditOf(None, o) = 0
      BY DEF GotOf, CreditOf
    <3>2. CASE o = n /\ c.step = "sent"
      <4>1. unheard'[o] = unheard[o] + 1
        BY <2>2, <3>2 DEF SendingTyped
      <4>2. GotOf(c, o, Sending!Sent(o)) <= GotOf(None, o, Sending!Sent(o)') + 1
        BY DEF GotOf
      <4> QED BY <1>9, <2>2, <3>1, <4>1, <4>2
    <3>3. CASE o # n \/ c.step # "sent"
      <4>1. unheard'[o] = unheard[o]
        BY <2>2, <3>3 DEF SendingTyped
      <4>2. GotOf(c, o, Sending!Sent(o)) = GotOf(None, o, Sending!Sent(o)')
        BY <2>2, <2>3, <3>3 DEF GotOf
      <4> QED BY <1>9, <2>2, <3>1, <4>1, <4>2
    <3> QED BY <3>2, <3>3
  <2> QED BY <1>0, <2>1, <2>3, <2>4, ReachedStep
<1>6. ASSUME UNCHANGED <<logs, sendings, received, forced, unheard>> PROVE ReachedInv'
  BY <1>6 DEF ReachedInv, FirstInv, Credit, Got, Sending!Sent, Sends
<1>7. Sending!PutCredential \/ UNCHANGED Sending!vars
        => UNCHANGED <<logs, sendings, received, forced, unheard>>
  BY DEF Sending!PutCredential, Sending!vars
<1> QED BY <1>1, <1>2, <1>3, <1>4, <1>5, <1>6, <1>7 DEF Sending!Next

LEMMA SendingInit ==
    SendingSensible => (Sending!Init => SendingTyped /\ HeardInv /\ ReachedInv)
<1> SUFFICES ASSUME SendingSensible, Sending!Init PROVE SendingTyped /\ HeardInv /\ ReachedInv
  OBVIOUS
<1>1. /\ stored = {} /\ logs = {} /\ requests = 0
      /\ sendings = [w \in Workers |-> None]
      /\ received = [o \in Orders |-> 0] /\ forced = [o \in Orders |-> 0]
      /\ unheard = [o \in Orders |-> 0]
  BY DEF Sending!Init
<1>2. SendingTyped
  BY <1>1 DEF SendingTyped, SendingSensible
<1>3. \A o \in Orders : Sending!Sent(o) = {} /\ Heard(o) = {}
  BY <1>1 DEF Sending!Sent, Heard, Sends
<1>4. HeardInv
  <2> SUFFICES ASSUME NEW o \in Orders PROVE HeardFor(o)
    BY DEF HeardInv
  <2>1. IsFiniteSet({}) /\ Cardinality({}) = 0
    BY FS_EmptySet
  <2> QED BY <1>1, <1>3, <2>1 DEF HeardFor
<1>5. FirstInv
  BY <1>1 DEF FirstInv
<1>6. ASSUME NEW o \in Orders
      PROVE  received[o] + Credit(o) <= forced[o] + unheard[o] + Got(o)
  <2>1. Credit(o) = 0 /\ Got(o) \in {0, 1}
    BY <1>1 DEF Credit, Got, Sends
  <2> QED BY <1>1, <2>1
<1> QED BY <1>2, <1>4, <1>5, <1>6 DEF ReachedInv

LEMMA CardinalityOfOrders == \A S : Sending!Cardinality(S) = Cardinality(S)
BY DEF Sending!Cardinality, Cardinality

(* Whatever overlaps, is lost or stops, every row that says "sent" has a      *)
(* message of its own that the provider took, beside those whose answer or    *)
(* row was lost.                                                              *)
THEOREM SentRowsAreTrue == SendingSensible => (Sending!Spec => []Sending!SentIsReceived)
<1> SUFFICES ASSUME SendingSensible PROVE Sending!Spec => []Sending!SentIsReceived
  OBVIOUS
<1>1. Sending!Init => SendingTyped /\ HeardInv
  BY SendingInit
<1>2. SendingTyped /\ HeardInv /\ [Sending!Next]_(Sending!vars) => (SendingTyped /\ HeardInv)'
  BY SendingTypedNext, HeardNext
<1>3. SendingTyped /\ HeardInv => Sending!SentIsReceived
  <2> SUFFICES ASSUME SendingTyped, HeardInv, NEW o \in Orders
               PROVE  Cardinality(Sending!Sent(o)) + unheard[o] <= received[o]
    BY CardinalityOfOrders DEF Sending!SentIsReceived
  <2>1. HeardFor(o) /\ received[o] \in Nat /\ unheard[o] \in Nat
    BY DEF HeardInv, SendingTyped
  <2>2. Cardinality(Sending!Sent(o)) \in Nat /\ Cardinality(Heard(o)) \in Nat
    BY <2>1, FS_CardinalityType DEF HeardFor
  <2> QED BY <2>1, <2>2 DEF HeardFor
<1> QED BY <1>1, <1>2, <1>3, PTL DEF Sending!Spec

(* Handled one at a time, an order approved any number of times reaches the   *)
(* supplier once, and once more for each resend and each message whose answer *)
(* or row was lost: no retry sends what it knows to be sent.                  *)
THEOREM OrdersReachOnce ==
    SendingSensible /\ Serial => (Sending!Spec => []Sending!OrderReachesOnce)
<1> SUFFICES ASSUME SendingSensible, Serial PROVE Sending!Spec => []Sending!OrderReachesOnce
  OBVIOUS
<1>1. Sending!Init => SendingTyped /\ ReachedInv
  BY SendingInit
<1>2. SendingTyped /\ ReachedInv /\ [Sending!Next]_(Sending!vars) => (SendingTyped /\ ReachedInv)'
  BY SendingTypedNext, ReachedNext
<1>3. SendingTyped /\ ReachedInv => Sending!OrderReachesOnce
  <2> SUFFICES ASSUME SendingTyped, ReachedInv, NEW o \in Orders
               PROVE  received[o] <= 1 + forced[o] + unheard[o]
    BY DEF Sending!OrderReachesOnce
  <2>1. received[o] \in Nat /\ forced[o] \in Nat /\ unheard[o] \in Nat
    BY DEF SendingTyped
  <2>2. Credit(o) \in {0, 1} /\ Got(o) \in {0, 1}
    BY DEF Credit, Got
  <2>3. received[o] + Credit(o) <= forced[o] + unheard[o] + Got(o)
    BY DEF ReachedInv
  <2> QED BY <2>1, <2>2, <2>3
<1> QED BY <1>1, <1>2, <1>3, PTL DEF Sending!Spec

-----------------------------------------------------------------------------
(* Checklists and assigned tasks.                                            *)

Template == [task : Tasks, at : Nat]
Completion == [user : Users, day : 0..MaxDay, task : Tasks]
Entry == [user : Users, day : 0..MaxDay, task : Tasks, at : Nat]
Assigned == [staff : Users, status : {"assigned", "accepted", "completed", "rejected"},
             rejected : BOOLEAN]
Served == [op : {"today", "complete", "replace"}, user : Users, task : Tasks \union {None},
           list : SUBSET Tasks, day : 0..MaxDay, at : Nat,
           step : {"count", "seed", "read", "save", "delete", "insert"},
           seen : SUBSET Template]

(* The seeded tasks are tasks, and the assigned ones finitely many.          *)
ListsSensible ==
    Defaults \subseteq Tasks /\ MaxDay \in Nat /\ MaxRequests \in Nat /\ IsFiniteSet(Assignments)

OnePerTask(list) == \A x, y \in list : x.task = y.task => x = y
ListsTyped ==
    /\ templates \subseteq Template /\ OnePerTask(templates)
    /\ completions \subseteq Completion
    /\ activity \subseteq Entry
    /\ assigned \in [Assignments -> Assigned \union {None}]
    /\ serving \in [Workers -> Served \union {None}]
    /\ \A w \in Workers : serving[w] # None /\ serving[w].step = "save" => serving[w].task \in Tasks
    /\ day \in 0..MaxDay /\ requests \in 0..MaxRequests

(* The activity shows each completion, once, and nothing else.               *)
OfSame(d, e) == d.user = e.user /\ d.day = e.day /\ d.task = e.task
ActivityInv ==
    /\ \A e \in activity : \E c \in completions : OfSame(c, e)
    /\ \A c \in completions : \E e \in activity : OfSame(c, e)
    /\ \A d, e \in activity : OfSame(d, e) => d = e

LEMMA RowsOfIs ==
    ASSUME NEW tasks \in SUBSET Tasks, NEW at \in Nat
    PROVE  /\ Lists!RowsOf(tasks, at) \subseteq Template
           /\ OnePerTask(Lists!RowsOf(tasks, at))
           /\ Lists!TasksOf(Lists!RowsOf(tasks, at)) = tasks
<1>1. PICK new : new = {[task |-> t, at |-> at] : t \in tasks}
  OBVIOUS
<1>2. new \subseteq Template /\ OnePerTask(new)
  BY <1>1 DEF Template, OnePerTask
<1>3. {t.task : t \in new} = tasks
  <2>1. \A t \in tasks : [task |-> t, at |-> at] \in new /\ [task |-> t, at |-> at].task = t
    BY <1>1
  <2>2. \A x \in new : x.task \in tasks
    BY <1>1
  <2> QED BY <2>1, <2>2
<1> QED BY <1>1, <1>2, <1>3 DEF Lists!RowsOf, Lists!TasksOf

(* A list to which other tasks are added has no task twice either.           *)
LEMMA ListGrows ==
    ASSUME NEW list \in SUBSET Template, OnePerTask(list),
           NEW tasks \in SUBSET Tasks, NEW at \in Nat, Lists!TasksOf(list) \intersect tasks = {}
    PROVE  /\ list \union Lists!RowsOf(tasks, at) \subseteq Template
           /\ OnePerTask(list \union Lists!RowsOf(tasks, at))
<1>1. PICK new : new = Lists!RowsOf(tasks, at)
  OBVIOUS
<1>2. new \subseteq Template /\ OnePerTask(new) /\ Lists!TasksOf(new) = tasks
  BY <1>1, RowsOfIs
<1>3. \A x \in list, y \in new : x.task # y.task
  BY <1>2 DEF Lists!TasksOf
<1>4. OnePerTask(list \union new)
  BY <1>2, <1>3 DEF OnePerTask
<1> QED BY <1>1, <1>2, <1>4

(* The steps of a request of a member: what each changes beside its own       *)
(* record.                                                                    *)
Serve(w, r) == serving' = [serving EXCEPT ![w] = r]

LEMMA AskServes ==
    ASSUME ListsSensible, ListsTyped, NEW w \in Workers,
           \/ \E u \in Users : \/ Lists!AskToday(w, u)
                               \/ \E task \in Tasks : Lists!AskComplete(w, u, task)
                               \/ \E list \in SUBSET Tasks : Lists!AskReplace(w, u, list)
    PROVE  /\ \E r \in Served : Serve(w, r) /\ r.step # "save"
           /\ UNCHANGED <<templates, completions, activity, assigned, day>>
           /\ requests' \in 0..MaxRequests
<1>1. ASSUME NEW r \in Served, Lists!Ask(w, r), r.step # "save"
      PROVE  /\ \E s \in Served : Serve(w, s) /\ s.step # "save"
             /\ UNCHANGED <<templates, completions, activity, assigned, day>>
             /\ requests' \in 0..MaxRequests
  <2>1. /\ Serve(w, r) /\ UNCHANGED <<templates, completions, activity, assigned, day>>
        /\ requests < MaxRequests /\ requests' = requests + 1
    BY <1>1 DEF Lists!Ask, Serve
  <2>2. requests' \in 0..MaxRequests
    BY <2>1 DEF ListsTyped, ListsSensible
  <2> QED BY <1>1, <2>1, <2>2
<1>2. ASSUME NEW op \in {"today", "complete", "replace"}, NEW u \in Users,
             NEW task \in Tasks \union {None}, NEW list \in SUBSET Tasks
      PROVE  /\ Lists!Request(op, u, task, list) \in Served
             /\ Lists!Request(op, u, task, list).step = "count"
             /\ [Lists!Request(op, u, task, list) EXCEPT !.step = "delete"] \in Served
             /\ [Lists!Request(op, u, task, list) EXCEPT !.step = "delete"].step = "delete"
  BY DEF Lists!Request, Served, ListsTyped, ListsSensible
<1>3. ASSUME NEW u \in Users, Lists!AskToday(w, u)
      PROVE  \E r \in Served : Lists!Ask(w, r) /\ r.step # "save"
  BY <1>2, <1>3 DEF Lists!AskToday
<1>4. ASSUME NEW u \in Users, NEW task \in Tasks, Lists!AskComplete(w, u, task)
      PROVE  \E r \in Served : Lists!Ask(w, r) /\ r.step # "save"
  BY <1>2, <1>4 DEF Lists!AskComplete
<1>5. ASSUME NEW u \in Users, NEW list \in SUBSET Tasks, Lists!AskReplace(w, u, list)
      PROVE  \E r \in Served : Lists!Ask(w, r) /\ r.step # "save"
  BY <1>2, <1>5 DEF Lists!AskReplace
<1> QED BY <1>1, <1>3, <1>4, <1>5

LEMMA ServeTyped ==
    ASSUME ListsTyped, NEW w \in Workers, NEW r \in Served \union {None}, Serve(w, r),
           r # None /\ r.step = "save" => r.task \in Tasks
    PROVE  /\ serving' \in [Workers -> Served \union {None}]
           /\ \A v \in Workers : serving'[v] # None /\ serving'[v].step = "save"
                  => serving'[v].task \in Tasks
BY DEF ListsTyped, Serve

(* A request goes to a next step, or is done.                                *)
LEMMA GoToServes ==
    ASSUME ListsTyped, NEW w \in Workers, serving[w] # None,
           NEW step \in {"seed", "read", "save", "insert"}, NEW seen \in SUBSET Template,
           Lists!GoTo(w, step, seen)
    PROVE  \E r \in Served : Serve(w, r) /\ r.step = step /\ r.task = serving[w].task
<1>1. PICK c : c = serving[w]
  OBVIOUS
<1>2. c \in Served
  BY <1>1 DEF ListsTyped
<1>3. PICK r : r = [c EXCEPT !.step = step, !.seen = seen]
  OBVIOUS
<1>4. r \in Served /\ r.step = step /\ r.task = c.task
  BY <1>2, <1>3 DEF Served
<1>5. Serve(w, r)
  BY <1>1, <1>3 DEF Lists!GoTo, Serve, ListsTyped
<1> QED BY <1>1, <1>4, <1>5

LEMMA ListsInit == ListsSensible => (Lists!Init => ListsTyped /\ ActivityInv)
BY DEF ListsSensible, Lists!Init, ListsTyped, OnePerTask, ActivityInv

(* What the steps on a list do, one lemma each.                              *)
LEMMA SeedTyped ==
    ASSUME ListsSensible, ListsTyped, NEW w \in Workers, Lists!Seed(w)
    PROVE  ListsTyped'
<1>1. PICK c : c = serving[w]
  OBVIOUS
<1>2. c # None /\ c \in Served /\ UNCHANGED <<completions, activity, assigned, day, requests>>
  BY <1>1 DEF Lists!Seed, Lists!At, ListsTyped
<1>3. CASE Lists!TasksOf(templates) \intersect Defaults # {}
  <2>1. Serve(w, None) /\ templates' = templates
    BY <1>3 DEF Lists!Seed, Lists!Done, Serve
  <2> QED BY <1>2, <2>1, ServeTyped DEF ListsTyped, OnePerTask
<1>4. CASE Lists!TasksOf(templates) \intersect Defaults = {}
  <2>1. templates' = templates \union Lists!RowsOf(Defaults, c.at) /\ Lists!GoTo(w, "read", {})
    BY <1>1, <1>4 DEF Lists!Seed
  <2>2. c.at \in Nat /\ Defaults \in SUBSET Tasks
    BY <1>2 DEF Served, ListsSensible
  <2>3. templates' \subseteq Template /\ OnePerTask(templates')
    BY <1>4, <2>1, <2>2, ListGrows DEF ListsTyped
  <2>4. PICK r \in Served : Serve(w, r) /\ r.step = "read"
    BY <1>1, <1>2, <2>1, GoToServes
  <2> QED BY <1>2, <2>3, <2>4, ServeTyped DEF ListsTyped, OnePerTask
<1> QED BY <1>3, <1>4

LEMMA CountTyped ==
    ASSUME ListsTyped, NEW w \in Workers, Lists!Count(w)
    PROVE  ListsTyped' /\ UNCHANGED <<completions, activity>>
<1>1. /\ serving[w] # None
      /\ UNCHANGED <<templates, completions, activity, assigned, day, requests>>
      /\ Lists!GoTo(w, "seed", {}) \/ Lists!GoTo(w, "read", {})
  BY DEF Lists!Count, Lists!At
<1>2. PICK r \in Served : Serve(w, r) /\ r.step # "save"
  BY <1>1, GoToServes
<1> QED BY <1>1, <1>2, ServeTyped DEF ListsTyped, OnePerTask

LEMMA ReadTyped ==
    ASSUME ListsTyped, NEW w \in Workers, Lists!Read(w)
    PROVE  ListsTyped' /\ UNCHANGED <<completions, activity>>
<1>1. /\ serving[w] # None
      /\ UNCHANGED <<templates, completions, activity, assigned, day, requests>>
      /\ \/ serving[w].task \in Lists!TasksOf(templates) /\ Lists!GoTo(w, "save", {})
         \/ Lists!Done(w)
  BY DEF Lists!Read, Lists!At
<1>2. CASE serving[w].task \in Lists!TasksOf(templates) /\ Lists!GoTo(w, "save", {})
  <2>1. PICK r \in Served : Serve(w, r) /\ r.task = serving[w].task
    BY <1>1, <1>2, GoToServes
  <2>2. serving[w].task \in Tasks
    BY <1>2 DEF Lists!TasksOf, ListsTyped, Template
  <2> QED BY <1>1, <2>1, <2>2, ServeTyped DEF ListsTyped, OnePerTask
<1>3. CASE Lists!Done(w)
  <2>1. Serve(w, None)
    BY <1>3 DEF Lists!Done, Serve
  <2> QED BY <1>1, <2>1, ServeTyped DEF ListsTyped, OnePerTask
<1> QED BY <1>1, <1>2, <1>3

LEMMA DeleteTyped ==
    ASSUME ListsTyped, NEW w \in Workers, Lists!DeleteRows(w)
    PROVE  ListsTyped' /\ UNCHANGED <<completions, activity>>
<1>1. /\ serving[w] # None
      /\ UNCHANGED <<templates, completions, activity, assigned, day, requests>>
      /\ Lists!GoTo(w, "insert", templates)
  BY DEF Lists!DeleteRows, Lists!At
<1>2. PICK r \in Served : Serve(w, r) /\ r.step # "save"
  BY <1>1, GoToServes DEF ListsTyped
<1> QED BY <1>1, <1>2, ServeTyped DEF ListsTyped, OnePerTask

LEMMA InsertTyped ==
    ASSUME ListsTyped, NEW w \in Workers, Lists!InsertRows(w)
    PROVE  ListsTyped' /\ UNCHANGED <<completions, activity>>
<1>1. PICK c : c = serving[w]
  OBVIOUS
<1>2. PICK left : left = templates \ c.seen
  OBVIOUS
<1>3. /\ c # None /\ c \in Served /\ Serve(w, None)
      /\ UNCHANGED <<completions, activity, assigned, day, requests>>
      /\ templates' = IF Lists!TasksOf(left) \intersect c.list # {} THEN templates
                      ELSE left \union Lists!RowsOf(c.list, c.at)
  BY <1>1, <1>2 DEF Lists!InsertRows, Lists!At, Lists!Done, Serve, ListsTyped
<1>4. left \in SUBSET Template /\ OnePerTask(left)
  BY <1>2 DEF ListsTyped, OnePerTask
<1>5. c.list \in SUBSET Tasks /\ c.at \in Nat
  BY <1>3 DEF Served
<1>6. templates' \subseteq Template /\ OnePerTask(templates')
  <2>1. CASE Lists!TasksOf(left) \intersect c.list # {}
    BY <1>3, <2>1 DEF ListsTyped
  <2>2. CASE Lists!TasksOf(left) \intersect c.list = {}
    BY <1>3, <1>4, <1>5, <2>2, ListGrows
  <2> QED BY <2>1, <2>2
<1> QED BY <1>3, <1>6, ServeTyped DEF ListsTyped, OnePerTask

(* A completion and its activity entry commit together or not at all.        *)
LEMMA SaveTicks ==
    ASSUME ListsTyped, ActivityInv, NEW w \in Workers, Lists!Save(w)
    PROVE  ListsTyped' /\ ActivityInv'
<1>1. PICK c : c = serving[w]
  OBVIOUS
<1>2. PICK row : row = [user |-> c.user, day |-> c.day, task |-> c.task]
  OBVIOUS
<1>3. PICK entry : entry = [user |-> c.user, day |-> c.day, task |-> c.task, at |-> c.at]
  OBVIOUS
<1>4. /\ c # None /\ c \in Served /\ c.task \in Tasks /\ Serve(w, None)
      /\ UNCHANGED <<templates, assigned, day, requests>>
      /\ \/ UNCHANGED <<completions, activity>>
         \/ /\ row \notin completions /\ completions' = completions \union {row}
            /\ activity' = activity \union {entry}
  BY <1>1, <1>2, <1>3
     DEF Lists!Save, Lists!Refused, Lists!CompletionOf, Lists!At, Lists!Done, Serve, ListsTyped
<1>5. row \in Completion /\ entry \in Entry /\ OfSame(row, entry)
  BY <1>2, <1>3, <1>4 DEF Served, Completion, Entry, OfSame
<1>6. ListsTyped'
  <2>1. completions' \subseteq Completion /\ activity' \subseteq Entry
    BY <1>4, <1>5 DEF ListsTyped
  <2> QED BY <1>4, <2>1, ServeTyped DEF ListsTyped, OnePerTask
<1>7. CASE UNCHANGED <<completions, activity>>
  BY <1>6, <1>7 DEF ActivityInv
<1>8. CASE /\ row \notin completions /\ completions' = completions \union {row}
           /\ activity' = activity \union {entry}
  <2>1. ASSUME NEW e \in activity, OfSame(e, entry) PROVE FALSE
    <3>1. PICK d \in completions : OfSame(d, e)
      BY DEF ActivityInv
    <3>2. d = row
      BY <1>2, <1>3, <2>1, <3>1 DEF OfSame, ListsTyped, Completion
    <3> QED BY <1>8, <3>1, <3>2
  <2>2. \A e \in activity' : \E d \in completions' : OfSame(d, e)
    BY <1>5, <1>8 DEF ActivityInv
  <2>3. \A d \in completions' : \E e \in activity' : OfSame(d, e)
    BY <1>5, <1>8 DEF ActivityInv
  <2>4. \A d, e \in activity' : OfSame(d, e) => d = e
    <3>1. \A d \in activity : ~ OfSame(d, entry) /\ ~ OfSame(entry, d)
      BY <2>1 DEF OfSame
    <3> QED BY <1>8, <3>1 DEF ActivityInv
  <2> QED BY <1>6, <2>2, <2>3, <2>4 DEF ActivityInv, OfSame
<1> QED BY <1>4, <1>6, <1>7, <1>8

LEMMA TaskTyped ==
    ASSUME ListsSensible, ListsTyped, NEW t \in Assignments, NEW u \in Users,
           \/ Lists!CreateTask(t, u) \/ Lists!AcceptTask(t, u)
           \/ \E rejected \in BOOLEAN : Lists!CompleteTask(t, u, rejected)
    PROVE  ListsTyped' /\ UNCHANGED <<completions, activity>>
<1>1. ASSUME NEW row \in Assigned, Lists!Handled(t, row)
      PROVE  ListsTyped' /\ UNCHANGED <<completions, activity>>
  <2>1. /\ requests < MaxRequests /\ requests' = requests + 1
        /\ assigned' = [assigned EXCEPT ![t] = row]
        /\ UNCHANGED <<templates, completions, activity, serving, day>>
    BY <1>1 DEF Lists!Handled
  <2>2. requests' \in 0..MaxRequests
    BY <2>1 DEF ListsTyped, ListsSensible
  <2>3. assigned' \in [Assignments -> Assigned \union {None}]
    BY <2>1 DEF ListsTyped
  <2> QED BY <2>1, <2>2, <2>3 DEF ListsTyped, OnePerTask
<1>2. CASE Lists!CreateTask(t, u)
  <2>1. [staff |-> u, status |-> "assigned", rejected |-> FALSE] \in Assigned
    BY DEF Assigned
  <2> QED BY <1>1, <1>2, <2>1 DEF Lists!CreateTask
<1>3. CASE Lists!AcceptTask(t, u)
  <2>1. assigned[t] \in Assigned
    BY <1>3 DEF Lists!AcceptTask, ListsTyped
  <2>2. [assigned[t] EXCEPT !.status = "accepted"] \in Assigned
    BY <2>1 DEF Assigned
  <2> QED BY <1>1, <1>3, <2>2 DEF Lists!AcceptTask
<1>4. ASSUME NEW rejected \in BOOLEAN, Lists!CompleteTask(t, u, rejected)
      PROVE  ListsTyped' /\ UNCHANGED <<completions, activity>>
  <2>1. PICK row : row = [assigned[t] EXCEPT
                              !.status = IF rejected THEN "rejected" ELSE "completed",
                              !.rejected = rejected]
    OBVIOUS
  <2>2. assigned[t] \in Assigned /\ Lists!Handled(t, row)
    BY <1>4, <2>1 DEF Lists!CompleteTask, ListsTyped
  <2>3. row \in Assigned
    BY <2>1, <2>2 DEF Assigned
  <2> QED BY <1>1, <2>2, <2>3
<1> QED BY <1>2, <1>3, <1>4

LEMMA ListsNext ==
    ASSUME ListsSensible, ListsTyped, ActivityInv, [Lists!Next]_(Lists!vars)
    PROVE  ListsTyped' /\ ActivityInv'
<1>1. ASSUME ListsTyped', UNCHANGED <<completions, activity>> PROVE ListsTyped' /\ ActivityInv'
  BY <1>1 DEF ActivityInv, OfSame
<1>2. ASSUME NEW w \in Workers,
             \E u \in Users : \/ Lists!AskToday(w, u)
                              \/ \E task \in Tasks : Lists!AskComplete(w, u, task)
                              \/ \E list \in SUBSET Tasks : Lists!AskReplace(w, u, list)
      PROVE  ListsTyped' /\ ActivityInv'
  <2>1. PICK r \in Served : Serve(w, r) /\ r.step # "save"
    BY <1>2, AskServes
  <2>2. /\ UNCHANGED <<templates, completions, activity, assigned, day>>
        /\ requests' \in 0..MaxRequests
    BY <1>2, AskServes
  <2>3. ListsTyped'
    BY <2>1, <2>2, ServeTyped DEF ListsTyped, OnePerTask
  <2> QED BY <1>1, <2>2, <2>3
<1>3. ASSUME NEW w \in Workers, Lists!Seed(w) PROVE ListsTyped' /\ ActivityInv'
  <2>1. UNCHANGED <<completions, activity>>
    BY <1>3 DEF Lists!Seed
  <2> QED BY <1>1, <1>3, <2>1, SeedTyped
<1>4. ASSUME NEW w \in Workers,
             Lists!Count(w) \/ Lists!Read(w) \/ Lists!DeleteRows(w) \/ Lists!InsertRows(w)
      PROVE  ListsTyped' /\ ActivityInv'
  BY <1>1, <1>4, CountTyped, ReadTyped, DeleteTyped, InsertTyped
<1>5. ASSUME NEW w \in Workers, Lists!Save(w) PROVE ListsTyped' /\ ActivityInv'
  BY <1>5, SaveTicks
<1>6. ASSUME NEW t \in Assignments, NEW u \in Users,
             \/ Lists!CreateTask(t, u) \/ Lists!AcceptTask(t, u)
             \/ \E rejected \in BOOLEAN : Lists!CompleteTask(t, u, rejected)
      PROVE  ListsTyped' /\ ActivityInv'
  BY <1>1, <1>6, TaskTyped
<1>7. CASE Lists!NextDay
  <2>1. /\ day < MaxDay /\ day' = day + 1
        /\ UNCHANGED <<templates, completions, activity, assigned, serving, requests>>
    BY <1>7 DEF Lists!NextDay
  <2>2. day' \in 0..MaxDay
    BY <2>1 DEF ListsTyped, ListsSensible
  <2>3. ListsTyped'
    BY <2>1, <2>2 DEF ListsTyped, OnePerTask
  <2> QED BY <1>1, <2>1, <2>3
<1>8. CASE UNCHANGED Lists!vars
  BY <1>8 DEF Lists!vars, ListsTyped, OnePerTask, ActivityInv, OfSame
<1> QED BY <1>2, <1>3, <1>4, <1>5, <1>6, <1>7, <1>8 DEF Lists!Next

LEMMA CardinalityOfLists == \A S : Lists!Cardinality(S) = Cardinality(S)
BY DEF Lists!Cardinality, Cardinality

(* A member's tasks are rejected, completed or pending, and only one of them. *)
LEMMA TasksAddUp ==
    ASSUME ListsSensible, ListsTyped, NEW u \in Users
    PROVE  LET sums == Lists!PerformanceOf(u)
           IN sums.rejected + sums.completed + sums.pending = sums.total
<1>1. PICK all : all = Lists!TasksOfStaff(u)
  OBVIOUS
<1> DEFINE rejected == {t \in all : assigned[t].rejected \/ assigned[t].status = "rejected"}
           completed == {t \in all \ rejected : assigned[t].status = "completed"}
           pending == {t \in all \ rejected : assigned[t].status \in {"assigned", "accepted"}}
<1>2. IsFiniteSet(all) /\ \A t \in all : assigned[t] \in Assigned
  <2>1. all \in SUBSET Assignments
    BY <1>1 DEF Lists!TasksOfStaff
  <2>2. \A t \in all : assigned[t] # None
    BY <1>1 DEF Lists!TasksOfStaff
  <2> QED BY <2>1, <2>2, FS_Subset DEF ListsSensible, ListsTyped
<1>3. /\ all = rejected \union (completed \union pending)
      /\ rejected \intersect (completed \union pending) = {} /\ completed \intersect pending = {}
  BY <1>2 DEF Assigned
<1>4. IsFiniteSet(rejected) /\ IsFiniteSet(completed) /\ IsFiniteSet(pending)
  <2>1. rejected \in SUBSET all /\ completed \in SUBSET all /\ pending \in SUBSET all
    OBVIOUS
  <2> QED BY <1>2, <2>1, FS_Subset
<1> HIDE DEF rejected, completed, pending
<1>5. /\ Cardinality(rejected) \in Nat /\ Cardinality(completed) \in Nat
      /\ Cardinality(pending) \in Nat
  BY <1>4, FS_CardinalityType
<1>6. /\ IsFiniteSet(completed \union pending)
      /\ Cardinality(completed \union pending) = Cardinality(completed) + Cardinality(pending)
  BY <1>3, <1>4, <1>5, FS_Union, FS_EmptySet
<1>7. Cardinality(all) = Cardinality(rejected) + Cardinality(completed \union pending)
  BY <1>3, <1>4, <1>5, <1>6, FS_Union, FS_EmptySet
<1>8. Lists!PerformanceOf(u) =
        [total |-> Cardinality(all), rejected |-> Cardinality(rejected),
         completed |-> Cardinality(completed), pending |-> Cardinality(pending)]
  BY <1>1, CardinalityOfLists DEF Lists!PerformanceOf, rejected, completed, pending
<1> QED BY <1>5, <1>6, <1>7, <1>8

(* However many devices tick a task at once, it shows once in the activity of *)
(* the day, whatever becomes of the list; and a member's tasks are rejected,  *)
(* completed or pending, and not two of these.                                *)
THEOREM TaskIsTickedOnce == ListsSensible => (Lists!Spec => []Lists!TickedOnce)
<1> SUFFICES ASSUME ListsSensible PROVE Lists!Spec => []Lists!TickedOnce
  OBVIOUS
<1>1. Lists!Init => ListsTyped /\ ActivityInv
  BY ListsInit
<1>2. ListsTyped /\ ActivityInv /\ [Lists!Next]_(Lists!vars) => (ListsTyped /\ ActivityInv)'
  BY ListsNext
<1>3. ListsTyped /\ ActivityInv => Lists!TickedOnce
  <2> SUFFICES ASSUME ListsTyped, ActivityInv PROVE Lists!TickedOnce
    OBVIOUS
  <2>1. ASSUME NEW c \in completions
        PROVE  Lists!Cardinality({e \in activity : e.user = c.user /\ e.day = c.day
                                                    /\ e.task = c.task}) = 1
    <3>1. PICK e \in activity : OfSame(c, e)
      BY DEF ActivityInv
    <3>2. {d \in activity : d.user = c.user /\ d.day = c.day /\ d.task = c.task} = {e}
      BY <3>1 DEF ActivityInv, OfSame
    <3> QED BY <3>2, FS_Singleton, CardinalityOfLists
  <2>2. ASSUME NEW u \in Users PROVE Lists!Ticked(u) \subseteq Lists!SummaryDone
    <3> SUFFICES ASSUME NEW t \in Lists!Ticked(u) PROVE t \in Lists!SummaryDone
      OBVIOUS
    <3>1. PICK c \in completions : c = [user |-> u, day |-> day, task |-> t]
      BY DEF Lists!Ticked
    <3>2. c.day = day /\ c.task = t
      BY <3>1
    <3> QED BY <3>2 DEF Lists!SummaryDone
  <2> QED BY <2>1, <2>2, TasksAddUp DEF Lists!TickedOnce
<1> QED BY <1>1, <1>2, <1>3, PTL DEF Lists!Spec

-----------------------------------------------------------------------------
(* What a workspace starts with.                                             *)

Known == SeedDefaults \union Mandatory
Boot == [user : Users, at : Nat, left : SUBSET Known, workspace : Workspaces \union {None},
         step : {"join", "count", "look", "insert"}]

BootsSensible == MaxRequests \in Nat /\ None \notin Workspaces

(* Entries come with what added them; a bootstrap past its first step has its *)
(* workspace.                                                                 *)
Added == [workspace : Workspaces, entry : Known, at : Nat]
BootsTyped ==
    /\ memberships \in [Users -> Seq(Workspaces)]
    /\ entries \subseteq Added
    /\ boot \in [Workers -> Boot \union {None}]
    /\ \A w \in Workers : boot[w] # None /\ boot[w].step # "join" => boot[w].workspace \in Workspaces
    /\ requests \in 0..MaxRequests

(* Unless two wrote at once: who is being given a workspace has none yet, and *)
(* what is about to be inserted is not there.                                 *)
JoinInv ==
    \A u \in Users \ overlapped :
        /\ Len(memberships[u]) <= 1
        /\ \A w \in Workers : Bootstraps!At(w, "join") /\ boot[w].user = u => memberships[u] = <<>>
SeedInv ==
    \A b \in Workspaces \ overlapped :
        /\ \A x, y \in Bootstraps!Of(b) : x.entry = y.entry => x = y
        /\ \A w \in Workers : Bootstraps!At(w, "insert") /\ boot[w].workspace = b =>
              boot[w].left \intersect Bootstraps!Named(b) = {}
BootInv == BootsTyped /\ JoinInv /\ SeedInv

LEMMA BootsInit == BootsSensible => (Bootstraps!Init => BootInv)
<1> SUFFICES ASSUME BootsSensible, Bootstraps!Init PROVE BootInv
  OBVIOUS
<1>1. /\ entries = {} /\ requests = 0 /\ boot = [w \in Workers |-> None]
      /\ \A u \in Users : memberships[u] \in Seq(Workspaces) /\ Len(memberships[u]) <= 1
      /\ memberships \in [Users -> Seq(Workspaces)]
  <2>1. PICK b \in Workspaces, member \in SUBSET Users :
           memberships = [u \in Users |-> IF u \in member THEN <<b>> ELSE <<>>]
    BY DEF Bootstraps!Init
  <2>2. <<b>> \in Seq(Workspaces) /\ <<>> \in Seq(Workspaces) /\ Len(<<b>>) = 1 /\ Len(<<>>) = 0
    OBVIOUS
  <2> QED BY <2>1, <2>2 DEF Bootstraps!Init
<1>2. BootsTyped
  BY <1>1 DEF BootsTyped, BootsSensible
<1>3. JoinInv
  BY <1>1 DEF JoinInv, Bootstraps!At
<1>4. SeedInv
  BY <1>1 DEF SeedInv, Bootstraps!Of, Bootstraps!At
<1> QED BY <1>2, <1>3, <1>4 DEF BootInv

(* A worker's step on its own bootstrap that adds nothing.                   *)
Advance(w, new) ==
    boot' = [boot EXCEPT ![w] = new] /\ UNCHANGED <<memberships, entries, overlapped>>

LEMMA AdvanceKeeps ==
    ASSUME BootInv, NEW w \in Workers, NEW new \in Boot \union {None}, Advance(w, new),
           requests' \in 0..MaxRequests,
           new # None /\ new.step # "join" => new.workspace \in Workspaces,
           new # None /\ new.step = "join" => memberships[new.user] = <<>>,
           new # None /\ new.step = "insert" =>
               new.left \intersect Bootstraps!Named(new.workspace) = {}
    PROVE  BootInv'
<1>1. /\ boot' \in [Workers -> Boot \union {None}]
      /\ \A v \in Workers : boot'[v] = IF v = w THEN new ELSE boot[v]
  BY DEF BootInv, BootsTyped, Advance
<1>2. BootsTyped'
  BY <1>1 DEF BootInv, BootsTyped, Advance
<1>3. JoinInv'
  BY <1>1 DEF BootInv, JoinInv, Advance, Bootstraps!At
<1>4. \A b : Bootstraps!Of(b)' = Bootstraps!Of(b) /\ Bootstraps!Named(b)' = Bootstraps!Named(b)
  BY DEF Advance, Bootstraps!Of, Bootstraps!Named
<1>5. SeedInv'
  BY <1>1, <1>4 DEF BootInv, SeedInv, Advance, Bootstraps!At
<1> QED BY <1>2, <1>3, <1>5 DEF BootInv

LEMMA AskBoots ==
    ASSUME BootsSensible, BootInv, NEW w \in Workers, NEW u \in Users, Bootstraps!Ask(w, u)
    PROVE  BootInv'
<1>1. PICK new : new = [user |-> u, at |-> requests, left |-> {},
            workspace |-> IF memberships[u] = <<>> THEN None ELSE Head(memberships[u]),
            step |-> IF memberships[u] = <<>> THEN "join" ELSE "count"]
  OBVIOUS
<1>2. Advance(w, new) /\ requests < MaxRequests /\ requests' = requests + 1
  BY <1>1 DEF Bootstraps!Ask, Bootstraps!Request, Advance
<1>3. requests' \in 0..MaxRequests /\ requests \in Nat
  BY <1>2 DEF BootsSensible, BootInv, BootsTyped
<1>4. memberships[u] \in Seq(Workspaces)
  BY DEF BootInv, BootsTyped
<1>5. CASE memberships[u] = <<>>
  <2>1. new \in Boot /\ new.step = "join" /\ new.user = u
    BY <1>1, <1>3, <1>5 DEF Boot
  <2> QED BY <1>2, <1>3, <1>5, <2>1, AdvanceKeeps
<1>6. CASE memberships[u] # <<>>
  <2>1. Head(memberships[u]) \in Workspaces
    BY <1>4, <1>6
  <2>2. new \in Boot /\ new.step = "count" /\ new.workspace \in Workspaces
    BY <1>1, <1>3, <1>6, <2>1 DEF Boot
  <2> QED BY <1>2, <1>3, <2>2, AdvanceKeeps
<1> QED BY <1>5, <1>6

LEMMA CountBoots ==
    ASSUME BootInv, NEW w \in Workers, Bootstraps!Count(w) \/ Bootstraps!Look(w)
    PROVE  BootInv'
<1>1. PICK c : c = boot[w]
  OBVIOUS
<1>2. /\ c \in Boot /\ c # None /\ c.step # "join" /\ requests' = requests
      /\ c.workspace \in Workspaces /\ requests' \in 0..MaxRequests
  BY <1>1 DEF Bootstraps!Count, Bootstraps!Look, Bootstraps!At, BootInv, BootsTyped
<1>3. ASSUME Bootstraps!Done(w), UNCHANGED <<memberships, entries, overlapped>>
      PROVE  BootInv'
  BY <1>2, <1>3, AdvanceKeeps DEF Bootstraps!Done, Advance
<1>4. CASE Bootstraps!Count(w)
  <2>1. UNCHANGED <<memberships, entries, overlapped>>
        /\ (Bootstraps!GoTo(w, "look") \/ Bootstraps!Done(w))
    BY <1>4 DEF Bootstraps!Count
  <2>2. CASE Bootstraps!GoTo(w, "look")
    <3>1. PICK new : new = [c EXCEPT !.step = "look"]
      OBVIOUS
    <3>2. new \in Boot /\ new.step = "look" /\ new.workspace \in Workspaces
      BY <1>2, <3>1 DEF Boot
    <3>3. Advance(w, new)
      BY <1>1, <2>1, <2>2, <3>1 DEF Bootstraps!GoTo, Advance, BootInv, BootsTyped
    <3> QED BY <1>2, <3>2, <3>3, AdvanceKeeps
  <2> QED BY <1>3, <2>1, <2>2
<1>5. CASE Bootstraps!Look(w)
  <2>1. PICK wanted \in {SeedDefaults \union Mandatory, Mandatory} :
           \/ Bootstraps!Done(w)
           \/ boot' = [boot EXCEPT ![w].step = "insert",
                                   ![w].left = Bootstraps!Missing(c.workspace, wanted)]
    BY <1>1, <1>5 DEF Bootstraps!Look
  <2>2. UNCHANGED <<memberships, entries, overlapped>>
    BY <1>5 DEF Bootstraps!Look
  <2>3. CASE boot' = [boot EXCEPT ![w].step = "insert",
                                  ![w].left = Bootstraps!Missing(c.workspace, wanted)]
    <3>1. PICK left : left = Bootstraps!Missing(c.workspace, wanted)
      OBVIOUS
    <3>2. left \in SUBSET Known /\ left \intersect Bootstraps!Named(c.workspace) = {}
      BY <3>1 DEF Bootstraps!Missing, Known
    <3>3. PICK new : new = [c EXCEPT !.step = "insert", !.left = left]
      OBVIOUS
    <3>4. /\ new \in Boot /\ new.step = "insert" /\ new.workspace = c.workspace
          /\ new.left = left
      BY <1>2, <3>2, <3>3 DEF Boot
    <3>5. Advance(w, new)
      BY <1>1, <2>2, <2>3, <3>1, <3>3 DEF Advance, BootInv, BootsTyped
    <3> QED BY <1>2, <3>2, <3>4, <3>5, AdvanceKeeps
  <2> QED BY <1>3, <2>1, <2>2, <2>3
<1> QED BY <1>4, <1>5

LEMMA JoinBoots ==
    ASSUME BootInv, NEW w \in Workers, Bootstraps!Join(w)
    PROVE  BootInv'
<1>1. PICK c : c = boot[w]
  OBVIOUS
<1>2. PICK u : u = c.user
  OBVIOUS
<1>3. c # None /\ c \in Boot /\ c.step = "join" /\ u \in Users
  BY <1>1, <1>2 DEF Bootstraps!Join, Bootstraps!At, BootInv, BootsTyped, Boot
<1>4. PICK b \in Workspaces :
         /\ memberships' = [memberships EXCEPT ![u] = Append(@, b)]
         /\ boot' = [boot EXCEPT ![w].workspace = b, ![w].step = "count"]
  BY <1>1, <1>2 DEF Bootstraps!Join
<1>5. /\ overlapped' = IF Bootstraps!Joining(w, u) = {} THEN overlapped ELSE overlapped \union {u}
      /\ entries' = entries /\ requests' = requests
  BY <1>1, <1>2 DEF Bootstraps!Join
<1>6. PICK new : new = [c EXCEPT !.workspace = b, !.step = "count"]
  OBVIOUS
<1>7. new \in Boot /\ new.step = "count" /\ new.workspace = b
  BY <1>3, <1>6 DEF Boot
<1>8. /\ boot' \in [Workers -> Boot \union {None}]
      /\ \A v \in Workers : boot'[v] = IF v = w THEN new ELSE boot[v]
  BY <1>1, <1>4, <1>6, <1>7 DEF BootInv, BootsTyped
<1>9. \A v \in Users : memberships[v] \in Seq(Workspaces)
  BY DEF BootInv, BootsTyped
<1>10. Append(memberships[u], b) \in Seq(Workspaces)
       /\ Len(Append(memberships[u], b)) = Len(memberships[u]) + 1
  BY <1>3, <1>9
<1>11. \A v \in Users : memberships'[v] = IF v = u THEN Append(memberships[u], b) ELSE memberships[v]
  BY <1>3, <1>4 DEF BootInv, BootsTyped
<1>12. memberships' \in [Users -> Seq(Workspaces)]
  BY <1>3, <1>4, <1>10 DEF BootInv, BootsTyped
<1>13. BootsTyped'
  BY <1>5, <1>7, <1>8, <1>12 DEF BootInv, BootsTyped
<1>14. JoinInv'
  <2> SUFFICES ASSUME NEW v \in Users, v \notin overlapped'
               PROVE  /\ Len(memberships'[v]) <= 1
                      /\ \A x \in Workers : boot'[x] # None /\ boot'[x].step = "join" /\ boot'[x].user = v
                                                => memberships'[v] = <<>>
    BY DEF JoinInv, Bootstraps!At
  <2>1. v \notin overlapped
    BY <1>5
  <2>2. /\ Len(memberships[v]) <= 1
        /\ \A x \in Workers : boot[x] # None /\ boot[x].step = "join" /\ boot[x].user = v
              => memberships[v] = <<>>
    BY <2>1 DEF BootInv, JoinInv, Bootstraps!At
  <2>3. CASE v = u
    <3>0. Bootstraps!Joining(w, u) = {}
      BY <1>5, <2>3
    <3>1. \A x \in Workers \ {w} : ~ (boot[x] # None /\ boot[x].step = "join" /\ boot[x].user = u)
      BY <3>0 DEF Bootstraps!Joining, Bootstraps!At
    <3>2. memberships[u] = <<>>
      BY <1>1, <1>2, <1>3, <2>2, <2>3
    <3>3. Len(memberships'[v]) <= 1
      <4>1. Len(<<>>) = 0
        OBVIOUS
      <4>2. Len(memberships[u]) = 0
        BY <3>2, <4>1
      <4>3. Len(Append(memberships[u], b)) = 1
        BY <1>10, <4>2
      <4>4. memberships'[v] = Append(memberships[u], b)
        BY <1>11, <2>3
      <4> QED BY <4>3, <4>4
    <3>4. \A x \in Workers : ~ (boot'[x] # None /\ boot'[x].step = "join" /\ boot'[x].user = u)
      BY <1>7, <1>8, <3>1
    <3> QED BY <2>3, <3>3, <3>4
  <2>4. CASE v # u
    BY <1>7, <1>8, <1>11, <2>2, <2>4
  <2> QED BY <2>3, <2>4
<1>15. \A x : Bootstraps!Of(x)' = Bootstraps!Of(x) /\ Bootstraps!Named(x)' = Bootstraps!Named(x)
  BY <1>5 DEF Bootstraps!Of, Bootstraps!Named
<1>16. SeedInv'
  BY <1>5, <1>7, <1>8, <1>15 DEF BootInv, SeedInv, Bootstraps!At
<1> QED BY <1>13, <1>14, <1>16 DEF BootInv

(* What adds rows to a workspace keeps the invariant when the names are new  *)
(* and nobody else is about to insert there.                                 *)
Adding(b, names, at) ==
    /\ entries' = entries \union Bootstraps!RowsOf(b, names, at)
    /\ memberships' = memberships
    /\ \A x : x \notin overlapped' => x \notin overlapped

LEMMA AddingKeeps ==
    ASSUME BootInv, NEW b \in Workspaces, NEW names \in SUBSET Known, NEW at \in Nat,
           Adding(b, names, at),
           requests' \in 0..MaxRequests,
           \A v \in Workers : boot'[v] = boot[v] \/ boot'[v] = None,
           boot' \in [Workers -> Boot \union {None}],
           b \notin overlapped' =>
               /\ names \intersect Bootstraps!Named(b) = {}
               /\ \A v \in Workers :
                     ~ (boot'[v] # None /\ boot'[v].step = "insert" /\ boot'[v].workspace = b)
    PROVE  BootInv'
<1>1. PICK rows : rows = Bootstraps!RowsOf(b, names, at)
  OBVIOUS
<1>2. /\ rows \subseteq Added
      /\ \A r \in rows : r.workspace = b /\ r.entry \in names
      /\ \A r, s \in rows : r.entry = s.entry => r = s
  BY <1>1 DEF Bootstraps!RowsOf, Added
<1>3. BootsTyped'
  BY <1>1, <1>2 DEF BootInv, BootsTyped, Adding
<1>4. JoinInv'
  BY DEF BootInv, JoinInv, Adding, Bootstraps!At
<1>5. \A a : a # b => Bootstraps!Of(a)' = Bootstraps!Of(a) /\ Bootstraps!Named(a)' = Bootstraps!Named(a)
  BY <1>1, <1>2 DEF Adding, Bootstraps!Of, Bootstraps!Named
<1>6. Bootstraps!Of(b)' = Bootstraps!Of(b) \union rows
  BY <1>1, <1>2 DEF Adding, Bootstraps!Of
<1>7. SeedInv'
  <2> SUFFICES ASSUME NEW a \in Workspaces, a \notin overlapped'
               PROVE  /\ \A x, y \in Bootstraps!Of(a)' : x.entry = y.entry => x = y
                      /\ \A v \in Workers : boot'[v] # None /\ boot'[v].step = "insert" /\ boot'[v].workspace = a
                            => boot'[v].left \intersect Bootstraps!Named(a)' = {}
    BY DEF SeedInv, Bootstraps!At
  <2>1. /\ \A x, y \in Bootstraps!Of(a) : x.entry = y.entry => x = y
        /\ \A v \in Workers : boot[v] # None /\ boot[v].step = "insert" /\ boot[v].workspace = a
              => boot[v].left \intersect Bootstraps!Named(a) = {}
    BY DEF BootInv, SeedInv, Adding, Bootstraps!At
  <2>2. CASE a = b
    <3>1. \A x \in Bootstraps!Of(b) : x.entry \in Bootstraps!Named(b)
      BY DEF Bootstraps!Named
    <3>2. \A x, y \in Bootstraps!Of(b)' : x.entry = y.entry => x = y
      BY <1>2, <1>6, <2>1, <2>2, <3>1
    <3> QED BY <2>2, <3>2
  <2>3. CASE a # b
    BY <1>5, <2>1, <2>3
  <2> QED BY <2>2, <2>3
<1> QED BY <1>3, <1>4, <1>7 DEF BootInv

LEMMA InsertBoots ==
    ASSUME BootInv, NEW w \in Workers, Bootstraps!Insert(w)
    PROVE  BootInv'
<1>1. PICK c : c = boot[w]
  OBVIOUS
<1>2. PICK b : b = c.workspace
  OBVIOUS
<1>3. /\ c \in Boot /\ c # None /\ c.step = "insert" /\ b \in Workspaces
      /\ c.left \in SUBSET Known /\ c.at \in Nat
  BY <1>1, <1>2 DEF Bootstraps!Insert, Bootstraps!At, BootInv, BootsTyped, Boot
<1>4. /\ entries' = entries \union Bootstraps!RowsOf(b, c.left, c.at)
      /\ overlapped' = IF Bootstraps!Writing(w, b) = {} THEN overlapped ELSE overlapped \union {b}
      /\ boot' = [boot EXCEPT ![w] = None]
      /\ memberships' = memberships /\ requests' = requests
  BY <1>1, <1>2 DEF Bootstraps!Insert, Bootstraps!Done
<1>5. /\ boot' \in [Workers -> Boot \union {None}]
      /\ \A v \in Workers : boot'[v] = IF v = w THEN None ELSE boot[v]
      /\ requests' \in 0..MaxRequests
  BY <1>4 DEF BootInv, BootsTyped
<1>6. \A x : x \notin overlapped' => x \notin overlapped
  BY <1>4
<1>7. ASSUME b \notin overlapped'
      PROVE  /\ \A v \in Workers : ~ (boot'[v] # None /\ boot'[v].step = "insert" /\ boot'[v].workspace = b)
             /\ c.left \intersect Bootstraps!Named(b) = {}
  <2>1. Bootstraps!Writing(w, b) = {} /\ b \notin overlapped
    BY <1>4, <1>7
  <2>2. \A v \in Workers \ {w} : ~ (boot[v] # None /\ boot[v].step = "insert" /\ boot[v].workspace = b)
    BY <2>1 DEF Bootstraps!Writing, Bootstraps!At
  <2>3. c.left \intersect Bootstraps!Named(b) = {}
    BY <1>1, <1>2, <1>3, <2>1 DEF BootInv, SeedInv, Bootstraps!At
  <2> QED BY <1>5, <2>2, <2>3
<1> QED BY <1>3, <1>4, <1>5, <1>6, <1>7, AddingKeeps DEF Adding

LEMMA FailBoots ==
    ASSUME BootInv, NEW w \in Workers, Bootstraps!Fail(w)
    PROVE  BootInv'
<1>1. Advance(w, None) /\ requests' \in 0..MaxRequests
  BY DEF Bootstraps!Fail, Bootstraps!Done, Advance, BootInv, BootsTyped
<1> QED BY <1>1, AdvanceKeeps

LEMMA AddBoots ==
    ASSUME BootsSensible, BootInv, NEW b \in Workspaces, NEW e \in Known,
           Bootstraps!AddEntry(b, e)
    PROVE  BootInv'
<1>1. /\ entries' = entries \union Bootstraps!RowsOf(b, {e}, requests)
      /\ memberships' = memberships /\ boot' = boot /\ e \notin Bootstraps!Named(b)
      /\ requests < MaxRequests /\ requests' = requests + 1
      /\ overlapped' = IF \E w \in Workers : Bootstraps!At(w, "insert") /\ boot[w].workspace = b
                       THEN overlapped \union {b} ELSE overlapped
  BY DEF Bootstraps!AddEntry, Bootstraps!Request
<1>2. requests \in Nat /\ requests' \in 0..MaxRequests
  BY <1>1 DEF BootsSensible, BootInv, BootsTyped
<1>3. \A x : x \notin overlapped' => x \notin overlapped
  BY <1>1
<1>4. b \notin overlapped' =>
          \A v \in Workers : ~ (boot'[v] # None /\ boot'[v].step = "insert" /\ boot'[v].workspace = b)
  BY <1>1 DEF Bootstraps!At
<1>5. {e} \in SUBSET Known /\ {e} \intersect Bootstraps!Named(b) = {}
  BY <1>1
<1>6. boot' \in [Workers -> Boot \union {None}]
  BY <1>1 DEF BootInv, BootsTyped
<1> QED BY <1>1, <1>2, <1>3, <1>4, <1>5, <1>6, AddingKeeps DEF Adding

LEMMA RemoveBoots ==
    ASSUME BootsSensible, BootInv, NEW row, Bootstraps!RemoveEntry(row)
    PROVE  BootInv'
<1>1. /\ entries' = entries \ {row} /\ UNCHANGED <<memberships, boot, overlapped>>
      /\ requests < MaxRequests /\ requests' = requests + 1
  BY DEF Bootstraps!RemoveEntry, Bootstraps!Request
<1>2. BootsTyped'
  BY <1>1 DEF BootsSensible, BootInv, BootsTyped
<1>3. JoinInv'
  BY <1>1 DEF BootInv, JoinInv, Bootstraps!At
<1>4. \A b : /\ Bootstraps!Of(b)' \subseteq Bootstraps!Of(b)
             /\ Bootstraps!Named(b)' \subseteq Bootstraps!Named(b)
  BY <1>1 DEF Bootstraps!Of, Bootstraps!Named
<1>5. SeedInv'
  BY <1>1, <1>4 DEF BootInv, SeedInv, Bootstraps!At
<1> QED BY <1>2, <1>3, <1>5 DEF BootInv

LEMMA SameBoots ==
    ASSUME BootInv, UNCHANGED Bootstraps!vars
    PROVE  BootInv'
<1>1. UNCHANGED <<memberships, entries, boot, requests, overlapped>>
  BY DEF Bootstraps!vars
<1>2. BootsTyped'
  BY <1>1 DEF BootInv, BootsTyped
<1>3. JoinInv'
  BY <1>1 DEF BootInv, JoinInv, Bootstraps!At
<1>4. SeedInv'
  BY <1>1 DEF BootInv, SeedInv, Bootstraps!At, Bootstraps!Of, Bootstraps!Named
<1> QED BY <1>2, <1>3, <1>4 DEF BootInv

LEMMA BootsNext ==
    ASSUME BootsSensible, BootInv, [Bootstraps!Next]_(Bootstraps!vars)
    PROVE  BootInv'
<1>1. ASSUME NEW w \in Workers, NEW u \in Users, Bootstraps!Ask(w, u) PROVE BootInv'
  BY <1>1, AskBoots
<1>2. ASSUME NEW w \in Workers, Bootstraps!Join(w) PROVE BootInv'
  BY <1>2, JoinBoots
<1>3. ASSUME NEW w \in Workers, Bootstraps!Count(w) \/ Bootstraps!Look(w) PROVE BootInv'
  BY <1>3, CountBoots
<1>4. ASSUME NEW w \in Workers, Bootstraps!Insert(w) PROVE BootInv'
  BY <1>4, InsertBoots
<1>5. ASSUME NEW w \in Workers, Bootstraps!Fail(w) PROVE BootInv'
  BY <1>5, FailBoots
<1>6. ASSUME NEW b \in Workspaces, NEW e \in SeedDefaults \union Mandatory,
             Bootstraps!AddEntry(b, e)
      PROVE  BootInv'
  BY <1>6, AddBoots DEF Known
<1>7. ASSUME NEW row \in entries, Bootstraps!RemoveEntry(row) PROVE BootInv'
  BY <1>7, RemoveBoots
<1>8. CASE UNCHANGED Bootstraps!vars
  BY <1>8, SameBoots
<1> QED BY <1>1, <1>2, <1>3, <1>4, <1>5, <1>6, <1>7, <1>8 DEF Bootstraps!Next

LEMMA CardinalityOfSeeds == \A S : Bootstraps!Cardinality(S) = Cardinality(S)
BY DEF Bootstraps!Cardinality, Cardinality

LEMMA BootInvSuffices == BootInv => Bootstraps!SeededOnce
<1> SUFFICES ASSUME BootInv PROVE Bootstraps!SeededOnce
  OBVIOUS
<1>1. ASSUME NEW b \in Workspaces \ overlapped, NEW e \in SeedDefaults \union Mandatory
      PROVE  Bootstraps!Copies(b, e) <= 1
  <2>1. PICK S : S = {row \in Bootstraps!Of(b) : row.entry = e}
    OBVIOUS
  <2>2. Bootstraps!Copies(b, e) = Cardinality(S)
    BY <2>1, CardinalityOfSeeds DEF Bootstraps!Copies
  <2>3. \A x, y \in S : x = y
    BY <2>1 DEF BootInv, SeedInv
  <2>4. S = {} \/ \E x : S = {x}
    BY <2>3
  <2>5. Cardinality(S) = 0 \/ Cardinality(S) = 1
    BY <2>4, FS_EmptySet, FS_Singleton
  <2> QED BY <2>2, <2>5
<1>2. \A u \in Users \ overlapped : Len(memberships[u]) <= 1
  BY DEF BootInv, JoinInv
<1> QED BY <1>1, <1>2 DEF Bootstraps!SeededOnce

(* Any number of bootstraps may overlap: whoever they write for one at a     *)
(* time has one workspace at most and each default once at most; for any     *)
(* users, workspaces and defaults.                                           *)
THEOREM WorkspaceIsSeededOnce == BootsSensible => (Bootstraps!Spec => []Bootstraps!SeededOnce)
<1> SUFFICES ASSUME BootsSensible PROVE Bootstraps!Spec => []Bootstraps!SeededOnce
  OBVIOUS
<1>1. Bootstraps!Init => BootInv
  BY BootsInit
<1>2. BootInv /\ [Bootstraps!Next]_(Bootstraps!vars) => BootInv'
  BY BootsNext
<1> QED BY <1>1, <1>2, BootInvSuffices, PTL DEF Bootstraps!Spec

-----------------------------------------------------------------------------
(* What is owed on a purchase.                                               *)

MoneySensible ==
    /\ Totals \subseteq Nat /\ MaxDay \in Nat /\ MaxRequests \in Nat
    /\ Terms \subseteq Nat \union {None} /\ None \notin Int

(* What a request will write is what it made of amounts that may be old.      *)
PayFits(r) ==
    /\ r.loaded.total \in Nat /\ r.loaded.paid \in Nat
    /\ r.amount \in Nat /\ r.amount <= r.loaded.total
EditFits(r) ==
    /\ r.loaded.total \in Nat /\ r.loaded.paid \in Nat
    /\ r.total \in Totals /\ r.due \in Nat \union {None}
IsAsked(w, kind) == request[w] # None /\ request[w].kind = kind
MoneyTyped ==
    /\ request = [w \in Workers |-> request[w]]
    /\ total \in Nat /\ paid \in Nat /\ due \in Nat \union {None} /\ today \in Nat
    /\ \A w \in Workers : IsAsked(w, "pay") => PayFits(request[w])
    /\ \A w \in Workers : IsAsked(w, "edit") => EditFits(request[w])

LEMMA MoneyInit == MoneySensible => (Paying!Init => MoneyTyped)
<1> SUFFICES ASSUME MoneySensible, Paying!Init PROVE MoneyTyped
  OBVIOUS
<1>1. /\ request = [w \in Workers |-> None] /\ total \in Nat /\ paid = 0 /\ today = 0
      /\ due \in Nat \union {None}
  BY DEF Paying!Init, MoneySensible, Paying!DueAfter
<1> QED BY <1>1 DEF MoneyTyped, IsAsked

LEMMA MoneyAsks ==
    ASSUME MoneySensible, MoneyTyped, NEW w \in Workers, NEW r, Paying!Ask(w, r),
           r.kind = "pay" => PayFits(r), r.kind = "edit" => EditFits(r)
    PROVE  MoneyTyped'
<1>1. /\ request' = [v \in Workers |-> request'[v]]
      /\ \A v \in Workers : request'[v] = IF v = w THEN r ELSE request[v]
      /\ UNCHANGED <<lifecycle, total, paid, due, today>>
  BY DEF Paying!Ask, Paying!row, MoneyTyped
<1>2. \A v \in Workers : IsAsked(v, "pay")' => PayFits(request'[v])
  BY <1>1 DEF MoneyTyped, IsAsked
<1>3. \A v \in Workers : IsAsked(v, "edit")' => EditFits(request'[v])
  BY <1>1 DEF MoneyTyped, IsAsked
<1> QED BY <1>1, <1>2, <1>3 DEF MoneyTyped, PayFits, EditFits

LEMMA MoneyDone ==
    ASSUME MoneyTyped, NEW w \in Workers, Paying!Done(w),
           total' \in Nat, paid' \in Nat, due' \in Nat \union {None}
    PROVE  MoneyTyped'
<1>1. /\ request' = [v \in Workers |-> request'[v]]
      /\ \A v \in Workers : request'[v] = IF v = w THEN None ELSE request[v]
      /\ today' = today
  BY DEF Paying!Done, MoneyTyped
<1>2. \A v \in Workers : IsAsked(v, "pay")' => PayFits(request'[v])
  BY <1>1 DEF MoneyTyped, IsAsked
<1>3. \A v \in Workers : IsAsked(v, "edit")' => EditFits(request'[v])
  BY <1>1 DEF MoneyTyped, IsAsked
<1> QED BY <1>1, <1>2, <1>3 DEF MoneyTyped, PayFits, EditFits

LEMMA LoadedAmounts == Paying!Loaded.total = total /\ Paying!Loaded.paid = paid /\ Paying!Loaded.due = due
BY DEF Paying!Loaded

LEMMA MoneyAskPay ==
    ASSUME MoneySensible, MoneyTyped, NEW w \in Workers, NEW amount \in Nat,
           Paying!AskPay(w, amount)
    PROVE  MoneyTyped'
<1>1. PICK r : r = [kind |-> "pay", loaded |-> Paying!Loaded,
                    amount |-> IF amount > total THEN total ELSE amount]
  OBVIOUS
<1>2. Paying!Ask(w, r)
  BY <1>1 DEF Paying!AskPay
<1>3. r.kind = "pay" /\ PayFits(r)
  BY <1>1, LoadedAmounts DEF PayFits, MoneyTyped
<1> QED BY <1>2, <1>3, MoneyAsks

LEMMA MoneyAskEdit ==
    ASSUME MoneySensible, MoneyTyped, NEW w \in Workers, NEW t \in Totals, NEW term \in Terms,
           NEW st, Paying!AskEdit(w, t, term, st)
    PROVE  MoneyTyped'
<1>1. PICK r : r = [kind |-> "edit", loaded |-> Paying!Loaded, total |-> t,
                    due |-> Paying!DueAfter(term), status |-> st]
  OBVIOUS
<1>2. Paying!Ask(w, r)
  BY <1>1 DEF Paying!AskEdit
<1>3. r.kind = "edit" /\ EditFits(r)
  BY <1>1, LoadedAmounts DEF EditFits, MoneyTyped, MoneySensible, Paying!DueAfter
<1> QED BY <1>2, <1>3, MoneyAsks

LEMMA MoneyAskTransition ==
    ASSUME MoneySensible, MoneyTyped, NEW w \in Workers, NEW to,
           Paying!AskTransition(w, to) \/ Paying!AskClose(w, to)
    PROVE  MoneyTyped'
<1>1. PICK r : r = [kind |-> "transition", to |-> to]
  OBVIOUS
<1>2. Paying!Ask(w, r) /\ r.kind = "transition"
  BY <1>1 DEF Paying!AskTransition, Paying!AskClose
<1> QED BY <1>2, MoneyAsks

LEMMA MoneyCommits ==
    ASSUME MoneySensible, MoneyTyped, NEW w \in Workers,
           Paying!CommitPay(w) \/ Paying!CommitEdit(w) \/ Paying!CommitTransition(w)
    PROVE  MoneyTyped'
<1>1. CASE Paying!CommitPay(w)
  <2>1. PayFits(request[w])
    BY <1>1 DEF Paying!CommitPay, Paying!Serving, MoneyTyped, IsAsked
  <2>2. paid' \in Nat /\ total' = total /\ due' = due /\ Paying!Done(w)
    BY <1>1, <2>1 DEF Paying!CommitPay, Paying!Written, PayFits, MoneyTyped
  <2> QED BY <2>2, MoneyDone DEF MoneyTyped
<1>2. CASE Paying!CommitEdit(w)
  <2>1. EditFits(request[w])
    BY <1>2 DEF Paying!CommitEdit, Paying!Serving, MoneyTyped, IsAsked
  <2>2. total' \in Nat
    BY <1>2, <2>1 DEF Paying!CommitEdit, Paying!Written, EditFits, MoneyTyped, MoneySensible
  <2>3. due' \in Nat \union {None}
    BY <1>2, <2>1 DEF Paying!CommitEdit, Paying!Written, EditFits, MoneyTyped
  <2>4. paid' \in Nat /\ Paying!Done(w)
    BY <1>2, <2>1 DEF Paying!CommitEdit, Paying!Written, Paying!PaidClamped, EditFits,
                      MoneyTyped, MoneySensible
  <2> QED BY <2>2, <2>3, <2>4, MoneyDone
<1>3. CASE Paying!CommitTransition(w)
  <2>1. total' = total /\ paid' = paid /\ due' = due /\ Paying!Done(w)
    BY <1>3 DEF Paying!CommitTransition
  <2> QED BY <2>1, MoneyDone DEF MoneyTyped
<1> QED BY <1>1, <1>2, <1>3

LEMMA MoneyTime ==
    ASSUME MoneySensible, MoneyTyped, Paying!NextDay \/ UNCHANGED Paying!vars
    PROVE  MoneyTyped'
<1>1. /\ UNCHANGED <<lifecycle, total, paid, due, request>>
      /\ today' \in Nat
  BY DEF Paying!NextDay, Paying!vars, Paying!row, MoneyTyped
<1> QED BY <1>1 DEF MoneyTyped, IsAsked, PayFits, EditFits

LEMMA MoneyNext ==
    ASSUME MoneySensible, MoneyTyped, [Paying!Next]_(Paying!vars)
    PROVE  MoneyTyped'
<1>1. ASSUME NEW w \in Workers, NEW amount \in 0..10, Paying!AskPay(w, amount) PROVE MoneyTyped'
  BY <1>1, MoneyAskPay
<1>2. ASSUME NEW w \in Workers, Paying!AskMarkPaid(w) PROVE MoneyTyped'
  BY <1>2, MoneyAskPay DEF Paying!AskMarkPaid, MoneyTyped
<1>3. ASSUME NEW w \in Workers, NEW t \in Totals, NEW term \in Terms,
             NEW st \in {"draft", "saved", "confirmed"}, Paying!AskEdit(w, t, term, st)
      PROVE  MoneyTyped'
  BY <1>3, MoneyAskEdit
<1>4. ASSUME NEW w \in Workers, NEW to, Paying!AskTransition(w, to) \/ Paying!AskClose(w, to)
      PROVE  MoneyTyped'
  BY <1>4, MoneyAskTransition
<1>5. ASSUME NEW w \in Workers,
             Paying!CommitPay(w) \/ Paying!CommitEdit(w) \/ Paying!CommitTransition(w)
      PROVE  MoneyTyped'
  BY <1>5, MoneyCommits
<1>6. CASE Paying!NextDay \/ UNCHANGED Paying!vars
  BY <1>6, MoneyTime
<1> QED BY <1>1, <1>2, <1>3, <1>4, <1>5, <1>6 DEF Paying!Next

(* While requests come one after the other, an open request knows the amounts *)
(* as they are.                                                               *)
PaidInv ==
    /\ paid <= total
    /\ \A w \in Workers : IsAsked(w, "pay") \/ IsAsked(w, "edit") =>
          /\ request[w].loaded.total = total /\ request[w].loaded.paid = paid

LEMMA PaidInit == MoneySensible => (Paying!Init => PaidInv)
<1> SUFFICES ASSUME MoneySensible, Paying!Init PROVE PaidInv
  OBVIOUS
<1>1. request = [w \in Workers |-> None] /\ total \in Nat /\ paid = 0
  BY DEF Paying!Init, MoneySensible
<1> QED BY <1>1 DEF PaidInv, IsAsked

LEMMA PaidAsks ==
    ASSUME MoneyTyped, PaidInv, NEW w \in Workers, NEW r, Paying!Ask(w, r),
           r.kind \in {"pay", "edit"} => r.loaded = Paying!Loaded
    PROVE  PaidInv'
<1>1. /\ \A v \in Workers : request'[v] = IF v = w THEN r ELSE request[v]
      /\ UNCHANGED <<total, paid>>
  BY DEF Paying!Ask, Paying!row, MoneyTyped
<1>2. \A v \in Workers : IsAsked(v, "pay")' \/ IsAsked(v, "edit")' =>
          request'[v].loaded.total = total /\ request'[v].loaded.paid = paid
  BY <1>1, LoadedAmounts DEF PaidInv, IsAsked
<1> QED BY <1>1, <1>2 DEF PaidInv, IsAsked

LEMMA PaidDone ==
    ASSUME Serial, MoneyTyped, NEW w \in Workers, Paying!Done(w), (paid <= total)'
    PROVE  PaidInv'
<1>1. \A v \in Workers : request'[v] = None
  BY DEF Paying!Done, MoneyTyped, Serial
<1> QED BY <1>1 DEF PaidInv, IsAsked

LEMMA PaidCommits ==
    ASSUME Serial, MoneySensible, MoneyTyped, PaidInv, NEW w \in Workers,
           Paying!CommitPay(w) \/ Paying!CommitEdit(w) \/ Paying!CommitTransition(w)
    PROVE  PaidInv'
<1>1. CASE Paying!CommitPay(w)
  <2>1. /\ PayFits(request[w])
        /\ request[w].loaded.total = total /\ request[w].loaded.paid = paid
    BY <1>1 DEF Paying!CommitPay, Paying!Serving, MoneyTyped, PaidInv, IsAsked
  <2>2. paid' <= total' /\ Paying!Done(w)
    BY <1>1, <2>1 DEF Paying!CommitPay, Paying!Written, PayFits
  <2> QED BY <2>2, PaidDone
<1>2. CASE Paying!CommitEdit(w)
  <2>1. /\ EditFits(request[w])
        /\ request[w].loaded.total = total /\ request[w].loaded.paid = paid
    BY <1>2 DEF Paying!CommitEdit, Paying!Serving, MoneyTyped, PaidInv, IsAsked
  <2>2. total' = request[w].total
    BY <1>2, <2>1 DEF Paying!CommitEdit, Paying!Written
  <2>3. paid' = IF paid > request[w].total THEN request[w].total ELSE paid
    BY <1>2, <2>1 DEF Paying!CommitEdit, Paying!Written, Paying!PaidClamped
  <2>4. request[w].total \in Nat /\ paid \in Nat
    BY <2>1 DEF EditFits, MoneySensible, MoneyTyped
  <2>5. Paying!Done(w)
    BY <1>2 DEF Paying!CommitEdit
  <2> QED BY <2>2, <2>3, <2>4, <2>5, PaidDone
<1>3. CASE Paying!CommitTransition(w)
  BY <1>3, PaidDone DEF Paying!CommitTransition, PaidInv
<1> QED BY <1>1, <1>2, <1>3

LEMMA PaidNext ==
    ASSUME Serial, MoneySensible, MoneyTyped, PaidInv, [Paying!Next]_(Paying!vars)
    PROVE  PaidInv'
<1>1. ASSUME NEW w \in Workers, NEW amount, Paying!AskPay(w, amount) PROVE PaidInv'
  <2>1. PICK r : r = [kind |-> "pay", loaded |-> Paying!Loaded,
                      amount |-> IF amount > total THEN total ELSE amount]
    OBVIOUS
  <2>2. Paying!Ask(w, r) /\ r.loaded = Paying!Loaded
    BY <1>1, <2>1 DEF Paying!AskPay
  <2> QED BY <2>2, PaidAsks
<1>2. ASSUME NEW w \in Workers, Paying!AskMarkPaid(w) PROVE PaidInv'
  BY <1>1, <1>2 DEF Paying!AskMarkPaid
<1>3. ASSUME NEW w \in Workers, NEW t, NEW term, NEW st, Paying!AskEdit(w, t, term, st)
      PROVE  PaidInv'
  <2>1. PICK r : r = [kind |-> "edit", loaded |-> Paying!Loaded, total |-> t,
                      due |-> Paying!DueAfter(term), status |-> st]
    OBVIOUS
  <2>2. Paying!Ask(w, r) /\ r.loaded = Paying!Loaded
    BY <1>3, <2>1 DEF Paying!AskEdit
  <2> QED BY <2>2, PaidAsks
<1>4. ASSUME NEW w \in Workers, NEW to, Paying!AskTransition(w, to) \/ Paying!AskClose(w, to)
      PROVE  PaidInv'
  <2>1. PICK r : r = [kind |-> "transition", to |-> to]
    OBVIOUS
  <2>2. Paying!Ask(w, r) /\ r.kind = "transition"
    BY <1>4, <2>1 DEF Paying!AskTransition, Paying!AskClose
  <2> QED BY <2>2, PaidAsks
<1>5. ASSUME NEW w \in Workers,
             Paying!CommitPay(w) \/ Paying!CommitEdit(w) \/ Paying!CommitTransition(w)
      PROVE  PaidInv'
  BY <1>5, PaidCommits
<1>6. CASE Paying!NextDay \/ UNCHANGED Paying!vars
  <2>1. UNCHANGED <<total, paid, request>>
    BY <1>6 DEF Paying!NextDay, Paying!vars, Paying!row
  <2> QED BY <2>1 DEF PaidInv, IsAsked
<1> QED BY <1>1, <1>2, <1>3, <1>4, <1>5, <1>6 DEF Paying!Next

(* When requests are served one at a time, no purchase is paid more than it  *)
(* costs; for any totals, terms and amounts.                                 *)
THEOREM PurchaseIsNotOverpaid ==
    MoneySensible /\ Serial => (Paying!Spec => []Paying!PaidWithinTotal)
<1> SUFFICES ASSUME MoneySensible, Serial PROVE Paying!Spec => []Paying!PaidWithinTotal
  OBVIOUS
<1>1. Paying!Init => MoneyTyped /\ PaidInv
  BY MoneyInit, PaidInit
<1>2. MoneyTyped /\ PaidInv /\ [Paying!Next]_(Paying!vars) => (MoneyTyped /\ PaidInv)'
  BY MoneyNext, PaidNext
<1>3. PaidInv => Paying!PaidWithinTotal
  BY DEF PaidInv, Paying!PaidWithinTotal
<1> QED BY <1>1, <1>2, <1>3, PTL DEF Paying!Spec

-----------------------------------------------------------------------------
(* The list's filters, in the database and over what is shown.               *)

LEMMA FiltersAgree == MoneySensible => (MoneyTyped => Paying!NoShortPages)
<1> SUFFICES ASSUME MoneySensible, MoneyTyped, NEW f \in Paying!Filters, Paying!Selects(f)
             PROVE  Paying!Keeps(f)
  BY DEF Paying!NoShortPages
<1>2. total \in Nat /\ paid \in Nat /\ today \in Nat /\ (due = None \/ due \in Nat)
  BY DEF MoneyTyped
<1>3. PICK st : st = Paying!Normalized(lifecycle)
  OBVIOUS
<1>4. /\ lifecycle = "saved" => st = "draft"
      /\ lifecycle = "confirmed" => st = "active"
      /\ lifecycle \notin {"saved", "confirmed"} => st = lifecycle
  BY <1>3 DEF Paying!Normalized
<1>5. Paying!DerivedStatus = Paying!ComputeStatus(st, total, paid, due)
  BY <1>3 DEF Paying!DerivedStatus
<1>6. CASE f = "draft"
  <2>1. lifecycle \in {"draft", "saved"}
    BY <1>6 DEF Paying!Selects
  <2>2. st = "draft"
    BY <1>4, <2>1
  <2> QED BY <1>3, <1>6, <2>2 DEF Paying!Keeps
<1>7. ASSUME f # "draft"
      PROVE  Paying!NotTerminal /\ st \notin {"cancelled", "deleted", "draft"}
  BY <1>4, <1>7 DEF Paying!Selects, Paying!NotTerminal, Paying!Filters
<1>8. CASE f = "paid"
  <2>1. total > 0 /\ paid >= total
    BY <1>8 DEF Paying!Selects
  <2>2. Paying!DerivedStatus = "paid"
    BY <1>2, <1>5, <1>7, <1>8, <2>1
       DEF Paying!ComputeStatus, Paying!Late, Paying!Soon, Paying!Open
  <2> QED BY <1>8, <2>2 DEF Paying!Keeps
<1>9. CASE f = "overdue"
  <2>1. Paying!Late(total, paid, due)
    BY <1>9 DEF Paying!Selects
  <2>2. /\ total > 0 /\ ~ (paid >= total) /\ due \in Nat /\ today > due
    BY <1>2, <2>1 DEF Paying!Late, Paying!Open
  <2>3. Paying!DerivedStatus = "overdue"
    BY <1>2, <1>5, <1>7, <1>9, <2>1, <2>2
       DEF Paying!ComputeStatus, Paying!Late, Paying!Soon, Paying!Open
  <2> QED BY <1>9, <2>3 DEF Paying!Keeps
<1>10. CASE f = "due_soon"
  <2>1. Paying!Soon(total, paid, due)
    BY <1>10 DEF Paying!Selects
  <2>2. /\ total > 0 /\ ~ (paid >= total) /\ due \in Nat /\ ~ (today > due)
    BY <1>2, <2>1 DEF Paying!Soon, Paying!Open
  <2>3. Paying!DerivedStatus = "due_soon"
    BY <1>2, <1>5, <1>7, <1>10, <2>1, <2>2
       DEF Paying!ComputeStatus, Paying!Late, Paying!Soon, Paying!Open
  <2> QED BY <1>10, <2>3 DEF Paying!Keeps
<1>11. CASE f = "pending"
  <2>1. /\ ~ (total > 0 /\ paid >= total)
        /\ ~ Paying!Late(total, paid, due) /\ ~ Paying!Soon(total, paid, due)
        /\ lifecycle = "confirmed" \/ (paid > 0 /\ paid < total)
    BY <1>11 DEF Paying!Selects
  <2>2. CASE total = 0
    <3>1. lifecycle = "confirmed" /\ st = "active"
      BY <1>2, <1>4, <2>1, <2>2
    <3>2. Paying!DerivedStatus = "confirmed"
      BY <1>5, <2>2, <3>1 DEF Paying!ComputeStatus
    <3> QED BY <1>11, <3>2 DEF Paying!Keeps
  <2>3. CASE total > 0
    <3>1. ~ (paid >= total) /\ paid < total /\ (lifecycle = "confirmed" => st = "active")
      BY <1>2, <1>4, <2>1, <2>3
    <3>2. Paying!DerivedStatus = IF paid > 0 THEN "partially_paid"
                                 ELSE IF st \in Paying!Derived \union {"saved", "confirmed"}
                                      THEN st ELSE "confirmed"
      BY <1>2, <1>5, <1>7, <1>11, <2>1, <2>3, <3>1
         DEF Paying!ComputeStatus, Paying!Open
    <3>3. Paying!DerivedStatus \in {"confirmed", "partially_paid"}
      BY <2>1, <3>1, <3>2, <1>2 DEF Paying!Derived
    <3> QED BY <1>11, <3>3 DEF Paying!Keeps
  <2> QED BY <1>2, <2>2, <2>3
<1> QED BY <1>6, <1>8, <1>9, <1>10, <1>11 DEF Paying!Filters

(* What the database selects for a filter of the purchase list is kept by the *)
(* filter over the derived status, whatever requests overlap; for any totals, *)
(* terms and days.                                                            *)
THEOREM PagesAreNotCutShort == MoneySensible => (Paying!Spec => []Paying!NoShortPages)
<1> SUFFICES ASSUME MoneySensible PROVE Paying!Spec => []Paying!NoShortPages
  OBVIOUS
<1>1. Paying!Init => MoneyTyped
  BY MoneyInit
<1>2. MoneyTyped /\ [Paying!Next]_(Paying!vars) => MoneyTyped'
  BY MoneyNext
<1> QED BY <1>1, <1>2, FiltersAgree, PTL DEF Paying!Spec

-----------------------------------------------------------------------------
(* Whom the business deals with and what it sells.                           *)

ListingSensible ==
    /\ MaxRequests \in Nat
    /\ None \notin Listing!TypeRow /\ None \notin Listing!Item /\ None \notin Listing!Purchase
    /\ Listing!NoType \notin Types

(* What a request was checked to be, when nothing else was written since.     *)
ItemFits(a) ==
    a.item \in Items /\ a.category \in Categories /\ a.type \in Types
MoveFits(a) ==
    ItemFits(a) /\ a.type \in Listing!TypesOf(a.category) \union Listing!NewTypes
RetypeFits(a) ==
    a.item \in Items /\ item[a.item] # None /\ a.type \in Listing!TypesOf(item[a.item].category)
Purchasable(a) ==
    /\ purchases[a.purchase] = None
    /\ [supplier |-> a.supplier, broker |-> a.broker, item |-> a.item, live |-> TRUE]
           \in Listing!Purchase
NobodyHas(b) == \A s \in Suppliers : supplier[s] # [broker |-> b]

Checked(r) ==
    /\ r.kind = "create item" => ItemFits(r.args)
    /\ r.kind = "move item" => MoveFits(r.args)
    /\ r.kind = "retype item" => RetypeFits(r.args)
    /\ r.kind = "create category" => r.args.category \in Categories
    /\ r.kind = "create type" => r.args.category \in Categories /\ r.args.type \in Types
    /\ r.kind = "delete category" => Listing!ItemsOf(r.args.category) = {}
    /\ r.kind = "delete broker" => NobodyHas(r.args.broker)
    /\ r.kind = "purchase" => Purchasable(r.args)

ListingTyped ==
    /\ request = [w \in Workers |-> request[w]]
    /\ type \in [Types -> Listing!TypeRow \union {None}]
    /\ item \in [Items -> Listing!Item \union {None}]
    /\ purchases \in [Purchases -> Listing!Purchase \union {None}]
ListingInv ==
    /\ ListingTyped
    /\ Listing!TypeInCategory
    /\ Listing!DeletesFailForHistoryOnly
    /\ \A w \in Workers : request[w] # None => Checked(request[w])

LEMMA ListingInit == ListingSensible => (Listing!Init => ListingInv)
<1> SUFFICES ASSUME ListingSensible, Listing!Init PROVE ListingInv
  OBVIOUS
<1>1. /\ request = [w \in Workers |-> None] /\ refused = {}
      /\ type = [t \in Types |-> None] /\ item = [i \in Items |-> None]
      /\ purchases = [p \in Purchases |-> None]
  BY DEF Listing!Init
<1>2. ListingTyped
  BY <1>1 DEF ListingTyped
<1>3. Listing!TypeInCategory /\ Listing!DeletesFailForHistoryOnly
  BY <1>1 DEF Listing!TypeInCategory, Listing!DeletesFailForHistoryOnly
<1> QED BY <1>1, <1>2, <1>3 DEF ListingInv

(* A request that is taken up after its checks.                              *)
LEMMA ListingAsks ==
    ASSUME ListingInv, NEW w \in Workers, NEW kind, NEW a, Listing!Ask(w, kind, a),
           Checked([kind |-> kind, args |-> a])
    PROVE  ListingInv'
<1>1. /\ request' = [v \in Workers |-> request'[v]]
      /\ \A v \in Workers : request'[v] = IF v = w THEN [kind |-> kind, args |-> a] ELSE request[v]
      /\ UNCHANGED <<supplier, type, item, purchases, refused>>
  BY DEF Listing!Ask, Listing!rows, ListingInv, ListingTyped
<1>2. ListingTyped'
  BY <1>1 DEF ListingInv, ListingTyped
<1>3. Listing!TypeInCategory'
  BY <1>1 DEF ListingInv, Listing!TypeInCategory, Listing!TypesOf
<1>4. Listing!DeletesFailForHistoryOnly'
  BY <1>1 DEF ListingInv, Listing!DeletesFailForHistoryOnly
<1>5. ASSUME NEW v \in Workers, request'[v] # None
      PROVE  Checked(request[v])'
  <2>1. PICK r : r = request'[v]
    OBVIOUS
  <2>2. Checked(r)
    BY <1>1, <1>5, <2>1 DEF ListingInv
  <2> QED BY <1>1, <2>1, <2>2
          DEF Checked, ItemFits, MoveFits, RetypeFits, Purchasable, NobodyHas,
              Listing!TypesOf, Listing!NewTypes, Listing!ItemsOf
<1> QED BY <1>2, <1>3, <1>4, <1>5 DEF ListingInv

LEMMA ContactsAsk ==
    ASSUME ListingSensible, ListingInv, NEW w \in Workers, Listing!AskContacts(w)
    PROVE  ListingInv'
<1>1. ASSUME NEW kind \in {"create broker", "update broker", "create supplier",
                           "update supplier", "delete supplier"},
             NEW a, Listing!Ask(w, kind, a)
      PROVE  ListingInv'
  <2>1. Checked([kind |-> kind, args |-> a])
    BY DEF Checked
  <2> QED BY <1>1, <2>1, ListingAsks
<1>2. ASSUME NEW b \in Brokers, Listing!AskDeleteBroker(w, b)
      PROVE  ListingInv'
  <2>1. Checked([kind |-> "delete broker", args |-> [broker |-> b]])
    BY <1>2 DEF Checked, NobodyHas, Listing!AskDeleteBroker
  <2> QED BY <1>2, <2>1, ListingAsks DEF Listing!AskDeleteBroker
<1>3. ASSUME NEW p \in Purchases, NEW s \in Suppliers, NEW b \in Brokers \union {Listing!NoBroker},
             NEW i \in Items, Listing!AskPurchase(w, p, s, b, i)
      PROVE  ListingInv'
  <2>1. PICK a : a = [purchase |-> p, supplier |-> s, broker |-> b, item |-> i]
    OBVIOUS
  <2>2. Purchasable(a)
    BY <1>3, <2>1 DEF Purchasable, Listing!AskPurchase, Listing!Purchase
  <2>3. Checked([kind |-> "purchase", args |-> a])
    BY <2>2 DEF Checked
  <2> QED BY <1>3, <2>1, <2>3, ListingAsks DEF Listing!AskPurchase
<1>4. ASSUME NEW b \in Brokers, NEW some \in SUBSET Suppliers,
             Listing!AskCreateBroker(w, b, some) \/ Listing!AskUpdateBroker(w, b, some)
      PROVE  ListingInv'
  BY <1>1, <1>4 DEF Listing!AskCreateBroker, Listing!AskUpdateBroker
<1>5. ASSUME NEW s \in Suppliers, NEW some \in SUBSET Brokers, NEW first,
             Listing!AskCreateSupplier(w, s, first, some)
                \/ Listing!AskUpdateSupplier(w, s, first, some)
      PROVE  ListingInv'
  BY <1>1, <1>5 DEF Listing!AskCreateSupplier, Listing!AskUpdateSupplier
<1>6. ASSUME NEW s \in Suppliers, Listing!AskDeleteSupplier(w, s)
      PROVE  ListingInv'
  BY <1>1, <1>6 DEF Listing!AskDeleteSupplier
<1> QED BY <1>2, <1>3, <1>4, <1>5, <1>6 DEF Listing!AskContacts

LEMMA CatalogAsk ==
    ASSUME ListingSensible, ListingInv, NEW w \in Workers, Listing!AskCatalog(w)
    PROVE  ListingInv'
<1>1. ASSUME NEW kind \in {"delete type", "archive item", "delete item", "default suppliers"},
             NEW a, Listing!Ask(w, kind, a)
      PROVE  ListingInv'
  <2>1. Checked([kind |-> kind, args |-> a])
    BY DEF Checked
  <2> QED BY <1>1, <2>1, ListingAsks
<1>2. ASSUME NEW c \in Categories, Listing!AskCreateCategory(w, c) PROVE ListingInv'
  <2>1. Checked([kind |-> "create category", args |-> [category |-> c]])
    BY DEF Checked
  <2> QED BY <1>2, <2>1, ListingAsks DEF Listing!AskCreateCategory
<1>3. ASSUME NEW c \in Categories, Listing!AskDeleteCategory(w, c) PROVE ListingInv'
  <2>1. Checked([kind |-> "delete category", args |-> [category |-> c]])
    BY <1>3 DEF Checked, Listing!AskDeleteCategory, Listing!Deletable
  <2> QED BY <1>3, <2>1, ListingAsks DEF Listing!AskDeleteCategory
<1>4. ASSUME NEW c \in Categories, NEW t \in Types, Listing!AskCreateType(w, c, t)
      PROVE  ListingInv'
  <2>1. Checked([kind |-> "create type", args |-> [category |-> c, type |-> t]])
    BY DEF Checked
  <2> QED BY <1>4, <2>1, ListingAsks DEF Listing!AskCreateType
<1>5. ASSUME NEW c \in Categories, NEW i \in Items, Listing!AskMoveItem(w, i, c)
      PROVE  ListingInv'
  <2>1. PICK t \in Listing!GeneralTypes(c) :
           Listing!Ask(w, "move item", [item |-> i, category |-> c, type |-> t])
    BY <1>5 DEF Listing!AskMoveItem, Listing!MovedType
  <2>2. t \in Types /\ t \in Listing!TypesOf(c) \union Listing!NewTypes
    BY DEF Listing!GeneralTypes, Listing!TypesOf, Listing!NewTypes
  <2>3. PICK a : a = [item |-> i, category |-> c, type |-> t]
    OBVIOUS
  <2>4. MoveFits(a)
    BY <2>2, <2>3 DEF MoveFits, ItemFits
  <2>5. Checked([kind |-> "move item", args |-> a])
    BY <2>4 DEF Checked
  <2> QED BY <2>1, <2>3, <2>5, ListingAsks
<1>6. ASSUME NEW i \in Items, NEW c \in Categories, NEW t \in Types,
             NEW some \in SUBSET Suppliers, Listing!AskCreateItem(w, i, c, t, some)
      PROVE  ListingInv'
  <2>1. PICK a : a = [item |-> i, category |-> c, type |-> t, suppliers |-> some]
    OBVIOUS
  <2>2. ItemFits(a)
    BY <2>1 DEF ItemFits
  <2>3. Checked([kind |-> "create item", args |-> a])
    BY <2>2 DEF Checked
  <2> QED BY <1>6, <2>1, <2>3, ListingAsks DEF Listing!AskCreateItem
<1>7. ASSUME NEW i \in Items, NEW t \in Types, Listing!AskRetypeItem(w, i, t)
      PROVE  ListingInv'
  <2>1. PICK a : a = [item |-> i, type |-> t]
    OBVIOUS
  <2>2. RetypeFits(a)
    BY <1>7, <2>1 DEF RetypeFits, Listing!AskRetypeItem
  <2>3. Checked([kind |-> "retype item", args |-> a])
    BY <2>2 DEF Checked
  <2> QED BY <1>7, <2>1, <2>3, ListingAsks DEF Listing!AskRetypeItem
<1>8. ASSUME NEW t \in Types, Listing!AskDeleteType(w, t) PROVE ListingInv'
  BY <1>1, <1>8 DEF Listing!AskDeleteType
<1>9. ASSUME NEW i \in Items, Listing!AskArchiveItem(w, i) \/ Listing!AskDeleteItem(w, i)
      PROVE  ListingInv'
  BY <1>1, <1>9 DEF Listing!AskArchiveItem, Listing!AskDeleteItem
<1>10. ASSUME NEW i \in Items, NEW some \in SUBSET Suppliers,
              Listing!AskDefaultSuppliers(w, i, some)
       PROVE  ListingInv'
  BY <1>1, <1>10 DEF Listing!AskDefaultSuppliers
<1> QED BY <1>2, <1>3, <1>4, <1>5, <1>6, <1>7, <1>8, <1>9, <1>10 DEF Listing!AskCatalog

(* What has been served, one at a time, and what the database refused.       *)
LEMMA HistoryKept ==
    ASSUME Listing!DeletesFailForHistoryOnly, refused' = refused,
           \A p \in Purchases : purchases[p] # None =>
               /\ purchases'[p] # None
               /\ purchases'[p].supplier = purchases[p].supplier
               /\ purchases'[p].broker = purchases[p].broker
    PROVE  Listing!DeletesFailForHistoryOnly'
<1>1. ASSUME NEW r \in refused, r.kind = "delete broker"
      PROVE  \E p \in Purchases : purchases'[p] # None /\ purchases'[p].broker = r.args.broker
  <2>1. PICK p \in Purchases : purchases[p] # None /\ purchases[p].broker = r.args.broker
    BY <1>1 DEF Listing!DeletesFailForHistoryOnly
  <2> QED BY <2>1
<1>2. ASSUME NEW r \in refused, r.kind = "delete supplier"
      PROVE  \E p \in Purchases : purchases'[p] # None /\ purchases'[p].supplier = r.args.supplier
  <2>1. PICK p \in Purchases : purchases[p] # None /\ purchases[p].supplier = r.args.supplier
    BY <1>2 DEF Listing!DeletesFailForHistoryOnly
  <2> QED BY <2>1
<1> QED BY <1>1, <1>2 DEF Listing!DeletesFailForHistoryOnly

LEMMA ListingServed ==
    ASSUME Serial, ListingInv, NEW w \in Workers, Listing!Done(w),
           type' \in [Types -> Listing!TypeRow \union {None}],
           item' \in [Items -> Listing!Item \union {None}],
           purchases' = purchases, refused' = refused, Listing!TypeInCategory'
    PROVE  ListingInv'
<1>1. /\ request' = [v \in Workers |-> request'[v]]
      /\ \A v \in Workers : request'[v] = None
  BY DEF Listing!Done, ListingInv, ListingTyped, Serial
<1>2. ListingTyped'
  BY <1>1 DEF ListingInv, ListingTyped
<1>3. Listing!DeletesFailForHistoryOnly'
  BY DEF ListingInv, Listing!DeletesFailForHistoryOnly
<1> QED BY <1>1, <1>2, <1>3 DEF ListingInv

LEMMA ListingSame ==
    ASSUME Serial, ListingInv, NEW w \in Workers, Listing!Done(w),
           UNCHANGED <<type, item, purchases, refused>>
    PROVE  ListingInv'
<1>1. Listing!TypeInCategory'
  BY DEF ListingInv, Listing!TypeInCategory, Listing!TypesOf
<1> QED BY <1>1, ListingServed DEF ListingInv, ListingTyped

LEMMA ListingRefused ==
    ASSUME Serial, ListingInv, NEW w \in Workers, Listing!Fails(w),
           request[w].kind = "delete broker" =>
               \E p \in Purchases : purchases[p] # None
                                    /\ purchases[p].broker = request[w].args.broker,
           request[w].kind = "delete supplier" =>
               \E p \in Purchases : purchases[p] # None
                                    /\ purchases[p].supplier = request[w].args.supplier
    PROVE  ListingInv'
<1>1. /\ request' = [v \in Workers |-> request'[v]]
      /\ \A v \in Workers : request'[v] = None
      /\ UNCHANGED <<type, item, purchases>> /\ refused' = refused \union {request[w]}
  BY DEF Listing!Fails, Listing!Done, Listing!rows, ListingInv, ListingTyped, Serial
<1>2. ListingTyped'
  BY <1>1 DEF ListingInv, ListingTyped
<1>3. Listing!TypeInCategory'
  BY <1>1 DEF ListingInv, Listing!TypeInCategory, Listing!TypesOf
<1>4. Listing!DeletesFailForHistoryOnly'
  <2> SUFFICES ASSUME NEW r \in refused'
               PROVE  /\ r.kind = "delete broker" =>
                            \E p \in Purchases : purchases[p] # None
                                                 /\ purchases[p].broker = r.args.broker
                      /\ r.kind = "delete supplier" =>
                            \E p \in Purchases : purchases[p] # None
                                                 /\ purchases[p].supplier = r.args.supplier
    BY <1>1 DEF Listing!DeletesFailForHistoryOnly
  <2>1. CASE r \in refused
    BY <2>1 DEF ListingInv, Listing!DeletesFailForHistoryOnly
  <2>2. CASE r = request[w]
    BY <2>2
  <2> QED BY <1>1, <2>1, <2>2
<1> QED BY <1>1, <1>2, <1>3, <1>4 DEF ListingInv

LEMMA ContactsCommit ==
    ASSUME Serial, ListingInv, NEW w \in Workers,
           \/ Listing!CommitBroker(w) \/ Listing!CommitDeleteBroker(w)
           \/ Listing!CommitSupplier(w) \/ Listing!CommitDeleteSupplier(w)
           \/ Listing!CommitDefaultSuppliers(w)
    PROVE  ListingInv'
<1>1. ASSUME Listing!Fails(w), request[w].kind \notin {"delete broker", "delete supplier"}
      PROVE  ListingInv'
  BY <1>1, ListingRefused
<1>2. CASE Listing!CommitBroker(w)
  <2>1. \/ Listing!Done(w) /\ UNCHANGED <<type, item, purchases, refused>>
        \/ Listing!Fails(w)
    BY <1>2 DEF Listing!CommitBroker
  <2>2. request[w].kind \in {"create broker", "update broker"}
    BY <1>2 DEF Listing!CommitBroker, Listing!Serving
  <2> QED BY <1>1, <2>1, <2>2, ListingSame
<1>3. CASE Listing!CommitSupplier(w)
  <2>1. \/ Listing!Done(w) /\ UNCHANGED <<type, item, purchases, refused>>
        \/ Listing!Fails(w)
    BY <1>3 DEF Listing!CommitSupplier
  <2>2. request[w].kind \in {"create supplier", "update supplier"}
    BY <1>3 DEF Listing!CommitSupplier, Listing!Serving
  <2> QED BY <1>1, <2>1, <2>2, ListingSame
<1>4. CASE Listing!CommitDefaultSuppliers(w)
  <2>1. \/ Listing!Done(w) /\ UNCHANGED <<type, item, purchases, refused>>
        \/ Listing!Fails(w)
    BY <1>4 DEF Listing!CommitDefaultSuppliers
  <2>2. request[w].kind = "default suppliers"
    BY <1>4 DEF Listing!CommitDefaultSuppliers, Listing!Serving
  <2> QED BY <1>1, <2>1, <2>2, ListingSame
<1>5. CASE Listing!CommitDeleteBroker(w)
  <2>1. PICK b : b = request[w].args.broker
    OBVIOUS
  <2>2. request[w] # None /\ request[w].kind = "delete broker" /\ NobodyHas(b)
    BY <1>5, <2>1 DEF Listing!CommitDeleteBroker, Listing!Serving, ListingInv, Checked
  <2>3. \A l \in Listing!LinksWithout(b) : l[1] # b
    BY DEF Listing!LinksWithout
  <2>4. \/ Listing!Done(w) /\ UNCHANGED <<type, item, purchases, refused>>
        \/ /\ Listing!Fails(w)
           /\ ~ \A p \in Purchases : purchases[p] # None => purchases[p].broker # b
    BY <1>5, <2>1, <2>2, <2>3 DEF Listing!CommitDeleteBroker, Listing!Args, NobodyHas
  <2> QED BY <2>1, <2>2, <2>4, ListingSame, ListingRefused
<1>6. CASE Listing!CommitDeleteSupplier(w)
  <2>1. PICK s : s = request[w].args.supplier
    OBVIOUS
  <2>2. request[w].kind = "delete supplier"
    BY <1>6 DEF Listing!CommitDeleteSupplier, Listing!Serving
  <2>3. \/ Listing!Done(w) /\ UNCHANGED <<type, item, purchases, refused>>
        \/ /\ Listing!Fails(w)
           /\ ~ \A p \in Purchases : purchases[p] # None => purchases[p].supplier # s
    BY <1>6, <2>1 DEF Listing!CommitDeleteSupplier, Listing!Args
  <2> QED BY <2>1, <2>2, <2>3, ListingSame, ListingRefused
<1> QED BY <1>2, <1>3, <1>4, <1>5, <1>6

LEMMA PurchaseCommit ==
    ASSUME Serial, ListingSensible, ListingInv, NEW w \in Workers, Listing!CommitPurchase(w)
    PROVE  ListingInv'
<1>1. PICK r : r = request[w].args
  OBVIOUS
<1>2. request[w] # None /\ request[w].kind = "purchase" /\ Purchasable(r)
  BY <1>1 DEF Listing!CommitPurchase, Listing!Serving, ListingInv, Checked
<1>3. CASE Listing!Fails(w)
  BY <1>2, <1>3, ListingRefused
<1>4. PICK new : new = [supplier |-> r.supplier, broker |-> r.broker, item |-> r.item,
                        live |-> TRUE]
  OBVIOUS
<1>5. CASE /\ purchases' = [purchases EXCEPT ![r.purchase] = new]
           /\ Listing!Done(w) /\ UNCHANGED <<type, item, refused>>
  <2>1. new \in Listing!Purchase
    BY <1>2, <1>4 DEF Purchasable
  <2>2. /\ request' = [v \in Workers |-> request'[v]]
        /\ \A v \in Workers : request'[v] = None
    BY <1>5 DEF Listing!Done, ListingInv, ListingTyped, Serial
  <2>3. ListingTyped'
    BY <1>5, <2>1, <2>2 DEF ListingInv, ListingTyped
  <2>4. Listing!TypeInCategory'
    BY <1>5 DEF ListingInv, Listing!TypeInCategory, Listing!TypesOf
  <2>5. \A p \in Purchases : purchases[p] # None => purchases'[p] = purchases[p]
    BY <1>2, <1>5 DEF Purchasable, ListingInv, ListingTyped
  <2>6. Listing!DeletesFailForHistoryOnly'
    BY <1>5, <2>5, HistoryKept DEF ListingInv
  <2> QED BY <2>2, <2>3, <2>4, <2>6 DEF ListingInv
<1> QED BY <1>1, <1>3, <1>4, <1>5 DEF Listing!CommitPurchase, Listing!Args

LEMMA PurchaseClosed ==
    ASSUME ListingSensible, ListingInv, NEW p \in Purchases, Listing!ClosePurchase(p)
    PROVE  ListingInv'
<1>1. /\ purchases' = [purchases EXCEPT ![p].live = FALSE]
      /\ UNCHANGED <<supplier, type, item, refused, request>> /\ purchases[p] # None
  BY DEF Listing!ClosePurchase
<1>2. PICK new : new = [purchases[p] EXCEPT !.live = FALSE]
  OBVIOUS
<1>3. /\ new \in Listing!Purchase /\ new # None
      /\ new.supplier = purchases[p].supplier /\ new.broker = purchases[p].broker
  BY <1>1, <1>2 DEF ListingInv, ListingTyped, Listing!Purchase, ListingSensible
<1>4. \A q \in Purchases : purchases'[q] = IF q = p THEN new ELSE purchases[q]
  BY <1>1, <1>2 DEF ListingInv, ListingTyped
<1>5. ListingTyped'
  BY <1>1, <1>2, <1>3 DEF ListingInv, ListingTyped
<1>6. Listing!TypeInCategory'
  BY <1>1 DEF ListingInv, Listing!TypeInCategory, Listing!TypesOf
<1>7. Listing!DeletesFailForHistoryOnly'
  BY <1>1, <1>3, <1>4, HistoryKept DEF ListingInv
<1>8. ASSUME NEW v \in Workers, request'[v] # None
      PROVE  Checked(request[v])'
  <2>1. PICK r : r = request[v]
    OBVIOUS
  <2>2. Checked(r) /\ r = request'[v]
    BY <1>1, <1>8, <2>1 DEF ListingInv
  <2>3. r.kind = "purchase" => Purchasable(r.args)'
    <3> SUFFICES ASSUME r.kind = "purchase" PROVE Purchasable(r.args)'
      OBVIOUS
    <3>1. Purchasable(r.args)
      BY <2>2 DEF Checked
    <3>2. purchases'[r.args.purchase] = None
      BY <1>1, <3>1 DEF Purchasable, ListingInv, ListingTyped
    <3> QED BY <3>1, <3>2 DEF Purchasable
  <2> QED BY <1>1, <2>2, <2>3
          DEF Checked, ItemFits, MoveFits, RetypeFits, NobodyHas,
              Listing!TypesOf, Listing!NewTypes, Listing!ItemsOf
<1> QED BY <1>5, <1>6, <1>7, <1>8 DEF ListingInv

(* Categories, types and items: what each commit makes of them.              *)
InCategory == \A i \in Items : item[i] # None /\ item[i].type # Listing!NoType =>
                 item[i].type \in Types /\ type[item[i].type] # None
                 /\ type[item[i].type].category = item[i].category

LEMMA InCategoryMeans == Listing!TypeInCategory <=> InCategory
BY DEF Listing!TypeInCategory, InCategory, Listing!TypesOf

LEMMA NewType ==
    ASSUME ListingSensible, ListingTyped, NEW t \in Types, NEW row \in Listing!TypeRow,
           type' = [type EXCEPT ![t] = row]
    PROVE  /\ type' \in [Types -> Listing!TypeRow \union {None}]
           /\ \A x \in Types : type'[x] = IF x = t THEN row ELSE type[x]
           /\ row # None
BY DEF ListingSensible, ListingTyped

LEMMA CategoryCommits ==
    ASSUME Serial, ListingSensible, ListingInv, NEW w \in Workers,
           Listing!CommitCreateCategory(w) \/ Listing!CommitCreateType(w)
    PROVE  ListingInv'
<1>1. ASSUME NEW t \in Types, type[t] = None, NEW row \in Listing!TypeRow,
             type' = [type EXCEPT ![t] = row],
             Listing!Done(w), UNCHANGED <<item, purchases, refused>>
      PROVE  ListingInv'
  <2>1. /\ type' \in [Types -> Listing!TypeRow \union {None}]
        /\ \A x \in Types : type'[x] = IF x = t THEN row ELSE type[x]
    BY <1>1, NewType DEF ListingInv
  <2>2. InCategory
    BY InCategoryMeans DEF ListingInv
  <2>3. InCategory'
    BY <1>1, <2>1, <2>2 DEF InCategory
  <2>4. Listing!TypeInCategory'
    BY <2>3 DEF Listing!TypeInCategory, InCategory, Listing!TypesOf
  <2> QED BY <1>1, <2>1, <2>4, ListingServed DEF ListingInv, ListingTyped
<1>2. CASE Listing!CommitCreateCategory(w)
  <2>1. PICK c : c = request[w].args.category
    OBVIOUS
  <2>2. c \in Categories
    BY <1>2, <2>1 DEF Listing!CommitCreateCategory, Listing!Serving, ListingInv, Checked
  <2>3. PICK t \in Listing!NewTypes :
           type' = [type EXCEPT ![t] = [category |-> c, general |-> TRUE]]
    BY <1>2, <2>1 DEF Listing!CommitCreateCategory, Listing!Args
  <2>4. PICK row : row = [category |-> c, general |-> TRUE]
    OBVIOUS
  <2>5. row \in Listing!TypeRow /\ t \in Types /\ type[t] = None
    BY <2>2, <2>4 DEF Listing!TypeRow, Listing!NewTypes
  <2>6. Listing!Done(w) /\ UNCHANGED <<item, purchases, refused>>
    BY <1>2 DEF Listing!CommitCreateCategory
  <2> QED BY <1>1, <2>3, <2>4, <2>5, <2>6
<1>3. CASE Listing!CommitCreateType(w)
  <2>1. PICK a : a = request[w].args
    OBVIOUS
  <2>2. request[w].kind = "create type" /\ a.category \in Categories
    BY <1>3, <2>1 DEF Listing!CommitCreateType, Listing!Serving, ListingInv, Checked
  <2>3. CASE Listing!Fails(w)
    BY <2>2, <2>3, ListingRefused
  <2>4. PICK row : row = [category |-> a.category, general |-> FALSE]
    OBVIOUS
  <2>5. CASE /\ a.type \in Listing!NewTypes /\ type' = [type EXCEPT ![a.type] = row]
             /\ Listing!Done(w) /\ UNCHANGED <<item, purchases, refused>>
    <3>1. row \in Listing!TypeRow /\ a.type \in Types /\ type[a.type] = None
      BY <2>2, <2>4, <2>5 DEF Listing!TypeRow, Listing!NewTypes
    <3> QED BY <1>1, <2>5, <3>1
  <2> QED BY <1>3, <2>1, <2>3, <2>4, <2>5 DEF Listing!CommitCreateType, Listing!Args
<1> QED BY <1>2, <1>3

LEMMA DeletionCommits ==
    ASSUME Serial, ListingSensible, ListingInv, NEW w \in Workers,
           Listing!CommitDeleteCategory(w) \/ Listing!CommitDeleteType(w)
    PROVE  ListingInv' /\ \A i \in Items : item[i] # None => item'[i] # None
<1>1. InCategory /\ ListingTyped
  BY InCategoryMeans DEF ListingInv
<1>2. CASE Listing!CommitDeleteCategory(w)
  <2>1. PICK c : c = request[w].args.category
    OBVIOUS
  <2>2. request[w].kind = "delete category" /\ Listing!ItemsOf(c) = {}
    BY <1>2, <2>1 DEF Listing!CommitDeleteCategory, Listing!Serving, ListingInv, Checked
  <2>3. CASE Listing!Fails(w)
    BY <2>2, <2>3, ListingRefused DEF Listing!Fails, Listing!rows
  <2>4. CASE /\ type' = [t \in Types |-> IF t \in Listing!TypesOf(c) THEN None ELSE type[t]]
             /\ item' = [i \in Items |-> IF i \in Listing!ItemsOf(c) THEN None ELSE item[i]]
             /\ Listing!Done(w) /\ UNCHANGED <<purchases, refused>>
    <3>1. item' = item
      BY <1>1, <2>2, <2>4 DEF ListingTyped
    <3>2. type' \in [Types -> Listing!TypeRow \union {None}]
      BY <1>1, <2>4 DEF ListingTyped
    <3>3. \A i \in Items : item[i] # None => item[i].category # c
      BY <2>2 DEF Listing!ItemsOf
    <3>4. \A t \in Types : type[t] # None /\ type[t].category # c => type'[t] = type[t]
      BY <2>4 DEF Listing!TypesOf
    <3>5. InCategory'
      BY <1>1, <3>1, <3>3, <3>4 DEF InCategory
    <3>6. Listing!TypeInCategory'
      BY <3>5 DEF Listing!TypeInCategory, InCategory, Listing!TypesOf
    <3> QED BY <1>1, <2>4, <3>1, <3>2, <3>6, ListingServed DEF ListingTyped
  <2> QED BY <1>2, <2>1, <2>3, <2>4 DEF Listing!CommitDeleteCategory, Listing!Args
<1>3. CASE Listing!CommitDeleteType(w)
  <2>1. PICK t : t = request[w].args.type
    OBVIOUS
  <2>2. /\ type' = [type EXCEPT ![t] = None]
        /\ item' = [i \in Items |-> IF item[i] # None /\ item[i].type = t
                                    THEN [item[i] EXCEPT !.type = Listing!NoType] ELSE item[i]]
        /\ Listing!Done(w) /\ UNCHANGED <<purchases, refused>>
    BY <1>3, <2>1 DEF Listing!CommitDeleteType, Listing!Args
  <2>3. type' \in [Types -> Listing!TypeRow \union {None}]
        /\ \A x \in Types : x # t => type'[x] = type[x]
    BY <1>1, <2>2 DEF ListingTyped
  <2>4. ASSUME NEW i \in Items
        PROVE  /\ item'[i] \in Listing!Item \union {None}
               /\ item[i] # None => item'[i] # None
               /\ item'[i] # None /\ item'[i].type # Listing!NoType =>
                     item[i] # None /\ item[i].type # t /\ item'[i] = item[i]
    <3>1. CASE item[i] # None /\ item[i].type = t
      <4>1. PICK new : new = [item[i] EXCEPT !.type = Listing!NoType]
        OBVIOUS
      <4>2. new \in Listing!Item /\ new.type = Listing!NoType
        BY <1>1, <3>1, <4>1 DEF ListingTyped, Listing!Item
      <4>3. new # None /\ item'[i] = new
        BY <2>2, <3>1, <4>1, <4>2 DEF ListingSensible
      <4> QED BY <4>2, <4>3
    <3>2. CASE ~ (item[i] # None /\ item[i].type = t)
      BY <1>1, <2>2, <3>2 DEF ListingTyped
    <3> QED BY <3>1, <3>2
  <2>5. item' \in [Items -> Listing!Item \union {None}]
    BY <2>2, <2>4
  <2>6. InCategory'
    BY <1>1, <2>3, <2>4 DEF InCategory
  <2>7. Listing!TypeInCategory'
    BY <2>6 DEF Listing!TypeInCategory, InCategory, Listing!TypesOf
  <2> QED BY <2>2, <2>3, <2>4, <2>5, <2>7, ListingServed
<1> QED BY <1>2, <1>3

ItemsStay == \A i \in Items : item[i] # None => item'[i] # None
TypesGrow ==
    /\ type' \in [Types -> Listing!TypeRow \union {None}]
    /\ \A t \in Types : type[t] # None => type'[t] = type[t]

LEMMA ItemWritten ==
    ASSUME Serial, ListingSensible, ListingInv, NEW w \in Workers, Listing!Done(w), TypesGrow,
           UNCHANGED <<purchases, refused>>,
           NEW i \in Items, NEW new \in Listing!Item, item' = [item EXCEPT ![i] = new],
           new.type # Listing!NoType =>
               /\ new.type \in Types /\ type'[new.type] # None
               /\ type'[new.type].category = new.category
    PROVE  ListingInv' /\ ItemsStay
<1>1. InCategory /\ ListingTyped
  BY InCategoryMeans DEF ListingInv
<1>2. /\ item' \in [Items -> Listing!Item \union {None}] /\ new # None
      /\ \A j \in Items : item'[j] = IF j = i THEN new ELSE item[j]
  BY <1>1 DEF ListingTyped, ListingSensible
<1>3. InCategory'
  BY <1>1, <1>2 DEF InCategory, TypesGrow
<1>4. Listing!TypeInCategory'
  BY <1>3 DEF Listing!TypeInCategory, InCategory, Listing!TypesOf
<1>5. ItemsStay
  BY <1>2 DEF ItemsStay
<1> QED BY <1>2, <1>4, <1>5, ListingServed DEF TypesGrow

LEMMA TypeGiven ==
    ASSUME ListingSensible, ListingInv, NEW t \in Types, NEW c \in Categories,
           t \in Listing!TypesOf(c) \union Listing!NewTypes, type' = Listing!WithType(t, c)
    PROVE  TypesGrow /\ type'[t] # None /\ type'[t].category = c
<1>1. CASE t \in Listing!NewTypes
  <2>1. PICK row : row = [category |-> c, general |-> TRUE]
    OBVIOUS
  <2>2. row \in Listing!TypeRow /\ type' = [type EXCEPT ![t] = row] /\ type[t] = None
    BY <1>1, <2>1 DEF Listing!TypeRow, Listing!WithType, Listing!NewTypes
  <2>3. TypesGrow /\ type'[t] = row /\ row # None
    BY <2>2, NewType DEF ListingInv, TypesGrow
  <2> QED BY <2>1, <2>3
<1>2. CASE t \notin Listing!NewTypes
  <2>1. type' = type /\ type[t] # None /\ type[t].category = c
    BY <1>2 DEF Listing!WithType, Listing!TypesOf
  <2> QED BY <2>1 DEF TypesGrow, ListingInv, ListingTyped
<1> QED BY <1>1, <1>2

LEMMA CreateItemCommits ==
    ASSUME Serial, ListingSensible, ListingInv, NEW w \in Workers, Listing!CommitCreateItem(w)
    PROVE  ListingInv' /\ ItemsStay
<1>1. PICK r : r = request[w].args
  OBVIOUS
<1>2. request[w].kind = "create item" /\ ItemFits(r)
  BY <1>1 DEF Listing!CommitCreateItem, Listing!Serving, ListingInv, Checked
<1>3. CASE Listing!Fails(w)
  BY <1>2, <1>3, ListingRefused DEF Listing!Fails, Listing!rows, ItemsStay
<1>4. PICK new : new = [category |-> r.category, type |-> r.type, archived |-> FALSE]
  OBVIOUS
<1>5. CASE /\ r.type \in Listing!TypesOf(r.category) \union Listing!NewTypes
           /\ type' = Listing!WithType(r.type, r.category)
           /\ item' = [item EXCEPT ![r.item] = new]
           /\ Listing!Done(w) /\ UNCHANGED <<purchases, refused>>
  <2>1. new \in Listing!Item /\ r.item \in Items /\ r.type \in Types /\ r.category \in Categories
    BY <1>2, <1>4 DEF ItemFits, Listing!Item
  <2>2. TypesGrow /\ type'[r.type] # None /\ type'[r.type].category = r.category
    BY <1>5, <2>1, TypeGiven
  <2> QED BY <1>4, <1>5, <2>1, <2>2, ItemWritten
<1> QED BY <1>1, <1>3, <1>4, <1>5 DEF Listing!CommitCreateItem, Listing!Args

LEMMA MoveItemCommits ==
    ASSUME Serial, ListingSensible, ListingInv, NEW w \in Workers, Listing!CommitMoveItem(w)
    PROVE  ListingInv' /\ ItemsStay
<1>1. PICK r : r = request[w].args
  OBVIOUS
<1>2. request[w].kind = "move item" /\ MoveFits(r)
  BY <1>1 DEF Listing!CommitMoveItem, Listing!Serving, ListingInv, Checked
<1>3. CASE Listing!Fails(w)
  BY <1>2, <1>3, ListingRefused DEF Listing!Fails, Listing!rows, ItemsStay
<1>4. PICK new : new = [item[r.item] EXCEPT !.category = r.category, !.type = r.type]
  OBVIOUS
<1>5. CASE /\ item[r.item] # None /\ type' = Listing!WithType(r.type, r.category)
           /\ item' = [item EXCEPT ![r.item] = new]
           /\ Listing!Done(w) /\ UNCHANGED <<purchases, refused>>
  <2>1. /\ r.item \in Items /\ r.type \in Types /\ r.category \in Categories
        /\ r.type \in Listing!TypesOf(r.category) \union Listing!NewTypes
    BY <1>2 DEF MoveFits, ItemFits
  <2>2. new \in Listing!Item /\ new.type = r.type /\ new.category = r.category
    BY <1>4, <1>5, <2>1 DEF Listing!Item, ListingInv, ListingTyped
  <2>3. TypesGrow /\ type'[r.type] # None /\ type'[r.type].category = r.category
    BY <1>5, <2>1, TypeGiven
  <2> QED BY <1>5, <2>1, <2>2, <2>3, ItemWritten
<1>6. [item EXCEPT ![r.item] = [@ EXCEPT !.category = r.category, !.type = r.type]]
         = [item EXCEPT ![r.item] = new]
  BY <1>4
<1> QED BY <1>1, <1>3, <1>5, <1>6 DEF Listing!CommitMoveItem, Listing!Args

LEMMA RetypeItemCommits ==
    ASSUME Serial, ListingSensible, ListingInv, NEW w \in Workers, Listing!CommitRetypeItem(w)
    PROVE  ListingInv' /\ ItemsStay
<1>1. PICK r : r = request[w].args
  OBVIOUS
<1>2. request[w].kind = "retype item" /\ RetypeFits(r)
  BY <1>1 DEF Listing!CommitRetypeItem, Listing!Serving, ListingInv, Checked
<1>3. CASE Listing!Fails(w)
  BY <1>2, <1>3, ListingRefused DEF Listing!Fails, Listing!rows, ItemsStay
<1>4. PICK new : new = [item[r.item] EXCEPT !.type = r.type]
  OBVIOUS
<1>5. CASE /\ item[r.item] # None /\ item' = [item EXCEPT ![r.item] = new]
           /\ Listing!Done(w) /\ UNCHANGED <<type, purchases, refused>>
  <2>1. /\ r.item \in Items /\ r.type \in Types /\ type[r.type] # None
        /\ type[r.type].category = item[r.item].category
    BY <1>2 DEF RetypeFits, Listing!TypesOf
  <2>2. new \in Listing!Item /\ new.type = r.type /\ new.category = item[r.item].category
    BY <1>4, <1>5, <2>1 DEF Listing!Item, ListingInv, ListingTyped
  <2>3. TypesGrow
    BY <1>5 DEF TypesGrow, ListingInv, ListingTyped
  <2> QED BY <1>5, <2>1, <2>2, <2>3, ItemWritten
<1>6. [item EXCEPT ![r.item] = [@ EXCEPT !.type = r.type]] = [item EXCEPT ![r.item] = new]
  BY <1>4
<1> QED BY <1>1, <1>3, <1>5, <1>6 DEF Listing!CommitRetypeItem, Listing!Args

LEMMA ArchiveItemCommits ==
    ASSUME Serial, ListingSensible, ListingInv, NEW w \in Workers, Listing!CommitArchiveItem(w)
    PROVE  ListingInv' /\ ItemsStay
<1>1. PICK i : i = request[w].args.item
  OBVIOUS
<1>2. Listing!Done(w) /\ UNCHANGED <<type, purchases, refused>>
  BY DEF Listing!CommitArchiveItem
<1>3. CASE item' = item
  BY <1>2, <1>3, ListingSame DEF ItemsStay
<1>4. CASE i \in Items /\ item[i] # None /\ item' = [item EXCEPT ![i].archived = TRUE]
  <2>1. PICK new : new = [item[i] EXCEPT !.archived = TRUE]
    OBVIOUS
  <2>2. /\ new \in Listing!Item /\ item' = [item EXCEPT ![i] = new]
        /\ new.type = item[i].type /\ new.category = item[i].category
    BY <1>4, <2>1 DEF Listing!Item, ListingInv, ListingTyped
  <2>3. TypesGrow
    BY <1>2 DEF TypesGrow, ListingInv, ListingTyped
  <2>4. new.type # Listing!NoType =>
            new.type \in Types /\ type'[new.type] # None /\ type'[new.type].category = new.category
    BY <1>2, <1>4, <2>2, InCategoryMeans DEF ListingInv, InCategory
  <2> QED BY <1>2, <1>4, <2>2, <2>3, <2>4, ItemWritten
<1>5. CASE i \notin Items /\ item' = [item EXCEPT ![i].archived = TRUE]
  <2>1. item' = item
    BY <1>5 DEF ListingInv, ListingTyped
  <2> QED BY <1>3, <2>1
<1> QED BY <1>1, <1>3, <1>4, <1>5 DEF Listing!CommitArchiveItem, Listing!Args

LEMMA DeleteItemCommits ==
    ASSUME Serial, ListingSensible, ListingInv, NEW w \in Workers, Listing!CommitDeleteItem(w)
    PROVE  /\ ListingInv'
           /\ ItemsStay \/ (request[w] # None /\ request[w].kind = "delete item"
                            /\ \A i \in Items : i # request[w].args.item => item'[i] = item[i])
<1>1. PICK i : i = request[w].args.item
  OBVIOUS
<1>2. request[w] # None /\ request[w].kind = "delete item"
  BY DEF Listing!CommitDeleteItem, Listing!Serving
<1>3. CASE Listing!Fails(w)
  BY <1>2, <1>3, ListingRefused DEF Listing!Fails, Listing!rows, ItemsStay
<1>4. CASE /\ item' = [item EXCEPT ![i] = None]
           /\ Listing!Done(w) /\ UNCHANGED <<type, purchases, refused>>
  <2>1. /\ item' \in [Items -> Listing!Item \union {None}]
        /\ \A j \in Items : item'[j] = IF j = i THEN None ELSE item[j]
    BY <1>4 DEF ListingInv, ListingTyped
  <2>2. InCategory
    BY InCategoryMeans DEF ListingInv
  <2>3. InCategory'
    BY <1>4, <2>1, <2>2 DEF InCategory
  <2>4. Listing!TypeInCategory'
    BY <2>3 DEF Listing!TypeInCategory, InCategory, Listing!TypesOf
  <2>5. ListingInv'
    BY <1>4, <2>1, <2>4, ListingServed DEF ListingInv, ListingTyped
  <2> QED BY <1>1, <1>2, <2>1, <2>5
<1> QED BY <1>1, <1>3, <1>4 DEF Listing!CommitDeleteItem, Listing!Args

LEMMA ListingNext ==
    ASSUME Serial, ListingSensible, ListingInv, [Listing!Next]_(Listing!vars)
    PROVE  ListingInv'
<1>1. ASSUME NEW w \in Workers, Listing!AskContacts(w) PROVE ListingInv'
  BY <1>1, ContactsAsk
<1>2. ASSUME NEW w \in Workers, Listing!AskCatalog(w) PROVE ListingInv'
  BY <1>2, CatalogAsk
<1>3. ASSUME NEW w \in Workers, Listing!Commit(w) PROVE ListingInv'
  BY <1>3, ContactsCommit, PurchaseCommit, CategoryCommits, DeletionCommits, CreateItemCommits,
     MoveItemCommits, RetypeItemCommits, ArchiveItemCommits, DeleteItemCommits
     DEF Listing!Commit
<1>4. ASSUME NEW p \in Purchases, Listing!ClosePurchase(p) PROVE ListingInv'
  BY <1>4, PurchaseClosed
<1>5. CASE UNCHANGED Listing!vars
  <2>1. UNCHANGED <<supplier, type, item, purchases, request, refused>>
    BY <1>5 DEF Listing!vars, Listing!rows
  <2>2. ListingTyped' /\ Listing!TypeInCategory' /\ Listing!DeletesFailForHistoryOnly'
    BY <2>1 DEF ListingInv, ListingTyped, Listing!TypeInCategory, Listing!TypesOf,
                Listing!DeletesFailForHistoryOnly
  <2>3. \A w \in Workers : request'[w] # None => Checked(request[w])'
    BY <2>1 DEF ListingInv, Checked, ItemFits, MoveFits, RetypeFits, Purchasable, NobodyHas,
                Listing!TypesOf, Listing!NewTypes, Listing!ItemsOf
  <2> QED BY <2>2, <2>3 DEF ListingInv
<1> QED BY <1>1, <1>2, <1>3, <1>4, <1>5 DEF Listing!Next

(* When requests are served one at a time, an item's type is always one of   *)
(* its category; for any categories, types, items and requests.              *)
THEOREM TypesAreOfCategories ==
    ListingSensible /\ Serial => (Listing!Spec => []Listing!TypeInCategory)
<1> SUFFICES ASSUME ListingSensible, Serial PROVE Listing!Spec => []Listing!TypeInCategory
  OBVIOUS
<1>1. Listing!Init => ListingInv
  BY ListingInit
<1>2. ListingInv /\ [Listing!Next]_(Listing!vars) => ListingInv'
  BY ListingNext
<1>3. ListingInv => Listing!TypeInCategory
  BY DEF ListingInv
<1> QED BY <1>1, <1>2, <1>3, PTL DEF Listing!Spec

(* When requests are served one at a time, a deletion of a broker or supplier *)
(* that passed its checks fails only because of a purchase naming it; for any *)
(* brokers, suppliers, links and purchases.                                   *)
THEOREM OnlyHistoryKeepsContacts ==
    ListingSensible /\ Serial => (Listing!Spec => []Listing!DeletesFailForHistoryOnly)
<1> SUFFICES ASSUME ListingSensible, Serial
             PROVE  Listing!Spec => []Listing!DeletesFailForHistoryOnly
  OBVIOUS
<1>1. Listing!Init => ListingInv
  BY ListingInit
<1>2. ListingInv /\ [Listing!Next]_(Listing!vars) => ListingInv'
  BY ListingNext
<1>3. ListingInv => Listing!DeletesFailForHistoryOnly
  BY DEF ListingInv
<1> QED BY <1>1, <1>2, <1>3, PTL DEF Listing!Spec

(* An item goes with a request to delete it, and no other step takes it.     *)
LeavesByDeletion ==
    \A i \in Items : item[i] # None /\ item'[i] = None =>
        \E w \in Workers : Listing!Serving(w, "delete item") /\ Listing!Args(w).item = i

LEMMA LeavingStep ==
    ASSUME Serial, ListingSensible, ListingInv, [Listing!Next]_(Listing!vars)
    PROVE  LeavesByDeletion
<1>1. ASSUME ItemsStay PROVE LeavesByDeletion
  BY <1>1 DEF ItemsStay, LeavesByDeletion
<1>2. ASSUME item' = item PROVE LeavesByDeletion
  BY <1>2 DEF LeavesByDeletion
<1>3. ASSUME NEW w \in Workers, NEW kind, NEW a, Listing!Ask(w, kind, a) PROVE item' = item
  BY <1>3 DEF Listing!Ask, Listing!rows
<1>4. ASSUME NEW w \in Workers, Listing!AskContacts(w) PROVE item' = item
  BY <1>3, <1>4 DEF Listing!AskContacts, Listing!AskDeleteBroker, Listing!AskCreateBroker,
     Listing!AskUpdateBroker, Listing!AskDeleteSupplier, Listing!AskCreateSupplier,
     Listing!AskUpdateSupplier, Listing!AskPurchase
<1>5. ASSUME NEW w \in Workers, Listing!AskCatalog(w) PROVE item' = item
  BY <1>3, <1>5 DEF Listing!AskCatalog, Listing!AskCreateCategory, Listing!AskDeleteCategory,
     Listing!AskCreateType, Listing!AskMoveItem, Listing!AskCreateItem, Listing!AskDeleteType,
     Listing!AskRetypeItem, Listing!AskArchiveItem, Listing!AskDeleteItem,
     Listing!AskDefaultSuppliers
<1>6. ASSUME NEW w \in Workers,
             \/ Listing!CommitBroker(w) \/ Listing!CommitDeleteBroker(w)
             \/ Listing!CommitSupplier(w) \/ Listing!CommitDeleteSupplier(w)
             \/ Listing!CommitDefaultSuppliers(w) \/ Listing!CommitPurchase(w)
             \/ Listing!CommitCreateCategory(w) \/ Listing!CommitCreateType(w)
      PROVE  item' = item
  BY <1>6 DEF Listing!CommitBroker, Listing!CommitDeleteBroker, Listing!CommitSupplier,
     Listing!CommitDeleteSupplier, Listing!CommitDefaultSuppliers, Listing!CommitPurchase,
     Listing!CommitCreateCategory, Listing!CommitCreateType, Listing!Fails, Listing!rows
<1>7. ASSUME NEW w \in Workers,
             Listing!CommitDeleteCategory(w) \/ Listing!CommitDeleteType(w)
      PROVE  LeavesByDeletion
  BY <1>1, <1>7, DeletionCommits DEF ItemsStay
<1>8. ASSUME NEW w \in Workers,
             \/ Listing!CommitCreateItem(w) \/ Listing!CommitMoveItem(w)
             \/ Listing!CommitRetypeItem(w) \/ Listing!CommitArchiveItem(w)
      PROVE  LeavesByDeletion
  BY <1>1, <1>8, CreateItemCommits, MoveItemCommits, RetypeItemCommits, ArchiveItemCommits
<1>9. ASSUME NEW w \in Workers, Listing!CommitDeleteItem(w) PROVE LeavesByDeletion
  <2>1. \/ ItemsStay
        \/ /\ request[w] # None /\ request[w].kind = "delete item"
           /\ \A i \in Items : i # request[w].args.item => item'[i] = item[i]
    BY <1>9, DeleteItemCommits
  <2>2. CASE request[w] # None /\ request[w].kind = "delete item"
             /\ \A i \in Items : i # request[w].args.item => item'[i] = item[i]
    BY <2>2 DEF LeavesByDeletion, Listing!Serving, Listing!Args
  <2> QED BY <1>1, <2>1, <2>2
<1>10. ASSUME NEW w \in Workers, Listing!Commit(w) PROVE LeavesByDeletion
  BY <1>2, <1>6, <1>7, <1>8, <1>9, <1>10 DEF Listing!Commit
<1>11. ASSUME NEW p \in Purchases, Listing!ClosePurchase(p) PROVE item' = item
  BY <1>11 DEF Listing!ClosePurchase
<1>12. CASE UNCHANGED Listing!vars
  BY <1>2, <1>12 DEF Listing!vars, Listing!rows
<1> QED BY <1>2, <1>4, <1>5, <1>10, <1>11, <1>12 DEF Listing!Next

(* When requests are served one at a time, an item leaves the catalog only by *)
(* a request to delete that item, never with its category; for any catalog.   *)
THEOREM ItemsGoByRequest ==
    ListingSensible /\ Serial => (Listing!Spec => Listing!ItemsLeaveOnlyByDeletion)
<1> SUFFICES ASSUME ListingSensible, Serial
             PROVE  Listing!Spec => Listing!ItemsLeaveOnlyByDeletion
  OBVIOUS
<1>1. Listing!Init => ListingInv
  BY ListingInit
<1>2. ListingInv /\ [Listing!Next]_(Listing!vars) => ListingInv'
  BY ListingNext
<1>3. ListingInv /\ [Listing!Next]_(Listing!vars) => [LeavesByDeletion]_(Listing!vars)
  BY LeavingStep
<1> QED BY <1>1, <1>2, <1>3, PTL
        DEF Listing!Spec, Listing!ItemsLeaveOnlyByDeletion, LeavesByDeletion

-----------------------------------------------------------------------------
(* What the exports of a day hold.                                           *)

SavingSensible ==
    /\ MaxDay \in Nat /\ Span \in Nat
    /\ MaxZip \in Nat /\ MaxRows \in Nat /\ MaxZip <= MaxRows
    /\ IsFiniteSet(Purchases)

DaysTyped ==
    /\ day \in Nat
    /\ purchases = [p \in Purchases |-> purchases[p]]
    /\ \A p \in Purchases : purchases[p].day \in Nat

LEMMA DaysInit == Saving!Init => DaysTyped
BY DEF Saving!Init, DaysTyped

LEMMA DaysNext ==
    ASSUME SavingSensible, DaysTyped, [Saving!Next]_(Saving!vars)
    PROVE  DaysTyped'
<1>1. ASSUME NEW w \in Workers,
             \/ Saving!Start(w) \/ Saving!Read(w) \/ Saving!Write(w)
             \/ Saving!Log(w) \/ Saving!Retain(w) \/ Saving!Crash(w)
      PROVE  UNCHANGED <<purchases, day>>
  BY <1>1 DEF Saving!Start, Saving!Read, Saving!Write, Saving!Log, Saving!Retain, Saving!Crash
<1>2. ASSUME NEW p \in Purchases, Saving!EditPurchase(p) PROVE DaysTyped'
  <2>1. PICK st \in Saving!Statuses, on \in 0..MaxDay :
           purchases' = [purchases EXCEPT ![p] = [status |-> st, day |-> on]]
    BY <1>2 DEF Saving!EditPurchase
  <2>2. \A q \in Purchases : purchases'[q] = IF q = p THEN [status |-> st, day |-> on]
                                             ELSE purchases[q]
    BY <2>1 DEF DaysTyped
  <2> QED BY <1>2, <2>1, <2>2 DEF DaysTyped, Saving!EditPurchase, SavingSensible
<1>3. CASE Saving!NextSecond \/ UNCHANGED Saving!vars
  BY <1>3 DEF Saving!NextSecond, Saving!vars, DaysTyped
<1>4. CASE Saving!NextDay
  BY <1>4 DEF Saving!NextDay, DaysTyped
<1>5. UNCHANGED <<purchases, day>> => DaysTyped'
  BY DEF DaysTyped
<1> QED BY <1>1, <1>2, <1>3, <1>4, <1>5 DEF Saving!Next

LEMMA SavingCounts == \A S : Saving!Cardinality(S) = Cardinality(S)
BY DEF Saving!Cardinality, Cardinality

LEMMA PeriodRows ==
    ASSUME SavingSensible, NEW first
    PROVE  /\ IsFiniteSet(Saving!Period(first))
           /\ Saving!Cardinality(Saving!Period(first)) \in Nat
           /\ Saving!Period(first) \subseteq Purchases
<1>1. Saving!Period(first) \subseteq Purchases
  BY DEF Saving!Period, Saving!InReports
<1>2. IsFiniteSet(Saving!Period(first))
  BY <1>1, FS_Subset DEF SavingSensible
<1>3. Cardinality(Saving!Period(first)) \in Nat
  BY <1>2, FS_CardinalityType
<1> QED BY <1>1, <1>2, <1>3, SavingCounts

(* A ZIP there is holds few enough purchases for the others to hold them all. *)
LEMMA ZipIsWhole ==
    ASSUME SavingSensible, NEW preset, NEW start,
           NEW held \in Saving!NewestOf(Saving!Period(Saving!From(preset, start)))
    PROVE  Saving!Zip(preset, start) \in {None, held}
<1> DEFINE rows == Saving!Period(Saving!From(preset, start))
<1>1. CASE rows = {} \/ Saving!Cardinality(rows) > MaxZip
  BY <1>1 DEF Saving!Zip
<1>2. CASE ~(rows = {} \/ Saving!Cardinality(rows) > MaxZip)
  <2>1. Saving!Cardinality(rows) <= MaxRows
    BY <1>2, PeriodRows DEF SavingSensible
  <2>2. held = rows
    BY <2>1 DEF Saving!NewestOf
  <2> QED BY <1>2, <2>2 DEF Saving!Zip
<1> QED BY <1>1, <1>2

(* The newest purchases of a longer period hold those of a shorter one that   *)
(* ends with it, if these are not too many: one that is missing would make    *)
(* all that are held as new as it is, and so of the shorter period.           *)
LEMMA NewestHoldsLater ==
    ASSUME SavingSensible, DaysTyped, NEW start \in Nat, NEW first \in Int, first <= start,
           Saving!Cardinality(Saving!Period(start)) <= MaxRows,
           NEW held \in Saving!NewestOf(Saving!Period(first))
    PROVE  Saving!Period(start) \subseteq held
<1> DEFINE rows == Saving!Period(first)
           later == Saving!Period(start)
<1>1. later \subseteq rows
  BY DEF Saving!Period, Saving!InReports, Saving!Within, DaysTyped
<1>2. CASE held = rows
  BY <1>1, <1>2
<1>3. CASE held # rows
  <2>1. /\ held \subseteq rows /\ Saving!Cardinality(held) = MaxRows
        /\ \A p \in held, q \in rows \ held : purchases[q].day <= purchases[p].day
    BY <1>3 DEF Saving!NewestOf
  <2> SUFFICES ASSUME NEW q \in later, q \notin held PROVE FALSE
    OBVIOUS
  <2>2. held \subseteq later \ {q}
    <3> SUFFICES ASSUME NEW p \in held PROVE p \in later
      OBVIOUS
    <3>1. purchases[q].day <= purchases[p].day /\ p \in rows
      BY <1>1, <2>1
    <3>2. p \in Purchases /\ q \in Purchases
      BY <3>1, PeriodRows
    <3>3. purchases[q].day \in Nat /\ purchases[p].day \in Nat /\ start <= purchases[q].day
      BY <3>2 DEF DaysTyped, Saving!Period, Saving!Within
    <3>4. start <= purchases[p].day
      BY <3>1, <3>3
    <3> QED BY <3>1, <3>4 DEF Saving!Period, Saving!Within
  <2>3. IsFiniteSet(later) /\ Cardinality(later) \in Nat
    BY PeriodRows, SavingCounts
  <2>4. IsFiniteSet(later \ {q}) /\ Cardinality(later \ {q}) = Cardinality(later) - 1
    BY <2>3, FS_RemoveElement
  <2>5. Cardinality(held) <= Cardinality(later \ {q}) /\ Cardinality(held) = MaxRows
    BY <2>1, <2>2, <2>4, FS_Subset, SavingCounts
  <2>6. Cardinality(later) <= MaxRows
    BY SavingCounts
  <2> HIDE DEF later
  <2> QED BY <2>3, <2>4, <2>5, <2>6 DEF SavingSensible
<1> QED BY <1>2, <1>3

LEMMA PeriodsNest == SavingSensible => (DaysTyped => Saving!ExportsAgree)
<1> SUFFICES ASSUME SavingSensible, DaysTyped, NEW json \in Saving!JsonExports
             PROVE  /\ json \subseteq Saving!ScheduledExport
                    /\ Saving!Zip("quarter", 0) \in {None, json}
                    /\ \A start \in {s \in 0..day : day - s < Span} :
                          \A pdf \in Saving!MonthPdfs(start) :
                             /\ Saving!Cardinality(Saving!Period(start)) <= MaxRows =>
                                   pdf \subseteq json
                             /\ Saving!Zip("month", start) \in {None, pdf}
  BY DEF Saving!ExportsAgree
<1>1. /\ \A start : Saving!From("month", start) = start
      /\ Saving!From("quarter", 0) = day - (Span - 1)
  BY DEF Saving!From
<1>2. json \in Saving!NewestOf(Saving!Period(day - (Span - 1)))
  BY DEF Saving!JsonExports
<1>3. json \subseteq Saving!ScheduledExport
  <2>1. json \subseteq Saving!Period(day - (Span - 1))
    BY <1>2 DEF Saving!NewestOf
  <2> QED BY <2>1 DEF Saving!Period, Saving!ScheduledExport
<1>4. Saving!Zip("quarter", 0) \in {None, json}
  BY <1>1, <1>2, ZipIsWhole
<1>5. ASSUME NEW start \in 0..day, day - start < Span, NEW pdf \in Saving!MonthPdfs(start)
      PROVE  /\ Saving!Cardinality(Saving!Period(start)) <= MaxRows => pdf \subseteq json
             /\ Saving!Zip("month", start) \in {None, pdf}
  <2>1. pdf \in Saving!NewestOf(Saving!Period(start))
    BY DEF Saving!MonthPdfs
  <2>2. Saving!Zip("month", start) \in {None, pdf}
    BY <1>1, <2>1, ZipIsWhole
  <2>3. ASSUME Saving!Cardinality(Saving!Period(start)) <= MaxRows PROVE pdf \subseteq json
    <3>1. start \in Nat /\ day - (Span - 1) \in Int /\ day - (Span - 1) <= start
      BY <1>5 DEF DaysTyped, SavingSensible
    <3>2. Saving!Period(start) \subseteq json
      BY <1>2, <2>3, <3>1, NewestHoldsLater
    <3> QED BY <2>1, <2>3, <3>2 DEF Saving!NewestOf
  <2> QED BY <2>2, <2>3
<1> QED BY <1>3, <1>4, <1>5

(* What one export holds of a period, the exports of a longer one hold too;   *)
(* for any purchases, days and span, and any number of purchases the JSON and *)
(* the PDF may hold that is no smaller than the largest ZIP.                  *)
THEOREM ExportsNest == SavingSensible => (Saving!Spec => []Saving!ExportsAgree)
<1> SUFFICES ASSUME SavingSensible PROVE Saving!Spec => []Saving!ExportsAgree
  OBVIOUS
<1>1. DaysTyped /\ [Saving!Next]_(Saving!vars) => DaysTyped'
  BY DaysNext
<1> QED BY <1>1, DaysInit, PeriodsNest, PTL DEF Saving!Spec

-----------------------------------------------------------------------------
(* Finding items and purchases by their names.                               *)

NamingSensible ==
    /\ MaxChanges \in Nat /\ None \notin Items /\ None \notin Names
    /\ None \notin Naming!Item /\ None \notin Naming!Purchase /\ None \notin Naming!Request

NamingTyped ==
    /\ item \in [Items -> Naming!Item \union {None}]
    /\ purchases \in [Purchases -> Naming!Purchase \union {None}]
    /\ request \in [Workers -> Naming!Request \union {None}]

(* A line that names an item was saved with the name the item had; items stay. *)
LinesInv ==
    \A p \in Purchases : purchases[p] # None /\ purchases[p].item # None =>
        /\ item[purchases[p].item] # None
        /\ item[purchases[p].item].renamed \/ purchases[p].name = item[purchases[p].item].name

(* An open request creates an item nobody has, or changes one there is.      *)
OpenInv ==
    /\ \A w \in Workers : request[w] # None =>
          IF request[w].copy = None
          THEN request[w].name # None /\ item[request[w].item] = None
          ELSE item[request[w].item] # None
    /\ \A v, w \in Workers :
          v # w /\ request[v] # None /\ request[w] # None /\ request[v].copy = None =>
              request[v].item # request[w].item

NamingInv == NamingTyped /\ LinesInv /\ OpenInv

LEMMA NamingInit == NamingSensible => (Naming!Init => NamingInv)
<1> SUFFICES ASSUME NamingSensible, Naming!Init PROVE NamingInv
  OBVIOUS
<1>1. /\ item = [i \in Items |-> None] /\ request = [w \in Workers |-> None]
      /\ purchases \in [Purchases -> {None} \union Naming!Unlinked]
  BY DEF Naming!Init
<1>2. \A u \in Naming!Unlinked : u \in Naming!Purchase /\ u.item = None
  BY DEF Naming!Unlinked, Naming!Purchase
<1>3. NamingTyped
  BY <1>1, <1>2 DEF NamingTyped
<1>4. LinesInv
  BY <1>1, <1>2 DEF LinesInv
<1>5. OpenInv
  BY <1>1 DEF OpenInv
<1> QED BY <1>3, <1>4, <1>5 DEF NamingInv

(* An item is written: its lines have its name unless it was renamed.        *)
LEMMA RowWritten ==
    ASSUME NamingSensible, NamingInv, NEW i \in Items, NEW new \in Naming!Item,
           item' = [item EXCEPT ![i] = new], purchases' = purchases,
           request' \in [Workers -> Naming!Request \union {None}],
           item[i] # None => new.renamed \/ (new.name = item[i].name /\ ~ item[i].renamed)
    PROVE  /\ NamingTyped' /\ LinesInv' /\ new # None
           /\ \A j \in Items : item'[j] = IF j = i THEN new ELSE item[j]
<1>1. /\ \A j \in Items : item'[j] = IF j = i THEN new ELSE item[j]
      /\ item' \in [Items -> Naming!Item \union {None}] /\ new # None
  BY DEF NamingInv, NamingTyped, NamingSensible
<1>2. NamingTyped'
  BY <1>1 DEF NamingInv, NamingTyped
<1>3. LinesInv'
  <2> SUFFICES ASSUME NEW p \in Purchases, purchases[p] # None, purchases[p].item # None
               PROVE  /\ item'[purchases[p].item] # None
                      /\ \/ item'[purchases[p].item].renamed
                         \/ purchases[p].name = item'[purchases[p].item].name
    BY DEF LinesInv
  <2>1. /\ item[purchases[p].item] # None
        /\ item[purchases[p].item].renamed \/ purchases[p].name = item[purchases[p].item].name
    BY DEF NamingInv, LinesInv
  <2>2. purchases[p].item \in Items
    BY DEF NamingInv, NamingTyped, Naming!Purchase
  <2> QED BY <1>1, <2>1, <2>2
<1> QED BY <1>1, <1>2, <1>3

LEMMA ItemServed ==
    ASSUME NamingSensible, NamingInv, NEW w \in Workers, NEW i \in Items, NEW t \in Types,
           \/ \E n \in Names : Naming!CreateItem(w, i, n, t) \/ Naming!RenameItem(w, i, n, t)
           \/ Naming!MoveItem(w, i, t)
    PROVE  NamingInv'
<1>1. PICK n \in Names \union {None} :
          /\ Naming!Serve(w, i, n, t)
          /\ IF item[i] = None
             THEN n # None /\ \A v \in Workers : request[v] # None => request[v].item # i
             ELSE TRUE
  BY DEF Naming!CreateItem, Naming!RenameItem, Naming!MoveItem, Naming!Exists, NamingSensible
<1>2. PICK r : r = [item |-> i, name |-> n, type |-> t, copy |-> item[i]]
  OBVIOUS
<1>3. /\ r \in Naming!Request /\ r.item = i /\ r.name = n /\ r.copy = item[i]
  BY <1>2 DEF Naming!Request, NamingInv, NamingTyped
<1>4. /\ item' = item /\ purchases' = purchases /\ request' = [request EXCEPT ![w] = r]
  BY <1>1, <1>2 DEF Naming!Serve
<1>5. /\ \A v \in Workers : request'[v] = IF v = w THEN r ELSE request[v]
      /\ request' \in [Workers -> Naming!Request \union {None}]
  BY <1>3, <1>4 DEF NamingInv, NamingTyped
<1>6. NamingTyped'
  BY <1>4, <1>5 DEF NamingInv, NamingTyped
<1>7. LinesInv'
  BY <1>4 DEF NamingInv, LinesInv
<1>8. OpenInv'
  BY <1>1, <1>3, <1>4, <1>5 DEF NamingInv, OpenInv
<1> QED BY <1>6, <1>7, <1>8 DEF NamingInv

(* What a commit makes of the row.                                           *)
LEMMA ItemCommitted ==
    ASSUME NamingSensible, NamingInv, NEW w \in Workers, request[w] # None
    PROVE  /\ request[w].item \in Items
           /\ Naming!ItemWritten(request[w], item[request[w].item]) \in Naming!Item
           /\ request[w].copy = None =>
                 /\ item[request[w].item] = None /\ request[w].name # None
                 /\ Naming!ItemWritten(request[w], item[request[w].item]).name = request[w].name
                 /\ Naming!ItemWritten(request[w], item[request[w].item]).type = request[w].type
           /\ request[w].copy # None =>
                 /\ item[request[w].item] # None
                 /\ \/ Naming!ItemWritten(request[w], item[request[w].item]).renamed
                    \/ /\ Naming!ItemWritten(request[w], item[request[w].item]).name
                              = item[request[w].item].name
                       /\ ~ item[request[w].item].renamed
                 /\ Naming!ItemWritten(request[w], item[request[w].item]).name =
                        IF request[w].name = None \/ request[w].name = request[w].copy.name
                        THEN item[request[w].item].name ELSE request[w].name
                 /\ Naming!ItemWritten(request[w], item[request[w].item]).type =
                        IF request[w].type = request[w].copy.type
                        THEN item[request[w].item].type ELSE request[w].type
                 /\ request[w].name = None =>
                        Naming!ItemWritten(request[w], item[request[w].item]).moved
                 /\ item[request[w].item].moved =>
                        Naming!ItemWritten(request[w], item[request[w].item]).moved
<1>1. PICK r : r = request[w]
  OBVIOUS
<1>2. r \in Naming!Request
  BY <1>1 DEF NamingInv, NamingTyped
<1>3. r.item \in Items /\ r.type \in Types /\ r.name \in Names \union {None}
  BY <1>2 DEF Naming!Request
<1>4. PICK now : now = item[r.item]
  OBVIOUS
<1>5. PICK new : new = Naming!ItemWritten(r, now)
  OBVIOUS
<1>6. CASE r.copy = None
  <2>1. r.name # None /\ now = None
    BY <1>1, <1>4, <1>6 DEF NamingInv, OpenInv
  <2>2. new = [name |-> r.name, type |-> r.type, archived |-> FALSE, moved |-> FALSE,
               renamed |-> FALSE]
    BY <1>5, <1>6 DEF Naming!ItemWritten
  <2>3. new \in Naming!Item /\ new.name = r.name /\ new.type = r.type
    BY <1>3, <2>1, <2>2 DEF Naming!Item
  <2> QED BY <1>1, <1>3, <1>4, <1>5, <1>6, <2>1, <2>3
<1>7. CASE r.copy # None
  <2>1. now \in Naming!Item /\ now # None
    BY <1>1, <1>3, <1>4, <1>7 DEF NamingInv, OpenInv, NamingTyped
  <2>2. PICK moved \in BOOLEAN : moved = (now.moved \/ r.name = None)
    BY <2>1 DEF Naming!Item
  <2>3. PICK renamed \in BOOLEAN : renamed = (now.renamed \/ r.name \notin {None, r.copy.name})
    BY <2>1 DEF Naming!Item
  <2>4. PICK name : name = IF r.name = None \/ r.name = r.copy.name THEN now.name ELSE r.name
    OBVIOUS
  <2>5. PICK type2 : type2 = IF r.type = r.copy.type THEN now.type ELSE r.type
    OBVIOUS
  <2>6. new = [now EXCEPT !.name = name, !.type = type2, !.moved = moved, !.renamed = renamed]
    BY <1>5, <1>7, <2>1, <2>2, <2>3, <2>4, <2>5 DEF Naming!ItemWritten, Naming!Written, Naming!Item
  <2>7. name \in Names /\ type2 \in Types
    BY <1>3, <2>1, <2>4, <2>5 DEF Naming!Item
  <2>8. /\ new \in Naming!Item /\ new.name = name /\ new.type = type2
        /\ new.moved = moved /\ new.renamed = renamed
    BY <2>1, <2>2, <2>3, <2>6, <2>7 DEF Naming!Item
  <2>9. new.renamed \/ (new.name = now.name /\ ~ now.renamed)
    BY <2>3, <2>4, <2>8
  <2>10. (r.name = None => new.moved) /\ (now.moved => new.moved)
    BY <2>2, <2>8
  <2> QED BY <1>1, <1>3, <1>4, <1>5, <1>7, <2>1, <2>4, <2>5, <2>8, <2>9, <2>10
<1> QED BY <1>6, <1>7

LEMMA ItemSaved ==
    ASSUME NamingSensible, NamingInv, NEW w \in Workers, Naming!CommitItem(w)
    PROVE  NamingInv'
<1>1. PICK r : r = request[w]
  OBVIOUS
<1>2. PICK new : new = Naming!ItemWritten(r, item[r.item])
  OBVIOUS
<1>3. /\ r # None /\ purchases' = purchases /\ request' = [request EXCEPT ![w] = None]
  BY <1>1 DEF Naming!CommitItem
<1>4. /\ r.item \in Items /\ new \in Naming!Item
      /\ item[r.item] # None => new.renamed \/ (new.name = item[r.item].name /\ ~ item[r.item].renamed)
  BY <1>1, <1>2, <1>3, ItemCommitted
<1>5. item' = [item EXCEPT ![r.item] = new]
  BY <1>1, <1>2, <1>4 DEF Naming!CommitItem, NamingInv, NamingTyped
<1>6. /\ \A v \in Workers : request'[v] = IF v = w THEN None ELSE request[v]
      /\ request' \in [Workers -> Naming!Request \union {None}]
  BY <1>3 DEF NamingInv, NamingTyped
<1>7. /\ NamingTyped' /\ LinesInv' /\ new # None
      /\ \A j \in Items : item'[j] = IF j = r.item THEN new ELSE item[j]
  BY <1>3, <1>4, <1>5, <1>6, RowWritten
<1>8. \A v \in Workers : request[v] # None => request[v].item \in Items
  BY DEF NamingInv, NamingTyped, Naming!Request
<1>9. OpenInv'
  <2>1. ASSUME NEW v \in Workers, request'[v] # None
        PROVE  IF request'[v].copy = None
               THEN request'[v].name # None /\ item'[request'[v].item] = None
               ELSE item'[request'[v].item] # None
    <3>1. v # w /\ request'[v] = request[v] /\ request[v] # None
      BY <1>6, <2>1
    <3>2. CASE request[v].copy = None
      <4>1. request[v].item # r.item
        BY <1>1, <1>3, <3>1, <3>2 DEF NamingInv, OpenInv
      <4> QED BY <1>7, <1>8, <3>1, <3>2, <4>1 DEF NamingInv, OpenInv
    <3>3. CASE request[v].copy # None
      BY <1>7, <1>8, <3>1, <3>3 DEF NamingInv, OpenInv
    <3> QED BY <3>2, <3>3
  <2>2. ASSUME NEW u \in Workers, NEW v \in Workers, u # v,
               request'[u] # None, request'[v] # None, request'[u].copy = None
        PROVE  request'[u].item # request'[v].item
    BY <1>6, <2>2 DEF NamingInv, OpenInv
  <2> QED BY <2>1, <2>2 DEF OpenInv
<1> QED BY <1>7, <1>9 DEF NamingInv

LEMMA ItemArchived ==
    ASSUME NamingSensible, NamingInv, NEW i \in Items, Naming!ArchiveItem(i)
    PROVE  NamingInv'
<1>1. item[i] # None /\ purchases' = purchases /\ request' = request
  BY DEF Naming!ArchiveItem, Naming!Listed, Naming!Exists
<1>2. item[i] \in Naming!Item
  BY <1>1 DEF NamingInv, NamingTyped
<1>3. PICK new : new = [item[i] EXCEPT !.archived = TRUE]
  OBVIOUS
<1>4. new \in Naming!Item /\ new.name = item[i].name /\ new.renamed = item[i].renamed
  BY <1>2, <1>3 DEF Naming!Item
<1>5. item' = [item EXCEPT ![i] = new]
  BY <1>3 DEF Naming!ArchiveItem
<1>6. request' \in [Workers -> Naming!Request \union {None}]
  BY <1>1 DEF NamingInv, NamingTyped
<1>7. new.renamed \/ (new.name = item[i].name /\ ~ item[i].renamed)
  BY <1>4
<1>8. /\ NamingTyped' /\ LinesInv' /\ new # None
      /\ \A j \in Items : item'[j] = IF j = i THEN new ELSE item[j]
  BY <1>1, <1>4, <1>5, <1>6, <1>7, RowWritten
<1>9. \A w \in Workers : request[w] # None => request[w].item \in Items
  BY DEF NamingInv, NamingTyped, Naming!Request
<1>10. \A j \in Items : item'[j] = None <=> item[j] = None
  BY <1>1, <1>8
<1>11. OpenInv'
  BY <1>1, <1>9, <1>10 DEF NamingInv, OpenInv
<1> QED BY <1>8, <1>11 DEF NamingInv

LEMMA LinesSaved ==
    ASSUME NamingSensible, NamingInv, NEW p \in Purchases,
           \/ \E i \in Items, status \in {"draft", "confirmed"} : Naming!Buy(p, i, status)
           \/ \E status \in {"cancelled", "deleted"} : Naming!Close(p, status)
           \/ Naming!Confirm(p)
    PROVE  NamingInv' /\ item' = item /\ request' = request
<1>0. item' = item /\ request' = request
  BY DEF Naming!Buy, Naming!Close, Naming!Confirm
<1>1. ASSUME NEW new \in Naming!Purchase, purchases' = [purchases EXCEPT ![p] = new],
             new.item # None =>
                 /\ item[new.item] # None
                 /\ item[new.item].renamed \/ new.name = item[new.item].name
      PROVE  NamingInv'
  <2>1. /\ \A q \in Purchases : purchases'[q] = IF q = p THEN new ELSE purchases[q]
        /\ purchases' \in [Purchases -> Naming!Purchase \union {None}]
    BY <1>1 DEF NamingInv, NamingTyped
  <2>2. NamingTyped'
    BY <1>0, <2>1 DEF NamingInv, NamingTyped
  <2>3. LinesInv'
    BY <1>0, <1>1, <2>1 DEF NamingInv, LinesInv
  <2>4. OpenInv'
    BY <1>0 DEF NamingInv, OpenInv
  <2> QED BY <2>2, <2>3, <2>4 DEF NamingInv
<1>2. CASE \E i \in Items, status \in {"draft", "confirmed"} : Naming!Buy(p, i, status)
  <2>1. PICK i \in Items, status \in {"draft", "confirmed"} : Naming!Buy(p, i, status)
    BY <1>2
  <2>2. PICK new : new = [item |-> i, name |-> item[i].name, status |-> status]
    OBVIOUS
  <2>3. item[i] \in Naming!Item /\ item[i] # None
    BY <2>1 DEF Naming!Buy, Naming!Exists, NamingInv, NamingTyped
  <2>4. new \in Naming!Purchase /\ new.item = i /\ new.name = item[i].name
    BY <2>2, <2>3 DEF Naming!Purchase, Naming!Item
  <2>5. purchases' = [purchases EXCEPT ![p] = new]
    BY <2>1, <2>2 DEF Naming!Buy
  <2> QED BY <1>0, <1>1, <2>3, <2>4, <2>5
<1>3. ASSUME NEW st \in {"confirmed", "cancelled", "deleted"},
             purchases[p] # None, purchases' = [purchases EXCEPT ![p].status = st]
      PROVE  NamingInv'
  <2>1. PICK new : new = [purchases[p] EXCEPT !.status = st]
    OBVIOUS
  <2>2. /\ new \in Naming!Purchase
        /\ new.item = purchases[p].item /\ new.name = purchases[p].name
    BY <1>3, <2>1 DEF Naming!Purchase, NamingInv, NamingTyped
  <2>3. new.item # None =>
            /\ item[new.item] # None
            /\ item[new.item].renamed \/ new.name = item[new.item].name
    BY <1>3, <2>2 DEF NamingInv, LinesInv
  <2> QED BY <1>1, <1>3, <2>1, <2>2, <2>3
<1>4. CASE Naming!Confirm(p)
  BY <1>0, <1>3, <1>4 DEF Naming!Confirm
<1>5. CASE \E status \in {"cancelled", "deleted"} : Naming!Close(p, status)
  BY <1>0, <1>3, <1>5 DEF Naming!Close
<1> QED BY <1>0, <1>2, <1>4, <1>5

LEMMA ItemRefused ==
    ASSUME NamingInv, NEW w \in Workers, Naming!Fail(w)
    PROVE  NamingInv'
<1>1. item' = item /\ purchases' = purchases /\ request' = [request EXCEPT ![w] = None]
  BY DEF Naming!Fail
<1>2. /\ \A v \in Workers : request'[v] = IF v = w THEN None ELSE request[v]
      /\ request' \in [Workers -> Naming!Request \union {None}]
  BY <1>1 DEF NamingInv, NamingTyped
<1>3. NamingTyped' /\ LinesInv'
  BY <1>1, <1>2 DEF NamingInv, NamingTyped, LinesInv
<1>4. OpenInv'
  BY <1>1, <1>2 DEF NamingInv, OpenInv
<1> QED BY <1>3, <1>4 DEF NamingInv

LEMMA NamingNext ==
    ASSUME NamingSensible, NamingInv, [Naming!Next]_(Naming!vars)
    PROVE  NamingInv'
<1>1. CASE UNCHANGED Naming!vars
  <2>1. item' = item /\ purchases' = purchases /\ request' = request
    BY <1>1 DEF Naming!vars
  <2>2. NamingTyped' /\ LinesInv' /\ OpenInv'
    BY <2>1 DEF NamingInv, NamingTyped, LinesInv, OpenInv
  <2> QED BY <2>2 DEF NamingInv
<1> QED BY <1>1, ItemServed, ItemSaved, ItemRefused, ItemArchived, LinesSaved DEF Naming!Next

(* One request at a time, nothing an open request looked at changes but that *)
(* its item may be archived: the name it gives is still free.                *)
FreeInv ==
    \A w \in Workers : request[w] # None =>
        /\ request[w].copy # None =>
              /\ request[w].copy.name = item[request[w].item].name
              /\ request[w].copy.type = item[request[w].item].type
        /\ request[w].name # None =>
              ~ Naming!Taken(request[w].item, request[w].name, request[w].type)
UniqueInv == NamingInv /\ FreeInv /\ Naming!NamesUnique

LEMMA UniqueCommitted ==
    ASSUME NamingSensible, Serial, UniqueInv, NEW w \in Workers, Naming!CommitItem(w)
    PROVE  FreeInv' /\ Naming!NamesUnique'
<1>1. PICK r : r = request[w]
  OBVIOUS
<1>2. PICK now : now = item[r.item]
  OBVIOUS
<1>3. PICK new : new = Naming!ItemWritten(r, now)
  OBVIOUS
<1>4. r # None /\ NamingInv
  BY <1>1 DEF Naming!CommitItem, UniqueInv
<1>5. /\ r.item \in Items /\ new \in Naming!Item
      /\ r.copy = None => r.name # None /\ new.name = r.name /\ new.type = r.type
      /\ r.copy # None =>
            /\ new.name = IF r.name = None \/ r.name = r.copy.name THEN now.name ELSE r.name
            /\ new.type = IF r.type = r.copy.type THEN now.type ELSE r.type
            /\ r.name = None => new.moved
  BY <1>1, <1>2, <1>3, <1>4, ItemCommitted
<1>6. /\ r.copy # None => r.copy.name = now.name /\ r.copy.type = now.type
      /\ r.name # None => ~ Naming!Taken(r.item, r.name, r.type)
  BY <1>1, <1>2, <1>4 DEF UniqueInv, FreeInv
<1>7. r.name # None => new.name = r.name /\ new.type = r.type
  BY <1>5, <1>6
<1>8. ~ new.moved => ~ Naming!Taken(r.item, new.name, new.type)
  BY <1>5, <1>6, <1>7
<1>9. \A j \in Items : item'[j] = IF j = r.item THEN new ELSE item[j]
  BY <1>1, <1>2, <1>3, <1>5 DEF Naming!CommitItem, NamingInv, NamingTyped, UniqueInv
<1>10. \A v \in Workers : request'[v] = None
  BY DEF Naming!CommitItem, Serial, UniqueInv, NamingInv, NamingTyped
<1>11. FreeInv'
  BY <1>10 DEF FreeInv
<1>12. Naming!NamesUnique'
  <2> SUFFICES ASSUME NEW j \in Items, NEW k \in Items, j # k, item'[j] # None, item'[k] # None,
                      ~ item'[j].moved, ~ item'[k].moved
               PROVE  item'[j].name # item'[k].name \/ item'[j].type # item'[k].type
    BY DEF Naming!NamesUnique, Naming!Exists
  <2>1. CASE j = r.item
    BY <1>8, <1>9, <2>1 DEF Naming!Taken, Naming!Exists
  <2>2. CASE k = r.item
    BY <1>8, <1>9, <2>2 DEF Naming!Taken, Naming!Exists
  <2>3. CASE j # r.item /\ k # r.item
    BY <1>9, <2>3 DEF UniqueInv, Naming!NamesUnique, Naming!Exists
  <2> QED BY <2>1, <2>2, <2>3
<1> QED BY <1>11, <1>12

LEMMA UniqueServed ==
    ASSUME NamingSensible, Serial, UniqueInv, NEW w \in Workers, NEW i \in Items, NEW t \in Types,
           \/ \E n \in Names : Naming!CreateItem(w, i, n, t) \/ Naming!RenameItem(w, i, n, t)
           \/ Naming!MoveItem(w, i, t)
    PROVE  FreeInv' /\ Naming!NamesUnique'
<1>1. PICK n \in Names \union {None} :
          Naming!Serve(w, i, n, t) /\ (n # None => ~ Naming!Taken(i, n, t))
  BY DEF Naming!CreateItem, Naming!RenameItem, Naming!MoveItem
<1>2. PICK r : r = [item |-> i, name |-> n, type |-> t, copy |-> item[i]]
  OBVIOUS
<1>3. r.item = i /\ r.name = n /\ r.type = t /\ r.copy = item[i]
  BY <1>2
<1>4. item' = item /\ request' = [request EXCEPT ![w] = r]
  BY <1>1, <1>2 DEF Naming!Serve
<1>5. \A v \in Workers : request'[v] = r
  BY <1>4 DEF Serial, UniqueInv, NamingInv, NamingTyped
<1>6. ~ Naming!Taken(i, n, t) => ~ Naming!Taken(i, n, t)'
  BY <1>4 DEF Naming!Taken, Naming!Exists
<1>7. FreeInv'
  <2> SUFFICES ASSUME NEW v \in Workers
               PROVE  /\ r.copy # None => /\ r.copy.name = item'[r.item].name
                                          /\ r.copy.type = item'[r.item].type
                      /\ r.name # None => ~ Naming!Taken(r.item, r.name, r.type)'
    BY <1>5 DEF FreeInv
  <2> QED BY <1>1, <1>3, <1>4, <1>6
<1>8. Naming!NamesUnique'
  BY <1>4 DEF UniqueInv, Naming!NamesUnique, Naming!Exists
<1> QED BY <1>7, <1>8

(* A step that takes no name and opens no request.                           *)
LEMMA UniqueLeft ==
    ASSUME NamingSensible, UniqueInv,
           \A i \in Items : /\ item'[i] # None <=> item[i] # None
                            /\ item'[i].name = item[i].name /\ item'[i].type = item[i].type
                            /\ item'[i].moved <=> item[i].moved,
           \A w \in Workers : request'[w] \in {request[w], None}
    PROVE  FreeInv' /\ Naming!NamesUnique'
<1>1. ASSUME NEW i, NEW n, NEW t, ~ Naming!Taken(i, n, t) PROVE ~ Naming!Taken(i, n, t)'
  BY <1>1 DEF Naming!Taken, Naming!Exists
<1>2. FreeInv'
  <2> SUFFICES ASSUME NEW w \in Workers, request[w] # None, request'[w] = request[w]
               PROVE  /\ request[w].copy # None =>
                            /\ request[w].copy.name = item'[request[w].item].name
                            /\ request[w].copy.type = item'[request[w].item].type
                      /\ request[w].name # None =>
                            ~ Naming!Taken(request[w].item, request[w].name, request[w].type)'
    BY DEF FreeInv
  <2>1. request[w].item \in Items
    BY DEF UniqueInv, NamingInv, NamingTyped, Naming!Request
  <2> QED BY <1>1, <2>1 DEF UniqueInv, FreeInv
<1>3. Naming!NamesUnique'
  BY DEF UniqueInv, Naming!NamesUnique, Naming!Exists
<1> QED BY <1>2, <1>3

LEMMA UniqueNext ==
    ASSUME NamingSensible, Serial, UniqueInv, [Naming!Next]_(Naming!vars)
    PROVE  UniqueInv'
<1>1. NamingInv'
  BY NamingNext DEF UniqueInv
<1>2. CASE UNCHANGED Naming!vars
  <2>1. item' = item /\ request' = request
    BY <1>2 DEF Naming!vars
  <2>2. FreeInv' /\ Naming!NamesUnique'
    BY <2>1, UniqueLeft
  <2> QED BY <1>1, <2>2 DEF UniqueInv
<1>3. CASE \E w \in Workers, i \in Items, t \in Types :
              \/ \E n \in Names : Naming!CreateItem(w, i, n, t) \/ Naming!RenameItem(w, i, n, t)
              \/ Naming!MoveItem(w, i, t)
  BY <1>1, <1>3, UniqueServed DEF UniqueInv
<1>4. CASE \E w \in Workers : Naming!CommitItem(w)
  BY <1>1, <1>4, UniqueCommitted DEF UniqueInv
<1>5. CASE \E w \in Workers : Naming!Fail(w)
  <2>1. item' = item /\ \A w \in Workers : request'[w] \in {request[w], None}
    BY <1>5 DEF Naming!Fail, UniqueInv, NamingInv, NamingTyped
  <2>2. FreeInv' /\ Naming!NamesUnique'
    BY <2>1, UniqueLeft
  <2> QED BY <1>1, <2>2 DEF UniqueInv
<1>6. CASE \E i \in Items : Naming!ArchiveItem(i)
  <2>1. PICK i \in Items : Naming!ArchiveItem(i)
    BY <1>6
  <2>2. item[i] \in Naming!Item /\ item[i] # None
    BY <2>1 DEF Naming!ArchiveItem, Naming!Listed, Naming!Exists, UniqueInv, NamingInv, NamingTyped
  <2>3. PICK new : new = [item[i] EXCEPT !.archived = TRUE]
    OBVIOUS
  <2>4. /\ new \in Naming!Item /\ new.name = item[i].name /\ new.type = item[i].type
        /\ new.moved = item[i].moved
    BY <2>2, <2>3 DEF Naming!Item
  <2>5. item' = [item EXCEPT ![i] = new] /\ request' = request
    BY <2>1, <2>3 DEF Naming!ArchiveItem
  <2>6. \A j \in Items : item'[j] = IF j = i THEN new ELSE item[j]
    BY <2>5 DEF UniqueInv, NamingInv, NamingTyped
  <2>7. new # None
    BY <2>4 DEF NamingSensible
  <2>8. FreeInv' /\ Naming!NamesUnique'
    BY <2>2, <2>4, <2>5, <2>6, <2>7, UniqueLeft
  <2> QED BY <1>1, <2>8 DEF UniqueInv
<1>7. CASE \E p \in Purchases :
              \/ \E i \in Items, status \in {"draft", "confirmed"} : Naming!Buy(p, i, status)
              \/ \E status \in {"cancelled", "deleted"} : Naming!Close(p, status)
              \/ Naming!Confirm(p)
  <2>1. item' = item /\ request' = request
    BY <1>7, LinesSaved DEF UniqueInv
  <2>2. FreeInv' /\ Naming!NamesUnique'
    BY <2>1, UniqueLeft
  <2> QED BY <1>1, <2>2 DEF UniqueInv
<1> QED BY <1>2, <1>3, <1>4, <1>5, <1>6, <1>7 DEF Naming!Next

(* One request at a time, two items of one type never have the same name,    *)
(* archived ones included, unless one was moved without its name; for any    *)
(* items, types and names.                                                   *)
THEOREM NamesStayUnique == NamingSensible /\ Serial => (Naming!Spec => []Naming!NamesUnique)
<1> SUFFICES ASSUME NamingSensible, Serial PROVE Naming!Spec => []Naming!NamesUnique
  OBVIOUS
<1>1. Naming!Init => UniqueInv
  <2> SUFFICES ASSUME Naming!Init PROVE UniqueInv
    OBVIOUS
  <2>1. NamingInv
    BY NamingInit
  <2>2. FreeInv /\ Naming!NamesUnique
    BY DEF Naming!Init, FreeInv, Naming!NamesUnique, Naming!Exists
  <2> QED BY <2>1, <2>2 DEF UniqueInv
<1>2. UniqueInv /\ [Naming!Next]_(Naming!vars) => UniqueInv'
  BY UniqueNext
<1>3. UniqueInv => Naming!NamesUnique
  BY DEF UniqueInv
<1> QED BY <1>1, <1>2, <1>3, PTL DEF Naming!Spec

LEMMA LinesCarryNames ==
    ASSUME NamingSensible, NamingInv, NEW i \in Naming!Listed, ~ item[i].renamed
    PROVE  Naming!PurchasesOf(i) =
               {p \in Naming!FoundPurchases({item[i].name}) : purchases[p].item \in {None, i}}
<1>1. i \in Items /\ item[i] # None /\ i # None
  BY DEF Naming!Listed, Naming!Exists, NamingSensible
<1>2. ASSUME NEW p \in Purchases, Naming!Counted(p), purchases[p].item = i
      PROVE  purchases[p].name = item[i].name
  BY <1>1, <1>2 DEF NamingInv, LinesInv, Naming!Counted
<1> QED BY <1>1, <1>2 DEF Naming!PurchasesOf, Naming!FoundPurchases, Naming!Exists

(* The purchases of an item that was never renamed are those found by its    *)
(* name, but for lines of another item of that name; for any items and       *)
(* purchases, however requests that name items overlap.                      *)
THEOREM PurchasesFoundByName == NamingSensible => (Naming!Spec => []Naming!PurchasesAreFound)
<1> SUFFICES ASSUME NamingSensible PROVE Naming!Spec => []Naming!PurchasesAreFound
  OBVIOUS
<1>1. Naming!Init => NamingInv
  BY NamingInit
<1>2. NamingInv /\ [Naming!Next]_(Naming!vars) => NamingInv'
  BY NamingNext
<1>3. NamingInv => Naming!PurchasesAreFound
  BY LinesCarryNames DEF Naming!PurchasesAreFound
<1> QED BY <1>1, <1>2, <1>3, PTL DEF Naming!Spec

LEMMA SearchesShowLists == NamingSensible => (NamingTyped => Naming!ItemsAreFound)
<1> SUFFICES ASSUME NamingSensible, NamingTyped, NEW T \in SUBSET Names
             PROVE  /\ \A i \in Naming!Listed : item[i].name \in T =>
                          /\ i \in Naming!FoundItems(T) /\ i \in Naming!Hints(item[i].name)
                          /\ item[i].name \in Naming!HitNames(T)
                    /\ \A i \in Naming!FoundItems(T) :
                          /\ i \in Naming!ItemsOfType(item[i].type)
                          /\ item[i].type \in Naming!FoundTypes(T)
                    /\ \A n \in Naming!HitNames(T) : Naming!HitItems(n) = {None} =>
                          \A i \in Naming!Listed : item[i].name # n
  BY DEF Naming!ItemsAreFound
<1>1. \A i \in Naming!Listed : i \in Items /\ item[i] # None /\ item[i] \in Naming!Item
  BY DEF Naming!Listed, Naming!Exists, NamingTyped
<1>2. ASSUME NEW i \in Naming!Listed, item[i].name \in T
      PROVE  /\ i \in Naming!FoundItems(T) /\ i \in Naming!Hints(item[i].name)
             /\ item[i].name \in Naming!HitNames(T)
  <2>1. i \in Naming!Matching(T)
    BY <1>2 DEF Naming!Matching
  <2>2. i \in Naming!FoundItems(T)
    BY <2>1 DEF Naming!FoundItems
  <2>3. i \in Naming!Hints(item[i].name)
    BY DEF Naming!Hints
  <2>4. item[i].name \in Naming!HitNames(T)
    BY <1>1, <1>2 DEF Naming!HitNames, Naming!Exists
  <2> QED BY <2>2, <2>3, <2>4
<1>3. ASSUME NEW i \in Naming!FoundItems(T)
      PROVE  i \in Naming!ItemsOfType(item[i].type) /\ item[i].type \in Naming!FoundTypes(T)
  <2>1. i \in Naming!Listed
    BY DEF Naming!FoundItems, Naming!Matching
  <2>2. i \in Naming!ItemsOfType(item[i].type)
    BY <2>1 DEF Naming!ItemsOfType
  <2>3. item[i].type \in {item[j].type : j \in Naming!FoundItems(T)}
    OBVIOUS
  <2>4. item[i].type \in Naming!FoundTypes(T)
    BY <2>3 DEF Naming!FoundTypes
  <2> QED BY <2>2, <2>4
<1>4. ASSUME NEW n \in Naming!HitNames(T), Naming!HitItems(n) = {None},
             NEW i \in Naming!Listed
      PROVE  item[i].name # n
  <2>1. PICK bearers : bearers = {j \in Items : Naming!Exists(j) /\ item[j].name = n}
    OBVIOUS
  <2>2. Naming!HitItems(n) = IF bearers = {} THEN {None} ELSE bearers
    BY <2>1 DEF Naming!HitItems
  <2>3. bearers = {}
    BY <1>4, <2>1, <2>2 DEF NamingSensible
  <2> QED BY <1>1, <2>1, <2>3 DEF Naming!Exists
<1> QED BY <1>2, <1>3, <1>4

(* An item of the list is found by its name and warned of when the name is   *)
(* typed again, what is found is listed, and its type is found with it; for  *)
(* any names, whatever names are similar and however requests overlap.       *)
THEOREM ItemsFoundByName == NamingSensible => (Naming!Spec => []Naming!ItemsAreFound)
<1> SUFFICES ASSUME NamingSensible PROVE Naming!Spec => []Naming!ItemsAreFound
  OBVIOUS
<1>1. Naming!Init => NamingInv
  BY NamingInit
<1>2. NamingInv /\ [Naming!Next]_(Naming!vars) => NamingInv'
  BY NamingNext
<1>3. NamingInv => Naming!ItemsAreFound
  BY SearchesShowLists DEF NamingInv
<1> QED BY <1>1, <1>2, <1>3, PTL DEF Naming!Spec

(* Backups.  A run has written its file before it logs a success, an entry   *)
(* that is now among the newest was already, or is the one just logged, and  *)
(* retention spares the paths of the newest.                                 *)
Entries == [path : Saving!Seconds, status : {"success", "fail"}]
Steps == {"read", "write", "log success", "log fail", "retain"}
Runs == [path : Saving!Seconds, step : Steps, held : SUBSET Purchases]
KeepingSensible ==
    /\ MaxRuns \in Nat /\ Keep \in Nat
    /\ None \notin SUBSET Purchases /\ None # "torn"
FilesTyped ==
    /\ logs \in Seq(Entries)
    /\ files = [s \in Saving!Seconds |-> files[s]]
    /\ running = [w \in Workers |-> running[w]]
    /\ \A w \in Workers : running[w] # None => running[w] \in Runs
    /\ second \in Saving!Seconds
Written == \A w \in Workers : Saving!At(w, "log success") => files[running[w].path] # None
FilesInv == FilesTyped /\ Written /\ Saving!KeptBackupsExist

LEMMA SavingCardinality == \A S : Saving!Cardinality(S) = Cardinality(S)
BY DEF Saving!Cardinality, Cardinality

(* A run that goes on keeps its path.                                        *)
LEMMA RunGoesOn ==
    ASSUME NEW run \in Runs, NEW step \in Steps
    PROVE  LET r == [run EXCEPT !.step = step]
           IN r \in Runs /\ r.step = step /\ r.path = run.path
<1> DEFINE r == [run EXCEPT !.step = step]
<1>1. r = [path |-> run.path, step |-> step, held |-> run.held]
  BY DEF Runs
<1> QED BY <1>1 DEF Runs

LEMMA RunReads ==
    ASSUME NEW run \in Runs, NEW read \in SUBSET Purchases,
           NEW r, r = [run EXCEPT !.step = "write", !.held = read]
    PROVE  r \in Runs /\ r.step = "write"
BY DEF Runs, Steps

(* The paths of entries.                                                     *)
LEMMA EntriesNameFiles == FilesTyped => \A k \in DOMAIN logs : logs[k].path \in Saving!Seconds
<1> SUFFICES ASSUME FilesTyped, NEW k \in DOMAIN logs PROVE logs[k].path \in Saving!Seconds
  OBVIOUS
<1>1. logs \in Seq(Entries)
  BY DEF FilesTyped
<1>2. logs[k] \in Entries
  BY <1>1
<1> QED BY <1>2 DEF Entries

(* One entry more.                                                           *)
LEMMA LogsGrow ==
    ASSUME FilesTyped, NEW entry \in Entries, logs' = Append(logs, entry)
    PROVE  /\ logs' \in Seq(Entries) /\ Len(logs) \in Nat
           /\ DOMAIN logs = 1..Len(logs) /\ DOMAIN logs' = 1..(Len(logs) + 1)
           /\ logs'[Len(logs) + 1] = entry
           /\ \A j \in 1..Len(logs) : logs'[j] = logs[j]
<1>1. logs \in Seq(Entries)
  BY DEF FilesTyped
<1> QED BY <1>1

LEMMA FilesInit == KeepingSensible => (Saving!Init => FilesInv)
<1> SUFFICES ASSUME KeepingSensible, Saving!Init PROVE FilesInv
  OBVIOUS
<1>1. FilesTyped
  BY DEF Saving!Init, FilesTyped, KeepingSensible, Saving!Seconds
<1>2. Written
  BY DEF Saving!Init, Written, Saving!At
<1>3. Saving!KeptBackupsExist
  BY DEF Saving!Init, Saving!KeptBackupsExist, Saving!Newest, Saving!Successes
<1> QED BY <1>1, <1>2, <1>3 DEF FilesInv

(* While the entries stay, so do the newest of them.                         *)
LEMMA NewestStay ==
    ASSUME logs' = logs
    PROVE  Saving!Newest' = Saving!Newest
BY DEF Saving!Newest, Saving!Successes, Saving!Cardinality

LEMMA FilesRead ==
    ASSUME KeepingSensible, FilesInv, NEW w \in Workers, Saving!Start(w) \/ Saving!Read(w)
    PROVE  FilesInv'
<1>1. logs' = logs /\ files' = files /\ second' = second
  BY DEF Saving!Start, Saving!Read
<1>2. \E r \in Runs : running' = [running EXCEPT ![w] = r] /\ r.step # "log success"
  <2>1. CASE Saving!Start(w)
    <3> DEFINE r == [path |-> second, step |-> "read", held |-> {}]
    <3>1. r \in Runs
      BY DEF FilesInv, FilesTyped, Runs, Steps
    <3>2. running' = [running EXCEPT ![w] = r]
      BY <2>1 DEF Saving!Start
    <3> QED BY <3>1, <3>2
  <2>2. CASE Saving!Read(w)
    <3>1. running[w] \in Runs
      BY <2>2 DEF Saving!Read, Saving!At, FilesInv, FilesTyped
    <3>2. Saving!InReports \in SUBSET Purchases
      BY DEF Saving!InReports
    <3>3. CASE running' = [running EXCEPT ![w].step = "write", ![w].held = Saving!InReports]
      <4> DEFINE r == [running[w] EXCEPT !.step = "write", !.held = Saving!InReports]
      <4>1. r \in Runs /\ r.step = "write"
        BY <3>1, <3>2, RunReads
      <4>2. running' = [running EXCEPT ![w] = r]
        BY <3>1, <3>3 DEF FilesInv, FilesTyped, Runs
      <4> QED BY <4>1, <4>2
    <3>4. CASE Saving!GoTo(w, "log fail")
      <4> DEFINE r == [running[w] EXCEPT !.step = "log fail"]
      <4>1. r \in Runs /\ r.step = "log fail"
        BY <3>1, RunGoesOn DEF Steps
      <4>2. running' = [running EXCEPT ![w] = r]
        BY <3>4 DEF Saving!GoTo
      <4> QED BY <4>1, <4>2
    <3> QED BY <2>2, <3>3, <3>4 DEF Saving!Read
  <2> QED BY <2>1, <2>2
<1>3. FilesTyped'
  BY <1>1, <1>2 DEF FilesInv, FilesTyped
<1>4. Written'
  BY <1>1, <1>2 DEF FilesInv, FilesTyped, Written, Saving!At
<1>5. Saving!KeptBackupsExist'
  BY <1>1, NewestStay DEF FilesInv, Saving!KeptBackupsExist
<1> QED BY <1>3, <1>4, <1>5 DEF FilesInv

LEMMA FilesWrite ==
    ASSUME KeepingSensible, FilesInv, NEW w \in Workers, Saving!Write(w)
    PROVE  FilesInv'
<1> DEFINE path == running[w].path
<1>1. logs' = logs /\ second' = second
  BY DEF Saving!Write
<1>2. running[w] \in Runs /\ path \in Saving!Seconds
  BY DEF Saving!Write, Saving!At, FilesInv, FilesTyped, Runs
<1>3. PICK held : held # None /\ files' = [files EXCEPT ![path] = held]
  BY <1>2 DEF Saving!Write, KeepingSensible, Runs
<1>4. PICK step \in Steps : Saving!GoTo(w, step)
  BY DEF Saving!Write, Steps
<1>5. \E r \in Runs : running' = [running EXCEPT ![w] = r] /\ r.path = path
  <2>1. running' = [running EXCEPT ![w] = [running[w] EXCEPT !.step = step]]
    BY <1>4 DEF Saving!GoTo
  <2> QED BY <1>2, <2>1, RunGoesOn
<1>6. FilesTyped'
  BY <1>1, <1>3, <1>5 DEF FilesInv, FilesTyped
<1>7. \A s \in Saving!Seconds : files[s] # None => files'[s] # None
  BY <1>3 DEF FilesInv, FilesTyped
<1>8. files'[path] # None
  BY <1>2, <1>3 DEF FilesInv, FilesTyped
<1>9. Written'
  <2> SUFFICES ASSUME NEW v \in Workers, Saving!At(v, "log success")'
               PROVE  files'[running'[v].path] # None
    BY DEF Written
  <2>1. CASE v = w
    BY <1>5, <1>8, <2>1 DEF FilesInv, FilesTyped
  <2>2. CASE v # w
    <3>1. running'[v] = running[v] /\ Saving!At(v, "log success")
      BY <1>5, <2>2 DEF FilesInv, FilesTyped, Saving!At
    <3> QED BY <1>7, <3>1 DEF FilesInv, FilesTyped, Written, Saving!At, Runs
  <2> QED BY <2>1, <2>2
<1>10. Saving!KeptBackupsExist'
  <2>1. \A k \in Saving!Newest : logs[k].path \in Saving!Seconds
    BY EntriesNameFiles DEF Saving!Newest, Saving!Successes, FilesInv
  <2> QED BY <1>1, <1>7, <2>1, NewestStay DEF FilesInv, Saving!KeptBackupsExist
<1> QED BY <1>6, <1>9, <1>10 DEF FilesInv

(* An entry is among the newest as long as few enough follow it: a later     *)
(* entry can only push it out.                                               *)
LEMMA NewestWereNewest ==
    ASSUME KeepingSensible, FilesTyped,
           NEW entry \in Entries,
           logs' = Append(logs, entry),
           NEW k \in Saving!Newest'
    PROVE  \/ k = Len(logs) + 1 /\ entry.status = "success"
           \/ k \in Saving!Newest
<1> DEFINE Later(S) == {j \in S : j > k}
<1>1. /\ DOMAIN logs = 1..Len(logs) /\ DOMAIN logs' = 1..(Len(logs) + 1) /\ Len(logs) \in Nat
      /\ logs'[Len(logs) + 1] = entry
      /\ \A j \in 1..Len(logs) : logs'[j] = logs[j]
  BY LogsGrow
<1>2. k \in Saving!Successes' /\ Cardinality(Later(Saving!Successes')) < Keep
  BY SavingCardinality DEF Saving!Newest
<1>3. CASE k = Len(logs) + 1
  BY <1>1, <1>2, <1>3 DEF Saving!Successes
<1>4. CASE k \in DOMAIN logs
  <2>1. k \in Saving!Successes
    BY <1>1, <1>2, <1>4 DEF Saving!Successes
  <2>2. Later(Saving!Successes) \subseteq Later(Saving!Successes')
    BY <1>1 DEF Saving!Successes
  <2>3. IsFiniteSet(Later(Saving!Successes'))
    <3>1. Later(Saving!Successes') \subseteq 1..(Len(logs) + 1)
      BY <1>1 DEF Saving!Successes
    <3>2. IsFiniteSet(1..(Len(logs) + 1))
      BY <1>1, FS_Interval
    <3> QED BY <3>1, <3>2, FS_Subset
  <2>4. /\ Cardinality(Later(Saving!Successes)) \in Nat
        /\ Cardinality(Later(Saving!Successes')) \in Nat
        /\ Cardinality(Later(Saving!Successes)) <= Cardinality(Later(Saving!Successes'))
    BY <2>2, <2>3, FS_Subset, FS_CardinalityType
  <2>5. Cardinality(Later(Saving!Successes)) < Keep
    BY <1>2, <2>4 DEF KeepingSensible
  <2> QED BY <2>1, <2>5, SavingCardinality DEF Saving!Newest
<1> QED BY <1>1, <1>2, <1>3, <1>4 DEF Saving!Successes

LEMMA FilesLog ==
    ASSUME KeepingSensible, FilesInv, NEW w \in Workers, Saving!Log(w)
    PROVE  FilesInv'
<1>1. PICK status \in {"success", "fail"} :
          /\ Saving!At(w, IF status = "success" THEN "log success" ELSE "log fail")
          /\ logs' = Append(logs, [path |-> running[w].path, status |-> status])
  BY DEF Saving!Log
<1>2. files' = files /\ second' = second /\ Saving!GoTo(w, "retain")
  BY DEF Saving!Log
<1>3. running[w] \in Runs
  BY <1>1 DEF Saving!At, FilesInv, FilesTyped
<1> DEFINE entry == [path |-> running[w].path, status |-> status]
<1>4. entry \in Entries
  BY <1>3 DEF Runs, Entries
<1>5. \E r \in Runs : running' = [running EXCEPT ![w] = r] /\ r.step # "log success"
  <2> DEFINE r == [running[w] EXCEPT !.step = "retain"]
  <2>1. r \in Runs /\ r.step = "retain"
    BY <1>3, RunGoesOn DEF Steps
  <2>2. running' = [running EXCEPT ![w] = r]
    BY <1>2 DEF Saving!GoTo
  <2> QED BY <2>1, <2>2
<1>6. logs' \in Seq(Entries)
  BY <1>1, <1>4, LogsGrow DEF FilesInv
<1>7. FilesTyped'
  BY <1>2, <1>5, <1>6 DEF FilesInv, FilesTyped
<1>8. Written'
  BY <1>2, <1>5 DEF FilesInv, FilesTyped, Written, Saving!At
<1>9. Saving!KeptBackupsExist'
  <2> SUFFICES ASSUME NEW k \in Saving!Newest' PROVE files'[logs'[k].path] # None
    BY DEF Saving!KeptBackupsExist
  <2>1. CASE k = Len(logs) + 1 /\ status = "success"
    <3>1. Saving!At(w, "log success")
      BY <1>1, <2>1
    <3>2. logs'[k] = entry
      BY <1>1, <1>4, <2>1, LogsGrow DEF FilesInv
    <3>3. logs'[k].path = running[w].path
      BY <3>2
    <3> QED BY <1>2, <3>1, <3>3 DEF FilesInv, Written
  <2>2. CASE k \in Saving!Newest
    <3>1. k \in DOMAIN logs
      BY <2>2 DEF Saving!Newest, Saving!Successes
    <3>2. logs'[k] = logs[k]
      BY <1>1, <1>4, <3>1, LogsGrow DEF FilesInv
    <3> QED BY <1>2, <2>2, <3>2 DEF FilesInv, Saving!KeptBackupsExist
  <2> QED BY <1>1, <1>4, <2>1, <2>2, NewestWereNewest DEF FilesInv
<1> QED BY <1>7, <1>8, <1>9 DEF FilesInv

LEMMA FilesRetain ==
    ASSUME KeepingSensible, Serial, FilesInv, NEW w \in Workers, Saving!Retain(w) \/ Saving!Crash(w)
    PROVE  FilesInv'
<1>1. logs' = logs /\ second' = second /\ running' = [running EXCEPT ![w] = None]
  BY DEF Saving!Retain, Saving!Crash
<1>2. \A s \in Saving!Seconds : s \notin Saving!Dropped => files'[s] = files[s]
  BY DEF Saving!Retain, Saving!Crash
<1>3. files' = [s \in Saving!Seconds |-> files'[s]]
  BY DEF Saving!Retain, Saving!Crash, FilesInv, FilesTyped
<1>4. FilesTyped'
  BY <1>1, <1>3 DEF FilesInv, FilesTyped
<1>5. Written'
  BY <1>1, <1>4 DEF FilesInv, FilesTyped, Written, Saving!At, Serial
<1>6. Saving!KeptBackupsExist'
  <2>1. \A k \in Saving!Newest : logs[k].path \in Saving!Seconds \ Saving!Dropped
    BY EntriesNameFiles
       DEF Saving!Newest, Saving!Successes, Saving!Dropped, Saving!PathsOf, FilesInv
  <2> QED BY <1>1, <1>2, <2>1, NewestStay DEF FilesInv, Saving!KeptBackupsExist
<1> QED BY <1>4, <1>5, <1>6 DEF FilesInv

LEMMA FilesRest ==
    ASSUME KeepingSensible, FilesInv,
           \/ \E p \in Purchases : Saving!EditPurchase(p)
           \/ Saving!NextSecond \/ Saving!NextDay \/ UNCHANGED Saving!vars
    PROVE  FilesInv'
<1>1. logs' = logs /\ files' = files /\ running' = running
  BY DEF Saving!EditPurchase, Saving!NextSecond, Saving!NextDay, Saving!vars
<1>2. second' \in Saving!Seconds
  BY DEF Saving!EditPurchase, Saving!NextSecond, Saving!NextDay, Saving!vars,
         Saving!Seconds, FilesInv, FilesTyped, KeepingSensible
<1>3. FilesTyped' /\ Written'
  BY <1>1, <1>2 DEF FilesInv, FilesTyped, Written, Saving!At
<1>4. Saving!KeptBackupsExist'
  BY <1>1, NewestStay DEF FilesInv, Saving!KeptBackupsExist
<1> QED BY <1>3, <1>4 DEF FilesInv

(* The file of each of the newest successful entries is on disk, whatever    *)
(* runs failed, stopped half-way or shared a second: one run at a time, for  *)
(* any number of entries kept.                                               *)
THEOREM NewestBackupsExist ==
    KeepingSensible /\ Serial => (Saving!Spec => []Saving!KeptBackupsExist)
<1> SUFFICES ASSUME KeepingSensible, Serial PROVE Saving!Spec => []Saving!KeptBackupsExist
  OBVIOUS
<1>1. Saving!Init => FilesInv
  BY FilesInit
<1>2. FilesInv /\ [Saving!Next]_(Saving!vars) => FilesInv'
  BY FilesRead, FilesWrite, FilesLog, FilesRetain, FilesRest DEF Saving!Next
<1>3. FilesInv => Saving!KeptBackupsExist
  BY DEF FilesInv
<1> QED BY <1>1, <1>2, <1>3, PTL DEF Saving!Spec
=============================================================================
