----------------------------- MODULE ItemCodes -----------------------------
(* The codes and barcodes of catalog items: handlers that look for another    *)
(* item with the text and then write it, the next ITM number, the unique      *)
(* index over barcodes of live items, and what a scan of a label finds when   *)
(* its answer is not cached.  Requests overlap between their read and their   *)
(* write; an insert or update of a handler is one step with its commit.       *)
EXTENDS FiniteSets, FiniteSetsExt, Naturals

CONSTANTS
    None,
    Items, Workers,
    Words,              \* codes people type that are no ITM numbers
    MaxNumber,          \* bound on ITM numbers, the typed ones included
    MaxRequests

VARIABLES
    catalog,            \* None, or [code, barcode, live]
    call,               \* what each worker has read and is about to write
    asked
vars == <<catalog, call, asked>>

(* A text: an ITM number, or 0 and a word; in capitals or not.                *)
Text(number, word, caps) == [number |-> number, word |-> word, caps |-> caps]
Typed == {Text(n, None, caps) : n \in 1..(MaxNumber - 1), caps \in BOOLEAN}
         \union {Text(0, x, caps) : x \in Words, caps \in BOOLEAN}
Upper(text) == [text EXCEPT !.caps = TRUE]

Row(code, barcode) == [code |-> code, barcode |-> barcode, live |-> TRUE]
Present == {i \in Items : catalog[i] # None}
Live == {i \in Present : catalog[i].live}

(* Only live items count for what must be unique; codes in any case.          *)
BarcodeUsed(text, except) == \E i \in Live \ except : catalog[i].barcode = text
CodeUsed(text, except) ==
    \E i \in Live \ except : catalog[i].code # None /\ Upper(catalog[i].code) = Upper(text)

(* LIKE 'ITM-%' tells case apart; archived items' numbers count.              *)
Numbered == {i \in Present : catalog[i].code # None /\ catalog[i].code.caps}
NextCodeOfLive ==
    Text(Max({0} \union {catalog[i].code.number : i \in Numbered \intersect Live}) + 1, None, TRUE)
NextCode == Text(Max({0} \union {catalog[i].code.number : i \in Numbered}) + 1, None, TRUE)

(* The partial unique index over the barcodes of live items.                  *)
IndexRefusesNothing(i, row) == FALSE
IndexRefuses(i, row) == row.barcode # None /\ row.live /\ BarcodeUsed(row.barcode, {i})

-----------------------------------------------------------------------------
Ask(w, op, i, row) ==
    /\ call[w] = None /\ asked < MaxRequests
    /\ call' = [call EXCEPT ![w] = [op |-> op, item |-> i, row |-> row]]
    /\ asked' = asked + 1
    /\ UNCHANGED catalog

(* A new item takes what was typed, unchecked; without a code the next ITM    *)
(* number, and without a barcode its code.                                    *)
Create(w, i) ==
    /\ i \notin Present
    /\ \E typed, scanned \in Typed \union {None} :
           LET code == IF typed = None THEN NextCode ELSE typed IN
           Ask(w, IF typed = None THEN "next" ELSE "create", i,
               Row(code, IF scanned = None THEN code ELSE scanned))

CreateBatch(w, i) == i \notin Present /\ Ask(w, "create", i, Row(None, None))

CreateFromScan(w, i) ==
    /\ i \notin Present
    /\ \E code, barcode \in Typed :
           /\ code.caps
           /\ ~ BarcodeUsed(barcode, {}) /\ ~ CodeUsed(code, {})
           /\ Ask(w, "scan", i, Row(code, barcode))

GenerateCode(w, i) ==
    /\ i \in Present /\ catalog[i].code = None
    /\ Ask(w, "generate", i, NextCode)

PatchCode(w, i) ==
    /\ i \in Live
    /\ \E text \in Typed : /\ text.caps /\ ~ CodeUsed(text, {i})
                           /\ Ask(w, "code", i, text)

PatchBarcode(w, i) ==
    /\ i \in Live
    /\ \E text \in Typed : ~ BarcodeUsed(text, {i}) /\ Ask(w, "barcode", i, text)

(* The general update of an item takes any code, and none.                    *)
Update(w, i) ==
    /\ i \in Present
    /\ \E text \in Typed \union {None} : Ask(w, "update", i, text)

Archive(w, i) == i \in Live /\ Ask(w, "archive", i, None)
Delete(w, i) == i \in Present /\ Ask(w, "delete", i, None)

(* What the write makes of the row as it is by then; a handler writes only    *)
(* the columns it sets.                                                       *)
Inserts == {"next", "create", "scan"}
Written(c) ==
    LET row == catalog[c.item] IN
    CASE c.op \in Inserts -> c.row
      [] c.op \in {"generate", "code", "update"} -> [row EXCEPT !.code = c.row]
      [] c.op = "barcode" -> [row EXCEPT !.barcode = c.row]
      [] c.op = "archive" -> [row EXCEPT !.live = FALSE]
      [] c.op = "delete" -> None

(* An update of a row that is gone, and an entry the index has, fail.         *)
Fails(c) ==
    IF c.op \in Inserts THEN catalog[c.item] # None \/ IndexRefuses(c.item, c.row)
    ELSE \/ catalog[c.item] = None
         \/ c.op = "barcode" /\ IndexRefuses(c.item, Written(c))

Write(w) ==
    LET c == call[w] IN
    /\ c # None
    /\ catalog' = IF Fails(c) THEN catalog ELSE [catalog EXCEPT ![c.item] = Written(c)]
    /\ call' = [call EXCEPT ![w] = None]
    /\ UNCHANGED asked

-----------------------------------------------------------------------------
(* A scan at the counter: the barcode, then the code; two matches are refused *)
(* as ambiguous.  The public page takes the barcode only.                     *)
ByBarcode(text) == {i \in Live : catalog[i].barcode = text}
ByCode(text) == {i \in Live : catalog[i].code = text}
Only(found) == IF Cardinality(found) = 1 THEN CHOOSE i \in found : TRUE ELSE None
Lookup(text) == Only(IF ByBarcode(text) # {} THEN ByBarcode(text) ELSE ByCode(text))
PublicLookup(text) == Only(ByBarcode(text))
Label(i) == IF catalog[i].barcode # None THEN catalog[i].barcode ELSE catalog[i].code

-----------------------------------------------------------------------------
Init ==
    /\ catalog = [i \in Items |-> None]
    /\ call = [w \in Workers |-> None]
    /\ asked = 0

Next ==
    \E w \in Workers :
        \/ \E i \in Items :
              \/ Create(w, i) \/ CreateBatch(w, i) \/ CreateFromScan(w, i)
              \/ GenerateCode(w, i) \/ PatchCode(w, i) \/ PatchBarcode(w, i)
              \/ Update(w, i) \/ Archive(w, i) \/ Delete(w, i)
        \/ Write(w)

Spec == Init /\ [][Next]_vars

(* The shape of the items.                                                    *)
TypeOK ==
    /\ \A i \in Present : catalog[i].live \in BOOLEAN
    /\ \A w \in Workers : call[w] # None => call[w].item \in Items
    /\ asked \in 0..MaxRequests

(* When nothing else is written meanwhile, a number the program hands out was *)
(* not any other item's code before, not even an archived item's, whatever    *)
(* codes were typed, patched, cleared and generated.                          *)
HandedOut(c) ==
    IF c.op = "next" THEN {c.row.code} ELSE IF c.op = "generate" THEN {c.row} ELSE {}
CodesAreFresh ==
    \A w \in Workers : call[w] # None =>
        \A j \in Present \ {call[w].item} : catalog[j].code \notin HandedOut(call[w])

(* Whatever overlapped, the label of an item with a barcode of its own finds  *)
(* that item, at the counter and on the public page, and no other's code      *)
(* hides it.                                                                  *)
LabelsFindTheirItem ==
    \A i \in Live : catalog[i].barcode # None =>
        Lookup(Label(i)) = i /\ PublicLookup(Label(i)) = i
=============================================================================
