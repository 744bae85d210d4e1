----------------------------- MODULE StockBook -----------------------------
(***************************************************************************)
(* What the stock service promises: stock moves only by entries posted to  *)
(* an append-only book, one transaction at a time.  An entry starts from   *)
(* the stock it finds, says by how much it changes it, never takes it      *)
(* below zero, and advances the item's version by one.                     *)
(***************************************************************************)
EXTENDS Integers, Sequences

CONSTANTS Items, OpeningQty

VARIABLES stock, version, ledger

book == <<stock, version, ledger>>

Init ==
    /\ stock = [i \in Items |-> OpeningQty]
    /\ version = [i \in Items |-> 0]
    /\ ledger = [i \in Items |-> <<>>]

(* Entry e is posted to item i. *)
Post(i, e) ==
    /\ ledger'[i] = Append(ledger[i], e)
    /\ e.before = stock[i]
    /\ e.after = e.before + e.delta
    /\ e.after >= 0
    /\ stock'[i] = e.after
    /\ version'[i] = version[i] + 1

Untouched(i) ==
    /\ ledger'[i] = ledger[i]
    /\ stock'[i] = stock[i]
    /\ version'[i] = version[i]

(* One transaction posts to some of the items, at once. *)
Next ==
    /\ DOMAIN stock' = Items /\ DOMAIN version' = Items /\ DOMAIN ledger' = Items
    /\ \A i \in Items :
          \/ Untouched(i)
          \/ ledger'[i] # <<>> /\ Post(i, ledger'[i][Len(ledger'[i])])

Spec == Init /\ [][Next]_book

(* The stock of an item after the first n entries of its book. *)
After(i, n) == IF n = 0 THEN OpeningQty ELSE ledger[i][n].after

(* Every entry starts where the one before it ended, the stock is where the  *)
(* last one ended, and the version counts them: no posted change is lost.    *)
Chained ==
    \A i \in Items :
        /\ \A n \in 1..Len(ledger[i]) : ledger[i][n].before = After(i, n - 1)
        /\ stock[i] = After(i, Len(ledger[i]))
        /\ version[i] = Len(ledger[i])
=============================================================================
