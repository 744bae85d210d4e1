-------------------------- MODULE PurchaseReceipt --------------------------
(***************************************************************************)
(* What the delivery workflow promises about the stock of one purchase: it *)
(* is taken in at most once, and what was taken in leaves again at most    *)
(* once and as a whole.                                                    *)
(***************************************************************************)
EXTENDS Integers

VARIABLES
    held,      \* how much of the item's stock comes from this purchase
    received   \* whether the purchase was ever taken into stock

receipt == <<held, received>>

Init == held = 0 /\ received = FALSE

Receive ==
    /\ ~received
    /\ received' = TRUE
    /\ held' \in Nat \ {0}

Reverse ==
    /\ held > 0
    /\ held' = 0
    /\ UNCHANGED received

Next == Receive \/ Reverse

Spec == Init /\ [][Next]_receipt
=============================================================================
