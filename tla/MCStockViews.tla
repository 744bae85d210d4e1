---------------------------- MODULE MCStockViews ----------------------------
(* What the stock pages say of one item and one purchase.                     *)
EXTENDS StockViews

FiveKg == [i \in Items |-> 5]
=============================================================================
