--------------------------- MODULE MCStockLedger ---------------------------
(* Instances of StockLedger small enough for TLC. *)
EXTENDS StockLedger, TLC

Everything == AllHandlers
LockFirst == {"physical_update", "quick_purchase"}
Deliveries == {"delivery_receive", "delivery_revoke"}
OneCorrection == {<<"correction", FALSE>>}
Unforced == {"correction", "physical_count"} \X {FALSE}
DeviceEdits == {"patch_stock"}
Symmetry == Permutations(Reqs) \union Permutations(Items)
=============================================================================
