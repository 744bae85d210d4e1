------------------------- MODULE MCPurchaseDelivery -------------------------
(* Instances of PurchaseDelivery small enough for TLC. *)
EXTENDS PurchaseDelivery, TLC

Everything == AllHandlers
Warehouse == {"arrive", "verify", "commit"}
Revoking == Warehouse \union {"patch_delivery"}
Cancelling == Warehouse \union {"lifecycle"}
Editing == Warehouse \union {"update"}
Symmetry == Permutations(Workers)

(* Edits and deletions overlap nothing: what they do to a purchase that other *)
(* requests work on is the run purchase_edit_race.                            *)
EditsAlone ==
    \A w, v \in Workers :
        pc[w] \in {"update", "update_locked", "delete", "delete_checked"} /\ v # w
            => pc[v] = "idle"
=============================================================================
