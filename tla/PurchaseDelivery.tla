-------------------------- MODULE PurchaseDelivery --------------------------
(***************************************************************************)
(* The life of one trade purchase and of the stock it brings               *)
(* (backend/app/services/trade_purchase_service.py with the purchase part  *)
(* of stock_inventory.py).  Every handler loads the purchase and its line  *)
(* into its ORM session without locking them, decides on that copy, and    *)
(* commits later; the UPDATE carries only the columns it changed in its    *)
(* copy, so other requests' changes to the other columns survive.          *)
(*                                                                         *)
(* The purchase has one line of one catalog item, counted in the item's    *)
(* stock unit.  A movement of that item takes the current stock here; what *)
(* concurrent movements do to one item is the subject of StockLedger.      *)
(* "active" stands for confirmed, "draft" for saved too, "partially_paid"  *)
(* for overdue and due_soon too.                                           *)
(***************************************************************************)
EXTENDS Integers

CONSTANTS
    Workers,        \* requests that may be open at once
    Handlers,       \* the handlers in use, a subset of AllHandlers
    Ordered,        \* quantities a line may order
    Counted,        \* quantities the staff may count on arrival
    OpeningQty,     \* stock of the item when the purchase is created
    MaxUsed,        \* bound: how much of the stock is used up meanwhile
    MaxRequests,    \* bound: how many requests are made
    StartStatuses,  \* statuses of the purchase when the model starts
    NoCount,        \* received_qty is NULL
    NotLoaded       \* a worker's session holds nothing

AllHandlers == {"dispatch", "arrive", "verify", "commit", "patch_delivery", "cancel",
                "delete", "update", "lifecycle", "pay"}

ASSUME HandlersAssumption == Handlers \subseteq AllHandlers
ASSUME QuantitiesAssumption ==
    /\ Ordered \subseteq Nat \ {0} /\ Counted \subseteq Nat /\ NoCount \notin Nat
    /\ OpeningQty \in Nat /\ MaxUsed \in Nat /\ MaxRequests \in Nat

Early == {"draft", "active", "approved", "ordered", "supplier_confirmed"}
PaymentStatuses == {"paid", "partially_paid"}
Gone == {"cancelled", "deleted"}
Statuses == Early \union PaymentStatuses \union Gone \union
            {"in_transit", "arrived", "verification_pending", "verified",
             "added_to_stock", "completed"}
(* _PURCHASE_LIFECYCLE_ALLOWED: a status may be followed by some others, and *)
(* one that is not settled may be cancelled.                                 *)
Transitions ==
    {<<"draft", "active">>, <<"draft", "approved">>,
     <<"active", "approved">>, <<"active", "ordered">>,
     <<"approved", "ordered">>, <<"ordered", "supplier_confirmed">>,
     <<"supplier_confirmed", "in_transit">>, <<"in_transit", "arrived">>,
     <<"arrived", "verification_pending">>, <<"arrived", "verified">>,
     <<"verification_pending", "verified">>, <<"verified", "added_to_stock">>,
     <<"added_to_stock", "completed">>}
Cancellable == Early \union {"in_transit", "arrived", "verification_pending", "verified",
                             "added_to_stock"}
Allowed(status) == {to \in Statuses : \/ <<status, to>> \in Transitions
                                      \/ status \in Cancellable /\ to = "cancelled"}
DeliveryStatuses == {"pending", "dispatched", "in_transit", "arrived", "staff_verifying",
                     "staff_verified", "partial", "stock_committed", "cancelled"}
ArriveFrom == {"pending", "dispatched", "in_transit"}
VerifyFrom == {"arrived", "staff_verifying"}
CommitFrom == {"staff_verified", "partial"}

ASSUME StartAssumption == StartStatuses \subseteq Early

VARIABLES
    row,       \* the committed trade_purchases row
    line,      \* its committed line; every edit replaces it by a new one
    stock,     \* catalog_items.current_stock, committed
    used,      \* stock used up by other movements since the start
    moved,     \* idempotency keys of the purchase's committed movements
    pc,        \* the handler a worker runs, and how far it is
    seen,      \* the row and line in a worker's session
    applied,   \* what a worker found on purchase_delivery_stock_already_applied
    requests   \* how many requests were made

vars == <<row, line, stock, used, moved, pc, seen, applied, requests>>

Purchase == [status : Statuses, dstat : DeliveryStatuses, delivered : BOOLEAN,
             committed : Nat, verified : Nat]
Line == [id : Nat, qty : Ordered, recv : Nat \union {NoCount}]
Copy == [row : Purchase, line : Line]

(* trade_purchase:{id}, revert:trade_purchase:{id}, adjust:..:{id}:{delta} *)
ReceiveKey == <<"receive", 0>>
RevertKey == <<"revert", 0>>
AdjustKey(delta) == <<"adjust", delta>>

(* How much of the stock comes from this purchase. *)
Held == stock + used - OpeningQty

(* line_qty_for_stock_commit: what the staff counted, if they did. *)
StockQty(l) == IF l.recv = NoCount THEN l.qty ELSE l.recv

Init ==
    /\ row \in [status : StartStatuses, dstat : {"pending"}, delivered : {FALSE},
                committed : {0}, verified : {0}]
    /\ line \in [id : {0}, qty : Ordered, recv : {NoCount}]
    /\ stock = OpeningQty
    /\ used = 0
    /\ moved = {}
    /\ pc = [w \in Workers |-> "idle"]
    /\ seen = [w \in Workers |-> NotLoaded]
    /\ applied = [w \in Workers |-> FALSE]
    /\ requests = 0

-----------------------------------------------------------------------------
(* How a request reads, writes and ends.                                     *)

(* A request arrives and loads the purchase. *)
Load(w) ==
    /\ pc[w] = "idle"
    /\ requests < MaxRequests
    /\ \E h \in Handlers : pc' = [pc EXCEPT ![w] = h]
    /\ seen' = [seen EXCEPT ![w] = [row |-> row, line |-> line]]
    /\ requests' = requests + 1
    /\ UNCHANGED <<row, line, stock, used, moved, applied>>

(* update and delete ask later whether stock was ever received; update holds *)
(* the tp_update lock from then on.                                          *)
AlreadyApplied == ReceiveKey \in moved
ReadApplied(w) ==
    /\ \/ pc[w] = "delete"
       \/ pc[w] = "update" /\ \A v \in Workers : pc[v] # "update_locked"
    /\ pc' = [pc EXCEPT ![w] = IF @ = "update" THEN "update_locked" ELSE "delete_checked"]
    /\ applied' = [applied EXCEPT ![w] = AlreadyApplied]
    /\ UNCHANGED <<row, line, stock, used, moved, seen, requests>>

(* The session ends. *)
End(w) ==
    /\ pc' = [pc EXCEPT ![w] = "idle"]
    /\ seen' = [seen EXCEPT ![w] = NotLoaded]
    /\ applied' = [applied EXCEPT ![w] = FALSE]
    /\ UNCHANGED <<used, requests>>

(* A guard refuses the request, or it fails before its commit: all it wrote  *)
(* is rolled back.                                                           *)
Refuse(w) ==
    /\ pc[w] # "idle"
    /\ End(w)
    /\ UNCHANGED <<row, line, stock, moved>>

(* UPDATE with the columns the session changed in its copy. *)
WriteWholeRow(old, new) == row' = new    \* mutation: every column is written
Write(old, new) ==
    row' = [c \in DOMAIN row |-> IF new[c] = old[c] THEN row[c] ELSE new[c]]

(* A movement under key k, unless the key was used before. *)
MoveBelowZero(k, delta) ==               \* mutation: the sign is not checked
    /\ stock' = IF k \in moved THEN stock ELSE stock + delta
    /\ moved' = moved \union {k}
MoveAgain(k, delta) ==                   \* mutation: the key is not looked up
    /\ stock + delta >= 0
    /\ stock' = stock + delta
    /\ moved' = moved \union {k}
Move(k, delta) ==
    IF k \in moved
    THEN UNCHANGED <<stock, moved>>
    ELSE /\ stock + delta >= 0
         /\ stock' = stock + delta
         /\ moved' = moved \union {k}

(* revert_confirmed_purchase_stock, with the quantity of the session's line. *)
Revert(l) ==
    IF StockQty(l) > 0 THEN Move(RevertKey, -StockQty(l)) ELSE UNCHANGED <<stock, moved>>

-----------------------------------------------------------------------------
(* The warehouse steps.                                                      *)

Dispatch(w) ==
    LET old == seen[w].row
    IN  /\ pc[w] = "dispatch"
        /\ old.status \notin Gone
        /\ old.dstat = "pending"
        /\ \E to \in {"dispatched", "in_transit"} : Write(old, [old EXCEPT !.dstat = to])
        /\ End(w)
        /\ UNCHANGED <<line, stock, moved>>

Arrive(w) ==
    LET old == seen[w].row
    IN  /\ pc[w] = "arrive"
        /\ old.status \notin Gone
        /\ old.dstat \in ArriveFrom
        /\ Write(old, [old EXCEPT !.dstat = "arrived"])
        /\ End(w)
        /\ UNCHANGED <<line, stock, moved>>

(* The count is written to the line the session loaded: if an edit replaced  *)
(* it meanwhile, the UPDATE meets no row and the request fails.  A form with *)
(* no lines counts nothing.  After a full count the same session goes on to  *)
(* commit the delivery, on its own copy.                                     *)
Verify(w) ==
    \E count \in Counted \union {NoCount} :
        LET old == seen[w].row
            own == seen[w].line
            short == count # NoCount /\ count < own.qty
            counted == IF count = NoCount THEN own ELSE [own EXCEPT !.recv = count]
            new == [old EXCEPT
                      !.dstat = IF short THEN "partial" ELSE "staff_verified",
                      !.status = IF short THEN "verification_pending" ELSE "verified",
                      !.verified = IF count = NoCount THEN 0 ELSE count]
        IN  /\ pc[w] = "verify"
            /\ old.status \notin Gone
            /\ old.dstat \in VerifyFrom
            /\ counted = own \/ line.id = own.id
            /\ line' = IF counted = own THEN line ELSE counted
            /\ Write(old, new)
            /\ seen' = [seen EXCEPT ![w] =
                           IF short THEN NotLoaded ELSE [row |-> new, line |-> counted]]
            /\ pc' = [pc EXCEPT ![w] = IF short THEN "idle" ELSE "commit"]
            /\ UNCHANGED <<stock, used, moved, applied, requests>>

(* The commit flow, under the tp_commit lock.  It is also the lifecycle's    *)
(* way to added_to_stock.                                                    *)
ToStock(w) ==
    \/ pc[w] = "commit"
    \/ pc[w] = "lifecycle" /\ "added_to_stock" \in Allowed(seen[w].row.status)

Committable(w) ==
    /\ ToStock(w)
    /\ seen[w].row.status \notin Gone
    /\ seen[w].row.dstat \in CommitFrom

ReceivedRow(old, qty) ==
    [old EXCEPT !.dstat = "stock_committed",
                !.status = IF @ = "completed" THEN "completed" ELSE "added_to_stock",
                !.delivered = TRUE,
                !.committed = qty]

CommitDelivery(w) ==
    LET qty == StockQty(seen[w].line)
    IN  /\ Committable(w)
        /\ ~AlreadyApplied
        /\ qty > 0
        /\ Move(ReceiveKey, qty)
        /\ Write(seen[w].row, ReceivedRow(seen[w].row, qty))
        /\ End(w)
        /\ UNCHANGED line

(* Stock was received before, or the session's copy says so: the request is  *)
(* answered 200 and the row left as it is, except that the lifecycle sets    *)
(* its status.                                                               *)
AnswersUnchanged(w) ==
    /\ ToStock(w)
    /\ seen[w].row.status \notin Gone
    /\ \/ seen[w].row.dstat = "stock_committed"
       \/ seen[w].row.dstat \in CommitFrom /\ AlreadyApplied
AfterUnchangedReceived(w) ==             \* mutation: the row is marked received again
    Write(seen[w].row, ReceivedRow(seen[w].row, StockQty(seen[w].line)))
AfterUnchanged(w) ==
    IF pc[w] = "lifecycle"
    THEN Write(seen[w].row, [seen[w].row EXCEPT !.status = "added_to_stock"])
    ELSE UNCHANGED row
AnswerCommitted(w) ==
    /\ AnswersUnchanged(w)
    /\ AfterUnchanged(w)
    /\ End(w)
    /\ UNCHANGED <<line, stock, moved>>

-----------------------------------------------------------------------------
(* Going back, closing and editing.                                          *)

(* PATCH delivery with is_delivered=false, with notes or without.            *)
PatchDelivery(w) ==
    LET old == seen[w].row
    IN  /\ pc[w] = "patch_delivery"
        /\ old.status \notin Gone
        /\ old.delivered => old.dstat = "stock_committed"
        /\ Write(old, [old EXCEPT !.delivered = FALSE, !.dstat = "pending",
                                  !.committed = 0, !.verified = 0])
        /\ IF old.delivered THEN Revert(seen[w].line) ELSE UNCHANGED <<stock, moved>>
        /\ End(w)
        /\ UNCHANGED line

TakenIn(old) == old.delivered \/ old.dstat = "stock_committed"
Close(old, status) ==
    Write(old, [old EXCEPT !.status = status, !.delivered = FALSE, !.dstat = "cancelled"])

Cancel(w) ==
    LET old == seen[w].row
    IN  /\ pc[w] = "cancel"
        /\ old.status # "deleted"
        /\ Close(old, "cancelled")
        /\ IF TakenIn(old) THEN Revert(seen[w].line) ELSE UNCHANGED <<stock, moved>>
        /\ End(w)
        /\ UNCHANGED line

(* The soft delete also reverses when any stock was ever received. *)
Delete(w) ==
    LET old == seen[w].row
    IN  /\ pc[w] = "delete_checked"
        /\ old.status # "deleted"
        /\ Close(old, "deleted")
        /\ IF TakenIn(old) \/ applied[w]
           THEN Revert(seen[w].line)
           ELSE UNCHANGED <<stock, moved>>
        /\ End(w)
        /\ UNCHANGED line

(* The line that replaces own: the count is kept, or follows the new         *)
(* quantity, only if stock was received.                                     *)
NewLine(own, qty, wasApplied) ==
    [id |-> line.id + 1,
     qty |-> qty,
     recv |-> IF ~wasApplied THEN NoCount
              ELSE IF qty # own.qty THEN qty
              ELSE IF own.recv \in {NoCount, 0} THEN NoCount ELSE own.recv]

(* PUT: the line is deleted and written anew, and stock follows the          *)
(* difference if the purchase was delivered or its stock ever received.      *)
Update(w) ==
    \E qty \in Ordered, status \in {"draft", "active"} :
        LET old == seen[w].row
            own == seen[w].line
            delta == StockQty(line') - StockQty(own)
        IN  /\ pc[w] = "update_locked"
            /\ old.status \notin Gone
            /\ old.dstat # "stock_committed"
            /\ Write(old, [old EXCEPT !.status = status])
            /\ line' = NewLine(own, qty, applied[w])
            /\ IF (old.delivered \/ applied[w]) /\ delta # 0
               THEN Move(AdjustKey(delta), delta)
               ELSE UNCHANGED <<stock, moved>>
            /\ End(w)

-----------------------------------------------------------------------------
(* Status changes that look at nothing but the status.                       *)

DeliveryOf(target, dstat) ==
    CASE target \in {"in_transit", "arrived"} -> target
      [] target = "verification_pending" -> "staff_verifying"
      [] target = "verified" -> "staff_verified"
      [] OTHER -> dstat

Lifecycle(w) ==
    LET old == seen[w].row
    IN  /\ pc[w] = "lifecycle"
        /\ \E target \in Allowed(old.status) \ {"added_to_stock"} :
              Write(old, [old EXCEPT !.status = target,
                                     !.dstat = DeliveryOf(target, @)])
        /\ End(w)
        /\ UNCHANGED <<line, stock, moved>>

(* mark-paid and PATCH payment store the status compute_status derives; a     *)
(* "draft" that is paid is a saved purchase.                                 *)
Pay(w) ==
    LET old == seen[w].row
        unpaid == IF old.status \in PaymentStatuses \union {"draft"}
                  THEN old.status
                  ELSE "active"
    IN  /\ pc[w] = "pay"
        /\ old.status \notin Gone
        /\ \E to \in PaymentStatuses \union {unpaid} :
              Write(old, [old EXCEPT !.status = to])
        /\ End(w)
        /\ UNCHANGED <<line, stock, moved>>

(* The item's stock is used up by movements of other sources. *)
UseStock ==
    /\ used < MaxUsed
    /\ stock > 0
    /\ stock' = stock - 1
    /\ used' = used + 1
    /\ UNCHANGED <<row, line, moved, pc, seen, applied, requests>>

Next ==
    \/ \E w \in Workers :
          \/ Load(w) \/ ReadApplied(w) \/ Refuse(w)
          \/ Dispatch(w) \/ Arrive(w) \/ Verify(w) \/ CommitDelivery(w)
          \/ AnswerCommitted(w) \/ PatchDelivery(w) \/ Cancel(w) \/ Delete(w)
          \/ Update(w) \/ Lifecycle(w) \/ Pay(w)
    \/ UseStock

Spec == Init /\ [][Next]_vars

-----------------------------------------------------------------------------
(* Properties.                                                               *)

(* Types of every variable. *)
TypeOK ==
    /\ row \in Purchase
    /\ line \in Line
    /\ stock \in Nat
    /\ used \in 0..MaxUsed
    /\ moved \subseteq ({"receive", "revert", "adjust"} \X Int)
    /\ pc \in [Workers -> {"idle", "update_locked", "delete_checked"} \union AllHandlers]
    /\ seen \in [Workers -> Copy \union {NotLoaded}]
    /\ applied \in [Workers -> BOOLEAN]
    /\ requests \in 0..MaxRequests

(* A purchase shown as stock_committed holds exactly the quantity it shows   *)
(* as committed: no request marks it committed without its stock, and none   *)
(* that moves its stock afterwards leaves the mark                           *)
(* (trade_purchase_service.py:1496 "This purchase has already been committed *)
(* to stock. Revert delivery first to make edits.").                         *)
CommittedIsInStock ==
    row.dstat = "stock_committed" => row.committed > 0 /\ Held = row.committed

(* When nobody edits or deletes it and the staff's counts agree, a purchase  *)
(* is delivered exactly when its stock is in, however arrivals, counts,      *)
(* commits, reversals, cancellations and status changes overlap.             *)
DeliveredHoldsStock == row.delivered <=> Held > 0

(* ... and its stock is taken in at most once, and leaves at most once and   *)
(* as a whole.                                                               *)
Receipt == INSTANCE PurchaseReceipt WITH held <- Held, received <- AlreadyApplied
ImplementsReceipt == Receipt!Spec

(* A cancelled purchase holds no stock (tests/test_purchase_stock_reversal:  *)
(* "Delivered purchase stock must revert when delivery is revoked or         *)
(* cancelled").                                                              *)
CancelledHoldsNoStock == row.status = "cancelled" => Held = 0

(* A commit answered with success leaves the purchase's stock in.            *)
CommitAddsStock ==
    [][\A w \in Workers :
          pc[w] = "commit" /\ (CommitDelivery(w) \/ AnswerCommitted(w)) => Held' > 0]_vars
=============================================================================
