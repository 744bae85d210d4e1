----------------------- MODULE PurchaseDelivery_proofs -----------------------
(***************************************************************************)
(* Theorems about PurchaseDelivery, for any number of workers, requests    *)
(* and quantities.                                                         *)
(***************************************************************************)
EXTENDS PurchaseDelivery, TLAPS

(* An open request holds a copy of the purchase. *)
TypeInv ==
    /\ TypeOK
    /\ \A w \in Workers : pc[w] # "idle" => seen[w] \in Copy

LEMMA AllowedType == ASSUME NEW s PROVE Allowed(s) \subseteq Statuses
BY DEF Allowed

LEMMA WriteType ==
    ASSUME NEW old \in Purchase, NEW new \in Purchase, row \in Purchase, Write(old, new)
    PROVE  /\ row' \in Purchase
           /\ row'.status = IF new.status = old.status THEN row.status ELSE new.status
           /\ row'.dstat = IF new.dstat = old.dstat THEN row.dstat ELSE new.dstat
           /\ row'.delivered =
                 IF new.delivered = old.delivered THEN row.delivered ELSE new.delivered
           /\ row'.committed =
                 IF new.committed = old.committed THEN row.committed ELSE new.committed
BY DEF Write, Purchase

LEMMA StockQtyType == ASSUME NEW l \in Line PROVE StockQty(l) \in Nat
BY QuantitiesAssumption DEF StockQty, Line

LEMMA MoveType ==
    ASSUME NEW k \in {"receive", "revert", "adjust"} \X Int, NEW d \in Int,
           stock \in Nat, moved \subseteq ({"receive", "revert", "adjust"} \X Int),
           Move(k, d)
    PROVE  stock' \in Nat /\ moved' \subseteq ({"receive", "revert", "adjust"} \X Int)
BY DEF Move

LEMMA RevertType ==
    ASSUME NEW l \in Line, TypeOK, Revert(l)
    PROVE  stock' \in Nat /\ moved' \subseteq ({"receive", "revert", "adjust"} \X Int)
<1>1. StockQty(l) \in Nat /\ -StockQty(l) \in Int
  BY StockQtyType
<1>2. RevertKey \in {"receive", "revert", "adjust"} \X Int
  BY DEF RevertKey
<1>3. CASE StockQty(l) > 0
  BY <1>1, <1>2, <1>3, MoveType DEF Revert, TypeOK
<1>4. CASE ~(StockQty(l) > 0)
  BY <1>4 DEF Revert, TypeOK
<1> QED BY <1>3, <1>4

LEMMA TypeInit == Init => TypeInv
<1> SUFFICES ASSUME Init PROVE TypeInv
  OBVIOUS
<1>1. row \in Purchase
  <2>1. "pending" \in DeliveryStatuses /\ StartStatuses \subseteq Statuses /\ 0 \in Nat
    BY StartAssumption DEF DeliveryStatuses, Statuses
  <2> QED BY <2>1 DEF Init, Purchase
<1>2. line \in Line
  <2>1. 0 \in Nat
    OBVIOUS
  <2> QED BY <2>1 DEF Init, Line
<1>3. stock \in Nat /\ used \in 0..MaxUsed /\ requests \in 0..MaxRequests /\ moved = {}
  BY QuantitiesAssumption DEF Init
<1>4. /\ pc \in [Workers -> {"idle", "update_locked", "delete_checked"} \union AllHandlers]
      /\ seen \in [Workers -> Copy \union {NotLoaded}]
      /\ applied \in [Workers -> BOOLEAN]
      /\ \A w \in Workers : pc[w] = "idle"
  BY DEF Init
<1> QED BY <1>1, <1>2, <1>3, <1>4 DEF TypeInv, TypeOK

(* Ending a session keeps the types of what it touches. *)
LEMMA EndType ==
    ASSUME NEW w \in Workers, TypeInv, End(w), row' \in Purchase, line' \in Line,
           stock' \in Nat, moved' \subseteq ({"receive", "revert", "adjust"} \X Int)
    PROVE  TypeInv'
BY DEF End, TypeInv, TypeOK

LEMMA TypeNext == TypeInv /\ [Next]_vars => TypeInv'
<1> SUFFICES ASSUME TypeInv, [Next]_vars PROVE TypeInv'
  OBVIOUS
<1> USE DEF DeliveryStatuses
<1>1. ASSUME NEW w \in Workers, Load(w) PROVE TypeInv'
  <2>1. PICK h \in AllHandlers : pc' = [pc EXCEPT ![w] = h]
    BY <1>1, HandlersAssumption DEF Load
  <2>2. [row |-> row, line |-> line] \in Copy
    BY DEF Copy, TypeInv, TypeOK
  <2>3. /\ seen' = [seen EXCEPT ![w] = [row |-> row, line |-> line]]
        /\ requests' \in 0..MaxRequests
        /\ UNCHANGED <<row, line, stock, used, moved, applied>>
    BY <1>1, QuantitiesAssumption DEF Load, TypeInv, TypeOK
  <2>4. /\ pc' \in [Workers -> {"idle", "update_locked", "delete_checked"} \union AllHandlers]
        /\ seen' \in [Workers -> Copy \union {NotLoaded}]
        /\ \A v \in Workers : pc'[v] # "idle" => seen'[v] \in Copy
    BY <2>1, <2>2, <2>3 DEF TypeInv, TypeOK
  <2> QED BY <2>3, <2>4 DEF TypeInv, TypeOK
<1>2. ASSUME NEW w \in Workers, ReadApplied(w) PROVE TypeInv'
  BY <1>2 DEF ReadApplied, AlreadyApplied, TypeInv, TypeOK
<1>3. ASSUME NEW w \in Workers, Refuse(w) PROVE TypeInv'
  BY <1>3, EndType DEF Refuse, TypeInv, TypeOK
<1>4. ASSUME NEW w \in Workers, pc[w] # "idle"
      PROVE  seen[w].row \in Purchase /\ seen[w].line \in Line
  BY <1>4 DEF TypeInv, Copy
<1>5. ASSUME NEW w \in Workers, Dispatch(w) PROVE TypeInv'
  <2>1. PICK to \in {"dispatched", "in_transit"} :
           Write(seen[w].row, [seen[w].row EXCEPT !.dstat = to])
    BY <1>5 DEF Dispatch
  <2>2. seen[w].row \in Purchase /\ [seen[w].row EXCEPT !.dstat = to] \in Purchase
    BY <1>4, <1>5 DEF Dispatch, Purchase
  <2>3. row' \in Purchase
    BY <2>1, <2>2, WriteType DEF TypeInv, TypeOK
  <2> QED BY <1>5, <2>3, EndType DEF Dispatch, TypeInv, TypeOK
<1>6. ASSUME NEW w \in Workers, Arrive(w) PROVE TypeInv'
  <2>1. seen[w].row \in Purchase /\ [seen[w].row EXCEPT !.dstat = "arrived"] \in Purchase
    BY <1>4, <1>6 DEF Arrive, Purchase
  <2>2. row' \in Purchase
    BY <1>6, <2>1, WriteType DEF Arrive, TypeInv, TypeOK
  <2> QED BY <1>6, <2>2, EndType DEF Arrive, TypeInv, TypeOK
<1>7. ASSUME NEW w \in Workers, Verify(w) PROVE TypeInv'
  <2> DEFINE old == seen[w].row
             own == seen[w].line
  <2>1. PICK count \in Counted \union {NoCount} :
           LET short == count # NoCount /\ count < own.qty
               counted == IF count = NoCount THEN own ELSE [own EXCEPT !.recv = count]
               new == [old EXCEPT
                         !.dstat = IF short THEN "partial" ELSE "staff_verified",
                         !.status = IF short THEN "verification_pending" ELSE "verified",
                         !.verified = IF count = NoCount THEN 0 ELSE count]
           IN  /\ line' = IF counted = own THEN line ELSE counted
               /\ Write(old, new)
               /\ seen' = [seen EXCEPT ![w] =
                              IF short THEN NotLoaded ELSE [row |-> new, line |-> counted]]
               /\ pc' = [pc EXCEPT ![w] = IF short THEN "idle" ELSE "commit"]
    BY <1>7 DEF Verify
  <2> DEFINE short == count # NoCount /\ count < own.qty
             counted == IF count = NoCount THEN own ELSE [own EXCEPT !.recv = count]
             new == [old EXCEPT
                       !.dstat = IF short THEN "partial" ELSE "staff_verified",
                       !.status = IF short THEN "verification_pending" ELSE "verified",
                       !.verified = IF count = NoCount THEN 0 ELSE count]
  <2>2. old \in Purchase /\ own \in Line
    BY <1>4, <1>7 DEF Verify
  <2>3. count = NoCount \/ count \in Nat
    BY QuantitiesAssumption
  <2>4. new \in Purchase /\ counted \in Line
    BY <2>2, <2>3 DEF Purchase, Line, Statuses
  <2>5. row' \in Purchase
    BY <2>1, <2>2, <2>4, WriteType DEF TypeInv, TypeOK
  <2>6. line' \in Line
    BY <2>1, <2>4 DEF TypeInv, TypeOK
  <2>7. [row |-> new, line |-> counted] \in Copy
    BY <2>4 DEF Copy
  <2>8. UNCHANGED <<stock, used, moved, applied, requests>>
    BY <1>7 DEF Verify
  <2>9. /\ pc' \in [Workers -> {"idle", "update_locked", "delete_checked"} \union AllHandlers]
        /\ seen' \in [Workers -> Copy \union {NotLoaded}]
        /\ \A v \in Workers : pc'[v] # "idle" => seen'[v] \in Copy
    BY <2>1, <2>7 DEF TypeInv, TypeOK, AllHandlers
  <2> QED BY <2>5, <2>6, <2>8, <2>9 DEF TypeInv, TypeOK
<1>8. ASSUME NEW w \in Workers, CommitDelivery(w) PROVE TypeInv'
  <2> DEFINE qty == StockQty(seen[w].line)
  <2>1. pc[w] # "idle"
    BY <1>8 DEF CommitDelivery, Committable, ToStock
  <2>2. qty \in Nat
    BY <1>4, <2>1, StockQtyType
  <2>3. ReceivedRow(seen[w].row, qty) \in Purchase
    BY <1>4, <2>1, <2>2 DEF ReceivedRow, Purchase, Statuses
  <2>4. row' \in Purchase
    BY <1>4, <1>8, <2>1, <2>3, WriteType DEF CommitDelivery, TypeInv, TypeOK
  <2>5. ReceiveKey \in {"receive", "revert", "adjust"} \X Int
    BY DEF ReceiveKey
  <2>6. stock' \in Nat /\ moved' \subseteq ({"receive", "revert", "adjust"} \X Int)
    BY <1>8, <2>2, <2>5, MoveType DEF CommitDelivery, TypeInv, TypeOK
  <2> QED BY <1>8, <2>4, <2>6, EndType DEF CommitDelivery, TypeInv, TypeOK
<1>9. ASSUME NEW w \in Workers, AnswerCommitted(w) PROVE TypeInv'
  <2>1. pc[w] # "idle"
    BY <1>9 DEF AnswerCommitted, AnswersUnchanged, ToStock
  <2>2. [seen[w].row EXCEPT !.status = "added_to_stock"] \in Purchase
    BY <1>4, <2>1 DEF Purchase, Statuses
  <2>3. row' \in Purchase
    BY <1>4, <1>9, <2>1, <2>2, WriteType DEF AnswerCommitted, AfterUnchanged, TypeInv, TypeOK
  <2> QED BY <1>9, <2>3, EndType DEF AnswerCommitted, TypeInv, TypeOK
<1>10. ASSUME NEW w \in Workers, PatchDelivery(w) PROVE TypeInv'
  <2>1. pc[w] # "idle"
    BY <1>10 DEF PatchDelivery
  <2>2. [seen[w].row EXCEPT !.delivered = FALSE, !.dstat = "pending",
                            !.committed = 0, !.verified = 0] \in Purchase
    BY <1>4, <2>1 DEF Purchase
  <2>3. row' \in Purchase
    BY <1>4, <1>10, <2>1, <2>2, WriteType DEF PatchDelivery, TypeInv, TypeOK
  <2>4. stock' \in Nat /\ moved' \subseteq ({"receive", "revert", "adjust"} \X Int)
    BY <1>4, <1>10, <2>1, RevertType DEF PatchDelivery, TypeInv, TypeOK
  <2> QED BY <1>10, <2>3, <2>4, EndType DEF PatchDelivery, TypeInv, TypeOK
<1>11. ASSUME NEW w \in Workers, NEW status \in Gone, pc[w] # "idle",
              Close(seen[w].row, status)
       PROVE  row' \in Purchase
  <2>1. [seen[w].row EXCEPT !.status = status, !.delivered = FALSE,
                            !.dstat = "cancelled"] \in Purchase
    BY <1>4, <1>11 DEF Purchase, Statuses
  <2> QED BY <1>4, <1>11, <2>1, WriteType DEF Close, TypeInv, TypeOK
<1>12. ASSUME NEW w \in Workers, Cancel(w) PROVE TypeInv'
  <2>1. row' \in Purchase
    BY <1>11, <1>12 DEF Cancel, Gone
  <2>2. stock' \in Nat /\ moved' \subseteq ({"receive", "revert", "adjust"} \X Int)
    BY <1>4, <1>12, RevertType DEF Cancel, TypeInv, TypeOK
  <2> QED BY <1>12, <2>1, <2>2, EndType DEF Cancel, TypeInv, TypeOK
<1>13. ASSUME NEW w \in Workers, Delete(w) PROVE TypeInv'
  <2>1. row' \in Purchase
    BY <1>11, <1>13 DEF Delete, Gone
  <2>2. stock' \in Nat /\ moved' \subseteq ({"receive", "revert", "adjust"} \X Int)
    BY <1>4, <1>13, RevertType DEF Delete, TypeInv, TypeOK
  <2> QED BY <1>13, <2>1, <2>2, EndType DEF Delete, TypeInv, TypeOK
<1>14. ASSUME NEW w \in Workers, Update(w) PROVE TypeInv'
  <2> DEFINE own == seen[w].line
             delta == StockQty(line') - StockQty(own)
  <2>1. PICK qty \in Ordered, status \in {"draft", "active"} :
           /\ Write(seen[w].row, [seen[w].row EXCEPT !.status = status])
           /\ line' = NewLine(own, qty, applied[w])
           /\ IF (seen[w].row.delivered \/ applied[w]) /\ delta # 0
              THEN Move(AdjustKey(delta), delta)
              ELSE UNCHANGED <<stock, moved>>
    BY <1>14 DEF Update
  <2>2. pc[w] # "idle" /\ own \in Line
    BY <1>4, <1>14 DEF Update
  <2>3. [seen[w].row EXCEPT !.status = status] \in Purchase
    BY <1>4, <2>2 DEF Purchase, Statuses, Early
  <2>4. row' \in Purchase
    BY <1>4, <2>1, <2>2, <2>3, WriteType DEF TypeInv, TypeOK
  <2>5. line' \in Line
    BY <2>1, <2>2, QuantitiesAssumption DEF NewLine, Line, TypeInv, TypeOK
  <2>6. delta \in Int
    BY <2>2, <2>5, StockQtyType
  <2>7. AdjustKey(delta) \in {"receive", "revert", "adjust"} \X Int
    BY <2>6 DEF AdjustKey
  <2>8. stock' \in Nat /\ moved' \subseteq ({"receive", "revert", "adjust"} \X Int)
    BY <2>1, <2>6, <2>7, MoveType DEF TypeInv, TypeOK
  <2> QED BY <1>14, <2>4, <2>5, <2>8, EndType DEF Update
<1>15. ASSUME NEW w \in Workers, Lifecycle(w) PROVE TypeInv'
  <2>1. PICK target \in Allowed(seen[w].row.status) :
           Write(seen[w].row, [seen[w].row EXCEPT !.status = target,
                                                  !.dstat = DeliveryOf(target, @)])
    BY <1>15 DEF Lifecycle
  <2>2. pc[w] # "idle" /\ target \in Statuses
    BY <1>15, AllowedType DEF Lifecycle
  <2>3. [seen[w].row EXCEPT !.status = target, !.dstat = DeliveryOf(target, @)] \in Purchase
    BY <1>4, <2>2 DEF Purchase, DeliveryOf
  <2>4. row' \in Purchase
    BY <1>4, <2>1, <2>2, <2>3, WriteType DEF TypeInv, TypeOK
  <2> QED BY <1>15, <2>4, EndType DEF Lifecycle, TypeInv, TypeOK
<1>16. ASSUME NEW w \in Workers, Pay(w) PROVE TypeInv'
  <2>1. PICK to \in PaymentStatuses \union {"active", "draft"} :
           Write(seen[w].row, [seen[w].row EXCEPT !.status = to])
    BY <1>16 DEF Pay, PaymentStatuses
  <2>2. pc[w] # "idle" /\ [seen[w].row EXCEPT !.status = to] \in Purchase
    BY <1>4, <1>16 DEF Pay, Purchase, Statuses, Early
  <2>3. row' \in Purchase
    BY <1>4, <2>1, <2>2, WriteType DEF TypeInv, TypeOK
  <2> QED BY <1>16, <2>3, EndType DEF Pay, TypeInv, TypeOK
<1>17. CASE UseStock
  BY <1>17, QuantitiesAssumption DEF UseStock, TypeInv, TypeOK
<1>18. CASE UNCHANGED vars
  BY <1>18 DEF vars, TypeInv, TypeOK
<1> QED BY <1>1, <1>2, <1>3, <1>5, <1>6, <1>7, <1>8, <1>9, <1>10, <1>12, <1>13, <1>14,
           <1>15, <1>16, <1>17, <1>18 DEF Next

(* Every reachable state is well typed: no sequence of receptions,            *)
(* reversals and edits takes the stock below zero.                            *)
THEOREM TypeCorrect == Spec => []TypeOK
<1>1. Spec => []TypeInv
  BY TypeInit, TypeNext, PTL DEF Spec
<1> QED BY <1>1, PTL DEF TypeInv

-----------------------------------------------------------------------------
(* The committed mark, as long as no request edits or deletes the purchase.  *)

KeepsLine == Handlers \cap {"update", "delete"} = {}

(* A row that shows the stock was received before it was read. *)
Evidence(r) == r.committed # 0 \/ r.delivered \/ r.dstat = "stock_committed"

(* A copy with such evidence, in use while the purchase is marked committed,  *)
(* carries the mark itself: who wants to take the stock out on its account   *)
(* changes the delivery status in its copy, and so writes it.                *)
StockInv ==
    /\ \A w \in Workers : pc[w] \notin {"update", "update_locked", "delete", "delete_checked"}
    /\ ~AlreadyApplied => ~Evidence(row) /\ Held = 0
    /\ \A w \in Workers : pc[w] # "idle" /\ Evidence(seen[w].row) => AlreadyApplied
    /\ CommittedIsInStock
    /\ row.dstat = "stock_committed" =>
          \A w \in Workers : pc[w] # "idle" /\ Evidence(seen[w].row)
                               => seen[w].row.dstat = "stock_committed"

LEMMA StockInit == Init => StockInv
<1> SUFFICES ASSUME Init PROVE StockInv
  OBVIOUS
<1>1. row.dstat = "pending" /\ row.delivered = FALSE /\ row.committed = 0
  BY DEF Init
<1>2. \A w \in Workers : pc[w] = "idle"
  BY DEF Init
<1>3. Held = 0
  BY QuantitiesAssumption DEF Init, Held
<1> QED BY <1>1, <1>2, <1>3 DEF StockInv, CommittedIsInStock, Evidence

(* A request that leaves stock, keys and the row's evidence alone, and sets   *)
(* no mark, keeps the invariant.                                             *)
LEMMA QuietStep ==
    ASSUME NEW w \in Workers, TypeInv, StockInv, End(w), UNCHANGED <<stock, moved>>,
           row'.dstat = "stock_committed" => row.dstat = "stock_committed",
           row'.committed = row.committed, row'.delivered = row.delivered
    PROVE  StockInv'
BY DEF End, StockInv, CommittedIsInStock, AlreadyApplied, Evidence, Held, TypeInv, TypeOK

(* A request that takes the purchase out of the delivered ones, and its stock *)
(* out on account of the evidence in its copy, keeps it too.                 *)
LEMMA ReversalStep ==
    ASSUME NEW w \in Workers, TypeInv, StockInv, pc[w] # "idle", End(w),
           NEW new \in Purchase, Write(seen[w].row, new),
           ~new.delivered, new.dstat \in {"pending", "cancelled"},
           new.committed \in {0, seen[w].row.committed},
           \/ UNCHANGED <<stock, moved>>
           \/ Evidence(seen[w].row) /\ Revert(seen[w].line)
    PROVE  StockInv'
<1> DEFINE old == seen[w].row
<1>1. old \in Purchase /\ row \in Purchase /\ seen[w].line \in Line
  BY DEF TypeInv, TypeOK, Copy
<1>2. /\ row'.dstat = IF new.dstat = old.dstat THEN row.dstat ELSE new.dstat
      /\ row'.delivered = IF new.delivered = old.delivered THEN row.delivered ELSE new.delivered
      /\ row'.committed = IF new.committed = old.committed THEN row.committed ELSE new.committed
  BY <1>1, WriteType
<1>3. AlreadyApplied => AlreadyApplied'
  BY DEF Revert, Move, AlreadyApplied
<1>4. ~Evidence(old) => UNCHANGED <<stock, moved>>
  OBVIOUS
<1>5. UNCHANGED used /\ \A v \in Workers : pc'[v] # "idle" => pc'[v] = pc[v] /\ seen'[v] = seen[v]
  BY DEF End, TypeInv, TypeOK
<1>6. CASE Evidence(old)
  <2>1. AlreadyApplied'
    BY <1>3, <1>6 DEF StockInv
  <2>2. row'.dstat # "stock_committed"
    BY <1>2, <1>6 DEF StockInv
  <2> QED BY <2>1, <2>2, <1>5 DEF StockInv, CommittedIsInStock
<1>7. CASE ~Evidence(old)
  <2>1. UNCHANGED <<stock, moved>>
    BY <1>4, <1>7
  <2>2. /\ row'.committed = row.committed
        /\ row'.delivered = row.delivered
        /\ row'.dstat = "stock_committed" => row.dstat = "stock_committed"
    BY <1>1, <1>2, <1>7 DEF Evidence, Purchase
  <2> QED BY <2>1, <2>2, QuietStep
<1> QED BY <1>6, <1>7

LEMMA StockNext == KeepsLine /\ TypeInv /\ StockInv /\ [Next]_vars => StockInv'
<1> SUFFICES ASSUME KeepsLine, TypeInv, StockInv, [Next]_vars PROVE StockInv'
  OBVIOUS
<1>1. ASSUME NEW w \in Workers, Load(w) PROVE StockInv'
  <2>1. PICK h \in Handlers : pc' = [pc EXCEPT ![w] = h]
    BY <1>1 DEF Load
  <2>2. h \notin {"update", "update_locked", "delete", "delete_checked"}
    BY HandlersAssumption DEF KeepsLine, AllHandlers
  <2>3. UNCHANGED <<row, stock, used, moved>>
    BY <1>1 DEF Load
  <2>4. \A v \in Workers : \/ pc'[v] = pc[v] /\ seen'[v] = seen[v]
                           \/ pc'[v] = h /\ seen'[v].row = row
    BY <1>1, <2>1 DEF Load, TypeInv, TypeOK
  <2> QED
    BY <2>2, <2>3, <2>4 DEF StockInv, CommittedIsInStock, AlreadyApplied, Evidence, Held
<1>2. ASSUME NEW w \in Workers, pc[w] # "idle"
      PROVE  seen[w].row \in Purchase /\ seen[w].line \in Line /\ row \in Purchase
  BY <1>2 DEF TypeInv, TypeOK, Copy
<1>3. ASSUME NEW w \in Workers, Refuse(w) PROVE StockInv'
  BY <1>3, QuietStep DEF Refuse
<1>4. ASSUME NEW w \in Workers, Dispatch(w) PROVE StockInv'
  <2>1. PICK to \in {"dispatched", "in_transit"} :
           Write(seen[w].row, [seen[w].row EXCEPT !.dstat = to])
    BY <1>4 DEF Dispatch
  <2>2. seen[w].row \in Purchase /\ row \in Purchase
    BY <1>2, <1>4 DEF Dispatch
  <2>3. [seen[w].row EXCEPT !.dstat = to] \in Purchase
    BY <2>2 DEF Purchase, DeliveryStatuses
  <2>4. /\ row'.dstat = "stock_committed" => row.dstat = "stock_committed"
        /\ row'.committed = row.committed /\ row'.delivered = row.delivered
    BY <2>1, <2>2, <2>3, WriteType DEF Purchase
  <2> QED BY <1>4, <2>4, QuietStep DEF Dispatch
<1>5. ASSUME NEW w \in Workers, Arrive(w) PROVE StockInv'
  <2>1. seen[w].row \in Purchase /\ row \in Purchase
    BY <1>2, <1>5 DEF Arrive
  <2>2. [seen[w].row EXCEPT !.dstat = "arrived"] \in Purchase
    BY <2>1 DEF Purchase, DeliveryStatuses
  <2>3. /\ row'.dstat = "stock_committed" => row.dstat = "stock_committed"
        /\ row'.committed = row.committed /\ row'.delivered = row.delivered
    BY <1>5, <2>1, <2>2, WriteType DEF Arrive, Purchase
  <2> QED BY <1>5, <2>3, QuietStep DEF Arrive
<1>6. ASSUME NEW w \in Workers, Verify(w) PROVE StockInv'
  <2> DEFINE old == seen[w].row
  <2>1. PICK new : /\ new \in Purchase
                   /\ Write(old, new)
                   /\ new.dstat \in {"partial", "staff_verified"}
                   /\ new.committed = old.committed /\ new.delivered = old.delivered
                   /\ \A v \in Workers :
                         pc'[v] # "idle" => \/ pc'[v] = pc[v] /\ seen'[v] = seen[v]
                                            \/ v = w /\ pc'[v] = "commit" /\ seen'[v].row = new
    <3>1. PICK count \in Counted \union {NoCount} :
             LET own == seen[w].line
                 short == count # NoCount /\ count < own.qty
                 counted == IF count = NoCount THEN own ELSE [own EXCEPT !.recv = count]
                 new == [old EXCEPT
                           !.dstat = IF short THEN "partial" ELSE "staff_verified",
                           !.status = IF short THEN "verification_pending" ELSE "verified",
                           !.verified = IF count = NoCount THEN 0 ELSE count]
             IN  /\ Write(old, new)
                 /\ seen' = [seen EXCEPT ![w] =
                                IF short THEN NotLoaded ELSE [row |-> new, line |-> counted]]
                 /\ pc' = [pc EXCEPT ![w] = IF short THEN "idle" ELSE "commit"]
      BY <1>6 DEF Verify
    <3> DEFINE own == seen[w].line
               short == count # NoCount /\ count < own.qty
               counted == IF count = NoCount THEN own ELSE [own EXCEPT !.recv = count]
               nrow == [old EXCEPT
                          !.dstat = IF short THEN "partial" ELSE "staff_verified",
                          !.status = IF short THEN "verification_pending" ELSE "verified",
                          !.verified = IF count = NoCount THEN 0 ELSE count]
    <3>2. old \in Purchase
      BY <1>2, <1>6 DEF Verify
    <3>3. count = NoCount \/ count \in Nat
      BY QuantitiesAssumption
    <3>4. /\ nrow \in Purchase /\ nrow.dstat \in {"partial", "staff_verified"}
          /\ nrow.committed = old.committed /\ nrow.delivered = old.delivered
      BY <3>2, <3>3 DEF Purchase, Statuses, DeliveryStatuses
    <3>5. \A v \in Workers :
             pc'[v] # "idle" => \/ pc'[v] = pc[v] /\ seen'[v] = seen[v]
                                \/ v = w /\ pc'[v] = "commit" /\ seen'[v].row = nrow
      BY <3>1 DEF TypeInv, TypeOK
    <3>6. Write(old, nrow)
      BY <3>1
    <3> HIDE DEF nrow
    <3> QED BY <3>4, <3>5, <3>6
  <2>2. old \in Purchase /\ row \in Purchase /\ pc[w] # "idle" /\ old.dstat \in VerifyFrom
    BY <1>2, <1>6 DEF Verify
  <2>3. /\ row'.dstat = "stock_committed" => row.dstat = "stock_committed"
        /\ row'.committed = row.committed /\ row'.delivered = row.delivered
    BY <2>1, <2>2, WriteType
  <2>4. Evidence(new) => Evidence(old) /\ old.dstat # "stock_committed"
    BY <2>1, <2>2 DEF Evidence, VerifyFrom
  <2>5. UNCHANGED <<stock, used, moved>>
    BY <1>6 DEF Verify
  <2> QED
    BY <2>1, <2>2, <2>3, <2>4, <2>5
    DEF StockInv, CommittedIsInStock, AlreadyApplied, Evidence, Held
<1>7. ASSUME NEW w \in Workers, CommitDelivery(w) PROVE StockInv'
  <2> DEFINE old == seen[w].row
             qty == StockQty(seen[w].line)
  <2>1. pc[w] # "idle" /\ old.dstat \in CommitFrom /\ ~AlreadyApplied /\ qty > 0
    BY <1>7 DEF CommitDelivery, Committable, ToStock
  <2>2. old \in Purchase /\ row \in Purchase /\ qty \in Nat /\ ReceivedRow(old, qty) \in Purchase
    BY <1>2, <2>1, StockQtyType DEF ReceivedRow, Purchase, Statuses, DeliveryStatuses
  <2>3. Held = 0 /\ ~Evidence(old) /\ \A v \in Workers : pc[v] # "idle" => ~Evidence(seen[v].row)
    BY <2>1 DEF StockInv
  <2>4. Move(ReceiveKey, qty) /\ ReceiveKey \notin moved
    BY <1>7, <2>1 DEF CommitDelivery, AlreadyApplied
  <2>5. AlreadyApplied' /\ stock' = stock + qty
    BY <2>4 DEF Move, AlreadyApplied
  <2>6. row'.committed = qty
    <3>1. old.committed = 0
      BY <2>3 DEF Evidence
    <3>2. ReceivedRow(old, qty).committed = qty
      BY <2>2 DEF ReceivedRow, Purchase
    <3>3. Write(old, ReceivedRow(old, qty))
      BY <1>7 DEF CommitDelivery
    <3> QED BY <2>1, <2>2, <3>1, <3>2, <3>3, WriteType
  <2>7. UNCHANGED used /\ \A v \in Workers : pc'[v] # "idle" => pc'[v] = pc[v] /\ seen'[v] = seen[v]
    BY <1>7 DEF CommitDelivery, End, TypeInv, TypeOK
  <2>8. Held' = qty
    BY <2>2, <2>3, <2>5, <2>7, QuantitiesAssumption DEF Held, TypeInv, TypeOK
  <2> QED BY <2>1, <2>3, <2>5, <2>6, <2>7, <2>8 DEF StockInv, CommittedIsInStock
<1>8. ASSUME NEW w \in Workers, AnswerCommitted(w) PROVE StockInv'
  <2>1. pc[w] # "idle"
    BY <1>8 DEF AnswerCommitted, AnswersUnchanged, ToStock
  <2>2. seen[w].row \in Purchase /\ row \in Purchase
        /\ [seen[w].row EXCEPT !.status = "added_to_stock"] \in Purchase
    BY <1>2, <2>1 DEF Purchase, Statuses
  <2>3. row'.dstat = row.dstat /\ row'.committed = row.committed /\ row'.delivered = row.delivered
    BY <1>8, <2>2, WriteType DEF AnswerCommitted, AfterUnchanged, Purchase
  <2> QED BY <1>8, <2>3, QuietStep DEF AnswerCommitted
<1>9. ASSUME NEW w \in Workers, PatchDelivery(w) PROVE StockInv'
  <2> DEFINE new == [seen[w].row EXCEPT !.delivered = FALSE, !.dstat = "pending",
                                        !.committed = 0, !.verified = 0]
  <2>1. pc[w] # "idle" /\ seen[w].row \in Purchase
    BY <1>2, <1>9 DEF PatchDelivery
  <2>2. /\ new \in Purchase /\ ~new.delivered /\ new.dstat = "pending" /\ new.committed = 0
    BY <2>1 DEF Purchase, DeliveryStatuses
  <2>3. /\ Write(seen[w].row, new) /\ End(w)
        /\ \/ UNCHANGED <<stock, moved>>
           \/ Evidence(seen[w].row) /\ Revert(seen[w].line)
    BY <1>9 DEF PatchDelivery, Evidence
  <2> HIDE DEF new
  <2> QED BY <2>1, <2>2, <2>3, ReversalStep
<1>10. ASSUME NEW w \in Workers, Cancel(w) PROVE StockInv'
  <2> DEFINE new == [seen[w].row EXCEPT !.status = "cancelled", !.delivered = FALSE,
                                        !.dstat = "cancelled"]
  <2>1. pc[w] # "idle" /\ seen[w].row \in Purchase
    BY <1>2, <1>10 DEF Cancel
  <2>2. /\ new \in Purchase /\ ~new.delivered /\ new.dstat = "cancelled"
        /\ new.committed = seen[w].row.committed
    BY <2>1 DEF Purchase, DeliveryStatuses, Statuses, Gone
  <2>3. /\ Write(seen[w].row, new) /\ End(w)
        /\ \/ UNCHANGED <<stock, moved>>
           \/ Evidence(seen[w].row) /\ Revert(seen[w].line)
    BY <1>10 DEF Cancel, Close, Evidence, TakenIn
  <2> HIDE DEF new
  <2> QED BY <2>1, <2>2, <2>3, ReversalStep
<1>11. ASSUME NEW w \in Workers, Lifecycle(w) PROVE StockInv'
  <2>1. PICK target \in Allowed(seen[w].row.status) :
           Write(seen[w].row, [seen[w].row EXCEPT !.status = target,
                                                  !.dstat = DeliveryOf(target, @)])
    BY <1>11 DEF Lifecycle
  <2>2. seen[w].row \in Purchase /\ row \in Purchase /\ target \in Statuses
    BY <1>2, <1>11, AllowedType DEF Lifecycle
  <2>3. /\ DeliveryOf(target, seen[w].row.dstat) \in DeliveryStatuses
        /\ \/ DeliveryOf(target, seen[w].row.dstat) = seen[w].row.dstat
           \/ DeliveryOf(target, seen[w].row.dstat) # "stock_committed"
    BY <2>2 DEF DeliveryOf, DeliveryStatuses, Purchase
  <2>4. [seen[w].row EXCEPT !.status = target, !.dstat = DeliveryOf(target, @)] \in Purchase
    BY <2>2, <2>3 DEF Purchase
  <2>5. /\ row'.dstat = "stock_committed" => row.dstat = "stock_committed"
        /\ row'.committed = row.committed /\ row'.delivered = row.delivered
    <3> DEFINE nrow == [seen[w].row EXCEPT !.status = target, !.dstat = DeliveryOf(target, @)]
    <3>1. /\ nrow.dstat = DeliveryOf(target, seen[w].row.dstat)
          /\ nrow.committed = seen[w].row.committed
          /\ nrow.delivered = seen[w].row.delivered
      BY <2>2 DEF Purchase
    <3>2. nrow \in Purchase /\ Write(seen[w].row, nrow)
      BY <2>1, <2>4
    <3> HIDE DEF nrow
    <3> QED BY <2>2, <2>3, <3>1, <3>2, WriteType
  <2> QED BY <1>11, <2>5, QuietStep DEF Lifecycle
<1>12. ASSUME NEW w \in Workers, Pay(w) PROVE StockInv'
  <2>1. PICK to \in PaymentStatuses \union {"active", "draft"} :
           Write(seen[w].row, [seen[w].row EXCEPT !.status = to])
    BY <1>12 DEF Pay, PaymentStatuses
  <2>2. seen[w].row \in Purchase /\ row \in Purchase
        /\ [seen[w].row EXCEPT !.status = to] \in Purchase
    BY <1>2, <1>12 DEF Pay, Purchase, Statuses, Early
  <2>3. row'.dstat = row.dstat /\ row'.committed = row.committed /\ row'.delivered = row.delivered
    BY <2>1, <2>2, WriteType DEF Purchase
  <2> QED BY <1>12, <2>3, QuietStep DEF Pay
<1>13. ASSUME NEW w \in Workers PROVE ~ReadApplied(w) /\ ~Delete(w) /\ ~Update(w)
  BY DEF StockInv, ReadApplied, Delete, Update
<1>14. CASE UseStock
  <2>1. Held' = Held
    BY <1>14, QuantitiesAssumption DEF UseStock, Held, TypeInv, TypeOK
  <2> QED BY <1>14, <2>1 DEF UseStock, StockInv, CommittedIsInStock, AlreadyApplied
<1>15. CASE UNCHANGED vars
  BY <1>15 DEF vars, StockInv, CommittedIsInStock, AlreadyApplied, Held
<1> QED BY <1>1, <1>3, <1>4, <1>5, <1>6, <1>7, <1>8, <1>9, <1>10, <1>11, <1>12, <1>13,
           <1>14, <1>15 DEF Next

(* Without edits and deletions, no interleaving of any number of requests     *)
(* leaves a purchase marked committed whose stock is missing, doubled or of   *)
(* another quantity.                                                          *)
THEOREM CommittedHoldsStock == KeepsLine => (Spec => []CommittedIsInStock)
<1> SUFFICES ASSUME KeepsLine PROVE Spec => []CommittedIsInStock
  OBVIOUS
<1>1. TypeInv /\ StockInv /\ [Next]_vars => (TypeInv /\ StockInv)'
  BY TypeNext, StockNext
<1> QED BY <1>1, TypeInit, StockInit, PTL DEF Spec, StockInv

-----------------------------------------------------------------------------
(* Delivered and in stock, when nobody edits or deletes the purchase and the  *)
(* staff counts what was ordered.                                             *)

CountsAgree == \A o \in Ordered, c \in Counted : c = o

Reversed == RevertKey \in moved
InStock == AlreadyApplied /\ ~Reversed
SameLine(l) == l.qty = line.qty /\ StockQty(l) = line.qty

(* Every session moves the quantity of the one line there is; the two         *)
(* movements come in order, and tell what the purchase holds and whether it   *)
(* counts as delivered.  A copy marked committed is delivered, so that a      *)
(* cancellation that takes stock out also clears delivered.                   *)
DeliveryInv ==
    /\ SameLine(line)
    /\ \A w \in Workers : pc[w] # "idle" => SameLine(seen[w].line)
    /\ Reversed => AlreadyApplied
    /\ Held = IF InStock THEN line.qty ELSE 0
    /\ row.delivered <=> InStock
    /\ row.dstat = "stock_committed" => row.delivered
    /\ \A w \in Workers :
          pc[w] # "idle" /\ seen[w].row.dstat = "stock_committed" => seen[w].row.delivered

(* What a step does to the purchase's stock: the line stays, movements are    *)
(* never forgotten, and none is reversed in the step that makes it.           *)
StockSteps ==
    /\ line'.qty = line.qty
    /\ moved \subseteq moved'
    /\ ~AlreadyApplied => ~Reversed'

LEMMA OrderedType == ASSUME NEW q \in Ordered PROVE q \in Nat /\ q > 0
<1>1. q \in Nat /\ q # 0
  BY QuantitiesAssumption
<1> QED BY <1>1

LEMMA DeliveryInit == Init => DeliveryInv
<1> SUFFICES ASSUME Init PROVE DeliveryInv
  OBVIOUS
<1>1. row.dstat = "pending" /\ row.delivered = FALSE
  BY DEF Init
<1>2. /\ \A w \in Workers : pc[w] = "idle"
      /\ ~Reversed /\ ~AlreadyApplied
  BY DEF Init, Reversed, AlreadyApplied
<1>3. Held = 0
  BY QuantitiesAssumption DEF Init, Held
<1>4. SameLine(line)
  BY DEF Init, SameLine, StockQty
<1> QED BY <1>1, <1>2, <1>3, <1>4 DEF DeliveryInv, InStock

(* A request that ends without moving stock, changing delivered or setting    *)
(* the mark.                                                                  *)
LEMMA QuietDelivery ==
    ASSUME NEW w \in Workers, TypeInv, DeliveryInv, End(w),
           UNCHANGED <<line, stock, moved>>,
           row'.delivered = row.delivered,
           row'.dstat = "stock_committed" => row.dstat = "stock_committed"
    PROVE  DeliveryInv' /\ StockSteps
<1>1. /\ UNCHANGED used
      /\ \A v \in Workers : pc'[v] # "idle" => pc'[v] = pc[v] /\ seen'[v] = seen[v]
  BY DEF End, TypeInv, TypeOK
<1>2. Held' = Held /\ AlreadyApplied' = AlreadyApplied /\ Reversed' = Reversed
  BY <1>1 DEF Held, AlreadyApplied, Reversed
<1>3. \A l : SameLine(l)' = SameLine(l)
  BY DEF SameLine, StockQty
<1> QED BY <1>1, <1>2, <1>3 DEF DeliveryInv, InStock, SameLine, StockQty, StockSteps, Reversed

(* A request that clears delivered in its copy and reverses the stock if the  *)
(* copy was delivered.                                                        *)
LEMMA ReversalDelivery ==
    ASSUME NEW w \in Workers, TypeInv, StockInv, DeliveryInv, pc[w] # "idle", End(w),
           UNCHANGED line,
           NEW new \in Purchase, Write(seen[w].row, new),
           ~new.delivered, new.dstat \in {"pending", "cancelled"},
           IF seen[w].row.delivered THEN Revert(seen[w].line) ELSE UNCHANGED <<stock, moved>>
    PROVE  DeliveryInv' /\ StockSteps
<1> DEFINE old == seen[w].row
<1>1. old \in Purchase /\ row \in Purchase /\ seen[w].line \in Line /\ line \in Line
  BY DEF TypeInv, TypeOK, Copy
<1>2. /\ row'.dstat = IF new.dstat = old.dstat THEN row.dstat ELSE new.dstat
      /\ row'.delivered = IF new.delivered = old.delivered THEN row.delivered ELSE new.delivered
  BY <1>1, WriteType
<1>3. CASE ~old.delivered
  <2>1. row'.delivered = row.delivered
    BY <1>1, <1>2, <1>3 DEF Purchase
  <2>2. row'.dstat = "stock_committed" => row.dstat = "stock_committed"
    BY <1>2
  <2>3. UNCHANGED <<stock, moved>>
    BY <1>3
  <2> QED BY <2>1, <2>2, <2>3, QuietDelivery
<1>4. CASE old.delivered
  <2>1. AlreadyApplied
    BY <1>4 DEF StockInv, Evidence
  <2>2. ~row'.delivered
    BY <1>1, <1>2, <1>4 DEF Purchase
  <2>3. row'.dstat # "stock_committed"
    BY <1>2, <1>4 DEF StockInv, Evidence
  <2>4. StockQty(seen[w].line) = line.qty /\ line.qty \in Nat /\ line.qty > 0
    <3>1. StockQty(seen[w].line) = line.qty
      BY DEF DeliveryInv, SameLine
    <3>2. line.qty \in Ordered
      BY <1>1 DEF Line
    <3> QED BY <3>1, <3>2, OrderedType
  <2>5. Move(RevertKey, -line.qty)
    BY <1>4, <2>4 DEF Revert
  <2>6. moved' = moved \union {RevertKey} /\ Reversed' /\ AlreadyApplied'
    BY <2>1, <2>5 DEF Move, Reversed, AlreadyApplied
  <2>7. stock' = IF Reversed THEN stock ELSE stock - line.qty
    BY <2>4, <2>5 DEF Move, Reversed, TypeInv, TypeOK
  <2>8. /\ UNCHANGED used
        /\ \A v \in Workers : pc'[v] # "idle" => pc'[v] = pc[v] /\ seen'[v] = seen[v]
    BY DEF End, TypeInv, TypeOK
  <2>9. Held' = 0
    BY <2>1, <2>4, <2>7, <2>8, QuantitiesAssumption
    DEF DeliveryInv, InStock, Held, TypeInv, TypeOK
  <2>10. ~InStock'
    BY <2>6 DEF InStock
  <2> QED
    BY <2>1, <2>2, <2>3, <2>6, <2>8, <2>9, <2>10
    DEF DeliveryInv, SameLine, StockQty, StockSteps
<1> QED BY <1>3, <1>4

LEMMA DeliveryNext ==
    KeepsLine /\ CountsAgree /\ TypeInv /\ StockInv /\ DeliveryInv /\ [Next]_vars
        => DeliveryInv' /\ StockSteps
<1> SUFFICES ASSUME KeepsLine, CountsAgree, TypeInv, StockInv, DeliveryInv, [Next]_vars
             PROVE  DeliveryInv' /\ StockSteps
  OBVIOUS
<1>1. ASSUME NEW w \in Workers, pc[w] # "idle"
      PROVE  /\ seen[w].row \in Purchase /\ seen[w].line \in Line
             /\ row \in Purchase /\ line \in Line
  BY <1>1 DEF TypeInv, TypeOK, Copy
<1>2. ASSUME UNCHANGED <<row, line, moved>>, Held' = Held,
             \A v \in Workers : pc'[v] # "idle" =>
                \/ pc[v] # "idle" /\ seen'[v] = seen[v]
                \/ seen'[v] = [row |-> row, line |-> line]
      PROVE  DeliveryInv' /\ StockSteps
  BY <1>2
  DEF DeliveryInv, InStock, Reversed, AlreadyApplied, SameLine, StockQty, StockSteps
<1>3. ASSUME NEW w \in Workers, Load(w) PROVE DeliveryInv' /\ StockSteps
  <2>1. /\ UNCHANGED <<row, line, moved>> /\ Held' = Held
        /\ \A v \in Workers : pc'[v] # "idle" =>
                \/ pc[v] # "idle" /\ seen'[v] = seen[v]
                \/ seen'[v] = [row |-> row, line |-> line]
    BY <1>3 DEF Load, Held, TypeInv, TypeOK
  <2> QED BY <1>2, <2>1
<1>4. ASSUME NEW w \in Workers, Refuse(w) PROVE DeliveryInv' /\ StockSteps
  BY <1>4, QuietDelivery DEF Refuse
<1>5. ASSUME NEW w \in Workers, Dispatch(w) PROVE DeliveryInv' /\ StockSteps
  <2>1. PICK to \in {"dispatched", "in_transit"} :
           Write(seen[w].row, [seen[w].row EXCEPT !.dstat = to])
    BY <1>5 DEF Dispatch
  <2>2. seen[w].row \in Purchase /\ row \in Purchase
    BY <1>1, <1>5 DEF Dispatch
  <2>3. [seen[w].row EXCEPT !.dstat = to] \in Purchase
    BY <2>2 DEF Purchase, DeliveryStatuses
  <2>4. /\ row'.dstat = "stock_committed" => row.dstat = "stock_committed"
        /\ row'.delivered = row.delivered
    BY <2>1, <2>2, <2>3, WriteType DEF Purchase
  <2> QED BY <1>5, <2>4, QuietDelivery DEF Dispatch
<1>6. ASSUME NEW w \in Workers, Arrive(w) PROVE DeliveryInv' /\ StockSteps
  <2>1. seen[w].row \in Purchase /\ row \in Purchase
    BY <1>1, <1>6 DEF Arrive
  <2>2. [seen[w].row EXCEPT !.dstat = "arrived"] \in Purchase
    BY <2>1 DEF Purchase, DeliveryStatuses
  <2>3. /\ row'.dstat = "stock_committed" => row.dstat = "stock_committed"
        /\ row'.delivered = row.delivered
    BY <1>6, <2>1, <2>2, WriteType DEF Arrive, Purchase
  <2> QED BY <1>6, <2>3, QuietDelivery DEF Arrive
<1>7. ASSUME NEW w \in Workers, Verify(w) PROVE DeliveryInv' /\ StockSteps
  <2> DEFINE old == seen[w].row
             own == seen[w].line
  <2>1. PICK count \in Counted \union {NoCount} :
           LET short == count # NoCount /\ count < own.qty
               counted == IF count = NoCount THEN own ELSE [own EXCEPT !.recv = count]
               new == [old EXCEPT
                         !.dstat = IF short THEN "partial" ELSE "staff_verified",
                         !.status = IF short THEN "verification_pending" ELSE "verified",
                         !.verified = IF count = NoCount THEN 0 ELSE count]
           IN  /\ line' = IF counted = own THEN line ELSE counted
               /\ Write(old, new)
               /\ seen' = [seen EXCEPT ![w] =
                              IF short THEN NotLoaded ELSE [row |-> new, line |-> counted]]
               /\ pc' = [pc EXCEPT ![w] = IF short THEN "idle" ELSE "commit"]
    BY <1>7 DEF Verify
  <2> DEFINE counted == IF count = NoCount THEN own ELSE [own EXCEPT !.recv = count]
             short == count # NoCount /\ count < own.qty
             new == [old EXCEPT
                       !.dstat = IF short THEN "partial" ELSE "staff_verified",
                       !.status = IF short THEN "verification_pending" ELSE "verified",
                       !.verified = IF count = NoCount THEN 0 ELSE count]
  <2>2. /\ old \in Purchase /\ own \in Line /\ row \in Purchase /\ line \in Line
        /\ pc[w] # "idle" /\ old.dstat \in VerifyFrom
    BY <1>1, <1>7 DEF Verify
  <2>3. count = NoCount \/ (count \in Nat /\ count = own.qty)
    <3>1. own.qty \in Ordered
      BY <2>2 DEF Line
    <3> QED BY <3>1, OrderedType DEF CountsAgree
  <2>4. /\ new \in Purchase /\ new.dstat \in {"partial", "staff_verified"}
        /\ new.delivered = old.delivered
    BY <2>2, <2>3 DEF Purchase, Statuses, DeliveryStatuses
  <2>5. /\ row'.dstat = "stock_committed" => row.dstat = "stock_committed"
        /\ row'.delivered = row.delivered
    BY <2>1, <2>2, <2>4, WriteType, Zenon DEF VerifyFrom
  <2>6. SameLine(own) /\ SameLine(line)
    BY <2>2 DEF DeliveryInv
  <2>7. counted.qty = line.qty /\ StockQty(counted) = line.qty
    BY <2>2, <2>3, <2>6, QuantitiesAssumption DEF SameLine, StockQty, Line
  <2>8. line' \in {line, counted}
    BY <2>1
  <2>9. line'.qty = line.qty /\ StockQty(line') = line.qty
    BY <2>6, <2>7, <2>8 DEF SameLine
  <2>10. \A v \in Workers : pc'[v] # "idle" =>
            \/ pc[v] # "idle" /\ seen'[v] = seen[v]
            \/ seen'[v] = [row |-> new, line |-> counted]
    BY <2>1 DEF TypeInv, TypeOK
  <2>11. UNCHANGED <<stock, used, moved>>
    BY <1>7 DEF Verify
  <2>12. Held' = Held /\ AlreadyApplied' = AlreadyApplied /\ Reversed' = Reversed
    BY <2>11 DEF Held, AlreadyApplied, Reversed
  <2> HIDE DEF new, counted
  <2>13. \A v \in Workers : pc'[v] # "idle" =>
            seen'[v].line.qty = line.qty /\ StockQty(seen'[v].line) = line.qty
    BY <2>7, <2>10 DEF DeliveryInv, SameLine
  <2>14. \A v \in Workers : pc'[v] # "idle" /\ seen'[v].row.dstat = "stock_committed"
            => seen'[v].row.delivered
    BY <2>4, <2>10 DEF DeliveryInv
  <2>15. StockSteps
    BY <2>9, <2>11, <2>12 DEF StockSteps, DeliveryInv
  <2>16. /\ SameLine(line)'
         /\ \A v \in Workers : pc'[v] # "idle" => SameLine(seen[v].line)'
    BY <2>9, <2>13 DEF SameLine, StockQty
  <2> QED BY <2>5, <2>9, <2>12, <2>14, <2>15, <2>16 DEF DeliveryInv, InStock
<1>8. ASSUME NEW w \in Workers, CommitDelivery(w) PROVE DeliveryInv' /\ StockSteps
  <2> DEFINE old == seen[w].row
             new == ReceivedRow(old, StockQty(seen[w].line))
  <2>1. pc[w] # "idle" /\ old.dstat \in CommitFrom /\ ~AlreadyApplied
    BY <1>8 DEF CommitDelivery, Committable, ToStock
  <2>2. old \in Purchase /\ row \in Purchase /\ line \in Line /\ seen[w].line \in Line
    BY <1>1, <2>1
  <2>3. /\ new \in Purchase /\ new.delivered = TRUE /\ Write(old, new)
    BY <1>8, <2>2, StockQtyType
    DEF CommitDelivery, ReceivedRow, Purchase, Statuses, DeliveryStatuses
  <2>4. old.delivered = FALSE
    BY <2>1, <2>2 DEF StockInv, Evidence, Purchase
  <2>5. row'.delivered = TRUE
    BY <2>2, <2>3, <2>4, WriteType
  <2>6. StockQty(seen[w].line) = line.qty /\ line.qty \in Nat
    BY <2>1, <2>2, QuantitiesAssumption DEF DeliveryInv, SameLine, Line
  <2>7. stock' = stock + line.qty /\ moved' = moved \union {ReceiveKey}
    BY <1>8, <2>1, <2>6 DEF CommitDelivery, Move, AlreadyApplied
  <2>8. /\ UNCHANGED <<used, line>>
        /\ \A v \in Workers : pc'[v] # "idle" => pc'[v] = pc[v] /\ seen'[v] = seen[v]
    BY <1>8 DEF CommitDelivery, End, TypeInv, TypeOK
  <2>9. ~Reversed /\ Held = 0
    BY <2>1 DEF DeliveryInv, InStock
  <2>10. ~Reversed' /\ AlreadyApplied'
    BY <2>7, <2>9 DEF Reversed, AlreadyApplied, ReceiveKey, RevertKey
  <2>11. Held' = line.qty
    BY <2>6, <2>7, <2>8, <2>9, QuantitiesAssumption DEF Held, TypeInv, TypeOK
  <2>12. StockSteps
    BY <2>7, <2>8, <2>10 DEF StockSteps
  <2> HIDE DEF new
  <2> QED
    BY <2>5, <2>8, <2>10, <2>11, <2>12 DEF DeliveryInv, InStock, SameLine, StockQty
<1>9. ASSUME NEW w \in Workers, AnswerCommitted(w) PROVE DeliveryInv' /\ StockSteps
  <2>1. pc[w] # "idle"
    BY <1>9 DEF AnswerCommitted, AnswersUnchanged, ToStock
  <2>2. seen[w].row \in Purchase /\ row \in Purchase
        /\ [seen[w].row EXCEPT !.status = "added_to_stock"] \in Purchase
    BY <1>1, <2>1 DEF Purchase, Statuses
  <2>3. row'.dstat = row.dstat /\ row'.delivered = row.delivered
    BY <1>9, <2>2, WriteType DEF AnswerCommitted, AfterUnchanged, Purchase
  <2> QED BY <1>9, <2>3, QuietDelivery DEF AnswerCommitted
<1>10. ASSUME NEW w \in Workers, PatchDelivery(w) PROVE DeliveryInv' /\ StockSteps
  <2> DEFINE new == [seen[w].row EXCEPT !.delivered = FALSE, !.dstat = "pending",
                                        !.committed = 0, !.verified = 0]
  <2>1. pc[w] # "idle" /\ seen[w].row \in Purchase
    BY <1>1, <1>10 DEF PatchDelivery
  <2>2. new \in Purchase /\ ~new.delivered /\ new.dstat = "pending"
    BY <2>1 DEF Purchase, DeliveryStatuses
  <2>3. /\ Write(seen[w].row, new) /\ End(w) /\ UNCHANGED line
        /\ IF seen[w].row.delivered THEN Revert(seen[w].line) ELSE UNCHANGED <<stock, moved>>
    BY <1>10 DEF PatchDelivery
  <2> HIDE DEF new
  <2> QED BY <2>1, <2>2, <2>3, ReversalDelivery
<1>11. ASSUME NEW w \in Workers, Cancel(w) PROVE DeliveryInv' /\ StockSteps
  <2> DEFINE new == [seen[w].row EXCEPT !.status = "cancelled", !.delivered = FALSE,
                                        !.dstat = "cancelled"]
  <2>1. pc[w] # "idle" /\ seen[w].row \in Purchase
    BY <1>1, <1>11 DEF Cancel
  <2>2. new \in Purchase /\ ~new.delivered /\ new.dstat = "cancelled"
    BY <2>1 DEF Purchase, DeliveryStatuses, Statuses, Gone
  <2>3. TakenIn(seen[w].row) <=> seen[w].row.delivered
    BY <2>1 DEF DeliveryInv, TakenIn
  <2>4. /\ Write(seen[w].row, new) /\ End(w) /\ UNCHANGED line
        /\ IF seen[w].row.delivered THEN Revert(seen[w].line) ELSE UNCHANGED <<stock, moved>>
    BY <1>11, <2>3 DEF Cancel, Close
  <2> HIDE DEF new
  <2> QED BY <2>1, <2>2, <2>4, ReversalDelivery
<1>12. ASSUME NEW w \in Workers, Lifecycle(w) PROVE DeliveryInv' /\ StockSteps
  <2>1. PICK target \in Allowed(seen[w].row.status) :
           Write(seen[w].row, [seen[w].row EXCEPT !.status = target,
                                                  !.dstat = DeliveryOf(target, @)])
    BY <1>12 DEF Lifecycle
  <2> DEFINE nrow == [seen[w].row EXCEPT !.status = target, !.dstat = DeliveryOf(target, @)]
  <2>2. seen[w].row \in Purchase /\ row \in Purchase /\ target \in Statuses
    BY <1>1, <1>12, AllowedType DEF Lifecycle
  <2>3. /\ DeliveryOf(target, seen[w].row.dstat) \in DeliveryStatuses
        /\ \/ DeliveryOf(target, seen[w].row.dstat) = seen[w].row.dstat
           \/ DeliveryOf(target, seen[w].row.dstat) # "stock_committed"
    BY <2>2 DEF DeliveryOf, DeliveryStatuses, Purchase
  <2>4. nrow \in Purchase /\ Write(seen[w].row, nrow)
    BY <2>1, <2>2, <2>3 DEF Purchase
  <2>5. /\ nrow.dstat = DeliveryOf(target, seen[w].row.dstat)
        /\ nrow.delivered = seen[w].row.delivered
    BY <2>2 DEF Purchase
  <2> HIDE DEF nrow
  <2>6. /\ row'.dstat = "stock_committed" => row.dstat = "stock_committed"
        /\ row'.delivered = row.delivered
    BY <2>2, <2>3, <2>4, <2>5, WriteType
  <2> QED BY <1>12, <2>6, QuietDelivery DEF Lifecycle
<1>13. ASSUME NEW w \in Workers, Pay(w) PROVE DeliveryInv' /\ StockSteps
  <2>1. PICK to \in PaymentStatuses \union {"active", "draft"} :
           Write(seen[w].row, [seen[w].row EXCEPT !.status = to])
    BY <1>13 DEF Pay, PaymentStatuses
  <2>2. seen[w].row \in Purchase /\ row \in Purchase
        /\ [seen[w].row EXCEPT !.status = to] \in Purchase
    BY <1>1, <1>13 DEF Pay, Purchase, Statuses, Early
  <2>3. row'.dstat = row.dstat /\ row'.delivered = row.delivered
    BY <2>1, <2>2, WriteType DEF Purchase
  <2> QED BY <1>13, <2>3, QuietDelivery DEF Pay
<1>14. ASSUME NEW w \in Workers PROVE ~ReadApplied(w) /\ ~Delete(w) /\ ~Update(w)
  BY DEF StockInv, ReadApplied, Delete, Update
<1>15. CASE UseStock
  <2>1. Held' = Held
    BY <1>15, QuantitiesAssumption DEF UseStock, Held, TypeInv, TypeOK
  <2> QED BY <1>2, <1>15, <2>1 DEF UseStock
<1>16. CASE UNCHANGED vars
  BY <1>2, <1>16 DEF vars, Held
<1> QED BY <1>3, <1>4, <1>5, <1>6, <1>7, <1>8, <1>9, <1>10, <1>11, <1>12, <1>13, <1>14,
           <1>15, <1>16 DEF Next

(* Without edits, and when the staff counts what was ordered, a purchase      *)
(* counts as delivered exactly while its stock is in: no overlap of arrivals, *)
(* counts, commits, reversals, cancellations and status changes loses a       *)
(* delivery's stock or leaves stock behind that is not delivered.             *)
THEOREM DeliveredIsInStock ==
    KeepsLine /\ CountsAgree => (Spec => []DeliveredHoldsStock)
<1> SUFFICES ASSUME KeepsLine, CountsAgree PROVE Spec => []DeliveredHoldsStock
  OBVIOUS
<1>1. TypeInv /\ StockInv /\ DeliveryInv /\ [Next]_vars
        => (TypeInv /\ StockInv /\ DeliveryInv)'
  BY TypeNext, StockNext, DeliveryNext
<1>2. TypeInv /\ DeliveryInv => DeliveredHoldsStock
  <2> SUFFICES ASSUME TypeInv, DeliveryInv PROVE DeliveredHoldsStock
    OBVIOUS
  <2>1. line.qty > 0
    <3>1. line.qty \in Ordered
      BY DEF TypeInv, TypeOK, Line
    <3> QED BY <3>1, OrderedType
  <2> QED BY <2>1 DEF DeliveryInv, DeliveredHoldsStock
<1> QED BY <1>1, <1>2, TypeInit, StockInit, DeliveryInit, PTL DEF Spec

(* Under the same conditions every behaviour of the handlers is one of the    *)
(* receipt: the stock is taken in at most once, and leaves at most once and   *)
(* as a whole; every other step leaves what the purchase holds as it is.      *)
THEOREM DeliveryImplementsReceipt ==
    KeepsLine /\ CountsAgree => (Spec => ImplementsReceipt)
<1> SUFFICES ASSUME KeepsLine, CountsAgree PROVE Spec => Receipt!Spec
  BY DEF ImplementsReceipt
<1>1. TypeInv /\ StockInv /\ DeliveryInv /\ [Next]_vars
        => (TypeInv /\ StockInv /\ DeliveryInv)'
  BY TypeNext, StockNext, DeliveryNext
<1>2. Init => Receipt!Init
  BY QuantitiesAssumption DEF Init, Receipt!Init, Held, AlreadyApplied
<1>3. ASSUME TypeInv, StockInv, DeliveryInv, [Next]_vars, TypeInv', DeliveryInv'
      PROVE  [Receipt!Next]_(Receipt!receipt)
  <2>1. StockSteps
    BY <1>3, DeliveryNext
  <2>2. line.qty \in Nat /\ line.qty > 0 /\ line'.qty = line.qty
    <3>1. line.qty \in Ordered
      BY <1>3 DEF TypeInv, TypeOK, Line
    <3> QED BY <2>1, <3>1, OrderedType DEF StockSteps
  <2>3. /\ Held = IF InStock THEN line.qty ELSE 0
        /\ Held' = IF InStock' THEN line.qty ELSE 0
    BY <1>3, <2>2 DEF DeliveryInv
  <2>4. CASE ~AlreadyApplied /\ AlreadyApplied'
    <3>1. InStock' /\ ~Reversed'
      BY <2>1, <2>4 DEF StockSteps, InStock
    <3>2. Held' \in Nat \ {0}
      BY <2>2, <2>3, <3>1
    <3> QED BY <2>4, <3>2 DEF Receipt!Next, Receipt!Receive, AlreadyApplied
  <2>5. CASE AlreadyApplied = AlreadyApplied'
    <3>1. CASE InStock = InStock'
      BY <2>3, <2>5, <3>1 DEF Receipt!receipt
    <3>2. CASE InStock # InStock'
      <4>1. InStock /\ ~InStock'
        BY <2>1, <2>5, <3>2 DEF StockSteps, InStock, Reversed
      <4>2. Held > 0 /\ Held' = 0
        BY <2>2, <2>3, <4>1
      <4> QED BY <2>5, <4>2 DEF Receipt!Next, Receipt!Reverse
    <3> QED BY <3>1, <3>2
  <2>6. AlreadyApplied => AlreadyApplied'
    BY <2>1 DEF StockSteps, AlreadyApplied
  <2> QED BY <2>4, <2>5, <2>6 DEF AlreadyApplied
<1> QED
  BY <1>1, <1>2, <1>3, TypeInit, StockInit, DeliveryInit, PTL DEF Spec, Receipt!Spec

-----------------------------------------------------------------------------
(* One request after the other, edits and deletions included.                *)

Serial == \A v, w \in Workers : v = w

(* The open request's copy is the row itself; while no stock was received     *)
(* the purchase holds none and shows none.                                    *)
SequenceInv ==
    /\ \A w \in Workers : pc[w] # "idle" => seen[w] = [row |-> row, line |-> line]
    /\ \A w \in Workers : applied[w] => AlreadyApplied
    /\ ~AlreadyApplied => /\ Held = 0
                          /\ ~row.delivered /\ row.dstat # "stock_committed"
    /\ CommittedIsInStock

LEMMA SequenceInit == Init => SequenceInv
<1> SUFFICES ASSUME Init PROVE SequenceInv
  OBVIOUS
<1>1. row.dstat = "pending" /\ row.delivered = FALSE
  BY DEF Init
<1>2. \A w \in Workers : pc[w] = "idle" /\ applied[w] = FALSE
  BY DEF Init
<1>3. Held = 0
  BY QuantitiesAssumption DEF Init, Held
<1> QED BY <1>1, <1>2, <1>3 DEF SequenceInv, CommittedIsInStock

(* A fresh copy is written back as it is. *)
LEMMA FreshWrite ==
    ASSUME row \in Purchase, NEW new \in Purchase, Write(row, new)
    PROVE  /\ row'.dstat = new.dstat /\ row'.delivered = new.delivered
           /\ row'.committed = new.committed
BY WriteType

(* A request's last step moves stock only of a purchase that received some,   *)
(* and never of one it leaves marked committed.                               *)
LEMMA SequenceEnd ==
    ASSUME NEW w \in Workers, Serial, TypeInv, SequenceInv, End(w),
           moved \subseteq moved', AlreadyApplied' = AlreadyApplied,
           row'.delivered => row.delivered,
           row'.dstat = "stock_committed" =>
              /\ row.dstat = "stock_committed" /\ row'.committed = row.committed
              /\ stock' = stock,
           ~AlreadyApplied => stock' = stock
    PROVE  SequenceInv'
<1>1. /\ UNCHANGED used
      /\ \A v \in Workers : pc'[v] = "idle" /\ applied'[v] = FALSE
  BY DEF End, TypeInv, TypeOK, Serial
<1>2. stock' = stock => Held' = Held
  BY <1>1 DEF Held
<1> QED BY <1>1, <1>2 DEF SequenceInv, CommittedIsInStock

LEMMA MoveKeys ==
    ASSUME NEW k, NEW d, Move(k, d)
    PROVE  /\ moved \subseteq moved'
           /\ k # ReceiveKey => AlreadyApplied' = AlreadyApplied
BY DEF Move, AlreadyApplied

LEMMA RevertKeys ==
    ASSUME NEW l, Revert(l)
    PROVE  moved \subseteq moved' /\ AlreadyApplied' = AlreadyApplied
BY MoveKeys DEF Revert, RevertKey, ReceiveKey, AlreadyApplied

LEMMA SequenceNext == Serial /\ TypeInv /\ SequenceInv /\ [Next]_vars => SequenceInv'
<1> SUFFICES ASSUME Serial, TypeInv, SequenceInv, [Next]_vars PROVE SequenceInv'
  OBVIOUS
<1>1. row \in Purchase /\ line \in Line
  BY DEF TypeInv, TypeOK
<1>2. ASSUME NEW w \in Workers, pc[w] # "idle"
      PROVE  seen[w].row = row /\ seen[w].line = line
  BY <1>2 DEF SequenceInv
<1>3. ASSUME NEW w \in Workers, Load(w) PROVE SequenceInv'
  <2>1. /\ UNCHANGED <<row, line, stock, used, moved, applied>>
        /\ \A v \in Workers : seen'[v] = [row |-> row, line |-> line]
    BY <1>3 DEF Load, TypeInv, TypeOK, Serial
  <2> QED BY <2>1 DEF SequenceInv, CommittedIsInStock, AlreadyApplied, Held
<1>4. ASSUME NEW w \in Workers, ReadApplied(w) PROVE SequenceInv'
  <2>1. /\ UNCHANGED <<row, line, stock, used, moved, seen>>
        /\ pc[w] # "idle"
        /\ \A v \in Workers : v = w /\ applied'[v] = AlreadyApplied
    BY <1>4 DEF ReadApplied, TypeInv, TypeOK, Serial
  <2> QED BY <2>1 DEF SequenceInv, CommittedIsInStock, AlreadyApplied, Held
<1>5. ASSUME NEW w \in Workers, End(w), UNCHANGED <<stock, moved>>,
             NEW new \in Purchase, Write(row, new), new.committed = row.committed,
             new.delivered = row.delivered,
             new.dstat = "stock_committed" => row.dstat = "stock_committed"
      PROVE  SequenceInv'
  <2>1. /\ row'.dstat = new.dstat /\ row'.delivered = new.delivered
        /\ row'.committed = new.committed
    BY <1>1, <1>5, FreshWrite
  <2>2. moved \subseteq moved' /\ AlreadyApplied' = AlreadyApplied
    BY <1>5 DEF AlreadyApplied
  <2> QED BY <1>5, <2>1, <2>2, SequenceEnd
<1>6. ASSUME NEW w \in Workers, End(w), UNCHANGED <<row, stock, moved>> PROVE SequenceInv'
  <2>1. moved \subseteq moved' /\ AlreadyApplied' = AlreadyApplied
    BY <1>6 DEF AlreadyApplied
  <2> QED BY <1>6, <2>1, SequenceEnd
<1>7. ASSUME NEW w \in Workers, Refuse(w) PROVE SequenceInv'
  BY <1>6, <1>7 DEF Refuse
<1>8. ASSUME NEW w \in Workers, Dispatch(w) PROVE SequenceInv'
  <2>1. PICK to \in {"dispatched", "in_transit"} : Write(row, [row EXCEPT !.dstat = to])
    BY <1>2, <1>8 DEF Dispatch
  <2> DEFINE new == [row EXCEPT !.dstat = to]
  <2>2. /\ new \in Purchase /\ new.committed = row.committed
        /\ new.delivered = row.delivered /\ new.dstat = to
    BY <1>1 DEF Purchase, DeliveryStatuses
  <2>3. Write(row, new) /\ End(w) /\ UNCHANGED <<stock, moved>>
    BY <1>8, <2>1 DEF Dispatch
  <2> HIDE DEF new
  <2> QED BY <1>5, <2>2, <2>3
<1>9. ASSUME NEW w \in Workers, Arrive(w) PROVE SequenceInv'
  <2> DEFINE new == [row EXCEPT !.dstat = "arrived"]
  <2>1. /\ new \in Purchase /\ new.committed = row.committed
        /\ new.delivered = row.delivered /\ new.dstat = "arrived"
    BY <1>1 DEF Purchase, DeliveryStatuses
  <2>2. Write(row, new) /\ End(w) /\ UNCHANGED <<stock, moved>>
    BY <1>2, <1>9 DEF Arrive
  <2> HIDE DEF new
  <2> QED BY <1>5, <2>1, <2>2
<1>10. ASSUME NEW w \in Workers, Verify(w) PROVE SequenceInv'
  <2>1. PICK count \in Counted \union {NoCount} :
           LET short == count # NoCount /\ count < line.qty
               counted == IF count = NoCount THEN line ELSE [line EXCEPT !.recv = count]
               new == [row EXCEPT
                         !.dstat = IF short THEN "partial" ELSE "staff_verified",
                         !.status = IF short THEN "verification_pending" ELSE "verified",
                         !.verified = IF count = NoCount THEN 0 ELSE count]
           IN  /\ line' = IF counted = line THEN line ELSE counted
               /\ Write(row, new)
               /\ seen' = [seen EXCEPT ![w] =
                              IF short THEN NotLoaded ELSE [row |-> new, line |-> counted]]
               /\ pc' = [pc EXCEPT ![w] = IF short THEN "idle" ELSE "commit"]
    BY <1>2, <1>10 DEF Verify
  <2> DEFINE short == count # NoCount /\ count < line.qty
             counted == IF count = NoCount THEN line ELSE [line EXCEPT !.recv = count]
             new == [row EXCEPT
                       !.dstat = IF short THEN "partial" ELSE "staff_verified",
                       !.status = IF short THEN "verification_pending" ELSE "verified",
                       !.verified = IF count = NoCount THEN 0 ELSE count]
  <2>2. count = NoCount \/ count \in Nat
    BY QuantitiesAssumption
  <2>3. /\ new \in Purchase /\ new.dstat # "stock_committed"
        /\ new.delivered = row.delivered
    BY <1>1, <2>2 DEF Purchase, Statuses, DeliveryStatuses
  <2>4. row' = new
    <3>1. row' = [c \in DOMAIN row |-> IF new[c] = row[c] THEN row[c] ELSE new[c]]
      BY <2>1 DEF Write
    <3>2. row' = [c \in DOMAIN row |-> new[c]]
      BY <3>1
    <3> QED BY <3>2
  <2>5. line' = counted
    BY <2>1
  <2>6. \A v \in Workers : pc'[v] # "idle" => seen'[v] = [row |-> new, line |-> counted]
    BY <2>1 DEF TypeInv, TypeOK, Serial
  <2>7. UNCHANGED <<stock, used, moved, applied>>
    BY <1>10 DEF Verify
  <2> HIDE DEF new, counted
  <2> QED
    BY <2>3, <2>4, <2>5, <2>6, <2>7 DEF SequenceInv, CommittedIsInStock, AlreadyApplied, Held
<1>11. ASSUME NEW w \in Workers, CommitDelivery(w) PROVE SequenceInv'
  <2> DEFINE qty == StockQty(line)
             new == ReceivedRow(row, qty)
  <2>1. /\ pc[w] # "idle" /\ ~AlreadyApplied /\ qty > 0 /\ qty \in Nat
    BY <1>1, <1>2, <1>11, StockQtyType DEF CommitDelivery, Committable, ToStock
  <2>2. seen[w].row = row /\ seen[w].line = line
    BY <1>2, <2>1
  <2>3. new \in Purchase /\ new.committed = qty
    BY <1>1, <2>1 DEF ReceivedRow, Purchase, Statuses, DeliveryStatuses
  <2>4. Write(row, new) /\ Move(ReceiveKey, qty) /\ End(w)
    BY <1>11, <2>2 DEF CommitDelivery
  <2>5. row'.committed = qty
    BY <1>1, <2>3, <2>4, FreshWrite
  <2>6. stock' = stock + qty /\ AlreadyApplied'
    BY <2>1, <2>4 DEF Move, AlreadyApplied
  <2>7. /\ UNCHANGED used
        /\ \A v \in Workers : pc'[v] = "idle" /\ applied'[v] = FALSE
    BY <2>4 DEF End, TypeInv, TypeOK, Serial
  <2>8. Held' = qty
    BY <2>1, <2>6, <2>7, QuantitiesAssumption DEF SequenceInv, Held, TypeInv, TypeOK
  <2> HIDE DEF qty
  <2> QED BY <2>1, <2>5, <2>6, <2>7, <2>8 DEF SequenceInv, CommittedIsInStock
<1>12. ASSUME NEW w \in Workers, AnswerCommitted(w) PROVE SequenceInv'
  <2> DEFINE new == [row EXCEPT !.status = "added_to_stock"]
  <2>1. seen[w].row = row
    BY <1>2, <1>12 DEF AnswerCommitted, AnswersUnchanged, ToStock
  <2>2. /\ new \in Purchase /\ new.committed = row.committed
        /\ new.delivered = row.delivered /\ new.dstat = row.dstat
    BY <1>1 DEF Purchase, Statuses
  <2>3. Write(row, new) \/ UNCHANGED row
    BY <1>12, <2>1 DEF AnswerCommitted, AfterUnchanged
  <2>4. End(w) /\ UNCHANGED <<stock, moved>>
    BY <1>12 DEF AnswerCommitted
  <2> HIDE DEF new
  <2> QED BY <1>5, <1>6, <2>2, <2>3, <2>4
<1>13. ASSUME NEW w \in Workers, pc[w] # "idle", End(w),
              NEW new \in Purchase, Write(row, new),
              ~new.delivered, new.dstat # "stock_committed",
              \/ UNCHANGED <<stock, moved>>
              \/ AlreadyApplied /\ Revert(line)
       PROVE  SequenceInv'
  <2>1. ~row'.delivered /\ row'.dstat # "stock_committed"
    BY <1>1, <1>13, FreshWrite
  <2>2. moved \subseteq moved' /\ AlreadyApplied' = AlreadyApplied
    BY <1>13, RevertKeys DEF AlreadyApplied
  <2> QED BY <1>13, <2>1, <2>2, SequenceEnd
<1>14. ASSUME NEW w \in Workers, PatchDelivery(w) PROVE SequenceInv'
  <2> DEFINE new == [row EXCEPT !.delivered = FALSE, !.dstat = "pending",
                                !.committed = 0, !.verified = 0]
  <2>1. pc[w] # "idle" /\ seen[w].row = row /\ seen[w].line = line
    BY <1>2, <1>14 DEF PatchDelivery
  <2>2. new \in Purchase /\ ~new.delivered /\ new.dstat # "stock_committed"
    BY <1>1 DEF Purchase, DeliveryStatuses
  <2>3. /\ Write(row, new) /\ End(w)
        /\ \/ UNCHANGED <<stock, moved>>
           \/ AlreadyApplied /\ Revert(line)
    BY <1>14, <2>1 DEF PatchDelivery, SequenceInv
  <2> HIDE DEF new
  <2> QED BY <1>13, <2>1, <2>2, <2>3
<1>15. ASSUME NEW w \in Workers, NEW status \in Gone,
              pc[w] # "idle", End(w), Close(row, status),
              \/ UNCHANGED <<stock, moved>>
              \/ AlreadyApplied /\ Revert(line)
       PROVE  SequenceInv'
  <2> DEFINE new == [row EXCEPT !.status = status, !.delivered = FALSE, !.dstat = "cancelled"]
  <2>1. new \in Purchase /\ ~new.delivered /\ new.dstat # "stock_committed"
    BY <1>1 DEF Purchase, DeliveryStatuses, Statuses
  <2>2. Write(row, new)
    BY <1>15 DEF Close
  <2> HIDE DEF new
  <2> QED BY <1>13, <1>15, <2>1, <2>2
<1>16. ASSUME NEW w \in Workers, Cancel(w) PROVE SequenceInv'
  <2>1. pc[w] # "idle" /\ seen[w].row = row /\ seen[w].line = line
    BY <1>2, <1>16 DEF Cancel
  <2>2. TakenIn(row) => AlreadyApplied
    BY DEF SequenceInv, TakenIn
  <2>3. /\ End(w) /\ Close(row, "cancelled")
        /\ \/ UNCHANGED <<stock, moved>>
           \/ AlreadyApplied /\ Revert(line)
    BY <1>16, <2>1, <2>2 DEF Cancel
  <2> QED BY <1>15, <2>1, <2>3 DEF Gone
<1>17. ASSUME NEW w \in Workers, Delete(w) PROVE SequenceInv'
  <2>1. pc[w] # "idle" /\ seen[w].row = row /\ seen[w].line = line
    BY <1>2, <1>17 DEF Delete
  <2>2. TakenIn(row) \/ applied[w] => AlreadyApplied
    BY DEF SequenceInv, TakenIn
  <2>3. /\ End(w) /\ Close(row, "deleted")
        /\ \/ UNCHANGED <<stock, moved>>
           \/ AlreadyApplied /\ Revert(line)
    BY <1>17, <2>1, <2>2 DEF Delete
  <2> QED BY <1>15, <2>1, <2>3 DEF Gone
<1>18. ASSUME NEW w \in Workers, Update(w) PROVE SequenceInv'
  <2> DEFINE delta == StockQty(line') - StockQty(line)
  <2>1. PICK status \in {"draft", "active"} :
           /\ Write(row, [row EXCEPT !.status = status])
           /\ IF (row.delivered \/ applied[w]) /\ delta # 0
              THEN Move(AdjustKey(delta), delta)
              ELSE UNCHANGED <<stock, moved>>
    BY <1>2, <1>18 DEF Update
  <2>2. row.dstat # "stock_committed" /\ End(w)
    BY <1>2, <1>18 DEF Update
  <2>3. row.delivered \/ applied[w] => AlreadyApplied
    BY DEF SequenceInv
  <2> DEFINE new == [row EXCEPT !.status = status]
  <2>4. /\ new \in Purchase /\ new.delivered = row.delivered /\ new.dstat = row.dstat
    BY <1>1 DEF Purchase, Statuses, Early
  <2>5. row'.delivered = row.delivered /\ row'.dstat = row.dstat
    <3>1. Write(row, new)
      BY <2>1
    <3> HIDE DEF new
    <3> QED BY <1>1, <2>4, <3>1, FreshWrite
  <2>6. moved \subseteq moved' /\ AlreadyApplied' = AlreadyApplied
    BY <2>1, MoveKeys DEF AdjustKey, ReceiveKey, AlreadyApplied
  <2>7. ~AlreadyApplied => stock' = stock
    BY <2>1, <2>3
  <2> QED BY <2>2, <2>5, <2>6, <2>7, SequenceEnd
<1>19. ASSUME NEW w \in Workers, Lifecycle(w) PROVE SequenceInv'
  <2>1. PICK target \in Allowed(row.status) :
           Write(row, [row EXCEPT !.status = target, !.dstat = DeliveryOf(target, @)])
    BY <1>2, <1>19 DEF Lifecycle
  <2> DEFINE new == [row EXCEPT !.status = target, !.dstat = DeliveryOf(target, @)]
  <2>2. target \in Statuses
    BY AllowedType
  <2>3. /\ DeliveryOf(target, row.dstat) \in DeliveryStatuses
        /\ \/ DeliveryOf(target, row.dstat) = row.dstat
           \/ DeliveryOf(target, row.dstat) # "stock_committed"
    BY <1>1 DEF DeliveryOf, DeliveryStatuses, Purchase
  <2>4. /\ new \in Purchase /\ new.committed = row.committed
        /\ new.delivered = row.delivered /\ new.dstat = DeliveryOf(target, row.dstat)
    BY <1>1, <2>2, <2>3 DEF Purchase
  <2>5. Write(row, new) /\ End(w) /\ UNCHANGED <<stock, moved>>
    BY <1>19, <2>1 DEF Lifecycle
  <2> HIDE DEF new
  <2> QED BY <1>5, <2>3, <2>4, <2>5
<1>20. ASSUME NEW w \in Workers, Pay(w) PROVE SequenceInv'
  <2>1. PICK to \in PaymentStatuses \union {"active", "draft"} :
           Write(row, [row EXCEPT !.status = to])
    BY <1>2, <1>20 DEF Pay, PaymentStatuses
  <2> DEFINE new == [row EXCEPT !.status = to]
  <2>2. /\ new \in Purchase /\ new.committed = row.committed
        /\ new.delivered = row.delivered /\ new.dstat = row.dstat
    BY <1>1 DEF Purchase, Statuses, Early, PaymentStatuses
  <2>3. Write(row, new) /\ End(w) /\ UNCHANGED <<stock, moved>>
    BY <1>20, <2>1 DEF Pay
  <2> HIDE DEF new
  <2> QED BY <1>5, <2>2, <2>3
<1>21. CASE UseStock
  <2>1. Held' = Held
    BY <1>21, QuantitiesAssumption DEF UseStock, Held, TypeInv, TypeOK
  <2> QED BY <1>21, <2>1 DEF UseStock, SequenceInv, CommittedIsInStock, AlreadyApplied
<1>22. CASE UNCHANGED vars
  BY <1>22 DEF vars, SequenceInv, CommittedIsInStock, AlreadyApplied, Held
<1> QED BY <1>3, <1>4, <1>7, <1>8, <1>9, <1>10, <1>11, <1>12, <1>14, <1>16, <1>17, <1>18,
           <1>19, <1>20, <1>21, <1>22 DEF Next

(* When requests come one after the other, in any number and of every kind,   *)
(* edits and deletions included, a purchase marked committed holds exactly    *)
(* the quantity it shows.                                                     *)
THEOREM CommittedInSequence == Serial => (Spec => []CommittedIsInStock)
<1> SUFFICES ASSUME Serial PROVE Spec => []CommittedIsInStock
  OBVIOUS
<1>1. TypeInv /\ SequenceInv /\ [Next]_vars => (TypeInv /\ SequenceInv)'
  BY TypeNext, SequenceNext
<1> QED BY <1>1, TypeInit, SequenceInit, PTL DEF Spec, SequenceInv
=============================================================================
