------------------------------- MODULE Payments -------------------------------
(***************************************************************************)
(* What is owed on one purchase: payments, edits, the manual lifecycle and *)
(* the calendar (backend/app/services/trade_purchase_service.py), the      *)
(* status derived from them (services/purchase_status.py), and the filters *)
(* of the purchase list, which are written twice: in SQL and over the      *)
(* derived status.                                                         *)
(*                                                                         *)
(* A request reads the purchase (Ask) and writes later (Commit); columns   *)
(* it leaves as it read them are not written.                              *)
(***************************************************************************)
EXTENDS Integers

CONSTANTS
    Workers,        \* requests served at the same time
    Totals,         \* what a purchase may cost
    Terms,          \* payment_days, or None
    MaxDay,         \* bound: days that pass
    MaxRequests,    \* bound: requests
    None

VARIABLES
    status, total, paid, due,   \* columns of the purchase
    today,
    request,        \* the request each worker is serving
    requests

row == <<status, total, paid, due>>
vars == <<row, today, request, requests>>

Lifecycle == {"active", "approved", "ordered", "supplier_confirmed", "in_transit", "arrived",
              "verification_pending", "verified", "added_to_stock", "completed"}
Derived == {"paid", "overdue", "due_soon", "partially_paid"}
Statuses == Lifecycle \union Derived
               \union {"draft", "saved", "confirmed", "cancelled", "deleted"}
DueDays == {None} \union 0..(2 * MaxDay + 4)

(* _due_date_from: every bill has the date of the first day. *)
DueAfter(term) == IF term = None THEN None ELSE term

Init ==
    /\ status \in {"draft", "saved", "confirmed"}
    /\ total \in Totals
    /\ paid = 0
    /\ due \in {DueAfter(t) : t \in Terms}
    /\ today = 0
    /\ request = [w \in Workers |-> None]
    /\ requests = 0

-----------------------------------------------------------------------------
(* compute_status, in the order of its returns *)
Open(t, p) == t > 0 /\ p < t
Late(t, p, d) == Open(t, p) /\ d # None /\ today > d
Soon(t, p, d) == Open(t, p) /\ d # None /\ d - today \in 0..3

ComputeStatus(st, t, p, d) ==
    CASE st \in {"cancelled", "deleted", "draft"} -> st
      [] st \notin {"cancelled", "deleted", "draft"} /\ t = 0 ->
            IF st \in {"saved", "confirmed", "paid", "partially_paid", "overdue"}
            THEN st ELSE "confirmed"
      [] st \notin {"cancelled", "deleted", "draft"} /\ t > 0 ->
            CASE p >= t -> "paid"
              [] Late(t, p, d) -> "overdue"
              [] Soon(t, p, d) -> "due_soon"
              [] Open(t, p) /\ ~Late(t, p, d) /\ ~Soon(t, p, d) ->
                    IF p > 0 THEN "partially_paid"
                    ELSE IF st \in Derived \union {"saved", "confirmed"} THEN st
                    ELSE "confirmed"

Normalized(st) == CASE st = "saved" -> "draft" [] st = "confirmed" -> "active" [] OTHER -> st

(* trade_purchase_to_out: what the app shows *)
DerivedStatus == ComputeStatus(Normalized(status), total, paid, due)

(* _trade_list_payment_exprs and _apply_trade_list_status_sql *)
NotTerminalButSaved == status \notin {"cancelled", "deleted", "draft"}  \* mutation: saved
NotTerminal == status \notin {"cancelled", "deleted", "draft", "saved"}
Selects(filter) ==
    CASE filter = "draft" -> status \in {"draft", "saved"}
      [] filter = "paid" -> NotTerminal /\ total > 0 /\ paid >= total
      [] filter = "overdue" -> NotTerminal /\ Late(total, paid, due)
      [] filter = "due_soon" -> NotTerminal /\ Soon(total, paid, due)
      [] filter = "pending" ->
            /\ NotTerminal /\ ~(total > 0 /\ paid >= total)
            /\ ~Late(total, paid, due) /\ ~Soon(total, paid, due)
            /\ status = "confirmed" \/ (paid > 0 /\ paid < total)

(* list_trade_purchases filters the page once more by what it shows. *)
Keeps(filter) ==
    CASE filter = "draft" -> Normalized(status) = "draft"
      [] filter \in {"paid", "overdue", "due_soon"} -> DerivedStatus = filter
      [] filter = "pending" -> DerivedStatus \in {"confirmed", "partially_paid"}
Filters == {"draft", "paid", "overdue", "due_soon", "pending"}

-----------------------------------------------------------------------------
Ask(w, r) ==
    /\ request[w] = None /\ requests < MaxRequests
    /\ request' = [request EXCEPT ![w] = r]
    /\ requests' = requests + 1
    /\ UNCHANGED <<row, today>>
Serving(w, kind) == request[w] # None /\ request[w].kind = kind
Done(w) == request' = [request EXCEPT ![w] = None] /\ UNCHANGED <<today, requests>>

(* the columns as the request read them, and what it makes of them *)
Loaded == [status |-> status, total |-> total, paid |-> paid, due |-> due]
Written(old, new, now) == IF new = old THEN now ELSE new

(* patch_trade_purchase_payment and mark_trade_purchase_paid: the amount,     *)
(* clamped to the total, and the status it makes.                             *)
AskPay(w, amount) ==
    /\ status \notin {"deleted", "cancelled", "draft"}
    /\ Ask(w, [kind |-> "pay", loaded |-> Loaded,
               amount |-> IF amount > total THEN total ELSE amount])
CommitPay(w) ==
    LET l == request[w].loaded
        amount == request[w].amount
    IN /\ Serving(w, "pay")
       /\ paid' = Written(l.paid, amount, paid)
       /\ status' = Written(l.status, ComputeStatus(l.status, l.total, amount, l.due), status)
       /\ UNCHANGED <<total, due>>
       /\ Done(w)

AskMarkPaid(w) == AskPay(w, total)      \* without an amount

(* update_trade_purchase, as far as money goes: the advisory lock comes after *)
(* the row is read.                                                           *)
PaidClampedNever(l, t) == l.paid        \* mutation: a lower total leaves the payment
PaidClamped(l, t) == IF l.paid > t THEN t ELSE l.paid
AskEdit(w, t, term, st) ==
    /\ status \notin {"deleted", "cancelled"}
    /\ Ask(w, [kind |-> "edit", loaded |-> Loaded, total |-> t, due |-> DueAfter(term),
               status |-> st])
CommitEdit(w) ==
    LET r == request[w]
        l == r.loaded
    IN /\ Serving(w, "edit")
       /\ total' = Written(l.total, r.total, total)
       /\ due' = Written(l.due, r.due, due)
       /\ paid' = Written(l.paid, PaidClamped(l, r.total), paid)
       /\ status' = Written(l.status, r.status, status)
       /\ Done(w)

(* transition_purchase_lifecycle *)
NextOf(st) ==
    CASE st = "draft" -> {"active", "approved", "cancelled"}
      [] st = "active" -> {"approved", "ordered", "cancelled"}
      [] st = "approved" -> {"ordered", "cancelled"}
      [] st = "ordered" -> {"supplier_confirmed", "cancelled"}
      [] st = "supplier_confirmed" -> {"in_transit", "cancelled"}
      [] st = "in_transit" -> {"arrived", "cancelled"}
      [] st = "arrived" -> {"verification_pending", "verified", "cancelled"}
      [] st = "verification_pending" -> {"verified", "cancelled"}
      [] st = "verified" -> {"added_to_stock", "cancelled"}
      [] st = "added_to_stock" -> {"completed", "cancelled"}
      [] OTHER -> {}
AskTransition(w, to) ==
    /\ to \in NextOf(Normalized(status))
    /\ Ask(w, [kind |-> "transition", to |-> to])
AskClose(w, to) ==                      \* cancel_trade_purchase, delete_trade_purchase
    /\ status # "deleted"
    /\ Ask(w, [kind |-> "transition", to |-> to])
CommitTransition(w) ==
    /\ Serving(w, "transition")
    /\ status' = request[w].to
    /\ UNCHANGED <<total, paid, due>>
    /\ Done(w)

NextDay ==
    /\ today < MaxDay
    /\ today' = today + 1
    /\ UNCHANGED <<row, request, requests>>

Next ==
    \/ \E w \in Workers :
          \/ \E amount \in 0..10 : AskPay(w, amount)
          \/ AskMarkPaid(w)
          \/ \E t \in Totals, term \in Terms, st \in {"draft", "saved", "confirmed"} :
                AskEdit(w, t, term, st)
          \/ \E to \in Lifecycle \union {"cancelled"} : AskTransition(w, to)
          \/ \E to \in {"cancelled", "deleted"} : AskClose(w, to)
          \/ CommitPay(w) \/ CommitEdit(w) \/ CommitTransition(w)
    \/ NextDay

Spec == Init /\ [][Next]_vars

-----------------------------------------------------------------------------
TypeOK ==
    /\ status \in Statuses /\ total \in Totals /\ paid \in Nat /\ due \in DueDays
    /\ today \in 0..MaxDay /\ requests \in 0..MaxRequests

(* When requests are served one at a time, no purchase is paid more than it   *)
(* costs, however it is paid, edited and paid again.                          *)
PaidWithinTotal == paid <= total

(* What the database selects for a filter of the list is kept by the filter   *)
(* over the derived status: pages are not cut short                           *)
(* (test_trade_list_payment_filters.py:1), when requests are not overlapped.  *)
NoShortPages == \A f \in Filters : Selects(f) => Keeps(f)
=============================================================================
