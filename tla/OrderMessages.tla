---------------------------- MODULE OrderMessages ----------------------------
(* Purchase orders sent to the supplier's WhatsApp after an approval, or when *)
(* an owner resends one: the credentials an owner stores, up to three         *)
(* attempts at a provider whose answers may be lost, and the row of the log   *)
(* that is written before the attempts and committed after them.              *)
EXTENDS FiniteSets, Naturals

CONSTANTS
    None,
    Orders, Lost,       \* ids of purchase orders, and those whose purchase is gone
    Workers,
    MaxAttempts,        \* 3 in the code
    MaxRequests

VARIABLES
    enabled,            \* the setting of the process
    stored,             \* credentials in the database
    logs,               \* committed rows [order, status, attempts, at]
    call,               \* the delivery each worker is at, or None
    requests,
    received,           \* messages the provider took, per order
    forced, unheard     \* history: resends, and messages taken without a "sent" row
vars == <<enabled, stored, logs, call, requests, received, forced, unheard>>

Credentials == {"number", "key"}
Statuses == {"sent", "failed", "pending_manual"}
RowOf(c, status) == [order |-> c.order, status |-> status, attempts |-> c.attempts, at |-> c.at]
Sent(o) == {row \in logs : row.order = o /\ row.status = "sent"}

-----------------------------------------------------------------------------
(* An approval has committed before it delivers; only a resend is forced.     *)
Ask(w, o, force) ==
    /\ call[w] = None /\ requests < MaxRequests
    /\ call' = [call EXCEPT ![w] = [order |-> o, force |-> force, step |-> "begin",
                                    attempts |-> 0, at |-> requests]]
    /\ requests' = requests + 1
    /\ forced' = [forced EXCEPT ![o] = IF force THEN @ + 1 ELSE @]
    /\ UNCHANGED <<enabled, stored, logs, received, unheard>>

End(w, status) ==
    /\ logs' = logs \union {RowOf(call[w], status)}
    /\ call' = [call EXCEPT ![w] = None]
GoTo(w, step) ==
    /\ call' = [call EXCEPT ![w].step = step]
    /\ UNCHANGED logs

SentBeforeNever(o, force) == FALSE
SentBefore(o, force) == ~ force /\ Sent(o) # {}

(* The key may also come from the environment, the number may not; the order  *)
(* is made into a PDF, which may fail.                                        *)
Begin(w) ==
    LET c == call[w] IN
    /\ c # None /\ c.step = "begin"
    /\ IF enabled /\ SentBefore(c.order, c.force)
       THEN call' = [call EXCEPT ![w] = None] /\ UNCHANGED logs
       ELSE \E inEnvironment, printed \in BOOLEAN :
                LET usable == /\ enabled /\ "number" \in stored
                              /\ "key" \in stored \/ inEnvironment
                IN CASE ~ usable -> End(w, "pending_manual")
                     [] usable /\ (c.order \in Lost \/ ~ printed) -> End(w, "failed")
                     [] OTHER -> GoTo(w, "attempt")
    /\ UNCHANGED <<enabled, stored, requests, received, forced, unheard>>

(* The provider takes the message or does not, and its answer comes or does   *)
(* not; whatever is no answer of success is tried again.                      *)
Attempt(w) ==
    LET c == call[w]
        tried == [c EXCEPT !.attempts = @ + 1]
    IN
    /\ c # None /\ c.step = "attempt" /\ c.attempts < MaxAttempts
    /\ \E taken, heard \in BOOLEAN :
           /\ received' = [received EXCEPT ![c.order] = IF taken THEN @ + 1 ELSE @]
           /\ unheard' = [unheard EXCEPT ![c.order] = IF taken /\ ~ heard THEN @ + 1 ELSE @]
           /\ call' = [call EXCEPT ![w] =
                  IF taken /\ heard THEN [tried EXCEPT !.step = "sent"] ELSE tried]
    /\ UNCHANGED <<enabled, stored, logs, requests, forced>>

Finish(w) ==
    LET c == call[w] IN
    /\ c # None
    /\ \/ c.step = "sent" /\ End(w, "sent")
       \/ c.step = "attempt" /\ c.attempts = MaxAttempts /\ End(w, "pending_manual")
    /\ UNCHANGED <<enabled, stored, requests, received, forced, unheard>>

(* A process that stops loses its uncommitted row.                            *)
Crash(w) ==
    LET c == call[w] IN
    /\ c # None
    /\ unheard' = [unheard EXCEPT ![c.order] = IF c.step = "sent" THEN @ + 1 ELSE @]
    /\ call' = [call EXCEPT ![w] = None]
    /\ UNCHANGED <<enabled, stored, logs, requests, received, forced>>

(* A stored credential is replaced, never removed.                            *)
PutCredential ==
    /\ \E c \in Credentials \ stored : stored' = stored \union {c}
    /\ UNCHANGED <<enabled, logs, call, requests, received, forced, unheard>>

Init ==
    /\ enabled \in BOOLEAN /\ stored = {} /\ logs = {}
    /\ call = [w \in Workers |-> None]
    /\ requests = 0
    /\ received = [o \in Orders |-> 0]
    /\ forced = [o \in Orders |-> 0]
    /\ unheard = [o \in Orders |-> 0]

Next ==
    \/ \E w \in Workers :
          \/ \E o \in Orders, force \in BOOLEAN : Ask(w, o, force)
          \/ Begin(w) \/ Attempt(w) \/ Finish(w) \/ Crash(w)
    \/ PutCredential

Spec == Init /\ [][Next]_vars

(* The shape of the log and the calls.                                        *)
TypeOK ==
    /\ stored \subseteq Credentials
    /\ \A row \in logs : row.status \in Statuses /\ row.attempts \in 0..MaxAttempts
    /\ \A w \in Workers : call[w] # None => call[w].attempts \in 0..MaxAttempts
    /\ requests \in 0..MaxRequests

(* "idempotent": handled one at a time, an order approved any number of times *)
(* reaches the supplier once, and once more for each resend and for each      *)
(* message whose answer or row was lost.                                      *)
OrderReachesOnce ==
    \A o \in Orders : received[o] <= 1 + forced[o] + unheard[o]

(* Whatever overlaps or is lost, a row that says "sent" has its own message.  *)
SentIsReceived ==
    \A o \in Orders : Cardinality(Sent(o)) + unheard[o] <= received[o]
=============================================================================
