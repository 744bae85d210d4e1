------------------------- MODULE StockLedger_proofs -------------------------
(***************************************************************************)
(* Theorems about StockLedger, for any number of items, requests, users,   *)
(* keys and quantities.                                                    *)
(***************************************************************************)
EXTENDS StockLedger, TLAPS

-----------------------------------------------------------------------------
(* The shapes of a step.                                                     *)

(* What a request asks for is well formed, and a waiting one waits for an    *)
(* item.                                                                     *)
JobHeld ==
    \A r \in Reqs : /\ pc[r] # "idle" => job[r] \in Job
                    /\ pc[r] \in Waiting => cur[r] \in Items

TypeInv == TypeOK /\ JobHeld

(* Whatever the handler, a request starts with a well-formed job. *)
LEMMA ArriveStarts ==
    ASSUME TypeInv, NEW r \in Reqs, Arrive(r)
    PROVE  \E j \in Job : Start(r, j)
<1>1. ASSUME NEW h \in AllHandlers, NEW kind \in EditKinds \union AllHandlers,
             NEW u \in Users, NEW items \in SUBSET Items, NEW q \in Int, NEW k \in JobKeys,
             NEW seen \in Nat \union {NoVersion}, NEW f \in BOOLEAN,
             Start(r, Request(h, kind, u, items, q, k, seen, f))
      PROVE  \E j \in Job : Start(r, j)
  <2>1. h \in Handlers
    BY <1>1 DEF Start, Request
  <2>2. Request(h, kind, u, items, q, k, seen, f) \in Job
    BY <2>1 DEF Job, Request
  <2> QED BY <1>1, <2>2
<1>2. ASSUME NEW h \in AllHandlers, NEW u \in Users, NEW items \in SUBSET Items, NEW q \in Int,
             NEW k \in JobKeys, Start(r, Ask(h, u, items, q, k))
      PROVE  \E j \in Job : Start(r, j)
  BY <1>1, <1>2 DEF Ask
<1>3. ASSUME NEW h \in AllHandlers, NEW u \in Users, NEW i \in Items, NEW q \in Qtys,
             NEW k \in Keys \union {NoKey}, Edit(r, h, u, i, q, k)
      PROVE  \E j \in Job : Start(r, j)
  <2>1. PICK a \in Adjustments, seen \in {NoVersion} \union 0..version[i] :
           Start(r, Request(h, a[1], u, {i}, q, k, seen, a[2]))
    BY <1>3 DEF Edit
  <2>2. a[1] \in EditKinds /\ a[2] \in BOOLEAN
    BY HandlersAssumption
  <2>3. version[i] \in Nat
    BY DEF TypeInv, TypeOK
  <2>4. q \in Int /\ seen \in Nat \union {NoVersion} /\ k \in JobKeys
    BY <2>3, QtysAssumption DEF JobKeys
  <2> QED BY <1>1, <2>1, <2>2, <2>4
<1>4. \A q \in Qtys : q \in Int
  BY QtysAssumption
<1>5. \A k \in Keys \union {NoKey} : k \in JobKeys
  BY DEF JobKeys
<1>6. \A u \in Owners : u \in Users
  BY OwnersAssumption
<1> USE DEF AllHandlers, Preloading, Delivering
<1>7. CASE UpdatePhysicalStock(r)
  BY <1>3, <1>7 DEF UpdatePhysicalStock
<1>8. CASE PatchStockItem(r)
  BY <1>3, <1>8 DEF PatchStockItem
<1>9. CASE CreateStaffPurchase(r)
  <2>1. PICK i \in Items, u \in Users, q \in Qtys \ {0}, k \in Keys \union {NoKey} :
           Start(r, Ask("quick_purchase", u, {i}, q, k))
    BY <1>9 DEF CreateStaffPurchase
  <2> QED BY <1>2, <1>4, <1>5, <2>1
<1>10. CASE VerifyStockCount(r)
  <2>1. PICK i \in Items, u \in Users, q \in Qtys, k \in Keys \union {NoKey} :
           Start(r, Request("verify_count", "correction", u, {i}, q, k, NoVersion, FALSE))
    BY <1>10 DEF VerifyStockCount
  <2> QED BY <1>1, <1>4, <1>5, <2>1 DEF EditKinds
<1>11. CASE SetOpeningStock(r)
  <2>1. PICK i \in Items, u \in Owners, q \in Qtys, k \in Keys \union {NoKey} :
           Start(r, Ask("opening_stock", u, {i}, q, k))
    BY <1>11 DEF SetOpeningStock
  <2> QED BY <1>2, <1>4, <1>5, <1>6, <2>1
<1>12. CASE UndoLastStockChange(r)
  <2>1. PICK i \in Items, u \in Users : \E n \in 1..Len(ledger[i]) :
           Start(r, Ask("undo", u, {i}, ledger[i][n].before, <<"undo", i, n>>))
    BY <1>12 DEF UndoLastStockChange
  <2>2. PICK n \in 1..Len(ledger[i]) :
           Start(r, Ask("undo", u, {i}, ledger[i][n].before, <<"undo", i, n>>))
    BY <2>1
  <2>3. ledger[i] \in Seq(Move)
    BY DEF TypeInv, TypeOK
  <2>4. n \in Nat /\ ledger[i][n] \in Move
    BY <2>3
  <2>5. ledger[i][n].before \in Int
    BY <2>4 DEF Move
  <2>6. <<"undo", i, n>> \in JobKeys
    BY <2>4 DEF JobKeys
  <2> QED BY <1>2, <2>2, <2>5, <2>6
<1>13. CASE ReceiveDelivery(r)
  <2>1. PICK items \in SUBSET Items \ {{}}, u \in Users, q \in Qtys \ {0}, p \in Keys :
           Start(r, Ask("delivery_receive", u, items, q, p))
    BY <1>13 DEF ReceiveDelivery
  <2> QED BY <1>2, <1>4, <1>5, <2>1
<1>14. CASE RevokeDelivery(r)
  <2>1. PICK s \in Reqs, u \in Users, p \in Keys :
           /\ pc[s] = "ok"
           /\ Start(r, Ask("delivery_revoke", u, job[s].items, -job[s].qty, p))
    BY <1>14 DEF RevokeDelivery
  <2>2. job[s] \in Job
    BY <2>1 DEF TypeInv, JobHeld
  <2>3. job[s].items \in SUBSET Items /\ -job[s].qty \in Int
    BY <2>2 DEF Job
  <2> QED BY <1>2, <1>5, <2>1, <2>3
<1> QED
  BY <1>7, <1>8, <1>9, <1>10, <1>11, <1>12, <1>13, <1>14 DEF Arrive

(* A step of an accepted request looks a key up, takes a lock, writes a line, *)
(* commits, or rolls the transaction back.                                    *)
LEMMA WorkShapes ==
    ASSUME NEW r \in Reqs, Work(r) \/ Crash(r)
    PROVE  \/ LookUpKey(r) \/ AnswerDuplicate(r) \/ ApplyMovement(r) \/ Commit(r)
           \/ \E a \in {"duplicate", "rejected", "error"} : RollBack(r, a)
BY DEF Work, Crash, RefuseDuringAudit, RejectStaleVersion, RejectNegative, LoseKeyRace,
       DeadlockVictim

-----------------------------------------------------------------------------
(* Types.                                                                    *)

LEMMA LineKeyType ==
    ASSUME NEW j \in Job, NEW i \in Items
    PROVE  LineKey(j, i) \in MoveKeys
BY DEF LineKey, Job, MoveKeys

LEMMA LockedRowType ==
    ASSUME TypeInv, NEW r \in Reqs, cur[r] \in Items
    PROVE  LockedRow(r) \in Row
BY DEF TypeInv, TypeOK, LockedRow, Row

LEMMA AfterType ==
    ASSUME NEW j \in Job, NEW row \in Row
    PROVE  After(j, row) \in Int
BY DEF After, Job, Row

(* What a session that ends leaves behind. *)
LEMMA CloseSessionType ==
    ASSUME TypeInv, NEW r \in Reqs, CloseSession(r)
    PROVE  /\ lockedBy' \in [Items -> Reqs \union {NoReq}]
           /\ view' \in [Reqs -> [Items -> Row \union {NotLoaded}]]
           /\ left' \in [Reqs -> SUBSET Items]
           /\ cur' \in [Reqs -> Items \union {NoItem}]
           /\ draft' \in [Reqs -> [Items -> Draft \union {NoMove}]]
           /\ \A s \in Reqs \ {r} : cur'[s] = cur[s]
BY DEF TypeInv, TypeOK, CloseSession, FreedLocks, NothingLoaded, NoLines

(* A line that is applied drafts a movement of its request. *)
LEMMA MovementDrafted ==
    ASSUME TypeInv, NEW r \in Reqs, ApplyMovement(r)
    PROVE  /\ cur[r] \in Items
           /\ \E d \in Draft : d.move.req = r /\ draft' = [draft EXCEPT ![r][cur[r]] = d]
<1> DEFINE row == LockedRow(r)
           d == [move |-> [req |-> r, delta |-> After(job[r], row) - row.qty,
                           before |-> row.qty, after |-> After(job[r], row),
                           key |-> LineKey(job[r], cur[r])],
                 ver |-> row.ver + 1]
<1>1. pc[r] = "lock" /\ After(job[r], row) >= 0
  BY DEF ApplyMovement, Accepted, AtLock
<1>2. cur[r] \in Items /\ job[r] \in Job
  BY <1>1 DEF TypeInv, JobHeld, Waiting
<1>3. row \in Row
  BY <1>2, LockedRowType
<1>4. After(job[r], row) \in Nat
  BY <1>1, <1>2, <1>3, AfterType
<1>5. LineKey(job[r], cur[r]) \in MoveKeys
  BY <1>2, LineKeyType
<1>6. d \in Draft
  BY <1>3, <1>4, <1>5 DEF Draft, Move, Row
<1>7. draft' = [draft EXCEPT ![r][cur[r]] = d]
  BY DEF ApplyMovement
<1> HIDE DEF row
<1> QED BY <1>2, <1>6, <1>7

LEMMA TypeInit == Init => TypeInv
<1> SUFFICES ASSUME Init PROVE TypeOK /\ JobHeld
  BY DEF TypeInv
<1>1. ledger \in [Items -> Seq(Move)]
  BY DEF Init
<1>2. stock \in [Items -> Nat]
  BY QtysAssumption DEF Init
<1>3. TypeOK
  BY <1>1, <1>2 DEF Init, TypeOK, NothingLoaded, NoLines
<1>4. JobHeld
  BY DEF Init, JobHeld, Waiting
<1> QED BY <1>3, <1>4

LEMMA TypeNext == TypeInv /\ [Next]_vars => TypeInv'
<1> SUFFICES ASSUME TypeInv, [Next]_vars PROVE TypeInv'
  OBVIOUS
<1> USE DEF Waiting, Open, Answers
<1>1. ASSUME NEW r \in Reqs, NEW j \in Job, Start(r, j) PROVE TypeInv'
  <2>1. \A i \in Items : [qty |-> stock[i], ver |-> version[i]] \in Row
    BY DEF TypeInv, TypeOK, Row
  <2>2. view' \in [Reqs -> [Items -> Row \union {NotLoaded}]]
    BY <1>1, <2>1 DEF Start, TypeInv, TypeOK
  <2>3. left' \in [Reqs -> SUBSET Items]
    BY <1>1 DEF Start, TypeInv, TypeOK, Job
  <2>4. TypeOK'
    BY <1>1, <2>2, <2>3 DEF Start, TypeInv, TypeOK, dbVars
  <2>5. JobHeld'
    BY <1>1 DEF Start, TypeInv, TypeOK, JobHeld
  <2> QED BY <2>4, <2>5 DEF TypeInv
<1>2. ASSUME NEW r \in Reqs, LookUpKey(r) PROVE TypeInv'
  <2>1. PICK i \in left[r] : /\ pc[r] = "lines"
                             /\ pc'[r] \in {"lock", "duplicate_lock"}
                             /\ pc' = [pc EXCEPT ![r] = pc'[r]]
                             /\ cur' = [cur EXCEPT ![r] = i]
                             /\ left' = [left EXCEPT ![r] = @ \ {i}]
                             /\ UNCHANGED <<dbVars, auditOpen, lockedBy, job, view, draft>>
    BY <1>2 DEF LookUpKey, TypeInv, TypeOK
  <2>2. i \in Items
    BY DEF TypeInv, TypeOK
  <2>3. TypeOK'
    BY <2>1, <2>2 DEF TypeInv, TypeOK, dbVars
  <2>4. JobHeld'
    BY <2>1, <2>2 DEF TypeInv, TypeOK, JobHeld
  <2> QED BY <2>3, <2>4 DEF TypeInv
<1>3. ASSUME NEW r \in Reqs, AnswerDuplicate(r) PROVE TypeInv'
  <2>1. TypeOK'
    BY <1>3 DEF AnswerDuplicate, TypeInv, TypeOK, dbVars
  <2>2. JobHeld'
    BY <1>3 DEF AnswerDuplicate, TypeInv, TypeOK, JobHeld
  <2> QED BY <2>1, <2>2 DEF TypeInv
<1>4. ASSUME NEW r \in Reqs, ApplyMovement(r) PROVE TypeInv'
  <2>1. PICK d \in Draft : cur[r] \in Items /\ draft' = [draft EXCEPT ![r][cur[r]] = d]
    BY <1>4, MovementDrafted
  <2>2. draft' \in [Reqs -> [Items -> Draft \union {NoMove}]]
    BY <2>1 DEF TypeInv, TypeOK
  <2>3. TypeOK'
    BY <1>4, <2>1, <2>2 DEF ApplyMovement, TypeInv, TypeOK, dbVars
  <2>4. JobHeld'
    BY <1>4, <2>1 DEF ApplyMovement, Accepted, AtLock, TypeInv, TypeOK, JobHeld
  <2> QED BY <2>3, <2>4 DEF TypeInv
<1>5. ASSUME NEW r \in Reqs, Commit(r) PROVE TypeInv'
  <2>1. CloseSession(r) /\ UNCHANGED <<auditOpen, job>> /\ pc[r] = "lines"
    BY <1>5 DEF Commit
  <2>2. \A i \in Moved(r) : draft[r][i] \in Draft /\ i \in Items
    BY DEF Moved, TypeInv, TypeOK
  <2>3. \A i \in Moved(r) : /\ draft[r][i].move \in Move
                            /\ draft[r][i].move.after \in Nat
                            /\ draft[r][i].ver \in Nat
    BY <2>2 DEF Draft, Move
  <2>4. stock' \in [Items -> Nat]
    BY <1>5, <2>3 DEF Commit, TypeInv, TypeOK
  <2>5. version' \in [Items -> Nat]
    BY <1>5, <2>3 DEF Commit, TypeInv, TypeOK
  <2>6. ledger' \in [Items -> Seq(Move)]
    <3>1. \A i \in Items : IF i \in Moved(r) THEN Append(ledger[i], draft[r][i].move) \in Seq(Move)
                                             ELSE ledger[i] \in Seq(Move)
      BY <2>3 DEF TypeInv, TypeOK
    <3> QED BY <1>5, <3>1 DEF Commit
  <2>7. openingLocked' \in [Items -> BOOLEAN]
    BY <1>5 DEF Commit
  <2>8. pc' \in [Reqs -> {"idle"} \union Open \union Answers]
    BY <1>5 DEF Commit, TypeInv, TypeOK
  <2>9. TypeOK'
    BY <2>1, <2>4, <2>5, <2>6, <2>7, <2>8, CloseSessionType DEF TypeInv, TypeOK
  <2>10. JobHeld'
    BY <1>5, <2>1, CloseSessionType DEF Commit, TypeInv, TypeOK, JobHeld
  <2> QED BY <2>9, <2>10 DEF TypeInv
<1>6. ASSUME NEW r \in Reqs, NEW a \in {"duplicate", "rejected", "error"}, RollBack(r, a),
             pc[r] # "idle"
      PROVE  TypeInv'
  <2>1. CloseSession(r) /\ UNCHANGED <<dbVars, auditOpen, job>> /\ pc' = [pc EXCEPT ![r] = a]
    BY <1>6 DEF RollBack
  <2>2. TypeOK'
    BY <2>1, CloseSessionType DEF TypeInv, TypeOK, dbVars
  <2>3. JobHeld'
    BY <1>6, <2>1, CloseSessionType DEF TypeInv, TypeOK, JobHeld
  <2> QED BY <2>2, <2>3 DEF TypeInv
<1>7. CASE ToggleAudit
  BY <1>7 DEF ToggleAudit, TypeInv, TypeOK, JobHeld, dbVars
<1>8. CASE UNCHANGED vars
  BY <1>8 DEF vars, dbVars, TypeInv, TypeOK, JobHeld
<1>9. ASSUME NEW r \in Reqs, Work(r) \/ Crash(r) PROVE TypeInv'
  <2>1. pc[r] # "idle"
    BY <1>9 DEF Work, Crash, LookUpKey, RefuseDuringAudit, AnswerDuplicate, RejectStaleVersion,
       RejectNegative, LoseKeyRace, ApplyMovement, Accepted, AtLock, Commit, DeadlockVictim,
       Deadlocked
  <2> QED BY <1>2, <1>3, <1>4, <1>5, <1>6, <1>9, <2>1, WorkShapes
<1> QED
  BY <1>1, <1>7, <1>8, <1>9, ArriveStarts DEF Next

(* Every variable keeps its type; in particular no item's committed stock,   *)
(* and no quantity a movement leaves behind, is ever negative, though the    *)
(* service checks the sign against a quantity that may be out of date.       *)
THEOREM TypeCorrect == Spec => []TypeOK
<1>1. Spec => []TypeInv
  BY TypeInit, TypeNext, PTL DEF Spec
<1> QED BY <1>1, PTL DEF TypeInv

-----------------------------------------------------------------------------
(* One movement per idempotency key.  The invariant is not inductive by       *)
(* itself: a commit publishes the keys of a draft, so the keys of all drafts  *)
(* must be new and distinct beforehand.                                       *)

Drafted(r, i) == draft[r][i] # NoMove
DraftKey(r, i) == draft[r][i].move.key

DraftKeysNew ==
    \A r \in Reqs, i \in Items :
        Drafted(r, i) /\ DraftKey(r, i) # NoKey => ~Committed(DraftKey(r, i))

DraftKeysDistinct ==
    \A r, s \in Reqs, i, k \in Items :
        Drafted(r, i) /\ Drafted(s, k) /\ DraftKey(r, i) # NoKey
          /\ DraftKey(r, i) = DraftKey(s, k) => r = s /\ i = k

KeyInv == OneMovementPerKey /\ DraftKeysNew /\ DraftKeysDistinct

(* A commit appends the draft of each item it moved, and nothing else. *)
LEMMA CommitAppends ==
    ASSUME TypeInv, NEW r \in Reqs, Commit(r), NEW i \in Items, NEW n \in 1..Len(ledger'[i])
    PROVE  \/ n \in 1..Len(ledger[i]) /\ ledger'[i][n] = ledger[i][n]
           \/ /\ Drafted(r, i) /\ ledger'[i][n] = draft[r][i].move
              /\ n = Len(ledger[i]) + 1
<1>1. ledger[i] \in Seq(Move) /\ ledger'[i] = IF i \in Moved(r)
                                              THEN Append(ledger[i], draft[r][i].move)
                                              ELSE ledger[i]
  BY DEF Commit, TypeInv, TypeOK
<1>2. CASE i \in Moved(r)
  <2>1. Drafted(r, i) /\ draft[r][i].move \in Move
    BY <1>2 DEF Moved, Drafted, TypeInv, TypeOK, Draft
  <2> QED BY <1>1, <1>2, <2>1
<1>3. CASE i \notin Moved(r)
  BY <1>1, <1>3
<1> QED BY <1>2, <1>3

LEMMA KeyNext == TypeInv /\ KeyInv /\ [Next]_vars => KeyInv'
<1> SUFFICES ASSUME TypeInv, KeyInv, [Next]_vars PROVE KeyInv'
  OBVIOUS
<1> USE DEF Drafted, DraftKey
<1>1. ASSUME UNCHANGED <<ledger, draft>> PROVE KeyInv'
  BY <1>1 DEF KeyInv, OneMovementPerKey, DraftKeysNew, DraftKeysDistinct, Committed
<1>2. ASSUME NEW r \in Reqs, CloseSession(r)
      PROVE  \A s \in Reqs, i \in Items :
                /\ Drafted(s, i)' => Drafted(s, i) /\ s # r
                /\ Drafted(s, i)' => draft'[s][i] = draft[s][i]
  BY <1>2 DEF CloseSession, NoLines, TypeInv, TypeOK
<1>3. ASSUME NEW r \in Reqs, NEW a \in {"duplicate", "rejected", "error"}, RollBack(r, a)
      PROVE  KeyInv'
  <2>1. CloseSession(r) /\ ledger' = ledger
    BY <1>3 DEF RollBack, dbVars
  <2>2. OneMovementPerKey'
    BY <2>1 DEF KeyInv, OneMovementPerKey
  <2>3. DraftKeysNew'
    BY <2>1, <1>2 DEF KeyInv, DraftKeysNew, Committed
  <2>4. DraftKeysDistinct'
    BY <2>1, <1>2 DEF KeyInv, DraftKeysDistinct
  <2> QED BY <2>2, <2>3, <2>4 DEF KeyInv
<1>4. ASSUME NEW r \in Reqs, ApplyMovement(r) PROVE KeyInv'
  <2> DEFINE c == cur[r]
             key == LineKey(job[r], c)
  <2>1. c \in Items
    BY <1>4 DEF ApplyMovement, Accepted, AtLock, TypeInv, JobHeld, Waiting
  <2>2. ledger' = ledger
    BY <1>4 DEF ApplyMovement, dbVars
  <2>3. draft'[r][c].move.key = key
    BY <1>4, <2>1 DEF ApplyMovement, TypeInv, TypeOK
  <2>4. \A s \in Reqs, i \in Items : s # r \/ i # c => draft'[s][i] = draft[s][i]
    BY <1>4, <2>1 DEF ApplyMovement, TypeInv, TypeOK
  <2>5. key # NoKey => ~Committed(key) /\ \A s \in Reqs : ~Flushed(s, key)
    BY <1>4 DEF ApplyMovement, KeyTaken
  <2>6. OneMovementPerKey'
    BY <2>2 DEF KeyInv, OneMovementPerKey
  <2>7. DraftKeysNew'
    BY <2>2, <2>3, <2>4, <2>5 DEF KeyInv, DraftKeysNew, Committed
  <2>8. DraftKeysDistinct'
    BY <2>3, <2>4, <2>5 DEF KeyInv, DraftKeysDistinct, Flushed
  <2> QED BY <2>6, <2>7, <2>8 DEF KeyInv
<1>5. ASSUME NEW r \in Reqs, Commit(r) PROVE KeyInv'
  <2>1. CloseSession(r)
    BY <1>5 DEF Commit
  <2>2. \A i \in Items : \A n \in 1..Len(ledger'[i]) :
           \/ n \in 1..Len(ledger[i]) /\ ledger'[i][n] = ledger[i][n]
           \/ /\ Drafted(r, i) /\ ledger'[i][n] = draft[r][i].move
              /\ n = Len(ledger[i]) + 1
    BY <1>5, CommitAppends
  <2>3. OneMovementPerKey'
    <3> SUFFICES ASSUME NEW i \in Items, NEW k \in Items,
                        NEW n \in 1..Len(ledger'[i]), NEW m \in 1..Len(ledger'[k]),
                        ledger'[i][n].key # NoKey, ledger'[i][n].key = ledger'[k][m].key
                 PROVE  i = k /\ n = m
      BY DEF OneMovementPerKey
    <3>1. CASE /\ n \in 1..Len(ledger[i]) /\ ledger'[i][n] = ledger[i][n]
               /\ m \in 1..Len(ledger[k]) /\ ledger'[k][m] = ledger[k][m]
      BY <3>1 DEF KeyInv, OneMovementPerKey
    <3>2. CASE /\ Drafted(r, i) /\ ledger'[i][n] = draft[r][i].move /\ n = Len(ledger[i]) + 1
               /\ Drafted(r, k) /\ ledger'[k][m] = draft[r][k].move /\ m = Len(ledger[k]) + 1
      BY <3>2 DEF KeyInv, DraftKeysDistinct
    <3>3. CASE /\ n \in 1..Len(ledger[i]) /\ ledger'[i][n] = ledger[i][n]
               /\ Drafted(r, k) /\ ledger'[k][m] = draft[r][k].move
      BY <3>3 DEF KeyInv, DraftKeysNew, Committed
    <3>4. CASE /\ Drafted(r, i) /\ ledger'[i][n] = draft[r][i].move
               /\ m \in 1..Len(ledger[k]) /\ ledger'[k][m] = ledger[k][m]
      BY <3>4 DEF KeyInv, DraftKeysNew, Committed
    <3> QED BY <2>2, <3>1, <3>2, <3>3, <3>4
  <2>4. DraftKeysNew'
    <3> SUFFICES ASSUME NEW s \in Reqs, NEW i \in Items, Drafted(s, i)',
                        DraftKey(s, i)' # NoKey,
                        NEW k \in Items, NEW m \in 1..Len(ledger'[k]),
                        ledger'[k][m].key = DraftKey(s, i)'
                 PROVE  FALSE
      BY DEF DraftKeysNew, Committed
    <3>1. Drafted(s, i) /\ s # r /\ DraftKey(s, i)' = DraftKey(s, i)
      BY <2>1, <1>2
    <3>2. CASE m \in 1..Len(ledger[k]) /\ ledger'[k][m] = ledger[k][m]
      BY <3>1, <3>2 DEF KeyInv, DraftKeysNew, Committed
    <3>3. CASE Drafted(r, k) /\ ledger'[k][m] = draft[r][k].move
      BY <3>1, <3>3 DEF KeyInv, DraftKeysDistinct
    <3> QED BY <2>2, <3>2, <3>3
  <2>5. DraftKeysDistinct'
    BY <2>1, <1>2 DEF KeyInv, DraftKeysDistinct
  <2> QED BY <2>3, <2>4, <2>5 DEF KeyInv
<1>6. ASSUME NEW r \in Reqs, Arrive(r) PROVE KeyInv'
  BY <1>1, <1>6, ArriveStarts DEF Start, dbVars
<1>7. ASSUME NEW r \in Reqs, Work(r) \/ Crash(r) PROVE KeyInv'
  BY <1>1, <1>3, <1>4, <1>5, <1>7, WorkShapes DEF LookUpKey, AnswerDuplicate, dbVars
<1>8. CASE ToggleAudit
  BY <1>1, <1>8 DEF ToggleAudit, dbVars
<1>9. CASE UNCHANGED vars
  BY <1>1, <1>9 DEF vars, dbVars
<1> QED BY <1>6, <1>7, <1>8, <1>9 DEF Next

(* However many requests and retries carry a key, on whatever items, and     *)
(* whichever of them crash, at most one movement of the business bears it.   *)
THEOREM KeyMovesOnce == Spec => []OneMovementPerKey
<1>1. Init => KeyInv
  BY DEF Init, KeyInv, OneMovementPerKey, DraftKeysNew, DraftKeysDistinct, Drafted, NoLines
<1>2. Spec => [](TypeInv /\ KeyInv)
  BY <1>1, TypeInit, TypeNext, KeyNext, PTL DEF Spec
<1> QED BY <1>2, PTL DEF KeyInv

-----------------------------------------------------------------------------
(* The ledger explains the stock, as long as no handler reads an item before *)
(* its lock: then a draft was computed from the committed row, and the lock  *)
(* keeps that row in place until the draft is committed.                     *)

ReadsUnderLock == Handlers \cap Preloading = {}

DraftCurrent(r, i) ==
    /\ lockedBy[i] = r
    /\ draft[r][i].move.before = stock[i]
    /\ draft[r][i].move.after = stock[i] + draft[r][i].move.delta
    /\ draft[r][i].ver = version[i] + 1

FreshInv ==
    /\ \A r \in Reqs, i \in Items : view[r][i] = NotLoaded
    /\ \A r \in Reqs, i \in Items : Drafted(r, i) => DraftCurrent(r, i)

LEMMA FreshNext == ReadsUnderLock /\ TypeInv /\ FreshInv /\ [Next]_vars => FreshInv'
<1> SUFFICES ASSUME ReadsUnderLock, TypeInv, FreshInv, [Next]_vars PROVE FreshInv'
  OBVIOUS
<1> USE DEF Drafted, DraftCurrent
<1>1. ASSUME UNCHANGED <<stock, version, draft, view>>,
             \A i \in Items : lockedBy'[i] = lockedBy[i] \/ lockedBy[i] = NoReq
      PROVE  FreshInv'
  BY <1>1, NullsAssumption DEF FreshInv
<1>2. ASSUME NEW r \in Reqs, CloseSession(r)
      PROVE  /\ \A s \in Reqs, i \in Items : view'[s][i] = NotLoaded
             /\ \A i \in Items : ~Drafted(r, i)'
             /\ \A s \in Reqs \ {r}, i \in Items :
                   Drafted(s, i)' => /\ Drafted(s, i) /\ draft'[s][i] = draft[s][i]
                                     /\ lockedBy'[i] = s
  BY <1>2 DEF CloseSession, FreedLocks, NothingLoaded, NoLines, FreshInv, TypeInv, TypeOK
<1>3. ASSUME NEW r \in Reqs, NEW a \in {"duplicate", "rejected", "error"}, RollBack(r, a)
      PROVE  FreshInv'
  BY <1>2, <1>3 DEF RollBack, dbVars, FreshInv
<1>4. ASSUME NEW r \in Reqs, NEW j \in Job, Start(r, j) PROVE FreshInv'
  <2>1. j.handler \notin Preloading
    BY DEF ReadsUnderLock, Job
  <2>2. view' = [view EXCEPT ![r] = [i \in Items |-> NotLoaded]]
    BY <1>4, <2>1 DEF Start, Loads
  <2>3. \A s \in Reqs, i \in Items : view'[s][i] = NotLoaded
    BY <2>2 DEF FreshInv, TypeInv, TypeOK
  <2> QED BY <1>4, <2>3 DEF Start, FreshInv, dbVars
<1>5. ASSUME NEW r \in Reqs, AnswerDuplicate(r) PROVE FreshInv'
  <2>1. cur[r] \in Items
    BY <1>5 DEF AnswerDuplicate, TypeInv, JobHeld, Waiting
  <2>2. \A i \in Items : lockedBy'[i] = lockedBy[i] \/ lockedBy[i] = NoReq
    BY <1>5, <2>1 DEF AnswerDuplicate, TypeInv, TypeOK
  <2> QED BY <1>1, <1>5, <2>2 DEF AnswerDuplicate, dbVars
<1>6. ASSUME NEW r \in Reqs, ApplyMovement(r) PROVE FreshInv'
  <2> DEFINE row == LockedRow(r)
  <2>0. cur[r] \in Items /\ job[r] \in Job /\ lockedBy[cur[r]] = NoReq
    BY <1>6 DEF ApplyMovement, Accepted, AtLock, TypeInv, JobHeld, Waiting
  <2>1. PICK c \in Items : c = cur[r] /\ job[r] \in Job /\ lockedBy[c] = NoReq
    BY <2>0
  <2>2. row = [qty |-> stock[c], ver |-> version[c]]
    BY <2>1 DEF LockedRow, FreshInv
  <2>3. row \in Row /\ After(job[r], row) \in Int
    BY <2>1, LockedRowType, AfterType
  <2>4. /\ draft'[r][c].move.before = stock[c]
        /\ draft'[r][c].move.delta = After(job[r], row) - stock[c]
        /\ draft'[r][c].move.after = After(job[r], row)
        /\ draft'[r][c].ver = version[c] + 1
    BY <1>6, <2>1, <2>2 DEF ApplyMovement, TypeInv, TypeOK
  <2>5. lockedBy'[c] = r
    BY <1>6, <2>1 DEF ApplyMovement, TypeInv, TypeOK
  <2>6. stock[c] \in Int
    BY <2>1 DEF TypeInv, TypeOK
  <2>7. UNCHANGED <<stock, version>>
    BY <1>6 DEF ApplyMovement, dbVars
  <2>8. DraftCurrent(r, c)'
    BY <2>3, <2>4, <2>5, <2>6, <2>7
  <2>9. \A s \in Reqs, i \in Items : s # r \/ i # c =>
           /\ draft'[s][i] = draft[s][i]
           /\ Drafted(s, i) => lockedBy'[i] = s
    BY <1>6, <2>1, NullsAssumption DEF ApplyMovement, FreshInv, TypeInv, TypeOK
  <2>10. \A s \in Reqs, i \in Items : Drafted(s, i)' => DraftCurrent(s, i)'
    BY <2>7, <2>8, <2>9 DEF FreshInv
  <2>11. view' = view
    BY <1>6 DEF ApplyMovement
  <2> QED BY <2>10, <2>11 DEF FreshInv
<1>7. ASSUME NEW r \in Reqs, Commit(r) PROVE FreshInv'
  <2>1. CloseSession(r)
    BY <1>7 DEF Commit
  <2>2. \A s \in Reqs \ {r}, i \in Items : Drafted(s, i) => i \notin Moved(r)
    BY DEF FreshInv, Moved
  <2>3. \A i \in Items : i \notin Moved(r) => stock'[i] = stock[i] /\ version'[i] = version[i]
    BY <1>7 DEF Commit
  <2>4. \A s \in Reqs, i \in Items : Drafted(s, i)' => DraftCurrent(s, i)'
    BY <1>2, <2>1, <2>2, <2>3 DEF FreshInv
  <2> QED BY <1>2, <2>1, <2>4 DEF FreshInv
<1>8. ASSUME NEW r \in Reqs, Work(r) \/ Crash(r) PROVE FreshInv'
  BY <1>1, <1>3, <1>5, <1>6, <1>7, <1>8, WorkShapes DEF LookUpKey, dbVars
<1>9. CASE ToggleAudit
  BY <1>1, <1>9 DEF ToggleAudit, dbVars
<1>10. CASE UNCHANGED vars
  BY <1>1, <1>10 DEF vars, dbVars
<1> QED BY <1>4, <1>8, <1>9, <1>10, ArriveStarts DEF Next

LEMMA FreshInit == Init => FreshInv
BY DEF Init, FreshInv, Drafted, NothingLoaded, NoLines

(* Each step posts to the book, in one transaction, or leaves it alone. *)
LEMMA BookStep == TypeInv /\ FreshInv /\ [Next]_vars => [Book!Next]_(Book!book)
<1> SUFFICES ASSUME TypeInv, FreshInv, [Next]_vars,
                    ~UNCHANGED <<stock, version, ledger>>
             PROVE  Book!Next
  BY DEF Book!book
<1>1. PICK r \in Reqs : Commit(r)
  <2>1. ~\E r \in Reqs : Arrive(r)
    BY ArriveStarts DEF Start, dbVars
  <2>2. ~ToggleAudit /\ ~UNCHANGED vars
    BY DEF ToggleAudit, vars, dbVars
  <2>3. PICK r \in Reqs : Work(r) \/ Crash(r)
    BY <2>1, <2>2 DEF Next
  <2> QED
    BY <2>3, WorkShapes DEF LookUpKey, AnswerDuplicate, ApplyMovement, RollBack, dbVars
<1>2. DOMAIN stock' = Items /\ DOMAIN version' = Items /\ DOMAIN ledger' = Items
  BY <1>1 DEF Commit
<1>3. ASSUME NEW i \in Items, i \notin Moved(r) PROVE Book!Untouched(i)
  BY <1>1, <1>3 DEF Commit, Book!Untouched
<1>4. ASSUME NEW i \in Items, i \in Moved(r)
      PROVE  ledger'[i] # <<>> /\ Book!Post(i, ledger'[i][Len(ledger'[i])])
  <2> DEFINE m == draft[r][i].move
  <2>1. DraftCurrent(r, i)
    BY <1>4 DEF Moved, Drafted, FreshInv
  <2>2. m \in Move /\ ledger[i] \in Seq(Move)
    BY <1>4 DEF Moved, TypeInv, TypeOK, Draft
  <2>3. ledger'[i] = Append(ledger[i], m)
    BY <1>1, <1>4 DEF Commit
  <2>4. ledger'[i] # <<>> /\ ledger'[i][Len(ledger'[i])] = m
    BY <2>2, <2>3
  <2>5. stock'[i] = m.after /\ version'[i] = draft[r][i].ver
    BY <1>1, <1>4, <2>1 DEF Commit, DraftCurrent
  <2>6. m.after >= 0
    BY <2>2 DEF Move
  <2> QED BY <2>1, <2>3, <2>4, <2>5, <2>6 DEF Book!Post, DraftCurrent
<1> QED BY <1>2, <1>3, <1>4 DEF Book!Next

(* Requests that take the item's lock before they read it, physical updates   *)
(* and quick purchases, together implement the abstract book: what they do is *)
(* what some order of one-step postings would do.                             *)
THEOREM LockFirstImplementsBook == ReadsUnderLock => (Spec => ImplementsBook)
<1> SUFFICES ASSUME ReadsUnderLock PROVE Spec => ImplementsBook
  OBVIOUS
<1>1. Init => Book!Init
  BY DEF Init, Book!Init
<1>2. TypeInv /\ FreshInv /\ [Next]_vars => (TypeInv /\ FreshInv)'
  BY TypeNext, FreshNext
<1>3. Spec => [](TypeInv /\ FreshInv)
  BY <1>2, TypeInit, FreshInit, PTL DEF Spec
<1> QED BY <1>1, <1>3, BookStep, PTL DEF Spec, ImplementsBook, Book!Spec

ItemChained(i) ==
    /\ \A n \in 1..Len(ledger[i]) : ledger[i][n].before = Book!After(i, n - 1)
    /\ stock[i] = Book!After(i, Len(ledger[i]))
    /\ version[i] = Len(ledger[i])

(* The book chains its entries. *)
LEMMA ChainStep ==
    ASSUME \A i \in Items : ledger[i] \in Seq(Move), LedgerBalanced, [Book!Next]_(Book!book)
    PROVE  LedgerBalanced'
<1> USE DEF LedgerBalanced, Book!Chained, Book!After, ItemChained
<1>1. CASE UNCHANGED Book!book
  BY <1>1 DEF Book!book
<1>2. CASE Book!Next
  <2>1. ASSUME NEW i \in Items, Book!Untouched(i) PROVE ItemChained(i)'
    BY <2>1 DEF Book!Untouched
  <2>2. ASSUME NEW i \in Items, ledger'[i] # <<>>,
               Book!Post(i, ledger'[i][Len(ledger'[i])])
        PROVE  ItemChained(i)'
    <3>1. PICK e : Book!Post(i, e) /\ e = ledger'[i][Len(ledger'[i])]
      BY <2>2
    <3> DEFINE L == Len(ledger[i])
    <3>2. ledger[i] \in Seq(Move) /\ L \in Nat
      OBVIOUS
    <3>3. /\ Len(ledger'[i]) = L + 1
          /\ ledger'[i][L + 1] = e
          /\ \A n \in 1..L : ledger'[i][n] = ledger[i][n]
      BY <3>1, <3>2 DEF Book!Post
    <3>4. e.before = stock[i] /\ stock'[i] = e.after /\ version'[i] = version[i] + 1
      BY <3>1 DEF Book!Post
    <3>5. ASSUME NEW n \in 1..(L + 1)
          PROVE  ledger'[i][n].before
                    = IF n - 1 = 0 THEN OpeningQty ELSE ledger'[i][n - 1].after
      <4>1. CASE n = L + 1
        <5>1. n - 1 = L /\ (L # 0 => L \in 1..L)
          BY <3>2, <4>1
        <5>2. stock[i] = IF L = 0 THEN OpeningQty ELSE ledger[i][L].after
          OBVIOUS
        <5> QED BY <3>3, <3>4, <4>1, <5>1, <5>2
      <4>2. CASE n \in 1..L
        <5>1. n - 1 # 0 => n - 1 \in 1..L
          BY <3>2, <4>2
        <5>2. ledger[i][n].before = IF n - 1 = 0 THEN OpeningQty ELSE ledger[i][n - 1].after
          BY <4>2
        <5> QED BY <3>3, <4>2, <5>1, <5>2
      <4> QED BY <3>2, <4>1, <4>2
    <3> QED BY <3>2, <3>3, <3>4, <3>5
  <2>3. \A i \in Items : ItemChained(i)'
    BY <1>2, <2>1, <2>2 DEF Book!Next
  <2> QED BY <2>3
<1> QED BY <1>1, <1>2

(* The stock of an item is its opening quantity carried through every         *)
(* movement in the ledger, and its version counts the movements.              *)
THEOREM LockFirstBalances == ReadsUnderLock => (Spec => []LedgerBalanced)
<1> SUFFICES ASSUME ReadsUnderLock PROVE Spec => []LedgerBalanced
  OBVIOUS
<1>1. Init => LedgerBalanced
  BY DEF Init, LedgerBalanced, Book!Chained, Book!After
<1>2. TypeInv /\ FreshInv /\ LedgerBalanced /\ [Next]_vars
        => (TypeInv /\ FreshInv /\ LedgerBalanced)'
  BY TypeNext, FreshNext, BookStep, ChainStep DEF TypeInv, TypeOK
<1> QED BY <1>1, <1>2, TypeInit, FreshInit, PTL DEF Spec

-----------------------------------------------------------------------------
(* Strict edits of one version exclude each other: an accepted one has seen   *)
(* the version its movement replaces, and versions number the movements.     *)

SeenInv ==
    /\ \A r \in Reqs, i \in Items :
          Drafted(r, i) => /\ draft[r][i].move.req = r
                           /\ pc[r] # "idle"
                           /\ Strict(job[r]) => job[r].seen + 1 = draft[r][i].ver
    /\ \A i \in Items : \A n \in 1..Len(ledger[i]) :
          /\ pc[ledger[i][n].req] # "idle"
          /\ Strict(job[ledger[i][n].req]) => job[ledger[i][n].req].seen = n - 1

LEMMA SeenInit == Init => SeenInv
BY DEF Init, SeenInv, Drafted, NoLines

(* An accepted strict edit carries the version it works on. *)
LEMMA StrictSeesVersion ==
    ASSUME NEW j \in Job, NEW row \in Row, Strict(j), VersionAccepted(j, row)
    PROVE  j.seen = row.ver
BY DEF Strict, VersionAccepted, Row

LEMMA SeenNext ==
    TypeInv /\ FreshInv /\ LedgerBalanced /\ SeenInv /\ [Next]_vars => SeenInv'
<1> SUFFICES ASSUME TypeInv, FreshInv, LedgerBalanced, SeenInv, [Next]_vars PROVE SeenInv'
  OBVIOUS
<1> USE DEF Drafted
<1>0. \A i \in Items : /\ ledger[i] \in Seq(Move)
                        /\ \A n \in 1..Len(ledger[i]) : ledger[i][n].req \in Reqs
  <2>1. \A i \in Items : ledger[i] \in Seq(Move)
    BY DEF TypeInv, TypeOK
  <2>2. \A i \in Items : \A n \in 1..Len(ledger[i]) : ledger[i][n] \in Move
    BY <2>1
  <2> QED BY <2>1, <2>2 DEF Move
<1>1. ASSUME UNCHANGED <<ledger, job>>,
             \A r \in Reqs : pc[r] # "idle" => pc'[r] # "idle",
             \A r \in Reqs, i \in Items : Drafted(r, i)' => draft'[r][i] = draft[r][i]
      PROVE  SeenInv'
  BY <1>0, <1>1 DEF SeenInv
<1>2. ASSUME NEW r \in Reqs, NEW a \in {"duplicate", "rejected", "error"}, RollBack(r, a)
      PROVE  SeenInv'
  BY <1>1, <1>2 DEF RollBack, CloseSession, NoLines, dbVars, TypeInv, TypeOK
<1>3. ASSUME NEW r \in Reqs, NEW j \in Job, Start(r, j) PROVE SeenInv'
  <2>1. UNCHANGED <<ledger, draft>>
    BY <1>3 DEF Start, dbVars
  <2>2. \A s \in Reqs : pc[s] # "idle" => pc'[s] # "idle" /\ job'[s] = job[s]
    BY <1>3 DEF Start, TypeInv, TypeOK
  <2> QED BY <1>0, <2>1, <2>2 DEF SeenInv
<1>4. ASSUME NEW r \in Reqs, LookUpKey(r) PROVE SeenInv'
  BY <1>1, <1>4 DEF LookUpKey, dbVars, TypeInv, TypeOK
<1>5. ASSUME NEW r \in Reqs, AnswerDuplicate(r) PROVE SeenInv'
  BY <1>1, <1>5 DEF AnswerDuplicate, dbVars, TypeInv, TypeOK
<1>6. ASSUME NEW r \in Reqs, ApplyMovement(r) PROVE SeenInv'
  <2> DEFINE row == LockedRow(r)
  <2>1. /\ cur[r] \in Items /\ job[r] \in Job /\ pc[r] # "idle"
        /\ VersionAccepted(job[r], row)
    BY <1>6 DEF ApplyMovement, Accepted, AtLock, TypeInv, JobHeld, Waiting
  <2>2. row \in Row
    BY <2>1, LockedRowType
  <2>3. Strict(job[r]) => job[r].seen + 1 = row.ver + 1
    BY <2>1, <2>2, StrictSeesVersion
  <2>4. draft'[r][cur[r]].move.req = r /\ draft'[r][cur[r]].ver = row.ver + 1
    BY <1>6, <2>1 DEF ApplyMovement, TypeInv, TypeOK
  <2>5. UNCHANGED <<ledger, job>> /\ \A s \in Reqs : pc[s] # "idle" => pc'[s] # "idle"
    BY <1>6 DEF ApplyMovement, dbVars, TypeInv, TypeOK
  <2>6. \A s \in Reqs, i \in Items : s # r \/ i # cur[r] => draft'[s][i] = draft[s][i]
    BY <1>6 DEF ApplyMovement, TypeInv, TypeOK
  <2> QED BY <1>0, <2>1, <2>3, <2>4, <2>5, <2>6 DEF SeenInv
<1>7. ASSUME NEW r \in Reqs, Commit(r) PROVE SeenInv'
  <2>1. /\ job' = job
        /\ \A s \in Reqs : pc[s] # "idle" => pc'[s] # "idle"
        /\ \A s \in Reqs, i \in Items : Drafted(s, i)' => draft'[s][i] = draft[s][i]
    BY <1>7 DEF Commit, CloseSession, NoLines, TypeInv, TypeOK
  <2>2. ASSUME NEW i \in Items, NEW n \in 1..Len(ledger'[i])
        PROVE  /\ pc'[ledger'[i][n].req] # "idle"
               /\ Strict(job[ledger'[i][n].req]) => job[ledger'[i][n].req].seen = n - 1
    <3>1. CASE i \notin Moved(r)
      <4>1. ledger'[i] = ledger[i]
        BY <1>7, <3>1 DEF Commit
      <4> QED BY <1>0, <2>1, <4>1 DEF SeenInv
    <3>2. CASE i \in Moved(r)
      <4>1. ledger'[i] = Append(ledger[i], draft[r][i].move) /\ Drafted(r, i)
        BY <1>7, <3>2 DEF Commit, Moved
      <4>2. CASE n \in 1..Len(ledger[i])
        <5>1. ledger'[i][n] = ledger[i][n]
          BY <1>0, <4>1, <4>2
        <5> QED BY <1>0, <2>1, <4>2, <5>1 DEF SeenInv
      <4>3. CASE n = Len(ledger[i]) + 1
        <5>1. ledger'[i][n] = draft[r][i].move
          BY <1>0, <4>1, <4>3
        <5>2. draft[r][i].ver = version[i] + 1 /\ version[i] = Len(ledger[i])
          BY <4>1 DEF FreshInv, DraftCurrent, LedgerBalanced, Book!Chained
        <5>3. draft[r][i].move.req = r /\ pc[r] # "idle"
              /\ (Strict(job[r]) => job[r].seen + 1 = draft[r][i].ver)
          BY <4>1 DEF SeenInv
        <5>4. job[r] \in Job
          BY <5>3 DEF TypeInv, JobHeld
        <5>5. job[r].seen \in Int /\ Len(ledger[i]) \in Nat
          BY <1>0, <5>4 DEF Job, NoVersion
        <5> QED BY <2>1, <4>3, <5>1, <5>2, <5>3, <5>5
      <4> QED BY <1>0, <4>1, <4>2, <4>3
    <3> QED BY <3>1, <3>2
  <2> QED BY <2>1, <2>2 DEF SeenInv
<1>8. ASSUME NEW r \in Reqs, Work(r) \/ Crash(r) PROVE SeenInv'
  BY <1>2, <1>4, <1>5, <1>6, <1>7, <1>8, WorkShapes
<1>9. CASE ToggleAudit \/ UNCHANGED vars
  BY <1>1, <1>9 DEF ToggleAudit, vars, dbVars
<1> QED BY <1>3, <1>8, <1>9, ArriveStarts DEF Next

(* Two strict edits made from the same version of an item are never both      *)
(* accepted, when no handler in use reads the item before its lock.           *)
THEOREM LockFirstRejectsConflicts == ReadsUnderLock => (Spec => []NoConflictingEdits)
<1> SUFFICES ASSUME ReadsUnderLock PROVE Spec => []NoConflictingEdits
  OBVIOUS
<1>1. TypeInv /\ FreshInv /\ LedgerBalanced /\ SeenInv /\ [Next]_vars
        => (TypeInv /\ FreshInv /\ SeenInv)'
  BY TypeNext, FreshNext, SeenNext
<1>2. SeenInv => NoConflictingEdits
  BY DEF SeenInv, NoConflictingEdits
<1>3. Spec => []LedgerBalanced
  BY LockFirstBalances
<1> QED BY <1>1, <1>2, <1>3, TypeInit, FreshInit, SeenInit, PTL DEF Spec

-----------------------------------------------------------------------------
(* An answer tells the ledger: while a request is open, each line of its job  *)
(* is still to do, waits for its lock, is drafted, or was found committed.    *)

Known(r, i) == job[r].key # NoKey /\ Committed(LineKey(job[r], i))

LineAccounted(r, i) ==
    \/ i \in left[r]
    \/ pc[r] \in Waiting /\ i = cur[r]
    \/ Drafted(r, i)
    \/ Known(r, i)

LinesInv ==
    /\ \A r \in Reqs, i \in Items :
          /\ Drafted(r, i) => pc[r] \in Open /\ draft[r][i].move.req = r
          /\ pc[r] \in Open /\ i \in job[r].items => LineAccounted(r, i)
          /\ pc[r] = "duplicate_lock" /\ i = cur[r] => Known(r, i)
    /\ AnswersTellTheLedger

LEMMA LinesInit == Init => LinesInv
BY DEF Init, LinesInv, Drafted, NoLines, AnswersTellTheLedger, Open, Waiting

(* What is committed stays committed. *)
LEMMA CommittedStays ==
    ASSUME TypeInv, NEW r \in Reqs, Commit(r), NEW k, Committed(k)
    PROVE  Committed(k)'
<1>0. PICK i \in Items : \E n \in 1..Len(ledger[i]) : ledger[i][n].key = k
  BY DEF Committed
<1>1. PICK n \in 1..Len(ledger[i]) : ledger[i][n].key = k
  BY <1>0
<1>2. ledger[i] \in Seq(Move)
  BY DEF TypeInv, TypeOK
<1>3. ledger'[i] = ledger[i] \/ ledger'[i] = Append(ledger[i], draft[r][i].move)
  BY DEF Commit
<1>4. n \in 1..Len(ledger'[i]) /\ ledger'[i][n] = ledger[i][n]
  BY <1>2, <1>3
<1> QED BY <1>1, <1>4 DEF Committed

(* A step of r alone that changes no ledger. *)
LEMMA QuietLines ==
    ASSUME TypeInv, LinesInv, NEW r \in Reqs, UNCHANGED ledger,
           \A s \in Reqs \ {r} : /\ pc'[s] = pc[s] /\ job'[s] = job[s] /\ left'[s] = left[s]
                                 /\ cur'[s] = cur[s] /\ draft'[s] = draft[s],
           pc'[r] # "ok", pc[r] # "ok",
           \A i \in Items : /\ Drafted(r, i)' => pc'[r] \in Open /\ draft'[r][i].move.req = r
                            /\ pc'[r] \in Open /\ i \in job'[r].items => LineAccounted(r, i)'
                            /\ pc'[r] = "duplicate_lock" /\ i = cur'[r] => Known(r, i)'
    PROVE  LinesInv'
<1> USE DEF Drafted, Known, Committed
<1>1. ASSUME NEW s \in Reqs, NEW i \in Items
      PROVE  /\ Drafted(s, i)' => pc'[s] \in Open /\ draft'[s][i].move.req = s
             /\ pc'[s] \in Open /\ i \in job'[s].items => LineAccounted(s, i)'
             /\ pc'[s] = "duplicate_lock" /\ i = cur'[s] => Known(s, i)'
  <2>1. CASE s = r
    BY <2>1
  <2>2. CASE s # r
    BY <2>2 DEF LinesInv, LineAccounted
  <2> QED BY <2>1, <2>2
<1>2. AnswersTellTheLedger'
  <2>1. ASSUME NEW s \in Reqs, pc'[s] = "ok"
        PROVE  \A i \in job'[s].items :
                  \/ \E n \in 1..Len(ledger'[i]) : ledger'[i][n].req = s
                  \/ job'[s].key # NoKey /\ Committed(LineKey(job[s], i))'
    BY <2>1 DEF LinesInv, AnswersTellTheLedger
  <2>2. ASSUME NEW s \in Reqs, pc'[s] # "ok"
        PROVE  \A i \in Items : \A n \in 1..Len(ledger'[i]) : ledger'[i][n].req # s
    BY <2>2 DEF LinesInv, AnswersTellTheLedger
  <2>3. \A s \in Reqs : pc'[s] = "ok" => job'[s] = job[s]
    OBVIOUS
  <2> QED BY <2>1, <2>2, <2>3 DEF AnswersTellTheLedger
<1> QED BY <1>1, <1>2 DEF LinesInv

LEMMA LinesNext == TypeInv /\ LinesInv /\ [Next]_vars => LinesInv'
<1> SUFFICES ASSUME TypeInv, LinesInv, [Next]_vars PROVE LinesInv'
  OBVIOUS
<1>1. ASSUME NEW r \in Reqs, NEW a \in {"duplicate", "rejected", "error"}, RollBack(r, a),
             pc[r] \in Open
      PROVE  LinesInv'
  <2>1. /\ UNCHANGED ledger /\ pc'[r] = a
        /\ \A i \in Items : ~Drafted(r, i)'
        /\ \A s \in Reqs \ {r} : /\ pc'[s] = pc[s] /\ job'[s] = job[s] /\ left'[s] = left[s]
                                  /\ cur'[s] = cur[s] /\ draft'[s] = draft[s]
    BY <1>1 DEF RollBack, CloseSession, NoLines, Drafted, dbVars, TypeInv, TypeOK
  <2>2. pc'[r] # "ok" /\ pc[r] # "ok" /\ pc'[r] \notin Open /\ pc'[r] # "duplicate_lock"
    BY <1>1, <2>1 DEF Open, Waiting
  <2> QED BY <2>1, <2>2, QuietLines
<1>2. ASSUME NEW r \in Reqs, NEW j \in Job, Start(r, j) PROVE LinesInv'
  <2>1. /\ UNCHANGED ledger /\ pc[r] = "idle" /\ pc'[r] = "lines"
        /\ job'[r] = j /\ left'[r] = j.items
        /\ UNCHANGED draft
        /\ \A s \in Reqs \ {r} : /\ pc'[s] = pc[s] /\ job'[s] = job[s] /\ left'[s] = left[s]
                                  /\ cur'[s] = cur[s] /\ draft'[s] = draft[s]
    BY <1>2 DEF Start, dbVars, TypeInv, TypeOK
  <2>2. \A i \in Items : ~Drafted(r, i)'
    BY <2>1 DEF LinesInv, Drafted, Open, Waiting
  <2> QED BY <2>1, <2>2, QuietLines DEF LineAccounted
<1>3. ASSUME NEW r \in Reqs, LookUpKey(r) PROVE LinesInv'
  <2>1. PICK i \in left[r] :
            LET known == job[r].key # NoKey /\ Committed(LineKey(job[r], i))
            IN  /\ pc[r] = "lines"
                /\ pc' = [pc EXCEPT ![r] = IF known THEN "duplicate_lock" ELSE "lock"]
                /\ cur' = [cur EXCEPT ![r] = i]
                /\ left' = [left EXCEPT ![r] = @ \ {i}]
                /\ UNCHANGED <<dbVars, auditOpen, lockedBy, job, view, draft>>
    BY <1>3 DEF LookUpKey
  <2>2. /\ UNCHANGED <<ledger, job, draft>> /\ cur'[r] = i /\ left'[r] = left[r] \ {i}
        /\ pc'[r] \in {"duplicate_lock", "lock"}
        /\ pc'[r] = "duplicate_lock" => Known(r, i)
        /\ \A s \in Reqs \ {r} : /\ pc'[s] = pc[s] /\ job'[s] = job[s] /\ left'[s] = left[s]
                                  /\ cur'[s] = cur[s] /\ draft'[s] = draft[s]
    BY <2>1 DEF dbVars, Known, TypeInv, TypeOK
  <2>3. \A k \in Items : Known(r, k)' <=> Known(r, k)
    BY <2>2 DEF Known, Committed
  <2>4. \A k \in Items : Drafted(r, k)' => Drafted(r, k) /\ draft'[r][k].move.req = r
    BY <2>2 DEF LinesInv, Drafted
  <2>5. ASSUME NEW k \in Items, k \in job[r].items PROVE LineAccounted(r, k)'
    <3>1. k \in left[r] \/ Drafted(r, k) \/ Known(r, k)
      BY <2>1, <2>5 DEF LinesInv, LineAccounted, Open, Waiting
    <3> QED BY <2>2, <2>3, <3>1 DEF LineAccounted, Drafted, Waiting
  <2> QED BY <2>1, <2>2, <2>3, <2>4, <2>5, QuietLines DEF Open, Waiting
<1>4. ASSUME NEW r \in Reqs, AnswerDuplicate(r) PROVE LinesInv'
  <2>1. /\ UNCHANGED <<ledger, job, draft, left>>
        /\ pc[r] = "duplicate_lock" /\ pc'[r] = "lines"
        /\ \A s \in Reqs \ {r} : /\ pc'[s] = pc[s] /\ job'[s] = job[s] /\ left'[s] = left[s]
                                  /\ cur'[s] = cur[s] /\ draft'[s] = draft[s]
    BY <1>4 DEF AnswerDuplicate, dbVars, TypeInv, TypeOK
  <2>2. \A k \in Items : Known(r, k)' <=> Known(r, k)
    BY <2>1 DEF Known, Committed
  <2>3. ASSUME NEW k \in Items, k \in job[r].items PROVE LineAccounted(r, k)'
    <3>1. k \in left[r] \/ Drafted(r, k) \/ Known(r, k)
      BY <2>1, <2>3 DEF LinesInv, LineAccounted, Open, Waiting
    <3> QED BY <2>1, <2>2, <3>1 DEF LineAccounted, Drafted
  <2>4. \A k \in Items : Drafted(r, k)' => draft'[r][k].move.req = r
    BY <2>1 DEF LinesInv, Drafted
  <2> QED BY <2>1, <2>3, <2>4, QuietLines DEF Open, Waiting
<1>5. ASSUME NEW r \in Reqs, ApplyMovement(r) PROVE LinesInv'
  <2>1. /\ UNCHANGED <<ledger, job, left>>
        /\ pc[r] = "lock" /\ pc'[r] = "lines" /\ cur[r] \in Items
        /\ \A s \in Reqs \ {r} : /\ pc'[s] = pc[s] /\ job'[s] = job[s] /\ left'[s] = left[s]
                                  /\ cur'[s] = cur[s] /\ draft'[s] = draft[s]
    BY <1>5 DEF ApplyMovement, Accepted, AtLock, dbVars, TypeInv, TypeOK, JobHeld, Waiting
  <2>2. /\ draft'[r][cur[r]] # NoMove /\ draft'[r][cur[r]].move.req = r
        /\ \A k \in Items \ {cur[r]} : draft'[r][k] = draft[r][k]
    <3>1. PICK d \in Draft : d.move.req = r /\ draft' = [draft EXCEPT ![r][cur[r]] = d]
      BY <1>5, MovementDrafted
    <3> QED BY <2>1, <3>1, NoMoveAssumption DEF TypeInv, TypeOK
  <2>3. \A k \in Items : Known(r, k)' <=> Known(r, k)
    BY <2>1 DEF Known, Committed
  <2>4. ASSUME NEW k \in Items, k \in job[r].items PROVE LineAccounted(r, k)'
    <3>1. k \in left[r] \/ k = cur[r] \/ Drafted(r, k) \/ Known(r, k)
      BY <2>1, <2>4 DEF LinesInv, LineAccounted, Open, Waiting
    <3> QED BY <2>1, <2>2, <2>3, <3>1 DEF LineAccounted, Drafted
  <2>5. \A k \in Items : Drafted(r, k)' => draft'[r][k].move.req = r
    BY <2>2 DEF LinesInv, Drafted
  <2> QED BY <2>1, <2>4, <2>5, QuietLines DEF Open, Waiting
<1>6. ASSUME NEW r \in Reqs, Commit(r) PROVE LinesInv'
  <2>1. /\ job' = job /\ pc[r] = "lines" /\ left[r] = {}
        /\ pc'[r] = IF Moved(r) = {} THEN "duplicate" ELSE "ok"
        /\ \A i \in Items : ~Drafted(r, i)'
        /\ \A s \in Reqs \ {r} : /\ pc'[s] = pc[s] /\ left'[s] = left[s]
                                  /\ cur'[s] = cur[s] /\ draft'[s] = draft[s]
    BY <1>6 DEF Commit, LinesDone, CloseSession, NoLines, Drafted, TypeInv, TypeOK
  <2>2. \A s \in Reqs, i \in Items : Known(s, i) => Known(s, i)'
    <3>1. \A k : Committed(k) => Committed(k)'
      BY <1>6, CommittedStays
    <3> QED BY <2>1, <3>1 DEF Known
  <2>3. ASSUME NEW s \in Reqs, NEW i \in Items
        PROVE  /\ Drafted(s, i)' => pc'[s] \in Open /\ draft'[s][i].move.req = s
               /\ pc'[s] \in Open /\ i \in job'[s].items => LineAccounted(s, i)'
               /\ pc'[s] = "duplicate_lock" /\ i = cur'[s] => Known(s, i)'
    <3>1. CASE s = r
      BY <2>1, <3>1 DEF Open, Waiting
    <3>2. CASE s # r
      BY <2>1, <2>2, <3>2 DEF LinesInv, LineAccounted, Drafted
    <3> QED BY <3>1, <3>2
  <2>4. \A i \in Items : ledger[i] \in Seq(Move)
    BY DEF TypeInv, TypeOK
  <2>5. ASSUME NEW i \in Items, i \in Moved(r)
        PROVE  /\ Len(ledger'[i]) = Len(ledger[i]) + 1
               /\ ledger'[i][Len(ledger[i]) + 1].req = r
               /\ \A n \in 1..Len(ledger[i]) : ledger'[i][n] = ledger[i][n]
    <3>1. ledger'[i] = Append(ledger[i], draft[r][i].move) /\ draft[r][i].move.req = r
      BY <1>6, <2>5 DEF Commit, Moved, LinesInv, Drafted
    <3> QED BY <2>4, <3>1
  <2>6. \A i \in Items : i \notin Moved(r) => ledger'[i] = ledger[i]
    BY <1>6 DEF Commit
  <2>7. ASSUME NEW s \in Reqs, pc'[s] = "ok", NEW i \in job[s].items
        PROVE  \/ \E n \in 1..Len(ledger'[i]) : ledger'[i][n].req = s
               \/ job[s].key # NoKey /\ Committed(LineKey(job[s], i))'
    <3>0. pc[s] # "idle" /\ i \in Items
      <4>1. pc[s] # "idle"
        BY <2>1, <2>7
      <4> QED BY <4>1, <2>7 DEF TypeInv, JobHeld, Job
    <3>1. CASE s = r
      <4>1. Drafted(r, i) \/ Known(r, i)
        BY <2>1, <2>7, <3>0, <3>1 DEF LinesInv, LineAccounted, Open, Waiting
      <4>2. CASE Drafted(r, i)
        <5>1. i \in Moved(r) /\ Len(ledger[i]) + 1 \in 1..Len(ledger'[i])
          BY <2>4, <2>5, <3>0, <4>2 DEF Moved, Drafted
        <5> QED BY <2>4, <2>5, <3>0, <3>1, <5>1
      <4>3. CASE Known(r, i)
        BY <2>1, <2>2, <3>0, <3>1, <4>3 DEF Known
      <4> QED BY <4>1, <4>2, <4>3
    <3>2. CASE s # r
      <4>1. pc[s] = "ok"
        BY <2>1, <2>7, <3>2
      <4>2. (\E n \in 1..Len(ledger[i]) : ledger[i][n].req = s) \/ Known(s, i)
        BY <2>7, <4>1 DEF LinesInv, AnswersTellTheLedger, Known
      <4>3. CASE \E n \in 1..Len(ledger[i]) : ledger[i][n].req = s
        <5>1. PICK n \in 1..Len(ledger[i]) : ledger[i][n].req = s
          BY <4>3
        <5>2. n \in 1..Len(ledger'[i]) /\ ledger'[i][n] = ledger[i][n]
          BY <2>4, <2>5, <2>6, <3>0
        <5> QED BY <5>1, <5>2
      <4>4. CASE Known(s, i)
        BY <2>1, <2>2, <3>0, <4>4 DEF Known
      <4> QED BY <4>2, <4>3, <4>4
    <3> QED BY <3>1, <3>2
  <2>8. ASSUME NEW s \in Reqs, pc'[s] # "ok", NEW i \in Items, NEW n \in 1..Len(ledger'[i])
        PROVE  ledger'[i][n].req # s
    <3>1. pc[s] # "ok"
      BY <2>1, <2>8
    <3>2. \A m \in 1..Len(ledger[i]) : ledger[i][m].req # s
      BY <3>1 DEF LinesInv, AnswersTellTheLedger
    <3>3. CASE i \notin Moved(r)
      BY <2>6, <2>8, <3>2, <3>3
    <3>4. CASE i \in Moved(r)
      <4>1. s # r
        BY <2>1, <2>8, <3>4
      <4>2. n \in 1..Len(ledger[i]) \/ n = Len(ledger[i]) + 1
        BY <2>4, <2>5, <2>8, <3>4
      <4> QED BY <2>5, <3>2, <3>4, <4>1, <4>2
    <3> QED BY <3>3, <3>4
  <2>9. AnswersTellTheLedger'
    BY <2>1, <2>7, <2>8 DEF AnswersTellTheLedger
  <2> QED BY <2>3, <2>9 DEF LinesInv
<1>7. ASSUME NEW r \in Reqs, Work(r) \/ Crash(r) PROVE LinesInv'
  <2>1. pc[r] \in Open
    BY <1>7 DEF Work, Crash, LookUpKey, RefuseDuringAudit, AnswerDuplicate, RejectStaleVersion,
                RejectNegative, LoseKeyRace, ApplyMovement, Accepted, AtLock, Commit,
                DeadlockVictim, Deadlocked, Open, Waiting
  <2> QED BY <1>1, <1>3, <1>4, <1>5, <1>6, <1>7, <2>1, WorkShapes
<1>8. CASE ToggleAudit \/ UNCHANGED vars
  <2>1. UNCHANGED <<ledger, pc, job, left, cur, draft>>
    BY <1>8 DEF ToggleAudit, vars, dbVars
  <2> QED BY <2>1 DEF LinesInv, LineAccounted, Known, Committed, Drafted, AnswersTellTheLedger
<1> QED BY <1>2, <1>7, <1>8, ArriveStarts DEF Next

(* A success answer means every line of the request is in the ledger, any     *)
(* other answer, or none yet, that the request put nothing there.             *)
THEOREM AnswersAreTrue == Spec => []AnswersTellTheLedger
<1>1. Spec => [](TypeInv /\ LinesInv)
  BY TypeInit, LinesInit, TypeNext, LinesNext, PTL DEF Spec
<1> QED BY <1>1, PTL DEF LinesInv
=============================================================================
