----------------------- MODULE PurchaseCreation_proofs -----------------------
(***************************************************************************)
(* Theorems about PurchaseCreation, for any number of processes, workers,  *)
(* keys, suppliers, days, amounts, requests and restarts.                  *)
(***************************************************************************)
EXTENDS PurchaseCreation, FiniteSetTheorems, TLAPS

(* Which handler a request at a step belongs to. *)
KindInv ==
    \A w \in Workers :
        /\ pc[w] \in {"number", "insert", "remember"} => req[w].kind = "create"
        /\ pc[w] = "write" => req[w].kind = "edit"
        /\ pc[w] = "close" => req[w].kind \in {"cancel", "delete"}
        /\ pc[w] \in {"lock", "check", "memory"} => req[w].kind \in {"create", "edit"}

TypeInv ==
    /\ TypeOK
    /\ DOMAIN req = Workers /\ DOMAIN seen = Workers
    /\ KindInv

(* The id of a creation is new until it commits; that of an edit is a row's. *)
Creating(w) == pc[w] \notin {"idle", "remember"} /\ req[w].kind = "create"
IdInv ==
    /\ \A i \in DOMAIN rows : i <= requests
    /\ \A w \in Workers : Creating(w) => req[w].id <= requests /\ req[w].id \notin DOMAIN rows
    /\ \A v, w \in Workers :
          v # w /\ Creating(v) /\ Creating(w) => req[v].id # req[w].id
    /\ \A w \in Workers : pc[w] # "idle" /\ req[w].kind = "edit" => req[w].id \in DOMAIN rows

(* The committed numbers are 1 to some t; a number a creation holds has all  *)
(* smaller ones committed; once it is written it is nobody else's.           *)
Making(w) == Flushed(w) /\ req[w].kind = "create"
Numbered(w) == pc[w] = "insert" \/ Making(w)
Used(n) == \E i \in DOMAIN rows : rows[i].number = n
Top(t) == (\A i \in DOMAIN rows : rows[i].number <= t) /\ (\A n \in 1..t : Used(n))
NumberInv ==
    /\ \E t \in Nat : Top(t)
    /\ \A i, j \in DOMAIN rows : rows[i].number = rows[j].number => i = j
    /\ \A w \in Workers :
          Numbered(w) => number[w] >= 1 /\ \A n \in 1..(number[w] - 1) : Used(n)
    /\ \A w \in Workers : Making(w) => ~Used(number[w])
    /\ \A v, w \in Workers : v # w /\ Making(v) /\ Making(w) => number[v] # number[w]

-----------------------------------------------------------------------------
(* Requests and what a step does to the other workers.                       *)

LEMMA RequestType ==
    ASSUME NEW r \in Requests
    PROVE  /\ r.kind \in AllKinds /\ r.id \in Ids
           /\ r.kind \in {"create", "edit"} =>
                 /\ r.supplier \in Suppliers /\ r.day \in Days /\ r.total \in Totals
                 /\ r.status \in NewStatuses /\ r.force \in BOOLEAN
                 /\ r.key \in Keys \union {NoKey}
BY DEF Requests, Creates, Edits, Closes, AllKinds

Same(v) == pc'[v] = pc[v] /\ req'[v] = req[v] /\ number'[v] = number[v] /\ seen'[v] = seen[v]
Ended(v) == pc'[v] = "idle" /\ req'[v] = None /\ number'[v] = 0 /\ seen'[v] = None
Shaped == /\ pc' \in [Workers -> PCs] /\ number' \in [Workers -> Nat]
          /\ DOMAIN req' = Workers /\ DOMAIN seen' = Workers

LEMMA EndFrame ==
    ASSUME TypeInv, NEW w \in Workers, End(w)
    PROVE  Ended(w) /\ Shaped /\ \A v \in Workers \ {w} : Same(v)
BY DEF TypeInv, TypeOK, End, Ended, Shaped, Same, PCs

LEMMA AdvanceFrame ==
    ASSUME TypeInv, NEW w \in Workers, NEW next \in PCs, Advance(w, next),
           number' \in [Workers -> Nat], DOMAIN seen' = Workers,
           \A v \in Workers \ {w} : number'[v] = number[v] /\ seen'[v] = seen[v]
    PROVE  /\ Shaped /\ \A v \in Workers \ {w} : Same(v)
           /\ pc'[w] = next /\ req' = req
           /\ UNCHANGED <<rows, dayOld, lastTrade, bought, known, requests, restarts>>
BY DEF TypeInv, TypeOK, Advance, Shaped, Same

LEMMA BeginFrame ==
    ASSUME TypeInv, NEW w \in Workers, NEW r, NEW next \in PCs, NEW read, Begin(w, r, next, read)
    PROVE  /\ Shaped /\ \A v \in Workers \ {w} : Same(v)
           /\ pc[w] = "idle" /\ pc'[w] = next /\ req'[w] = r /\ seen'[w] = read
           /\ requests' = requests + 1 /\ requests' \in 0..MaxRequests
           /\ UNCHANGED <<rows, dayOld, lastTrade, bought, known, number, restarts>>
BY CreationAssumption DEF TypeInv, TypeOK, Begin, Shaped, Same

-----------------------------------------------------------------------------
(* Types.                                                                    *)

WorkerType(w) ==
    /\ IF pc[w] = "idle" THEN req[w] = None /\ seen[w] = None
       ELSE req[w] \in Requests /\ seen[w] \in Seen
    /\ pc[w] \in {"number", "insert", "remember"} => req[w].kind = "create"
    /\ pc[w] = "write" => req[w].kind = "edit"
    /\ pc[w] = "close" => req[w].kind \in {"cancel", "delete"}
    /\ pc[w] \in {"lock", "check", "memory"} => req[w].kind \in {"create", "edit"}
TableType ==
    /\ DOMAIN rows \subseteq Ids /\ \A i \in DOMAIN rows : rows[i] \in Row
    /\ dayOld \in Nat /\ requests \in 0..MaxRequests /\ restarts \in 0..MaxRestarts
    /\ lastTrade \in Ids \union {None}
    /\ bought \in [Suppliers -> Nat]
    /\ known \in [Processes -> [Keys -> Ids \union {None}]]

LEMMA TypeParts == TypeInv => TableType /\ \A w \in Workers : WorkerType(w)
BY DEF TypeInv, TypeOK, KindInv, TableType, WorkerType

(* A step of one worker keeps the types if it keeps its own. *)
LEMMA TypeOfStep ==
    ASSUME TypeInv, NEW w \in Workers, Shaped, \A v \in Workers \ {w} : Same(v),
           WorkerType(w)', TableType'
    PROVE  TypeInv'
<1>1. \A v \in Workers : WorkerType(v)'
  BY TypeParts DEF WorkerType, Same
<1>2. TypeOK'
  <2>1. \A v \in Workers : IF pc'[v] = "idle" THEN req'[v] = None /\ seen'[v] = None
                           ELSE req'[v] \in Requests /\ seen'[v] \in Seen
    BY <1>1 DEF WorkerType
  <2> QED BY <2>1 DEF TypeOK, TableType, Shaped
<1>3. KindInv'
  BY <1>1 DEF WorkerType, KindInv
<1> QED BY <1>2, <1>3 DEF TypeInv, Shaped

LEMMA TableSame ==
    ASSUME TableType, UNCHANGED <<rows, dayOld, lastTrade, bought, known, requests, restarts>>
    PROVE  TableType'
BY DEF TableType

LEMMA EndType ==
    ASSUME TypeInv, NEW w \in Workers, End(w), TableType'
    PROVE  TypeInv'
<1>1. Ended(w) /\ Shaped /\ \A v \in Workers \ {w} : Same(v)
  BY EndFrame
<1>2. WorkerType(w)'
  BY <1>1 DEF WorkerType, Ended
<1> QED BY <1>1, <1>2, TypeOfStep

LEMMA BeginType ==
    ASSUME TypeInv, NEW w \in Workers, NEW r \in Requests, NEW read \in Seen,
           NEW next \in PCs, Begin(w, r, next, read),
           \/ next = "lock" /\ r.kind \in {"create", "edit"}
           \/ next = "close" /\ r.kind \in {"cancel", "delete"}
    PROVE  TypeInv'
<1>1. /\ Shaped /\ \A v \in Workers \ {w} : Same(v)
      /\ pc'[w] = next /\ req'[w] = r /\ seen'[w] = read
      /\ requests' \in 0..MaxRequests
      /\ UNCHANGED <<rows, dayOld, lastTrade, bought, known, number, restarts>>
  BY BeginFrame
<1>2. WorkerType(w)'
  BY <1>1 DEF WorkerType
<1>3. TableType'
  BY <1>1, TypeParts DEF TableType
<1> QED BY <1>1, <1>2, <1>3, TypeOfStep

LEMMA AnswerType ==
    ASSUME TypeInv, NEW w \in Workers, AnswerAtOnce(w)
    PROVE  TypeInv'
<1>1. requests' \in 0..MaxRequests
  BY CreationAssumption DEF AnswerAtOnce, TypeInv, TypeOK
<1> QED BY <1>1 DEF AnswerAtOnce, TypeInv, TypeOK, KindInv

LEMMA LoadedType ==
    ASSUME TypeInv, NEW i \in DOMAIN rows
    PROVE  Loaded(i) \in Seen /\ NothingRead \in Seen
<1>1. NothingRead \in Seen
  BY DEF NothingRead, Seen
<1>2. rows[i].status \in NewStatuses \union Gone /\ lastTrade \in Ids \union {None}
  BY DEF TypeInv, TypeOK, Row
<1> QED BY <1>1, <1>2 DEF Loaded, NothingRead, Seen

(* With numbers 1 to t committed, the next one is t + 1. *)
LEMMA NextNumberIs ==
    ASSUME TypeInv, NEW t \in Nat, Top(t)
    PROVE  NextNumber = t + 1
<1> DEFINE offered == {1} \union {rows[i].number + 1 : i \in DOMAIN rows}
           above(n) == \A i \in DOMAIN rows : rows[i].number < n
<1>1. \A i \in DOMAIN rows : rows[i].number \in Nat \ {0}
  BY DEF TypeInv, TypeOK, Row
<1>2. t + 1 \in offered /\ above(t + 1)
  <2>1. CASE t = 0
    BY <1>1, <2>1 DEF Top
  <2>2. CASE t # 0
    <3>1. PICK i \in DOMAIN rows : rows[i].number = t
      BY <2>2 DEF Top, Used
    <3> QED BY <1>1, <3>1 DEF Top
  <2> QED BY <2>1, <2>2
<1>3. \A n \in offered : above(n) => n = t + 1
  <2> SUFFICES ASSUME NEW n \in offered, above(n) PROVE n = t + 1
    OBVIOUS
  <2>1. n \in Nat
    BY <1>1
  <2>2. n <= t + 1
    BY <1>1 DEF Top
  <2>3. ~(n \in 1..t)
    BY <2>1 DEF Top, Used
  <2>4. n >= 1
    BY <1>1
  <2> QED BY <2>1, <2>2, <2>3, <2>4
<1>4. NextNumber = CHOOSE n \in offered : above(n)
  BY DEF NextNumber
<1> HIDE DEF offered, above
<1> QED BY <1>2, <1>3, <1>4

(* A request is answered at once, or opens with what it read. *)
LEMMA AskOpens ==
    ASSUME TypeInv, NEW w \in Workers, NEW r \in Requests,
           AskCreate(w, r) \/ AskEdit(w, r) \/ AskClose(w, r)
    PROVE  \/ AnswerAtOnce(w)
           \/ \E read \in Seen :
                 \/ /\ Begin(w, r, "lock", read)
                    /\ \/ r.kind = "create" /\ r.id = requests + 1
                       \/ r.kind = "edit" /\ r.id \in DOMAIN rows
                 \/ /\ Begin(w, r, "close", read)
                    /\ r.kind \in {"cancel", "delete"}
<1>1. CASE AskCreate(w, r)
  <2>1. NothingRead \in Seen
    BY DEF NothingRead, Seen
  <2> QED BY <1>1, <2>1 DEF AskCreate
<1>2. CASE AskEdit(w, r)
  BY <1>2, LoadedType DEF AskEdit
<1>3. CASE AskClose(w, r)
  BY <1>3, LoadedType DEF AskClose
<1> QED BY <1>1, <1>2, <1>3

LEMMA AskType ==
    ASSUME TypeInv, NEW w \in Workers, Ask(w)
    PROVE  TypeInv'
<1>1. PICK r \in Requests : AskCreate(w, r) \/ AskEdit(w, r) \/ AskClose(w, r)
  BY DEF Ask
<1>2. CASE AnswerAtOnce(w)
  BY <1>2, AnswerType
<1>3. ASSUME NEW read \in Seen, Begin(w, r, "lock", read), r.kind \in {"create", "edit"}
      PROVE  TypeInv'
  BY <1>3, BeginType, "lock" \in PCs DEF PCs
<1>4. ASSUME NEW read \in Seen, Begin(w, r, "close", read), r.kind \in {"cancel", "delete"}
      PROVE  TypeInv'
  BY <1>4, BeginType, "close" \in PCs DEF PCs
<1> QED BY <1>1, <1>2, <1>3, <1>4, AskOpens

(* The steps that only move on. *)
LEMMA MoveOnType ==
    ASSUME TypeInv, NEW w \in Workers, NEW next \in PCs \ {"idle"}, Advance(w, next),
           pc[w] # "idle",
           number' \in [Workers -> Nat], \A v \in Workers \ {w} : number'[v] = number[v],
           seen' = seen \/ (/\ DOMAIN seen' = Workers /\ seen'[w] \in Seen
                            /\ \A v \in Workers \ {w} : seen'[v] = seen[v]),
           next \in {"number", "insert"} => req[w].kind = "create",
           next = "write" => req[w].kind = "edit",
           next \in {"check", "memory"} => req[w].kind \in {"create", "edit"},
           next \notin {"lock", "close", "remember"}
    PROVE  TypeInv'
<1>1. \A v \in Workers \ {w} : number'[v] = number[v] /\ seen'[v] = seen[v]
  OBVIOUS
<1>2. DOMAIN seen' = Workers
  BY DEF TypeInv
<1>3. /\ Shaped /\ \A v \in Workers \ {w} : Same(v)
      /\ pc'[w] = next /\ req' = req
      /\ UNCHANGED <<rows, dayOld, lastTrade, bought, known, requests, restarts>>
  BY <1>1, <1>2, AdvanceFrame
<1>4. req[w] \in Requests /\ seen[w] \in Seen
  BY TypeParts DEF WorkerType
<1>5. WorkerType(w)'
  BY <1>3, <1>4 DEF WorkerType
<1>6. TableType'
  BY <1>3, TypeParts, TableSame
<1> QED BY <1>3, <1>5, <1>6, TypeOfStep

LEMMA TakeLockType ==
    ASSUME TypeInv, NEW w \in Workers, TakeLock(w) PROVE TypeInv'
<1>1. number \in [Workers -> Nat] /\ req[w].kind \in {"create", "edit"}
  BY DEF TakeLock, TypeInv, TypeOK, KindInv
<1>2. Advance(w, "check") /\ number' = number /\ seen' = seen /\ pc[w] # "idle"
  BY DEF TakeLock
<1> QED BY <1>1, <1>2, MoveOnType, "check" \in PCs \ {"idle"} DEF PCs

LEMMA FailType ==
    ASSUME TypeInv, NEW w \in Workers, Fail(w) PROVE TypeInv'
BY EndType, TypeParts DEF Fail, TableType

LEMMA CheckDuplicateType ==
    ASSUME TypeInv, NEW w \in Workers, CheckDuplicate(w) PROVE TypeInv'
<1>1. number \in [Workers -> Nat] /\ req[w].kind \in {"create", "edit"} /\ pc[w] # "idle"
  BY DEF CheckDuplicate, TypeInv, TypeOK, KindInv
<1>2. CASE Fail(w)
  BY <1>2, FailType
<1>3. CASE req[w].kind = "create" /\ Advance(w, "number") /\ UNCHANGED <<number, seen>>
  BY <1>1, <1>3, MoveOnType, "number" \in PCs \ {"idle"} DEF PCs
<1>4. CASE req[w].kind = "edit" /\ Advance(w, "write") /\ UNCHANGED <<number, seen>>
  BY <1>1, <1>4, MoveOnType, "write" \in PCs \ {"idle"} DEF PCs
<1> QED BY <1>1, <1>2, <1>3, <1>4 DEF CheckDuplicate

LEMMA TakeNumberType ==
    ASSUME TypeInv, NumberInv, NEW w \in Workers, TakeNumber(w) PROVE TypeInv'
<1>1. number \in [Workers -> Nat] /\ req[w].kind = "create" /\ pc[w] # "idle"
  BY DEF TakeNumber, TypeInv, TypeOK, KindInv
<1>2. NextNumber \in Nat
  BY NextNumberIs DEF NumberInv
<1>3. /\ number' \in [Workers -> Nat] /\ \A v \in Workers \ {w} : number'[v] = number[v]
      /\ seen' = seen /\ Advance(w, "insert")
  BY <1>1, <1>2 DEF TakeNumber
<1> QED BY <1>1, <1>3, MoveOnType, "insert" \in PCs \ {"idle"} DEF PCs

LEMMA InsertType ==
    ASSUME TypeInv, NEW w \in Workers, Insert(w) PROVE TypeInv'
<1>1. number \in [Workers -> Nat] /\ req[w].kind = "create" /\ pc[w] # "idle"
  BY DEF Insert, TypeInv, TypeOK, KindInv
<1>2. CASE Fail(w)
  BY <1>2, FailType
<1>3. CASE Advance(w, "memory") /\ UNCHANGED <<number, seen>>
  BY <1>1, <1>3, MoveOnType, "memory" \in PCs \ {"idle"} DEF PCs
<1> QED BY <1>2, <1>3 DEF Insert

LEMMA WriteRowType ==
    ASSUME TypeInv, NEW w \in Workers, WriteRow(w) PROVE TypeInv'
<1>1. number \in [Workers -> Nat] /\ req[w].kind = "edit" /\ pc[w] # "idle"
  BY DEF WriteRow, TypeInv, TypeOK, KindInv
<1>2. Advance(w, "memory") /\ UNCHANGED <<number, seen>>
  BY DEF WriteRow
<1> QED BY <1>1, <1>2, MoveOnType, "memory" \in PCs \ {"idle"} DEF PCs

LEMMA ReadMemoryType ==
    ASSUME TypeInv, NEW w \in Workers, ReadMemory(w) PROVE TypeInv'
<1>1. /\ number \in [Workers -> Nat] /\ req[w].kind \in {"create", "edit"} /\ pc[w] # "idle"
      /\ req[w] \in Requests /\ seen[w] \in Seen /\ bought \in [Suppliers -> Nat]
      /\ DOMAIN seen = Workers
  BY DEF ReadMemory, TypeInv, TypeOK, KindInv
<1>2. bought[req[w].supplier] \in Nat
  BY <1>1, RequestType
<1>3. [seen[w] EXCEPT !.count = bought[req[w].supplier]] \in Seen
  BY <1>1, <1>2 DEF Seen
<1>4. /\ DOMAIN seen' = Workers /\ seen'[w] \in Seen
      /\ \A v \in Workers \ {w} : seen'[v] = seen[v]
  BY <1>1, <1>3 DEF ReadMemory
<1>5. Advance(w, "commit") /\ number' = number
  BY DEF ReadMemory
<1> QED BY <1>1, <1>4, <1>5, MoveOnType, "commit" \in PCs \ {"idle"} DEF PCs

LEMMA FindSnapshotType ==
    ASSUME TypeInv, NEW w \in Workers, FindSnapshot(w) PROVE TypeInv'
<1>1. /\ number \in [Workers -> Nat] /\ pc[w] # "idle" /\ seen[w] \in Seen
      /\ DOMAIN seen = Workers /\ DOMAIN rows \subseteq Ids
  BY DEF FindSnapshot, TypeInv, TypeOK
<1>2. Snapshot(req[w].id) \in Ids \union {None}
  <2> DEFINE counted == {i \in DOMAIN rows \ {req[w].id} : rows[i].status \notin SnapshotSkips}
             newest == {i \in counted : \A j \in counted : Newer(i, j)}
  <2>1. newest \subseteq Ids
    BY <1>1
  <2>2. Snapshot(req[w].id) = IF newest = {} THEN None ELSE CHOOSE i \in newest : TRUE
    BY DEF Snapshot
  <2> HIDE DEF newest, counted
  <2> QED BY <2>1, <2>2
<1>3. [seen[w] EXCEPT !.newest = Snapshot(req[w].id)] \in Seen
  BY <1>1, <1>2 DEF Seen
<1>4. /\ DOMAIN seen' = Workers /\ seen'[w] \in Seen
      /\ \A v \in Workers \ {w} : seen'[v] = seen[v]
  BY <1>1, <1>3 DEF FindSnapshot
<1>5. Advance(w, "commit") /\ number' = number
  BY DEF FindSnapshot
<1> QED BY <1>1, <1>4, <1>5, MoveOnType, "commit" \in PCs \ {"idle"} DEF PCs

LEMMA RememberType ==
    ASSUME TypeInv, NEW w \in Workers, Remember(w) PROVE TypeInv'
<1>1. req[w] \in Requests /\ req[w].kind = "create"
  BY DEF Remember, TypeInv, TypeOK, KindInv
<1>2. req[w].id \in Ids /\ ProcessOf[w] \in Processes /\ req[w].key \in Keys \union {NoKey}
  BY <1>1, RequestType, CreationAssumption
<1>3. known' \in [Processes -> [Keys -> Ids \union {None}]]
  BY <1>2, TypeParts DEF Remember, TableType
<1>4. TableType'
  BY <1>3, TypeParts DEF Remember, TableType
<1> QED BY <1>4, EndType DEF Remember

(* What the memory writes is a count and a purchase. *)
LEMMA MemoryType ==
    ASSUME TypeInv, NEW w \in Workers, pc[w] = "commit", req[w].kind \in {"create", "edit"},
           WriteMemory(w)
    PROVE  bought' \in [Suppliers -> Nat] /\ lastTrade' \in Ids \union {None}
<1>1. /\ req[w] \in Requests /\ seen[w] \in Seen
      /\ bought \in [Suppliers -> Nat] /\ lastTrade \in Ids \union {None}
  BY DEF TypeInv, TypeOK
<1>2. req[w].supplier \in Suppliers /\ req[w].id \in Ids /\ seen[w].count + 1 \in Nat
  BY <1>1, RequestType DEF Seen
<1> QED BY <1>1, <1>2 DEF WriteMemory, SetLastTrade

LEMMA NewStatusType ==
    ASSUME TypeInv, NEW w \in Workers, NEW s \in NewStatuses \union Gone,
           req[w].id \in DOMAIN rows
    PROVE  NewStatus(w, s) \in NewStatuses \union Gone
BY DEF NewStatus, TypeInv, TypeOK, Row

(* The rows a commit leaves. *)
LEMMA CommitCreateRows ==
    ASSUME TypeInv, NumberInv, NEW w \in Workers, CommitCreate(w), ~DefaultTaken(w)
    PROVE  /\ DOMAIN rows' = DOMAIN rows \union {req[w].id}
           /\ \A i \in DOMAIN rows \ {req[w].id} : rows'[i] = rows[i]
           /\ rows'[req[w].id] = NewRow(w) /\ NewRow(w) \in Row /\ req[w].id \in Ids
<1>1. req[w] \in Requests /\ req[w].kind = "create" /\ pc[w] = "commit"
  BY DEF CommitCreate, TypeInv, TypeOK
<1>2. number[w] \in Nat \ {0}
  BY <1>1 DEF NumberInv, Numbered, Making, Flushed, TypeInv, TypeOK
<1>3. NewRow(w) \in Row
  BY <1>1, <1>2, RequestType DEF NewRow, Row
<1> QED BY <1>1, <1>3, RequestType DEF CommitCreate

LEMMA CommitCreateType ==
    ASSUME TypeInv, NumberInv, NEW w \in Workers, CommitCreate(w) PROVE TypeInv'
<1>1. CASE DefaultTaken(w)
  BY <1>1, FailType DEF CommitCreate
<1>2. CASE ~DefaultTaken(w)
  <2>1. /\ req[w] \in Requests /\ seen[w] \in Seen /\ req[w].kind = "create"
        /\ pc[w] = "commit" /\ WriteMemory(w) /\ pc' = [pc EXCEPT ![w] = "remember"]
        /\ UNCHANGED <<dayOld, known, req, number, seen, requests, restarts>>
    BY <1>2 DEF CommitCreate, TypeInv, TypeOK
  <2>2. Shaped /\ \A v \in Workers \ {w} : Same(v)
    BY <2>1 DEF Shaped, Same, TypeInv, TypeOK, PCs
  <2>3. WorkerType(w)'
    BY <2>1 DEF WorkerType, TypeInv, TypeOK
  <2>4. DOMAIN rows' \subseteq Ids /\ \A i \in DOMAIN rows' : rows'[i] \in Row
    BY <1>2, CommitCreateRows DEF TypeInv, TypeOK
  <2>5. bought' \in [Suppliers -> Nat] /\ lastTrade' \in Ids \union {None}
    BY <2>1, MemoryType
  <2>6. TableType'
    BY <2>1, <2>4, <2>5, TypeParts DEF TableType
  <2> QED BY <2>2, <2>3, <2>6, TypeOfStep
<1> QED BY <1>1, <1>2

LEMMA CommitEditRows ==
    ASSUME TypeInv, NEW w \in Workers, CommitEdit(w), ~DefaultTaken(w)
    PROVE  /\ DOMAIN rows' = DOMAIN rows
           /\ \A i \in DOMAIN rows \ {req[w].id} : rows'[i] = rows[i]
           /\ req[w].id \in DOMAIN rows =>
                 /\ rows'[req[w].id] \in Row
                 /\ rows'[req[w].id].number = rows[req[w].id].number
                 /\ rows'[req[w].id].edited
<1>1. req[w] \in Requests /\ req[w].kind = "edit"
  BY DEF CommitEdit, TypeInv, TypeOK
<1>2. /\ req[w].supplier \in Suppliers /\ req[w].day \in Days /\ req[w].total \in Totals
      /\ req[w].status \in NewStatuses \union Gone
  BY <1>1, RequestType
<1> DEFINE new == [rows[req[w].id] EXCEPT
                      !.supplier = req[w].supplier, !.day = req[w].day,
                      !.total = req[w].total, !.edited = TRUE,
                      !.status = NewStatus(w, req[w].status)]
<1>3. rows' = [rows EXCEPT ![req[w].id] = new]
  BY <1>1 DEF CommitEdit
<1>4. ASSUME req[w].id \in DOMAIN rows
      PROVE  new \in Row /\ new.number = rows[req[w].id].number /\ new.edited
  <2>1. rows[req[w].id] \in Row /\ NewStatus(w, req[w].status) \in NewStatuses \union Gone
    BY <1>2, <1>4, NewStatusType DEF TypeInv, TypeOK
  <2> QED BY <1>2, <2>1 DEF Row
<1> HIDE DEF new
<1> QED BY <1>3, <1>4

LEMMA CommitEditType ==
    ASSUME TypeInv, NEW w \in Workers, CommitEdit(w) PROVE TypeInv'
<1>1. CASE DefaultTaken(w)
  BY <1>1, FailType DEF CommitEdit
<1>2. CASE ~DefaultTaken(w)
  <2>1. /\ pc[w] = "commit" /\ req[w].kind = "edit" /\ WriteMemory(w) /\ End(w)
        /\ UNCHANGED <<dayOld, known, requests, restarts>>
    BY <1>2 DEF CommitEdit
  <2>2. bought' \in [Suppliers -> Nat] /\ lastTrade' \in Ids \union {None}
    BY <2>1, MemoryType
  <2>3. DOMAIN rows' \subseteq Ids /\ \A i \in DOMAIN rows' : rows'[i] \in Row
    BY <1>2, CommitEditRows DEF TypeInv, TypeOK
  <2>4. TableType'
    BY <2>1, <2>2, <2>3, TypeParts DEF TableType
  <2> QED BY <2>1, <2>4, EndType
<1> QED BY <1>1, <1>2

LEMMA CommitCloseRows ==
    ASSUME TypeInv, NEW w \in Workers, CommitClose(w)
    PROVE  /\ DOMAIN rows' = DOMAIN rows
           /\ \A i \in DOMAIN rows :
                 /\ rows'[i] \in Row
                 /\ rows'[i].number = rows[i].number /\ rows'[i].supplier = rows[i].supplier
                 /\ rows'[i].day = rows[i].day /\ rows'[i].total = rows[i].total
                 /\ rows'[i].forced = rows[i].forced /\ rows'[i].edited = rows[i].edited
                 /\ rows'[i].status \notin Gone => rows[i].status \notin Gone
<1> DEFINE status == NewStatus(w, ClosedStatus(req[w]))
<1>1. rows' = [rows EXCEPT ![req[w].id] = [rows[req[w].id] EXCEPT !.status = status]]
  BY DEF CommitClose
<1>2. \A i \in DOMAIN rows : rows[i] \in Row
  BY DEF TypeInv, TypeOK
<1>3. ASSUME req[w].id \in DOMAIN rows
      PROVE  /\ status \in NewStatuses \union Gone
             /\ status \notin Gone => status = rows[req[w].id].status
  <2>1. ClosedStatus(req[w]) \in Gone
    BY DEF CommitClose, ClosedStatus, Gone
  <2>2. status \in NewStatuses \union Gone
    BY <1>3, <2>1, NewStatusType
  <2> QED BY <2>1, <2>2 DEF NewStatus
<1> HIDE DEF status
<1> QED BY <1>1, <1>2, <1>3 DEF Row

LEMMA CommitCloseType ==
    ASSUME TypeInv, NEW w \in Workers, CommitClose(w) PROVE TypeInv'
<1>1. seen[w] \in Seen /\ End(w)
  BY DEF CommitClose, TypeInv, TypeOK
<1>2. lastTrade' \in Ids \union {None}
  BY <1>1 DEF CommitClose, SetLastTrade, Seen, TypeInv, TypeOK
<1>3. DOMAIN rows' \subseteq Ids /\ \A i \in DOMAIN rows' : rows'[i] \in Row
  BY CommitCloseRows DEF TypeInv, TypeOK
<1>4. TableType'
  BY <1>2, <1>3, TypeParts DEF CommitClose, TableType
<1> QED BY <1>1, <1>4, EndType

LEMMA RestartFrame ==
    ASSUME TypeInv, NEW p \in Processes, Restart(p)
    PROVE  /\ Shaped /\ \A v \in Workers : Ended(v) \/ Same(v)
           /\ UNCHANGED <<rows, dayOld, lastTrade, bought, requests>>
BY DEF TypeInv, TypeOK, Restart, Shaped, Ended, Same, PCs

LEMMA AroundType ==
    ASSUME TypeInv,
           \/ Age
           \/ \E p \in Processes, k \in Keys : Forget(p, k)
           \/ \E p \in Processes : Restart(p)
    PROVE  TypeInv'
<1>1. CASE Age
  BY <1>1 DEF Age, TypeInv, TypeOK, KindInv
<1>2. ASSUME NEW p \in Processes, NEW k \in Keys, Forget(p, k) PROVE TypeInv'
  <2>1. known' \in [Processes -> [Keys -> Ids \union {None}]]
    BY <1>2 DEF Forget, TypeInv, TypeOK
  <2> QED BY <1>2, <2>1 DEF Forget, TypeInv, TypeOK, KindInv
<1>3. ASSUME NEW p \in Processes, Restart(p) PROVE TypeInv'
  <2>1. /\ Shaped /\ \A v \in Workers : Ended(v) \/ Same(v)
        /\ UNCHANGED <<rows, dayOld, lastTrade, bought, requests>>
    BY <1>3, RestartFrame
  <2>2. \A v \in Workers : WorkerType(v)'
    BY <2>1, TypeParts DEF WorkerType, Ended, Same
  <2>3. known' \in [Processes -> [Keys -> Ids \union {None}]] /\ restarts' \in 0..MaxRestarts
    BY <1>3, CreationAssumption DEF Restart, TypeInv, TypeOK
  <2>4. TypeOK'
    <3>1. \A v \in Workers : IF pc'[v] = "idle" THEN req'[v] = None /\ seen'[v] = None
                             ELSE req'[v] \in Requests /\ seen'[v] \in Seen
      BY <2>2 DEF WorkerType
    <3> QED BY <2>1, <2>3, <3>1 DEF TypeInv, TypeOK, Shaped
  <2>5. KindInv'
    BY <2>2 DEF WorkerType, KindInv
  <2> QED BY <2>1, <2>4, <2>5 DEF TypeInv, Shaped
<1> QED BY <1>1, <1>2, <1>3

LEMMA TypeInit == Init => TypeInv
<1> SUFFICES ASSUME Init PROVE TypeInv
  OBVIOUS
<1>1. pc \in [Workers -> PCs] /\ \A w \in Workers : pc[w] = "idle"
  BY DEF Init, PCs
<1>2. bought \in [Suppliers -> Nat] /\ number \in [Workers -> Nat]
  BY DEF Init
<1>3. known \in [Processes -> [Keys -> Ids \union {None}]]
  BY DEF Init
<1>4. DOMAIN rows = {}
  BY DEF Init
<1>5. /\ dayOld \in Nat /\ requests \in 0..MaxRequests /\ restarts \in 0..MaxRestarts
      /\ lastTrade = None /\ DOMAIN req = Workers /\ DOMAIN seen = Workers
      /\ \A w \in Workers : req[w] = None /\ seen[w] = None
  BY CreationAssumption DEF Init
<1> QED BY <1>1, <1>2, <1>3, <1>4, <1>5 DEF TypeInv, TypeOK, KindInv

LEMMA TypeNext == TypeInv /\ NumberInv /\ [Next]_vars => TypeInv'
<1> SUFFICES ASSUME TypeInv, NumberInv, [Next]_vars PROVE TypeInv'
  OBVIOUS
<1>1. CASE UNCHANGED vars
  BY <1>1 DEF vars, TypeInv, TypeOK, KindInv
<1>2. ASSUME NEW w \in Workers, Ask(w) PROVE TypeInv'
  BY <1>2, AskType
<1>3. ASSUME NEW w \in Workers, Step(w) PROVE TypeInv'
  BY <1>3, TakeLockType, CheckDuplicateType, TakeNumberType, InsertType, ReadMemoryType,
     CommitCreateType, RememberType, WriteRowType, CommitEditType, FindSnapshotType,
     CommitCloseType DEF Step
<1> QED BY <1>1, <1>2, <1>3, AroundType DEF Next

-----------------------------------------------------------------------------
(* Ids and numbers.                                                          *)

(* A worker that opens no creation and computes no number. *)
QuietId(v) == \/ Ended(v)
              \/ /\ req'[v] = req[v] /\ (Creating(v)' => Creating(v))
                 /\ pc[v] # "idle" \/ pc'[v] = "idle"
QuietNumber(v) == \/ Ended(v)
                  \/ /\ number'[v] = number[v]
                     /\ (Numbered(v)' => Numbered(v)) /\ (Making(v)' => Making(v))

LEMMA SameIsQuiet == \A v : Same(v) => QuietId(v) /\ QuietNumber(v)
BY DEF Same, QuietId, QuietNumber, Creating, Numbered, Making, Flushed

LEMMA EndedIsQuiet == \A v : Ended(v) => QuietId(v) /\ QuietNumber(v)
BY DEF QuietId, QuietNumber

LEMMA IdKept ==
    ASSUME TypeInv, IdInv, DOMAIN rows' = DOMAIN rows, requests' \in Nat, requests' >= requests,
           \A v \in Workers : QuietId(v)
    PROVE  IdInv'
<1>1. requests \in Nat /\ \A i \in DOMAIN rows : i \in Nat
  BY DEF TypeInv, TypeOK, Ids
<1>2. \A v \in Workers : pc'[v] # "idle" => pc[v] # "idle" /\ req[v] \in Requests
                                            /\ req'[v] = req[v]
  BY DEF QuietId, Ended, TypeInv, TypeOK
<1>3. \A v \in Workers : Creating(v)' => Creating(v) /\ req'[v] = req[v] /\ req[v].id \in Nat
  BY <1>2, RequestType DEF QuietId, Ended, Creating, Ids
<1>4. \A i \in DOMAIN rows' : i <= requests'
  BY <1>1 DEF IdInv
<1>5. \A w \in Workers : Creating(w)' => req'[w].id <= requests' /\ req'[w].id \notin DOMAIN rows'
  BY <1>1, <1>3 DEF IdInv
<1>6. \A v, w \in Workers : v # w /\ Creating(v)' /\ Creating(w)' => req'[v].id # req'[w].id
  BY <1>3 DEF IdInv
<1>7. \A w \in Workers : pc'[w] # "idle" /\ req'[w].kind = "edit" => req'[w].id \in DOMAIN rows'
  BY <1>2 DEF IdInv
<1> QED BY <1>4, <1>5, <1>6, <1>7 DEF IdInv, Creating

LEMMA NumberKept ==
    ASSUME TypeInv, NumberInv, DOMAIN rows' = DOMAIN rows,
           \A i \in DOMAIN rows : rows'[i].number = rows[i].number,
           \A v \in Workers : QuietNumber(v)
    PROVE  NumberInv'
<1>1. \A n : Used(n)' <=> Used(n)
  BY DEF Used
<1>2. \A v \in Workers : (Numbered(v)' => Numbered(v) /\ number'[v] = number[v])
                         /\ (Making(v)' => Making(v) /\ number'[v] = number[v])
  BY DEF QuietNumber, Numbered, Making, Flushed, Ended
<1>3. \E t \in Nat : Top(t)'
  <2>1. PICK t \in Nat : Top(t)
    BY DEF NumberInv
  <2>2. Top(t)'
    BY <1>1, <2>1 DEF Top
  <2> QED BY <2>2
<1>4. \A i, j \in DOMAIN rows' : rows'[i].number = rows'[j].number => i = j
  BY DEF NumberInv
<1>5. \A w \in Workers : Numbered(w)' =>
         number'[w] >= 1 /\ \A n \in 1..(number'[w] - 1) : Used(n)'
  BY <1>1, <1>2 DEF NumberInv
<1>6. \A w \in Workers : Making(w)' => \A i \in DOMAIN rows' : rows'[i].number # number'[w]
  BY <1>2 DEF NumberInv, Used
<1>7. \A v, w \in Workers : v # w /\ Making(v)' /\ Making(w)' => number'[v] # number'[w]
  BY <1>2 DEF NumberInv
<1> QED BY <1>3, <1>4, <1>5, <1>6, <1>7 DEF NumberInv, Used

(* Answering and opening a request. *)
LEMMA AskIds ==
    ASSUME TypeInv, IdInv, NumberInv, NEW w \in Workers, Ask(w)
    PROVE  IdInv' /\ NumberInv'
<1>1. PICK r \in Requests : AskCreate(w, r) \/ AskEdit(w, r) \/ AskClose(w, r)
  BY DEF Ask
<1>2. CASE AnswerAtOnce(w)
  <2>1. /\ \A v \in Workers : Same(v)
        /\ requests' = requests + 1 /\ requests \in Nat /\ rows' = rows
    BY <1>2 DEF AnswerAtOnce, Same, TypeInv, TypeOK
  <2> QED BY <2>1, SameIsQuiet, IdKept, NumberKept
<1>3. ASSUME NEW read \in Seen, NEW next \in {"lock", "close"}, Begin(w, r, next, read),
             \/ r.kind = "create" /\ r.id = requests + 1
             \/ r.kind = "edit" /\ r.id \in DOMAIN rows
             \/ r.kind \in {"cancel", "delete"}
      PROVE  IdInv' /\ NumberInv'
  <2>1. /\ \A v \in Workers \ {w} : Same(v)
        /\ pc[w] = "idle" /\ pc'[w] = next /\ req'[w] = r
        /\ requests' = requests + 1 /\ rows' = rows /\ number' = number
    <3>1. next \in PCs
      BY DEF PCs
    <3> QED BY <1>3, <3>1, BeginFrame
  <2>2. requests \in Nat /\ \A i \in DOMAIN rows : i \in Nat /\ i <= requests
    BY DEF TypeInv, TypeOK, Ids, IdInv
  <2>3. QuietNumber(w)
    BY <2>1 DEF QuietNumber, Numbered, Making, Flushed
  <2>4. NumberInv'
    BY <2>1, <2>3, SameIsQuiet, NumberKept
  <2>5. \A v \in Workers \ {w} : Creating(v)' =>
           /\ Creating(v) /\ req'[v] = req[v] /\ req[v].id \in Nat /\ req[v].id <= requests
    <3>1. \A v \in Workers \ {w} : Creating(v)' => Creating(v) /\ req'[v] = req[v]
      BY <2>1 DEF Same, Creating
    <3>2. \A v \in Workers : Creating(v) => req[v].id \in Nat
      BY RequestType DEF Creating, TypeInv, TypeOK, Ids
    <3> QED BY <3>1, <3>2 DEF IdInv
  <2>6. Creating(w)' => r.id = requests + 1
    BY <1>3, <2>1 DEF Creating
  <2>7. \A v \in Workers : Creating(v)' =>
           req'[v].id <= requests' /\ req'[v].id \notin DOMAIN rows'
    BY <2>1, <2>2, <2>5, <2>6 DEF IdInv
  <2>8. \A u, v \in Workers : u # v /\ Creating(u)' /\ Creating(v)' => req'[u].id # req'[v].id
    BY <2>1, <2>2, <2>5, <2>6 DEF IdInv
  <2>9. \A v \in Workers : pc'[v] # "idle" /\ req'[v].kind = "edit" => req'[v].id \in DOMAIN rows'
    BY <1>3, <2>1 DEF IdInv, Same
  <2>10. \A i \in DOMAIN rows' : i <= requests'
    BY <2>1, <2>2
  <2>11. IdInv'
    BY <2>7, <2>8, <2>9, <2>10 DEF IdInv, Creating
  <2> QED BY <2>4, <2>11
<1> QED BY <1>1, <1>2, <1>3, AskOpens

(* Steps that leave the tables as they are. *)
LEMMA QuietStep ==
    ASSUME TypeInv, IdInv, NumberInv, NEW w \in Workers,
           UNCHANGED <<rows, requests>>, \A v \in Workers \ {w} : Same(v),
           QuietId(w), QuietNumber(w)
    PROVE  IdInv' /\ NumberInv'
<1>1. requests' \in Nat /\ requests' >= requests
  BY DEF TypeInv, TypeOK
<1> QED BY <1>1, SameIsQuiet, IdKept, NumberKept

LEMMA FailIds ==
    ASSUME TypeInv, IdInv, NumberInv, NEW w \in Workers, Fail(w)
    PROVE  IdInv' /\ NumberInv'
BY EndFrame, EndedIsQuiet, QuietStep DEF Fail

LEMMA MoveOnIds ==
    ASSUME TypeInv, IdInv, NumberInv, NEW w \in Workers, pc[w] # "idle", pc[w] # "remember",
           NEW next \in PCs, Advance(w, next), number' = number,
           seen' = seen \/ \E s : seen' = [seen EXCEPT ![w] = s],
           \/ next \in {"check", "number", "write"}
           \/ next = "memory" /\ req[w].kind # "create"
           \/ next = "commit" /\ (pc[w] = "memory" \/ req[w].kind # "create")
    PROVE  IdInv' /\ NumberInv'
<1>1. /\ number' \in [Workers -> Nat] /\ DOMAIN seen' = Workers
      /\ \A v \in Workers \ {w} : number'[v] = number[v] /\ seen'[v] = seen[v]
  BY DEF TypeInv, TypeOK
<1>2. /\ \A v \in Workers \ {w} : Same(v)
      /\ pc'[w] = next /\ req' = req
      /\ UNCHANGED <<rows, dayOld, lastTrade, bought, known, requests, restarts>>
  BY <1>1, AdvanceFrame
<1>3. QuietId(w)
  BY <1>2 DEF QuietId, Creating
<1>4. QuietNumber(w)
  BY <1>2 DEF QuietNumber, Numbered, Making, Flushed
<1> QED BY <1>2, <1>3, <1>4, QuietStep

LEMMA TakeNumberIds ==
    ASSUME TypeInv, IdInv, NumberInv, NEW w \in Workers, TakeNumber(w)
    PROVE  IdInv' /\ NumberInv'
<1>1. PICK t \in Nat : Top(t)
  BY DEF NumberInv
<1>2. NextNumber = t + 1
  BY <1>1, NextNumberIs
<1>3. number' \in [Workers -> Nat] /\ number'[w] = t + 1 /\ DOMAIN seen' = Workers
      /\ \A v \in Workers \ {w} : number'[v] = number[v] /\ seen'[v] = seen[v]
  BY <1>2 DEF TakeNumber, TypeInv, TypeOK
<1>4. "insert" \in PCs /\ Advance(w, "insert")
  BY DEF PCs, TakeNumber
<1>5. /\ \A v \in Workers \ {w} : Same(v)
      /\ pc'[w] = "insert" /\ req' = req /\ rows' = rows /\ requests' = requests
  BY <1>3, <1>4, AdvanceFrame
<1>6. pc[w] = "number"
  BY DEF TakeNumber
<1>7. IdInv'
  <2>1. QuietId(w)
    BY <1>5, <1>6 DEF QuietId, Creating
  <2>2. requests' \in Nat /\ requests' >= requests
    BY <1>5 DEF TypeInv, TypeOK
  <2> QED BY <1>5, <2>1, <2>2, SameIsQuiet, IdKept
<1>8. NumberInv'
  <2>1. \A v \in Workers \ {w} : (Numbered(v)' => Numbered(v)) /\ (Making(v)' => Making(v))
    BY <1>5, SameIsQuiet DEF Same, Numbered, Making, Flushed
  <2>2. ~Making(w)'
    BY <1>5 DEF Making, Flushed
  <2>3. \A n \in 1..t : \E i \in DOMAIN rows : rows[i].number = n
    BY <1>1 DEF Top, Used
  <2>4. \E u \in Nat : Top(u)'
    BY <1>5 DEF NumberInv, Top, Used
  <2>5. \A i, j \in DOMAIN rows' : rows'[i].number = rows'[j].number => i = j
    BY <1>5 DEF NumberInv
  <2>6. \A v \in Workers : Numbered(v)' =>
           number'[v] >= 1 /\ \A n \in 1..(number'[v] - 1) : \E i \in DOMAIN rows' : rows'[i].number = n
    BY <1>3, <1>5, <2>1, <2>3 DEF NumberInv, Used
  <2>7. \A v \in Workers : Making(v)' => \A i \in DOMAIN rows' : rows'[i].number # number'[v]
    BY <1>3, <1>5, <2>1, <2>2 DEF NumberInv, Used
  <2>8. \A u, v \in Workers : u # v /\ Making(u)' /\ Making(v)' => number'[u] # number'[v]
    BY <1>3, <2>1, <2>2 DEF NumberInv
  <2> QED BY <2>4, <2>5, <2>6, <2>7, <2>8 DEF NumberInv, Used
<1> QED BY <1>7, <1>8

LEMMA InsertIds ==
    ASSUME TypeInv, IdInv, NumberInv, NEW w \in Workers, Insert(w)
    PROVE  IdInv' /\ NumberInv'
<1>1. CASE Fail(w)
  BY <1>1, FailIds
<1>2. CASE ~NumberTaken(w) /\ Advance(w, "memory") /\ UNCHANGED <<number, seen>>
  <2>1. /\ number' \in [Workers -> Nat] /\ DOMAIN seen' = Workers
        /\ "memory" \in PCs /\ pc[w] = "insert"
    BY <1>2 DEF Insert, TypeInv, TypeOK, PCs
  <2>2. /\ \A v \in Workers \ {w} : Same(v)
        /\ pc'[w] = "memory" /\ req' = req /\ rows' = rows /\ requests' = requests
    BY <1>2, <2>1, AdvanceFrame
  <2>3. IdInv'
    <3>1. QuietId(w)
      BY <2>1, <2>2 DEF QuietId, Creating
    <3>2. requests' \in Nat /\ requests' >= requests
      BY <2>2 DEF TypeInv, TypeOK
    <3> QED BY <2>2, <3>1, <3>2, SameIsQuiet, IdKept
  <2>4. NumberInv'
    <3>1. \A v \in Workers \ {w} : (Numbered(v)' => Numbered(v)) /\ (Making(v)' => Making(v))
      BY <2>2 DEF Same, Numbered, Making, Flushed
    <3>2. Numbered(w)
      BY <2>1 DEF Numbered
    <3>3. \A i \in DOMAIN rows : rows[i].number # number[w]
      BY <1>2 DEF NumberTaken
    <3>4. \A v \in Workers \ {w} : Making(v) => number[v] # number[w]
      BY DEF Insert, Making
    <3>5. \E u \in Nat : Top(u)'
      BY <2>2 DEF NumberInv, Top, Used
    <3>6. \A i, j \in DOMAIN rows' : rows'[i].number = rows'[j].number => i = j
      BY <2>2 DEF NumberInv
    <3>7. \A v \in Workers : Numbered(v)' =>
             number'[v] >= 1
             /\ \A n \in 1..(number'[v] - 1) : \E i \in DOMAIN rows' : rows'[i].number = n
      BY <1>2, <2>2, <3>1, <3>2 DEF NumberInv, Used
    <3>8. \A v \in Workers : Making(v)' => \A i \in DOMAIN rows' : rows'[i].number # number'[v]
      BY <1>2, <2>2, <3>1, <3>3 DEF NumberInv, Used
    <3>9. \A u, v \in Workers : u # v /\ Making(u)' /\ Making(v)' => number'[u] # number'[v]
      BY <1>2, <3>1, <3>4 DEF NumberInv
    <3> QED BY <3>5, <3>6, <3>7, <3>8, <3>9 DEF NumberInv, Used
  <2> QED BY <2>3, <2>4
<1> QED BY <1>1, <1>2 DEF Insert

(* No other creation is written while one is: both would have the same number. *)
LEMMA OneIsMade ==
    ASSUME TypeInv, NumberInv, NEW t \in Nat, Top(t), NEW w \in Workers, Making(w)
    PROVE  number[w] = t + 1 /\ \A v \in Workers \ {w} : ~Making(v)
<1>1. \A v \in Workers : Making(v) => number[v] = t + 1
  <2> SUFFICES ASSUME NEW v \in Workers, Making(v) PROVE number[v] = t + 1
    OBVIOUS
  <2>1. number[v] \in Nat /\ number[v] >= 1 /\ \A n \in 1..(number[v] - 1) : Used(n)
    BY DEF NumberInv, Numbered, TypeInv, TypeOK
  <2>2. ~(number[v] \in 1..t)
    BY DEF NumberInv, Top
  <2>3. ~Used(t + 1)
    <3>1. \A i \in DOMAIN rows : rows[i].number \in Nat
      BY DEF TypeInv, TypeOK, Row
    <3> QED BY <3>1 DEF Top, Used
  <2>4. ~(t + 1 \in 1..(number[v] - 1))
    BY <2>1, <2>3
  <2> QED BY <2>1, <2>2, <2>4
<1>2. \A v \in Workers \ {w} : Making(v) => number[v] # number[w]
  BY DEF NumberInv
<1> QED BY <1>1, <1>2

LEMMA CommitCreateIds ==
    ASSUME TypeInv, IdInv, NumberInv, NEW w \in Workers, CommitCreate(w)
    PROVE  IdInv' /\ NumberInv'
<1>1. CASE DefaultTaken(w)
  BY <1>1, FailIds DEF CommitCreate
<1>2. CASE ~DefaultTaken(w)
  <2> DEFINE id == req[w].id
  <2>1. /\ pc[w] = "commit" /\ req[w].kind = "create" /\ pc' = [pc EXCEPT ![w] = "remember"]
        /\ req' = req /\ number' = number /\ requests' = requests
    BY <1>2 DEF CommitCreate
  <2>2. /\ DOMAIN rows' = DOMAIN rows \union {id}
        /\ \A i \in DOMAIN rows \ {id} : rows'[i] = rows[i]
        /\ rows'[id].number = number[w]
    <3>1. NewRow(w).number = number[w]
      BY DEF NewRow
    <3> QED BY <1>2, <3>1, CommitCreateRows
  <2>3. /\ Creating(w) /\ Making(w) /\ id <= requests /\ id \notin DOMAIN rows
    BY <2>1 DEF Creating, Making, Flushed, IdInv
  <2>4. /\ pc'[w] = "remember" /\ \A v \in Workers \ {w} : pc'[v] = pc[v]
    BY <2>1 DEF TypeInv, TypeOK
  <2>5. IdInv'
    <3>1. \A v \in Workers : Creating(v)' => Creating(v) /\ v # w
      BY <2>1, <2>4 DEF Creating
    <3>2. \A v \in Workers : Creating(v)' =>
             req'[v].id <= requests' /\ req'[v].id \notin DOMAIN rows'
      BY <2>1, <2>2, <2>3, <3>1 DEF IdInv
    <3>3. \A u, v \in Workers : u # v /\ Creating(u)' /\ Creating(v)' => req'[u].id # req'[v].id
      BY <2>1, <3>1 DEF IdInv
    <3>4. \A v \in Workers : pc'[v] # "idle" /\ req'[v].kind = "edit" =>
             req'[v].id \in DOMAIN rows'
      BY <2>1, <2>2, <2>4 DEF IdInv
    <3>5. \A i \in DOMAIN rows' : i <= requests'
      BY <2>1, <2>2, <2>3 DEF IdInv
    <3> QED BY <3>2, <3>3, <3>4, <3>5 DEF IdInv, Creating
  <2>6. PICK t \in Nat : Top(t)
    BY DEF NumberInv
  <2>7. number[w] = t + 1 /\ \A v \in Workers \ {w} : ~Making(v)
    BY <2>3, <2>6, OneIsMade
  <2>8. \A i \in DOMAIN rows : rows'[i].number = rows[i].number /\ rows[i].number \in Nat
    BY <2>2, <2>3 DEF TypeInv, TypeOK, Row
  <2>9. \A n \in 1..(t + 1) : \E i \in DOMAIN rows' : rows'[i].number = n
    BY <2>2, <2>6, <2>7, <2>8 DEF Top, Used
  <2>10. \A i \in DOMAIN rows' : rows'[i].number <= t + 1
    BY <2>2, <2>6, <2>7, <2>8 DEF Top
  <2>11. \A v \in Workers : ~Making(v)'
    BY <2>1, <2>4, <2>7 DEF Making, Flushed
  <2>12. \A v \in Workers : Numbered(v)' =>
             number'[v] >= 1
             /\ \A n \in 1..(number'[v] - 1) : \E i \in DOMAIN rows' : rows'[i].number = n
    <3>1. \A v \in Workers : Numbered(v)' => Numbered(v)
      BY <2>1, <2>4, <2>11 DEF Numbered, Making, Flushed
    <3> QED BY <2>1, <2>2, <2>8, <3>1 DEF NumberInv, Used
  <2>13. \A i, j \in DOMAIN rows' : rows'[i].number = rows'[j].number => i = j
    <3>1. \A i \in DOMAIN rows : rows[i].number # t + 1
      BY <2>6, <2>8 DEF Top
    <3> QED BY <2>2, <2>7, <2>8, <3>1 DEF NumberInv
  <2>14. NumberInv'
    BY <2>9, <2>10, <2>11, <2>12, <2>13 DEF NumberInv, Top, Used
  <2> QED BY <2>5, <2>14
<1> QED BY <1>1, <1>2

LEMMA EndIds ==
    ASSUME TypeInv, IdInv, NumberInv, NEW w \in Workers,
           Remember(w) \/ CommitEdit(w) \/ CommitClose(w)
    PROVE  IdInv' /\ NumberInv'
<1>1. CASE Fail(w)
  BY <1>1, FailIds
<1>2. ASSUME End(w), requests' = requests, DOMAIN rows' = DOMAIN rows,
             \A i \in DOMAIN rows : rows'[i].number = rows[i].number
      PROVE  IdInv' /\ NumberInv'
  <2>1. Ended(w) /\ \A v \in Workers \ {w} : Same(v)
    BY <1>2, EndFrame
  <2>2. requests' \in Nat /\ requests' >= requests
    BY <1>2 DEF TypeInv, TypeOK
  <2> QED BY <1>2, <2>1, <2>2, SameIsQuiet, EndedIsQuiet, IdKept, NumberKept
<1>3. CASE Remember(w)
  BY <1>2, <1>3 DEF Remember
<1>4. CASE CommitEdit(w) /\ ~DefaultTaken(w)
  <2>1. \A i \in DOMAIN rows : rows'[i].number = rows[i].number
    BY <1>4, CommitEditRows
  <2> QED BY <1>2, <1>4, <2>1, CommitEditRows DEF CommitEdit
<1>5. CASE CommitClose(w)
  BY <1>2, <1>5, CommitCloseRows DEF CommitClose
<1> QED BY <1>1, <1>3, <1>4, <1>5 DEF CommitEdit

LEMMA StepIds ==
    ASSUME TypeInv, IdInv, NumberInv, NEW w \in Workers, Step(w)
    PROVE  IdInv' /\ NumberInv'
<1> USE DEF PCs
<1>1. CASE TakeLock(w)
  <2>1. Advance(w, "check") /\ pc[w] = "lock" /\ number' = number /\ seen' = seen
    BY <1>1 DEF TakeLock
  <2> QED BY <2>1, MoveOnIds
<1>2. CASE CheckDuplicate(w)
  <2>1. pc[w] = "check"
    BY <1>2 DEF CheckDuplicate
  <2>2. CASE Fail(w)
    BY <2>2, FailIds
  <2>3. ASSUME NEW next \in {"number", "write"}, Advance(w, next), UNCHANGED <<number, seen>>
        PROVE  IdInv' /\ NumberInv'
    BY <2>1, <2>3, MoveOnIds
  <2> QED BY <1>2, <2>2, <2>3 DEF CheckDuplicate
<1>3. CASE ReadMemory(w)
  <2>1. /\ Advance(w, "commit") /\ pc[w] = "memory" /\ number' = number
        /\ \E s : seen' = [seen EXCEPT ![w] = s]
    BY <1>3 DEF ReadMemory
  <2> QED BY <2>1, MoveOnIds
<1>4. CASE WriteRow(w)
  <2>1. /\ Advance(w, "memory") /\ pc[w] = "write" /\ req[w].kind = "edit"
        /\ number' = number /\ seen' = seen
    BY <1>4 DEF WriteRow, TypeInv, KindInv
  <2> QED BY <2>1, MoveOnIds
<1>5. CASE FindSnapshot(w)
  <2>1. /\ Advance(w, "commit") /\ pc[w] = "close" /\ req[w].kind # "create"
        /\ number' = number /\ \E s : seen' = [seen EXCEPT ![w] = s]
    BY <1>5 DEF FindSnapshot, TypeInv, KindInv
  <2> QED BY <2>1, MoveOnIds
<1> QED BY <1>1, <1>2, <1>3, <1>4, <1>5, TakeNumberIds, InsertIds, CommitCreateIds, EndIds
        DEF Step

LEMMA AroundIds ==
    ASSUME TypeInv, IdInv, NumberInv,
           \/ Age
           \/ \E p \in Processes, k \in Keys : Forget(p, k)
           \/ \E p \in Processes : Restart(p)
    PROVE  IdInv' /\ NumberInv'
<1>1. /\ rows' = rows /\ requests' = requests /\ requests \in Nat
      /\ \A v \in Workers : Same(v) \/ Ended(v)
  BY RestartFrame DEF Age, Forget, Same, TypeInv, TypeOK
<1> QED BY <1>1, SameIsQuiet, EndedIsQuiet, IdKept, NumberKept

(* The inductive invariant of ids and numbers. *)
CreationInv == TypeInv /\ IdInv /\ NumberInv

LEMMA CreationInit == Init => CreationInv
<1> SUFFICES ASSUME Init PROVE CreationInv
  OBVIOUS
<1>1. DOMAIN rows = {} /\ \A w \in Workers : pc[w] = "idle"
  BY DEF Init
<1>2. IdInv
  BY <1>1 DEF IdInv, Creating
<1>3. NumberInv
  <2>1. Top(0)
    BY <1>1 DEF Top
  <2> QED BY <1>1, <2>1 DEF NumberInv, Numbered, Making, Flushed
<1> QED BY <1>2, <1>3, TypeInit DEF CreationInv

LEMMA CreationNext == CreationInv /\ [Next]_vars => CreationInv'
<1> SUFFICES ASSUME TypeInv, IdInv, NumberInv, [Next]_vars PROVE CreationInv'
  BY DEF CreationInv
<1>1. TypeInv'
  BY TypeNext
<1>2. IdInv' /\ NumberInv'
  <2>1. CASE UNCHANGED vars
    <3>1. /\ rows' = rows /\ requests' = requests /\ requests \in Nat
          /\ \A v \in Workers : Same(v)
      BY <2>1 DEF vars, Same, TypeInv, TypeOK
    <3> QED BY <3>1, SameIsQuiet, IdKept, NumberKept
  <2> QED BY <2>1, AskIds, StepIds, AroundIds DEF Next
<1> QED BY <1>1, <1>2 DEF CreationInv

(* Whatever requests overlap and processes restart, sessions and tables keep *)
(* the shape their handlers give them.                                       *)
THEOREM TypeCorrect == Spec => []TypeOK
<1>1. CreationInv => TypeOK
  BY DEF CreationInv, TypeInv
<1> QED BY <1>1, CreationInit, CreationNext, PTL DEF Spec

(* The human ids of next_human_id stay 1, 2, 3, ... without gap or repetition *)
(* although it reads the largest one without a lock.                          *)
THEOREM NumbersStayDense == Spec => []NumbersDense
<1>1. CreationInv => NumbersDense
  <2> SUFFICES ASSUME CreationInv PROVE NumbersDense
    OBVIOUS
  <2>1. PICK t \in Nat : Top(t)
    BY DEF CreationInv, NumberInv
  <2>2. \A i \in DOMAIN rows : rows[i].number \in Nat /\ rows[i].number <= t
    BY <2>1 DEF CreationInv, TypeInv, TypeOK, Row, Top
  <2>3. \A i \in DOMAIN rows : \A n \in 1..(rows[i].number - 1) : Used(n)
    BY <2>1, <2>2 DEF Top
  <2> QED BY <2>3 DEF NumbersDense, Used, CreationInv, NumberInv
<1> QED BY <1>1, CreationInit, CreationNext, PTL DEF Spec

-----------------------------------------------------------------------------
(* Locks and duplicates.                                                     *)

LEMMA AskOutcome ==
    ASSUME TypeInv, NEW w \in Workers, Ask(w)
    PROVE  /\ \A v \in Workers \ {w} : Same(v)
           /\ Same(w) \/ pc'[w] \in {"lock", "close"}
           /\ UNCHANGED <<rows, dayOld, bought>>
<1>1. PICK r \in Requests : AskCreate(w, r) \/ AskEdit(w, r) \/ AskClose(w, r)
  BY DEF Ask
<1>2. CASE AnswerAtOnce(w)
  BY <1>2 DEF AnswerAtOnce, Same
<1>3. ASSUME NEW read \in Seen, NEW next \in {"lock", "close"}, Begin(w, r, next, read)
      PROVE  /\ \A v \in Workers \ {w} : Same(v)
             /\ pc'[w] \in {"lock", "close"}
             /\ UNCHANGED <<rows, dayOld, bought>>
  <2>1. next \in PCs
    BY DEF PCs
  <2> QED BY <1>3, <2>1, BeginFrame
<1> QED BY <1>1, <1>2, <1>3, AskOpens

(* From where a step moves a request to where, if it does not end it. *)
Moves == {<<"lock", "check">>, <<"check", "number">>, <<"check", "write">>,
          <<"number", "insert">>, <<"insert", "memory">>, <<"write", "memory">>,
          <<"memory", "commit">>, <<"close", "commit">>, <<"commit", "remember">>}

LEMMA AdvanceOutcome ==
    ASSUME TypeInv, NEW w \in Workers, NEW next \in PCs, Advance(w, next),
           <<pc[w], next>> \in Moves,
           number' = number \/ \E n \in Nat : number' = [number EXCEPT ![w] = n],
           seen' = seen \/ \E s : seen' = [seen EXCEPT ![w] = s]
    PROVE  /\ \A v \in Workers \ {w} : Same(v)
           /\ req'[w] = req[w] /\ <<pc[w], pc'[w]>> \in Moves
<1>1. /\ number' \in [Workers -> Nat] /\ DOMAIN seen' = Workers
      /\ \A v \in Workers \ {w} : number'[v] = number[v] /\ seen'[v] = seen[v]
  BY DEF TypeInv, TypeOK
<1> QED BY <1>1, AdvanceFrame

LEMMA StepOutcome ==
    ASSUME TypeInv, NumberInv, NEW w \in Workers, Step(w)
    PROVE  /\ \A v \in Workers \ {w} : Same(v)
           /\ \/ Ended(w)
              \/ req'[w] = req[w] /\ <<pc[w], pc'[w]>> \in Moves
<1> DEFINE Goal == /\ \A v \in Workers \ {w} : Same(v)
                   /\ \/ Ended(w)
                      \/ req'[w] = req[w] /\ <<pc[w], pc'[w]>> \in Moves
<1> USE DEF PCs, Moves
<1>1. ASSUME End(w) PROVE Goal
  BY <1>1, EndFrame
<1>2. CASE TakeLock(w)
  <2>1. Advance(w, "check") /\ pc[w] = "lock" /\ number' = number /\ seen' = seen
    BY <1>2 DEF TakeLock
  <2> QED BY <2>1, AdvanceOutcome
<1>3. CASE CheckDuplicate(w)
  <2>1. ASSUME NEW next \in {"number", "write"}, Advance(w, next), UNCHANGED <<number, seen>>
        PROVE  Goal
    BY <1>3, <2>1, AdvanceOutcome DEF CheckDuplicate
  <2> QED BY <1>1, <1>3, <2>1 DEF CheckDuplicate, Fail
<1>4. CASE TakeNumber(w)
  <2>1. NextNumber \in Nat
    BY NextNumberIs DEF NumberInv
  <2>2. /\ Advance(w, "insert") /\ pc[w] = "number" /\ seen' = seen
        /\ \E n \in Nat : number' = [number EXCEPT ![w] = n]
    BY <1>4, <2>1 DEF TakeNumber
  <2> QED BY <2>2, AdvanceOutcome
<1>5. CASE Insert(w)
  <2>1. ASSUME Advance(w, "memory"), UNCHANGED <<number, seen>> PROVE Goal
    BY <1>5, <2>1, AdvanceOutcome DEF Insert
  <2> QED BY <1>1, <1>5, <2>1 DEF Insert, Fail
<1>6. CASE ReadMemory(w)
  <2>1. /\ Advance(w, "commit") /\ pc[w] = "memory" /\ number' = number
        /\ \E s : seen' = [seen EXCEPT ![w] = s]
    BY <1>6 DEF ReadMemory
  <2> QED BY <2>1, AdvanceOutcome
<1>7. CASE CommitCreate(w)
  <2>1. CASE ~DefaultTaken(w)
    <3>1. /\ pc[w] = "commit" /\ pc' = [pc EXCEPT ![w] = "remember"]
          /\ UNCHANGED <<req, number, seen>>
      BY <1>7, <2>1 DEF CommitCreate
    <3> QED BY <3>1 DEF Same, TypeInv, TypeOK
  <2> QED BY <1>1, <1>7, <2>1 DEF CommitCreate, Fail
<1>8. CASE Remember(w)
  BY <1>1, <1>8 DEF Remember
<1>9. CASE WriteRow(w)
  <2>1. Advance(w, "memory") /\ pc[w] = "write" /\ number' = number /\ seen' = seen
    BY <1>9 DEF WriteRow
  <2> QED BY <2>1, AdvanceOutcome
<1>10. CASE CommitEdit(w)
  BY <1>1, <1>10 DEF CommitEdit, Fail
<1>11. CASE FindSnapshot(w)
  <2>1. /\ Advance(w, "commit") /\ pc[w] = "close" /\ number' = number
        /\ \E s : seen' = [seen EXCEPT ![w] = s]
    BY <1>11 DEF FindSnapshot
  <2> QED BY <2>1, AdvanceOutcome
<1>12. CASE CommitClose(w)
  BY <1>1, <1>12 DEF CommitClose
<1> QED
  BY <1>2, <1>3, <1>4, <1>5, <1>6, <1>7, <1>8, <1>9, <1>10, <1>11, <1>12 DEF Step

(* A request that leaves "lock" found its lock free, one that leaves "check"  *)
(* found no duplicate, and one that leaves "memory" has just read the count.  *)
LEMMA StepGuards ==
    ASSUME TypeInv, NEW w \in Workers, Step(w)
    PROVE  /\ pc[w] = "lock" => LockFree(w)
           /\ pc[w] = "check" /\ pc'[w] # "idle" => ~Refused(req[w])
           /\ pc[w] = "memory" => seen'[w].count = bought[req[w].supplier]
<1>1. pc[w] = "lock" => TakeLock(w)
  BY DEF Step, CheckDuplicate, TakeNumber, Insert, ReadMemory, CommitCreate, Remember,
         WriteRow, CommitEdit, FindSnapshot, CommitClose
<1>2. pc[w] = "check" => CheckDuplicate(w)
  BY DEF Step, TakeLock, TakeNumber, Insert, ReadMemory, CommitCreate, Remember,
         WriteRow, CommitEdit, FindSnapshot, CommitClose
<1>3. pc[w] = "memory" => ReadMemory(w)
  BY DEF Step, TakeLock, CheckDuplicate, TakeNumber, Insert, CommitCreate, Remember,
         WriteRow, CommitEdit, FindSnapshot, CommitClose
<1>4. ASSUME CheckDuplicate(w), pc'[w] # "idle" PROVE ~Refused(req[w])
  <2>1. ~Fail(w)
    BY <1>4, EndFrame DEF Fail, Ended
  <2> QED BY <1>4, <2>1 DEF CheckDuplicate
<1>5. ASSUME ReadMemory(w), pc[w] = "memory"
      PROVE  seen'[w].count = bought[req[w].supplier]
  BY <1>5 DEF ReadMemory, TypeInv, TypeOK, Seen
<1> QED BY <1>1, <1>2, <1>3, <1>4, <1>5 DEF TakeLock

LEMMA RowsOutcome ==
    ASSUME NEW w \in Workers, Step(w)
    PROVE  /\ dayOld' = dayOld
           /\ \/ rows' = rows /\ bought' = bought
              \/ CommitCreate(w) /\ ~DefaultTaken(w)
              \/ CommitEdit(w) /\ ~DefaultTaken(w)
              \/ CommitClose(w)
BY DEF Step, TakeLock, CheckDuplicate, TakeNumber, Insert, ReadMemory, CommitCreate, Remember,
       WriteRow, CommitEdit, FindSnapshot, CommitClose, Advance, Fail

LockInv ==
    \A v, w \in Workers :
        v # w /\ Holds(v) /\ Holds(w) => LockName(req[v]) # LockName(req[w])

LEMMA LockKept ==
    ASSUME LockInv, \A v \in Workers : Holds(v)' => Holds(v) /\ req'[v] = req[v]
    PROVE  LockInv'
BY DEF LockInv, Holds, LockName

LEMMA LockNext == TypeInv /\ NumberInv /\ LockInv /\ [Next]_vars => LockInv'
<1> SUFFICES ASSUME TypeInv, NumberInv, LockInv, [Next]_vars PROVE LockInv'
  OBVIOUS
<1>1. \A v : Same(v) \/ Ended(v) \/ pc'[v] \in {"lock", "close"} =>
                (Holds(v)' => Holds(v) /\ req'[v] = req[v])
  BY DEF Same, Ended, Holds, Locked
<1>2. ASSUME NEW w \in Workers, Ask(w) PROVE LockInv'
  BY <1>1, <1>2, AskOutcome, LockKept
<1>3. ASSUME NEW w \in Workers, Step(w) PROVE LockInv'
  <2>1. /\ \A v \in Workers \ {w} : Same(v)
        /\ Ended(w) \/ (req'[w] = req[w] /\ <<pc[w], pc'[w]>> \in Moves)
    BY <1>3, StepOutcome
  <2>2. CASE pc[w] # "lock"
    <3>1. Holds(w)' => Holds(w) /\ req'[w] = req[w]
      <4>1. CASE Ended(w)
        BY <1>1, <4>1
      <4>2. CASE req'[w] = req[w] /\ <<pc[w], pc'[w]>> \in Moves
        BY <2>2, <4>2 DEF Moves, Holds, Locked, TypeInv, KindInv
      <4> QED BY <2>1, <4>1, <4>2
    <3> QED BY <1>1, <2>1, <3>1, LockKept
  <2>3. CASE pc[w] = "lock"
    <3>1. \A v \in Workers \ {w} : Holds(v) => LockName(req[v]) # LockName(req[w])
      BY <1>3, <2>3, StepGuards DEF LockFree
    <3>2. \A v \in Workers \ {w} : Holds(v)' => Holds(v) /\ req'[v] = req[v]
      BY <1>1, <2>1
    <3>3. Holds(w)' => req'[w] = req[w]
      BY <2>1, <1>1
    <3> QED BY <3>1, <3>2, <3>3 DEF LockInv, Holds, LockName
  <2> QED BY <2>2, <2>3
<1>4. CASE UNCHANGED vars
  BY <1>4, LockKept DEF vars, Holds
<1>5. CASE \/ Age
           \/ \E p \in Processes, k \in Keys : Forget(p, k)
           \/ \E p \in Processes : Restart(p)
  <2>1. \A v \in Workers : Same(v) \/ Ended(v)
    BY <1>5, RestartFrame DEF Age, Forget, Same
  <2> QED BY <1>1, <2>1, LockKept
<1> QED BY <1>2, <1>3, <1>4, <1>5 DEF Next

(* A creation that passed the search for a duplicate has none, and none comes. *)
Counts(i) == Fresh(i) /\ Live(i) /\ Unforced(i)
Clear(w) == /\ pc[w] \in {"number", "insert", "memory", "commit"}
            /\ req[w].kind = "create" /\ ~req[w].force
ClearOf(w, i) == ~(/\ Counts(i)
                   /\ rows[i].supplier = req[w].supplier /\ rows[i].day = req[w].day
                   /\ SameContent(rows[i].total, req[w].total))
TwinInv == NoTwins /\ \A w \in Workers : Clear(w) => \A i \in DOMAIN rows : ClearOf(w, i)

LEMMA TwinKept ==
    ASSUME TwinInv, DOMAIN rows' = DOMAIN rows,
           \A i \in DOMAIN rows : Counts(i)' =>
              /\ Counts(i)
              /\ rows'[i].supplier = rows[i].supplier /\ rows'[i].day = rows[i].day
              /\ rows'[i].total = rows[i].total,
           \A v \in Workers : Clear(v)' => Clear(v) /\ req'[v] = req[v]
    PROVE  TwinInv'
<1>1. NoTwins'
  <2> SUFFICES ASSUME NEW i \in DOMAIN rows, NEW j \in DOMAIN rows, i # j,
                      Counts(i)', Counts(j)',
                      rows'[i].supplier = rows'[j].supplier, rows'[i].day = rows'[j].day
               PROVE  ~SameContent(rows'[i].total, rows'[j].total)
    BY DEF NoTwins, Counts
  <2> QED BY DEF TwinInv, NoTwins, Counts
<1>2. \A w \in Workers : Clear(w)' => \A i \in DOMAIN rows' : ClearOf(w, i)'
  BY DEF TwinInv, ClearOf
<1> QED BY <1>1, <1>2 DEF TwinInv

LEMMA CountsSame ==
    ASSUME rows' = rows, dayOld' = dayOld
    PROVE  \A i \in DOMAIN rows : Counts(i)' => Counts(i)
BY DEF Counts, Fresh, Live, Unforced

LEMMA ClearQuiet ==
    \A v : \/ Same(v) \/ Ended(v) \/ pc'[v] \in {"lock", "close"}
           \/ (req'[v] = req[v] /\ <<pc[v], pc'[v]>> \in Moves /\ pc[v] # "check"
               /\ (pc[v] = "write" => req[v].kind = "edit")
               /\ (pc[v] = "close" => req[v].kind # "create"))
           => (Clear(v)' => Clear(v) /\ req'[v] = req[v])
BY DEF Same, Ended, Clear, Moves

LEMMA TotalsAreNumbers == \A t \in Totals : t \in Int
<1>1. Totals \subseteq Nat
  BY ONLY CreationAssumption DEF CreationAssumption
<1>2. \A t : t \in Nat => t \in Int
  OBVIOUS
<1> QED BY <1>1, <1>2

(* What a creation adds is clear of the rows and of the other creations. *)
LEMMA CommitCreateTwins ==
    ASSUME TypeInv, IdInv, NumberInv, LockInv, TwinInv,
           NEW w \in Workers, CommitCreate(w), ~DefaultTaken(w)
    PROVE  TwinInv'
<1>0. PICK id : id = req[w].id
  OBVIOUS
<1>1. /\ pc[w] = "commit" /\ req[w].kind = "create" /\ pc' = [pc EXCEPT ![w] = "remember"]
      /\ req' = req /\ dayOld' = dayOld
  BY DEF CommitCreate
<1>2. /\ DOMAIN rows' = DOMAIN rows \union {id}
      /\ \A i \in DOMAIN rows \ {id} : rows'[i] = rows[i]
      /\ rows'[id] = NewRow(w) /\ NewRow(w) \in Row
  BY <1>0, CommitCreateRows
<1>3. id \notin DOMAIN rows
  BY <1>0, <1>1 DEF IdInv, Creating
<1>4. \A i \in DOMAIN rows : rows'[i] = rows[i] /\ i # id /\ i \in DOMAIN rows'
  BY <1>2, <1>3
<1>10. \A i \in DOMAIN rows : Counts(i)' => Counts(i)
  BY <1>1, <1>4 DEF Counts, Fresh, Live, Unforced
<1>11. \A i \in DOMAIN rows : rows[i].total \in Int
  <2> SUFFICES ASSUME NEW i \in DOMAIN rows PROVE rows[i].total \in Int
    OBVIOUS
  <2>1. rows[i] \in Row
    BY DEF TypeInv, TypeOK
  <2>2. rows[i].total \in Totals
    BY <2>1 DEF Row
  <2> QED BY <2>2, TotalsAreNumbers
<1>12. req[w].total \in Int
  <2>1. NewRow(w).total \in Totals
    BY <1>2 DEF Row
  <2>2. NewRow(w).total = req[w].total
    BY DEF NewRow
  <2> QED BY <2>1, <2>2, TotalsAreNumbers
<1>5. /\ rows'[id].supplier = req[w].supplier /\ rows'[id].day = req[w].day
      /\ rows'[id].total = req[w].total /\ rows'[id].forced = req[w].force
  <2>1. /\ NewRow(w).supplier = req[w].supplier /\ NewRow(w).day = req[w].day
        /\ NewRow(w).total = req[w].total /\ NewRow(w).forced = req[w].force
    BY DEF NewRow
  <2> QED BY <1>2, <2>1
<1>6. Counts(id)' => Clear(w)
  BY <1>1, <1>5 DEF Counts, Unforced, Clear
<1>7. \A i \in DOMAIN rows :
         /\ Counts(id)' /\ Counts(i)'
         /\ rows'[i].supplier = rows'[id].supplier /\ rows'[i].day = rows'[id].day
         => /\ ~SameContent(rows'[i].total, rows'[id].total)
            /\ ~SameContent(rows'[id].total, rows'[i].total)
  <2> SUFFICES ASSUME NEW i \in DOMAIN rows, Counts(id)', Counts(i)',
                      rows'[i].supplier = rows'[id].supplier, rows'[i].day = rows'[id].day
               PROVE  /\ ~SameContent(rows'[i].total, rows'[id].total)
                      /\ ~SameContent(rows'[id].total, rows'[i].total)
    OBVIOUS
  <2>1. ~SameContent(rows[i].total, req[w].total)
    <3>1. Counts(i) /\ Clear(w)
      BY <1>6, <1>10
    <3>2. rows[i].supplier = req[w].supplier /\ rows[i].day = req[w].day
      BY <1>4, <1>5
    <3> QED BY <3>1, <3>2 DEF TwinInv, ClearOf
  <2>2. ~SameContent(req[w].total, rows[i].total)
    BY <2>1 DEF SameContent
  <2> QED BY <1>4, <1>5, <2>1, <2>2
<1>8. NoTwins'
  <2> SUFFICES ASSUME NEW i \in DOMAIN rows', NEW j \in DOMAIN rows', i # j,
                      Counts(i)', Counts(j)',
                      rows'[i].supplier = rows'[j].supplier, rows'[i].day = rows'[j].day
               PROVE  ~SameContent(rows'[i].total, rows'[j].total)
    BY DEF NoTwins, Counts
  <2>1. CASE i \in DOMAIN rows /\ j \in DOMAIN rows
    <3>1. Counts(i) /\ Counts(j) /\ rows'[i] = rows[i] /\ rows'[j] = rows[j]
      BY <1>4, <1>10, <2>1
    <3> QED BY <2>1, <3>1 DEF TwinInv, NoTwins, Counts
  <2>2. CASE i = id \/ j = id
    BY <1>2, <1>7, <2>2
  <2> QED BY <1>2, <2>1, <2>2
<1>9. ASSUME NEW v \in Workers, Clear(v)', NEW i \in DOMAIN rows' PROVE ClearOf(v, i)'
  <2>1. v # w /\ Clear(v) /\ req'[v] = req[v]
    BY <1>1, <1>9 DEF Clear, TypeInv, TypeOK
  <2>2. CASE i \in DOMAIN rows
    BY <1>4, <1>10, <2>1, <2>2 DEF TwinInv, ClearOf
  <2>3. CASE i = id
    <3>1. Holds(v) /\ Holds(w)
      BY <1>1, <2>1 DEF Clear, Holds, Locked
    <3>2. LockName(req[v]) # LockName(req[w])
      BY <2>1, <3>1 DEF LockInv
    <3>3. req[v].supplier # req[w].supplier \/ req[v].day # req[w].day
      BY <1>1, <2>1, <3>2 DEF LockName, Clear
    <3> QED BY <1>5, <2>1, <2>3, <3>3 DEF ClearOf
  <2> QED BY <1>2, <2>2, <2>3
<1> QED BY <1>8, <1>9 DEF TwinInv

LEMMA StepTwins ==
    ASSUME TypeInv, IdInv, NumberInv, LockInv, TwinInv, NEW w \in Workers, Step(w)
    PROVE  TwinInv'
<1>1. /\ \A v \in Workers \ {w} : Same(v)
      /\ Ended(w) \/ (req'[w] = req[w] /\ <<pc[w], pc'[w]>> \in Moves)
  BY StepOutcome
<1>2. \A v \in Workers \ {w} : Clear(v)' => Clear(v) /\ req'[v] = req[v]
  BY <1>1, ClearQuiet
<1>3. CASE rows' = rows /\ Ended(w)
  <2>1. dayOld' = dayOld /\ \A v \in Workers : Clear(v)' => Clear(v) /\ req'[v] = req[v]
    BY <1>2, <1>3, ClearQuiet, RowsOutcome
  <2> QED BY <1>3, <2>1, CountsSame, TwinKept
<1>4. CASE rows' = rows /\ ~Ended(w) /\ pc[w] # "check"
  <2>1. /\ pc[w] = "write" => req[w].kind = "edit"
        /\ pc[w] = "close" => req[w].kind # "create"
    BY DEF TypeInv, KindInv
  <2>2. dayOld' = dayOld /\ \A v \in Workers : Clear(v)' => Clear(v) /\ req'[v] = req[v]
    BY <1>1, <1>2, <1>4, <2>1, ClearQuiet, RowsOutcome
  <2> QED BY <1>4, <2>2, CountsSame, TwinKept
<1>5. CASE rows' = rows /\ ~Ended(w) /\ pc[w] = "check"
  <2>1. dayOld' = dayOld /\ \A i \in DOMAIN rows : Counts(i)' => Counts(i)
    BY <1>5, CountsSame, RowsOutcome
  <2>2. pc'[w] # "idle" /\ req'[w] = req[w]
    BY <1>1, <1>5 DEF Moves
  <2>3. ~Refused(req[w])
    BY <1>5, <2>2, StepGuards
  <2>4. ASSUME Clear(w)', NEW i \in DOMAIN rows PROVE ClearOf(w, i)
    <3>1. req[w].kind = "create" /\ ~req[w].force
      BY <2>2, <2>4 DEF Clear
    <3>2. i # 0 /\ Duplicates(req[w].supplier, req[w].total, 0) = {}
      BY <2>3, <3>1 DEF Refused, TypeInv, TypeOK, Ids
    <3> QED BY <3>2 DEF Duplicates, ClearOf, Counts
  <2>5. \A v \in Workers : Clear(v)' => \A i \in DOMAIN rows' : ClearOf(v, i)'
    <3>1. \A v \in Workers : Clear(v)' =>
             req'[v] = req[v] /\ \A i \in DOMAIN rows : ClearOf(v, i)
      BY <1>2, <2>2, <2>4 DEF TwinInv
    <3> QED BY <1>5, <2>1, <3>1 DEF ClearOf
  <2>6. NoTwins'
    BY <1>5, <2>1 DEF TwinInv, NoTwins, Fresh, Live, Unforced
  <2> QED BY <2>5, <2>6 DEF TwinInv
<1>6. CASE CommitEdit(w) /\ ~DefaultTaken(w)
  <2>1. \A v \in Workers : Clear(v)' => Clear(v) /\ req'[v] = req[v]
    BY <1>2, <1>6, ClearQuiet, EndFrame DEF CommitEdit
  <2>2. \A i \in DOMAIN rows : Counts(i)' => i # req[w].id
    BY <1>6, CommitEditRows DEF Counts, Unforced
  <2>3. \A i \in DOMAIN rows : Counts(i)' => rows'[i] = rows[i] /\ Counts(i)
    BY <1>6, <2>2, CommitEditRows, RowsOutcome DEF Counts, Fresh, Live, Unforced
  <2> QED BY <1>6, <2>1, <2>3, CommitEditRows, TwinKept
<1>7. CASE CommitClose(w)
  <2>1. \A v \in Workers : Clear(v)' => Clear(v) /\ req'[v] = req[v]
    BY <1>2, <1>7, ClearQuiet, EndFrame DEF CommitClose
  <2>2. \A i \in DOMAIN rows : Counts(i)' => Counts(i)
    BY <1>7, CommitCloseRows, RowsOutcome DEF Counts, Fresh, Live, Unforced
  <2> QED BY <1>7, <2>1, <2>2, CommitCloseRows, TwinKept
<1>8. CASE CommitCreate(w) /\ ~DefaultTaken(w)
  BY <1>8, CommitCreateTwins
<1> QED BY <1>3, <1>4, <1>5, <1>6, <1>7, <1>8, RowsOutcome

LEMMA TwinNext == CreationInv /\ LockInv /\ TwinInv /\ [Next]_vars => TwinInv'
<1> SUFFICES ASSUME TypeInv, IdInv, NumberInv, LockInv, TwinInv, [Next]_vars PROVE TwinInv'
  BY DEF CreationInv
<1>1. ASSUME NEW w \in Workers, Ask(w) PROVE TwinInv'
  BY <1>1, AskOutcome, ClearQuiet, CountsSame, TwinKept
<1>2. CASE UNCHANGED vars
  <2>1. rows' = rows /\ dayOld' = dayOld /\ \A v \in Workers : Same(v)
    BY <1>2 DEF vars, Same
  <2> QED BY <2>1, ClearQuiet, CountsSame, TwinKept
<1>3. CASE Age
  <2>1. rows' = rows /\ dayOld' = dayOld + 1 /\ \A v \in Workers : Same(v)
    BY <1>3 DEF Age, Same
  <2>2. \A i \in DOMAIN rows : Counts(i)' => Counts(i)
    BY <2>1 DEF Counts, Fresh, Live, Unforced, TypeInv, TypeOK, Row
  <2> QED BY <2>1, <2>2, ClearQuiet, TwinKept
<1>4. CASE (\E p \in Processes, k \in Keys : Forget(p, k)) \/ \E p \in Processes : Restart(p)
  <2>1. rows' = rows /\ dayOld' = dayOld /\ \A v \in Workers : Same(v) \/ Ended(v)
    BY <1>4, RestartFrame DEF Forget, Same
  <2> QED BY <2>1, ClearQuiet, CountsSame, TwinKept
<1> QED BY <1>1, <1>2, <1>3, <1>4, StepTwins DEF Next

(* The advisory lock of supplier and day makes the search for a duplicate    *)
(* safe: no two live, unforced and unedited purchases of a supplier and day   *)
(* with the same content within the day.                                     *)
THEOREM NoTwinsAreMade == Spec => []NoTwins
<1> DEFINE Inv == CreationInv /\ LockInv /\ TwinInv
<1>1. Init => Inv
  <2>1. Init => LockInv /\ TwinInv
    BY DEF Init, LockInv, TwinInv, NoTwins, Clear, Holds, Locked
  <2> QED BY <2>1, CreationInit
<1>2. Inv /\ [Next]_vars => Inv'
  <2>1. CreationInv => TypeInv /\ NumberInv
    BY DEF CreationInv
  <2> QED BY <2>1, CreationNext, LockNext, TwinNext
<1>3. Inv => NoTwins
  BY DEF TwinInv
<1> QED BY <1>1, <1>2, <1>3, PTL DEF Spec

-----------------------------------------------------------------------------
(* While nothing is edited, the default's count is the number of purchases,  *)
(* and a creation that read it writes back one more than it still is.        *)
Of(s) == {i \in DOMAIN rows : rows[i].supplier = s}
Unedited == \A i \in DOMAIN rows : ~rows[i].edited
Read(v) == pc[v] = "commit" /\ req[v].kind = "create"
CountInv ==
    Unedited =>
        /\ \A s \in Suppliers : bought[s] = Cardinality(Of(s))
        /\ \A v \in Workers : Read(v) => seen[v].count = bought[req[v].supplier]

LEMMA CountKept ==
    ASSUME CountInv, DOMAIN rows' = DOMAIN rows, bought' = bought,
           \A i \in DOMAIN rows : /\ rows'[i].supplier = rows[i].supplier
                                  /\ rows'[i].edited = rows[i].edited,
           \A v \in Workers : Read(v)' =>
              \/ seen'[v].count = bought[req'[v].supplier]
              \/ Read(v) /\ req'[v] = req[v] /\ seen'[v] = seen[v]
    PROVE  CountInv'
<1> SUFFICES ASSUME Unedited'
             PROVE  /\ \A s \in Suppliers : bought'[s] = Cardinality(Of(s)')
                    /\ \A v \in Workers : Read(v)' => seen'[v].count = bought'[req'[v].supplier]
  BY DEF CountInv
<1>1. Unedited
  BY DEF Unedited
<1>2. \A s \in Suppliers : Of(s)' = Of(s)
  BY DEF Of
<1>3. \A s \in Suppliers : bought'[s] = Cardinality(Of(s)')
  BY <1>1, <1>2 DEF CountInv
<1>4. \A v \in Workers : Read(v)' => seen'[v].count = bought'[req'[v].supplier]
  BY <1>1 DEF CountInv
<1> QED BY <1>3, <1>4

LEMMA ReadQuiet ==
    \A v : \/ Same(v) \/ Ended(v) \/ pc'[v] \in {"lock", "close"}
           \/ (req'[v] = req[v] /\ <<pc[v], pc'[v]>> \in Moves /\ pc[v] # "memory"
               /\ (pc[v] = "close" => req[v].kind # "create"))
           => (Read(v)' => Read(v) /\ req'[v] = req[v] /\ seen'[v] = seen[v])
BY DEF Same, Ended, Read, Moves

LEMMA OfIsFinite == TypeInv => \A s \in Suppliers : IsFiniteSet(Of(s))
<1> SUFFICES ASSUME TypeInv, NEW s \in Suppliers PROVE IsFiniteSet(Of(s))
  OBVIOUS
<1>1. MaxRequests \in Int
  BY CreationAssumption DEF CreationAssumption
<1>2. IsFiniteSet(Ids)
  BY <1>1, FS_Interval DEF Ids
<1>3. Of(s) \in SUBSET Ids
  BY DEF Of, TypeInv, TypeOK
<1> QED BY <1>2, <1>3, FS_Subset

(* A creation adds its purchase and counts it. *)
LEMMA CommitCreateCounts ==
    ASSUME TypeInv, IdInv, NumberInv, CountInv,
           NEW w \in Workers, CommitCreate(w), ~DefaultTaken(w)
    PROVE  CountInv'
<1> SUFFICES ASSUME Unedited'
             PROVE  /\ \A s \in Suppliers : bought'[s] = Cardinality(Of(s)')
                    /\ \A v \in Workers : Read(v)' => seen'[v].count = bought'[req'[v].supplier]
  BY DEF CountInv
<1>0. PICK id, mine : id = req[w].id /\ mine = req[w].supplier
  OBVIOUS
<1>1. /\ pc[w] = "commit" /\ req[w].kind = "create" /\ pc' = [pc EXCEPT ![w] = "remember"]
      /\ req' = req /\ bought' = [bought EXCEPT ![mine] = seen[w].count + 1]
  BY <1>0 DEF CommitCreate, WriteMemory
<1>2. /\ DOMAIN rows' = DOMAIN rows \union {id}
      /\ \A i \in DOMAIN rows \ {id} : rows'[i] = rows[i]
      /\ rows'[id] = NewRow(w)
  BY <1>0, CommitCreateRows
<1>3. id \notin DOMAIN rows
  BY <1>0, <1>1 DEF IdInv, Creating
<1>4. Unedited
  BY <1>2, <1>3 DEF Unedited
<1>5. rows'[id].supplier = mine
  BY <1>0, <1>2 DEF NewRow
<1>6. mine \in Suppliers /\ seen[w].count = bought[mine]
  <2>1. req[w] \in Requests
    BY <1>1 DEF TypeInv, TypeOK
  <2>2. mine \in Suppliers
    BY <1>0, <1>1, <2>1, RequestType
  <2> QED BY <1>0, <1>1, <1>4, <2>2 DEF CountInv, Read
<1>7. ASSUME NEW s \in Suppliers PROVE bought'[s] = Cardinality(Of(s)')
  <2>1. bought[s] = Cardinality(Of(s))
    BY <1>4 DEF CountInv
  <2>2. CASE s # mine
    <3>1. Of(s)' = Of(s)
      BY <1>2, <1>3, <1>5, <2>2 DEF Of
    <3>2. bought'[s] = bought[s]
      BY <1>1, <2>2 DEF TypeInv, TypeOK
    <3> QED BY <2>1, <3>1, <3>2
  <2>3. CASE s = mine
    <3>1. Of(s)' = Of(s) \union {id} /\ id \notin Of(s)
      BY <1>2, <1>3, <1>5, <2>3 DEF Of
    <3>2. Cardinality(Of(s) \union {id}) = Cardinality(Of(s)) + 1
      BY <3>1, OfIsFinite, FS_AddElement
    <3>3. bought'[s] = bought[s] + 1
      BY <1>1, <1>6, <2>3 DEF TypeInv, TypeOK
    <3> QED BY <2>1, <3>1, <3>2, <3>3
  <2> QED BY <2>2, <2>3
<1>8. ASSUME NEW v \in Workers, Read(v)' PROVE FALSE
  <2>1. v # w /\ Making(v) /\ Making(w)
    BY <1>1, <1>8 DEF Read, Making, Flushed, TypeInv, TypeOK
  <2>2. PICK t \in Nat : Top(t)
    BY DEF NumberInv
  <2> QED BY <2>1, <2>2, OneIsMade
<1> QED BY <1>7, <1>8

LEMMA StepCounts ==
    ASSUME TypeInv, IdInv, NumberInv, CountInv, NEW w \in Workers, Step(w)
    PROVE  CountInv'
<1>1. /\ \A v \in Workers \ {w} : Same(v)
      /\ Ended(w) \/ (req'[w] = req[w] /\ <<pc[w], pc'[w]>> \in Moves)
  BY StepOutcome
<1>2. \A v \in Workers \ {w} :
         Read(v)' => Read(v) /\ req'[v] = req[v] /\ seen'[v] = seen[v]
  BY <1>1, ReadQuiet
<1>3. /\ pc[w] = "close" => req[w].kind # "create"
      /\ pc[w] = "memory" => seen'[w].count = bought[req[w].supplier]
  BY StepGuards DEF TypeInv, KindInv
<1>4. Read(w)' => \/ seen'[w].count = bought[req'[w].supplier]
                  \/ Read(w) /\ req'[w] = req[w] /\ seen'[w] = seen[w]
  BY <1>1, <1>3, ReadQuiet DEF Read, Ended
<1>5. CASE rows' = rows /\ bought' = bought
  BY <1>2, <1>4, <1>5, CountKept
<1>6. CASE CommitCreate(w) /\ ~DefaultTaken(w)
  BY <1>6, CommitCreateCounts
<1>7. CASE CommitEdit(w) /\ ~DefaultTaken(w)
  <2>1. req[w].id \in DOMAIN rows
    BY <1>7 DEF CommitEdit, IdInv
  <2>2. ~Unedited'
    BY <1>7, <2>1, CommitEditRows DEF Unedited
  <2> QED BY <2>2 DEF CountInv
<1>8. CASE CommitClose(w)
  <2>1. bought' = bought
    BY <1>8 DEF CommitClose
  <2> QED BY <1>2, <1>4, <1>8, <2>1, CommitCloseRows, CountKept
<1> QED BY <1>5, <1>6, <1>7, <1>8, RowsOutcome

LEMMA CountNext == CreationInv /\ CountInv /\ [Next]_vars => CountInv'
<1> SUFFICES ASSUME TypeInv, IdInv, NumberInv, CountInv, [Next]_vars PROVE CountInv'
  BY DEF CreationInv
<1>1. ASSUME NEW w \in Workers, Ask(w) PROVE CountInv'
  <2>1. rows' = rows /\ bought' = bought
    BY <1>1 DEF Ask, AskCreate, AskEdit, AskClose, AnswerAtOnce, Begin
  <2> QED BY <1>1, <2>1, AskOutcome, ReadQuiet, CountKept
<1>2. CASE \/ UNCHANGED vars \/ Age
           \/ \E p \in Processes, k \in Keys : Forget(p, k)
           \/ \E p \in Processes : Restart(p)
  <2>1. rows' = rows /\ bought' = bought
    BY <1>2 DEF vars, Age, Forget, Restart
  <2>2. \A v \in Workers : Same(v) \/ Ended(v)
    BY <1>2, RestartFrame DEF vars, Age, Forget, Same
  <2> QED BY <2>1, <2>2, ReadQuiet, CountKept
<1> QED BY <1>1, <1>2, StepCounts DEF Next

(* The count of a supplier's default misses no purchase and counts none      *)
(* twice while none is edited, although it is read, counted up and written   *)
(* back without a lock: a second creation waits at the unique human id.      *)
THEOREM EveryPurchaseIsCounted == Spec => []CountsEveryPurchase
<1> DEFINE Inv == CreationInv /\ CountInv
<1>1. Init => Inv
  <2> SUFFICES ASSUME Init PROVE CountInv
    BY CreationInit
  <2>1. \A s \in Suppliers : Of(s) = {} /\ bought[s] = 0
    BY DEF Init, Of
  <2>2. \A v \in Workers : ~Read(v)
    BY DEF Init, Read
  <2> QED BY <2>1, <2>2, FS_EmptySet DEF CountInv
<1>2. Inv /\ [Next]_vars => Inv'
  BY CreationNext, CountNext
<1>3. Inv => CountsEveryPurchase
  BY DEF CountInv, CountsEveryPurchase, Of, Unedited
<1> QED BY <1>1, <1>2, <1>3, PTL DEF Spec

-----------------------------------------------------------------------------
(* Idempotency keys.  One process serves everybody, and no two open requests *)
(* carry the same key: a client retries after it was answered.               *)

OneProcess == \A v, w \in Workers : ProcessOf[v] = ProcessOf[w]
Keyed(w) == pc[w] # "idle" /\ req[w].kind = "create" /\ req[w].key # NoKey
KeysApart == \A v, w \in Workers : Keyed(v) /\ Keyed(w) /\ req[v].key = req[w].key => v = w

(* A purchase of the last day that has a key is the one its process remembers *)
(* under it, or is just about to be; an open request's key is not remembered. *)
Awaited(w, i) == pc[w] = "remember" /\ req[w].key = rows[i].key /\ req[w].id = i
Kept(i) == \E w \in Workers : known[ProcessOf[w]][rows[i].key] = i \/ Awaited(w, i)
KeyInv ==
    /\ KeyMakesOnePurchase
    /\ \A i \in DOMAIN rows : rows[i].key # NoKey /\ Fresh(i) => Kept(i)
    /\ \A w \in Workers : Keyed(w) => known[ProcessOf[w]][req[w].key] = None

(* A step of these keeps what is said of a worker's key. *)
SameKey(v) == \/ Same(v)
              \/ /\ pc[v] # "idle" /\ pc[v] # "remember"
                 /\ \/ pc'[v] = "idle"
                    \/ req'[v] = req[v] /\ pc'[v] # "remember"

LEMMA KeyKept ==
    ASSUME TypeInv, KeyInv, DOMAIN rows' = DOMAIN rows,
           \A i \in DOMAIN rows : /\ rows'[i].key = rows[i].key
                                  /\ rows'[i].number = rows[i].number,
           dayOld' = dayOld \/ dayOld' = dayOld + 1, known' = known,
           \A v \in Workers : SameKey(v)
    PROVE  KeyInv'
<1>1. \A i \in DOMAIN rows : Fresh(i)' => Fresh(i)
  BY DEF Fresh, TypeInv, TypeOK, Row
<1>2. KeyMakesOnePurchase'
  BY <1>1 DEF KeyInv, KeyMakesOnePurchase
<1>3. \A i \in DOMAIN rows : \A w \in Workers : Awaited(w, i) => Awaited(w, i)'
  BY DEF Awaited, SameKey, Same
<1>4. \A i \in DOMAIN rows' : rows'[i].key # NoKey /\ Fresh(i)' => Kept(i)'
  BY <1>1, <1>3 DEF KeyInv, Kept
<1>5. \A w \in Workers : Keyed(w)' => Keyed(w) /\ req'[w] = req[w]
  BY DEF Keyed, SameKey, Same
<1>6. \A w \in Workers : Keyed(w)' => known'[ProcessOf[w]][req'[w].key] = None
  BY <1>5 DEF KeyInv
<1> QED BY <1>2, <1>4, <1>6 DEF KeyInv

LEMMA EditKeepsKeys ==
    ASSUME NEW w \in Workers, (CommitEdit(w) /\ ~DefaultTaken(w)) \/ CommitClose(w)
    PROVE  DOMAIN rows' = DOMAIN rows /\ \A i \in DOMAIN rows : rows'[i].key = rows[i].key
<1>1. CASE CommitEdit(w) /\ ~DefaultTaken(w)
  <2>1. PICK row : row = [rows[req[w].id] EXCEPT
                             !.supplier = req[w].supplier, !.day = req[w].day,
                             !.total = req[w].total, !.edited = TRUE,
                             !.status = NewStatus(w, req[w].status)]
    OBVIOUS
  <2>2. rows' = [rows EXCEPT ![req[w].id] = row]
    BY <1>1, <2>1 DEF CommitEdit
  <2>3. row.key = rows[req[w].id].key
    BY <2>1
  <2> QED BY <2>2, <2>3
<1>2. CASE CommitClose(w)
  <2>1. PICK row : row = [rows[req[w].id] EXCEPT
                             !.status = NewStatus(w, ClosedStatus(req[w]))]
    OBVIOUS
  <2>2. rows' = [rows EXCEPT ![req[w].id] = row]
    BY <1>2, <2>1 DEF CommitClose
  <2>3. row.key = rows[req[w].id].key
    BY <2>1
  <2> QED BY <2>2, <2>3
<1> QED BY <1>1, <1>2

LEMMA AskKey ==
    ASSUME TypeInv, KeyInv, NEW w \in Workers, Ask(w)
    PROVE  KeyInv'
<1>1. PICK r \in Requests : AskCreate(w, r) \/ AskEdit(w, r) \/ AskClose(w, r)
  BY DEF Ask
<1>2. CASE AnswerAtOnce(w)
  BY <1>2, KeyKept DEF AnswerAtOnce, SameKey, Same
<1>3. ASSUME NEW next \in {"lock", "close"}, NEW read, Begin(w, r, next, read),
             r.kind = "create" => ~Remembered(ProcessOf[w], r)
      PROVE  KeyInv'
  <2>1. /\ \A v \in Workers \ {w} : Same(v)
        /\ pc[w] = "idle" /\ pc'[w] = next /\ req'[w] = r
        /\ rows' = rows /\ dayOld' = dayOld /\ known' = known
    <3>1. next \in PCs
      BY DEF PCs
    <3> QED BY <1>3, <3>1, BeginFrame
  <2>2. KeyMakesOnePurchase'
    BY <2>1 DEF KeyInv, KeyMakesOnePurchase, Fresh
  <2>3. \A i \in DOMAIN rows : \A v \in Workers : Awaited(v, i) => Awaited(v, i)'
    BY <2>1 DEF Awaited, Same
  <2>4. \A i \in DOMAIN rows' : rows'[i].key # NoKey /\ Fresh(i)' => Kept(i)'
    BY <2>1, <2>3 DEF KeyInv, Kept, Fresh
  <2>5. \A v \in Workers \ {w} : Keyed(v)' => known'[ProcessOf[v]][req'[v].key] = None
    BY <2>1 DEF KeyInv, Keyed, Same
  <2>6. Keyed(w)' => known'[ProcessOf[w]][req'[w].key] = None
    BY <1>3, <2>1 DEF Keyed, Remembered
  <2> QED BY <2>2, <2>4, <2>5, <2>6 DEF KeyInv
<1>4. CASE AskCreate(w, r)
  BY <1>2, <1>3, <1>4 DEF AskCreate
<1>5. CASE AskEdit(w, r)
  BY <1>2, <1>3, <1>5 DEF AskEdit
<1>6. CASE AskClose(w, r)
  BY <1>2, <1>3, <1>6 DEF AskClose
<1> QED BY <1>1, <1>4, <1>5, <1>6

(* The new purchase's key was not remembered and belongs to no other request. *)
LEMMA CommitCreateKey ==
    ASSUME OneProcess, TypeInv, IdInv, NumberInv, KeyInv, KeysApart,
           NEW w \in Workers, CommitCreate(w), ~DefaultTaken(w)
    PROVE  KeyInv'
<1>0. PICK id, k : id = req[w].id /\ k = req[w].key
  OBVIOUS
<1>1. /\ pc[w] = "commit" /\ req[w].kind = "create"
      /\ pc' = [pc EXCEPT ![w] = "remember"]
      /\ req' = req /\ dayOld' = dayOld /\ known' = known
  BY DEF CommitCreate
<1>2. /\ DOMAIN rows' = DOMAIN rows \union {id}
      /\ \A i \in DOMAIN rows \ {id} : rows'[i] = rows[i]
      /\ rows'[id].key = k
  <2>1. NewRow(w).key = k
    BY <1>0 DEF NewRow
  <2> QED BY <1>0, <2>1, CommitCreateRows
<1>3. id \notin DOMAIN rows
  BY <1>0, <1>1 DEF IdInv, Creating
<1>4. pc'[w] = "remember" /\ \A v \in Workers \ {w} : pc'[v] = pc[v]
  BY <1>1 DEF TypeInv, TypeOK
<1>5. \A i \in DOMAIN rows : rows'[i] = rows[i] /\ (Fresh(i)' <=> Fresh(i))
  BY <1>1, <1>2, <1>3 DEF Fresh
<1>6. ASSUME NEW i \in DOMAIN rows, rows[i].key # NoKey, rows[i].key = k, Fresh(i)
      PROVE  FALSE
  <2>1. PICK v \in Workers : known[ProcessOf[v]][k] = i \/ Awaited(v, i)
    BY <1>6 DEF KeyInv, Kept
  <2>2. Keyed(w)
    BY <1>0, <1>1, <1>6 DEF Keyed
  <2>3. known[ProcessOf[v]][k] = None
    BY <1>0, <2>2 DEF KeyInv, OneProcess
  <2>4. i # None
    BY CreationAssumption DEF TypeInv, TypeOK, Ids
  <2>5. Awaited(v, i)
    BY <2>1, <2>3, <2>4
  <2>6. Keyed(v) /\ req[v].key = req[w].key
    BY <1>0, <1>6, <2>5 DEF Awaited, Keyed, TypeInv, KindInv
  <2>7. v = w
    BY <2>2, <2>6 DEF KeysApart
  <2> QED BY <1>1, <2>5, <2>7 DEF Awaited
<1>7. KeyMakesOnePurchase'
  <2> SUFFICES ASSUME NEW i \in DOMAIN rows', NEW j \in DOMAIN rows', i # j,
                      rows'[i].key # NoKey, rows'[i].key = rows'[j].key, Fresh(i)', Fresh(j)'
               PROVE  FALSE
    BY DEF KeyMakesOnePurchase
  <2>1. CASE i \in DOMAIN rows /\ j \in DOMAIN rows
    BY <1>5, <2>1 DEF KeyInv, KeyMakesOnePurchase
  <2>2. CASE i = id
    BY <1>2, <1>5, <1>6, <2>2
  <2>3. CASE j = id
    BY <1>2, <1>5, <1>6, <2>3
  <2> QED BY <1>2, <2>1, <2>2, <2>3
<1>8. ASSUME NEW i \in DOMAIN rows', rows'[i].key # NoKey, Fresh(i)' PROVE Kept(i)'
  <2>1. CASE i = id
    BY <1>0, <1>1, <1>2, <1>4, <2>1 DEF Kept, Awaited
  <2>2. CASE i \in DOMAIN rows
    <3>1. PICK v \in Workers : known[ProcessOf[v]][rows[i].key] = i \/ Awaited(v, i)
      BY <1>5, <1>8, <2>2 DEF KeyInv, Kept
    <3>2. Awaited(v, i) => Awaited(v, i)'
      BY <1>1, <1>4, <1>5, <2>2 DEF Awaited
    <3> QED BY <1>1, <1>5, <2>2, <3>1, <3>2 DEF Kept
  <2> QED BY <1>2, <2>1, <2>2
<1>9. \A v \in Workers : Keyed(v)' => known'[ProcessOf[v]][req'[v].key] = None
  BY <1>1, <1>4 DEF KeyInv, Keyed
<1> QED BY <1>7, <1>8, <1>9 DEF KeyInv

(* Remembering the key moves nothing out: no other request's purchase had it. *)
LEMMA RememberKey ==
    ASSUME OneProcess, TypeInv, KeyInv, KeysApart, NEW w \in Workers, Remember(w)
    PROVE  KeyInv'
<1>1. PICK k, id, p : k = req[w].key /\ id = req[w].id /\ p = ProcessOf[w]
  OBVIOUS
<1>2. /\ pc[w] = "remember" /\ req[w].kind = "create"
      /\ rows' = rows /\ dayOld' = dayOld
      /\ Ended(w) /\ \A v \in Workers \ {w} : Same(v)
  BY EndFrame DEF Remember, TypeInv, KindInv
<1>3. k # NoKey => k \in Keys /\ p \in Processes /\ Keyed(w)
  BY <1>1, <1>2, RequestType, CreationAssumption DEF Keyed, TypeInv, TypeOK
<1>4. \A q \in Processes, h \in Keys :
         known'[q][h] = IF q = p /\ h = k THEN id ELSE known[q][h]
  BY <1>1, <1>3, CreationAssumption DEF Remember, TypeInv, TypeOK
<1>5. KeyMakesOnePurchase'
  BY <1>2 DEF KeyInv, KeyMakesOnePurchase, Fresh
<1>6. ASSUME NEW i \in DOMAIN rows, rows[i].key # NoKey, Fresh(i) PROVE Kept(i)'
  <2>1. PICK v \in Workers : known[ProcessOf[v]][rows[i].key] = i \/ Awaited(v, i)
    BY <1>6 DEF KeyInv, Kept
  <2>2. rows[i].key \in Keys /\ ProcessOf[v] = p /\ p \in Processes /\ i # None
    BY <1>1, <1>6, CreationAssumption DEF TypeInv, TypeOK, Row, OneProcess, Ids
  <2>3. CASE Awaited(v, i) /\ v # w
    BY <1>2, <2>3 DEF Kept, Awaited, Same
  <2>4. CASE Awaited(v, i) /\ v = w
    BY <1>1, <1>2, <1>4, <2>2, <2>4 DEF Kept, Awaited
  <2>5. CASE known[ProcessOf[v]][rows[i].key] = i
    <3>1. rows[i].key # k
      BY <1>1, <1>3, <2>2, <2>5, <1>6 DEF KeyInv
    <3> QED BY <1>2, <1>4, <2>2, <2>5, <3>1 DEF Kept
  <2> QED BY <2>1, <2>3, <2>4, <2>5
<1>7. ASSUME NEW v \in Workers, Keyed(v)'
      PROVE  known'[ProcessOf[v]][req'[v].key] = None
  <2>1. v # w /\ Keyed(v) /\ req'[v] = req[v]
    BY <1>2, <1>7 DEF Keyed, Same, Ended
  <2>2. req[v].key # k
    BY <1>1, <1>3, <2>1 DEF KeysApart, Keyed
  <2>3. req[v].key \in Keys /\ ProcessOf[v] \in Processes
    BY <2>1, RequestType, CreationAssumption DEF Keyed, TypeInv, TypeOK
  <2> QED BY <1>4, <2>1, <2>2, <2>3 DEF KeyInv
<1> QED BY <1>2, <1>5, <1>6, <1>7 DEF KeyInv, Fresh

LEMMA StepKey ==
    ASSUME OneProcess, TypeInv, IdInv, NumberInv, KeyInv, KeysApart, NEW w \in Workers, Step(w)
    PROVE  KeyInv'
<1>1. CASE CommitCreate(w) /\ ~DefaultTaken(w)
  BY <1>1, CommitCreateKey
<1>2. CASE Remember(w)
  BY <1>2, RememberKey
<1>3. CASE ~Remember(w) /\ ~(CommitCreate(w) /\ ~DefaultTaken(w))
  <2>1. dayOld' = dayOld /\ known' = known
    BY <1>3 DEF Step, TakeLock, CheckDuplicate, TakeNumber, Insert, ReadMemory, CommitCreate,
                WriteRow, CommitEdit, FindSnapshot, CommitClose, Advance, Fail
  <2>2. /\ DOMAIN rows' = DOMAIN rows
        /\ \A i \in DOMAIN rows : rows'[i].key = rows[i].key /\ rows'[i].number = rows[i].number
    BY <1>3, RowsOutcome, EditKeepsKeys, CommitEditRows, CommitCloseRows
  <2>3. pc[w] # "idle" /\ pc[w] # "remember"
    BY <1>3 DEF Step, TakeLock, CheckDuplicate, TakeNumber, Insert, ReadMemory, CommitCreate,
                WriteRow, CommitEdit, FindSnapshot, CommitClose
  <2>4. pc[w] = "commit" => pc'[w] = "idle"
    <3>1. pc[w] = "commit" => End(w)
      BY <1>3 DEF Step, TakeLock, CheckDuplicate, TakeNumber, Insert, ReadMemory, CommitCreate,
                  WriteRow, CommitEdit, FindSnapshot, CommitClose, Fail
    <3> QED BY <3>1, EndFrame DEF Ended
  <2>5. SameKey(w) /\ \A v \in Workers \ {w} : SameKey(v)
    BY <2>3, <2>4, StepOutcome DEF SameKey, Ended, Moves
  <2> QED BY <2>1, <2>2, <2>5, KeyKept
<1> QED BY <1>1, <1>2, <1>3

(* Only what is a day old is forgotten. *)
LEMMA ForgetKey ==
    ASSUME TypeInv, KeyInv, NEW p \in Processes, NEW k \in Keys, Forget(p, k)
    PROVE  KeyInv'
<1>1. /\ rows' = rows /\ dayOld' = dayOld /\ pc' = pc /\ req' = req
      /\ ~Fresh(known[p][k])
      /\ \A q \in Processes, h \in Keys :
            known'[q][h] = IF q = p /\ h = k THEN None ELSE known[q][h]
  BY DEF Forget, TypeInv, TypeOK
<1>2. ASSUME NEW i \in DOMAIN rows, rows[i].key # NoKey, Fresh(i) PROVE Kept(i)'
  <2>1. PICK v \in Workers : known[ProcessOf[v]][rows[i].key] = i \/ Awaited(v, i)
    BY <1>2 DEF KeyInv, Kept
  <2>2. rows[i].key \in Keys /\ ProcessOf[v] \in Processes
    BY <1>2, CreationAssumption DEF TypeInv, TypeOK, Row
  <2> QED BY <1>1, <1>2, <2>1, <2>2 DEF Kept, Awaited
<1>3. ASSUME NEW v \in Workers, Keyed(v)
      PROVE  known'[ProcessOf[v]][req'[v].key] = None
  <2>1. req[v].key \in Keys /\ ProcessOf[v] \in Processes
    BY <1>3, RequestType, CreationAssumption DEF Keyed, TypeInv, TypeOK
  <2> QED BY <1>1, <1>3, <2>1 DEF KeyInv
<1>4. KeyMakesOnePurchase'
  BY <1>1 DEF KeyInv, KeyMakesOnePurchase, Fresh
<1> QED BY <1>1, <1>2, <1>3, <1>4 DEF KeyInv, Keyed, Fresh

LEMMA KeyNext ==
    ASSUME OneProcess, MaxRestarts = 0
    PROVE  CreationInv /\ KeyInv /\ KeysApart /\ [Next]_vars => KeyInv'
<1> SUFFICES ASSUME TypeInv, IdInv, NumberInv, KeyInv, KeysApart, [Next]_vars PROVE KeyInv'
  BY DEF CreationInv
<1>1. ~\E p \in Processes : Restart(p)
  BY DEF Restart, TypeInv, TypeOK
<1>2. CASE Age \/ UNCHANGED vars
  BY <1>2, KeyKept DEF Age, vars, SameKey, Same
<1> QED BY <1>1, <1>2, AskKey, StepKey, ForgetKey DEF Next

(* An Idempotency-Key makes one purchase in a day while one process serves    *)
(* every request, is not restarted, and a client sends a key again only after *)
(* it was answered; requests with other keys may overlap at will.             *)
THEOREM KeyIsIdempotent ==
    OneProcess /\ MaxRestarts = 0 => (Spec /\ []KeysApart => []KeyMakesOnePurchase)
<1> SUFFICES ASSUME OneProcess, MaxRestarts = 0
             PROVE  Spec /\ []KeysApart => []KeyMakesOnePurchase
  OBVIOUS
<1> DEFINE Inv == CreationInv /\ KeyInv
<1>1. Init => Inv
  <2>1. Init => KeyInv
    BY DEF Init, KeyInv, KeyMakesOnePurchase, Keyed
  <2> QED BY <2>1, CreationInit
<1>2. Inv /\ KeysApart /\ [Next]_vars => Inv'
  BY CreationNext, KeyNext
<1>3. Inv => KeyMakesOnePurchase
  BY DEF KeyInv
<1> QED BY <1>1, <1>2, <1>3, PTL DEF Spec

-----------------------------------------------------------------------------
(* The item's last trade, while transactions come one at a time: what a      *)
(* session read still holds when it commits.                                 *)

Open(w) == pc[w] \notin {"idle", "remember"}
OneTransaction == \A v, w \in Workers : Open(v) /\ Open(w) => v = w

Undisturbed(w) ==
    IF req[w].kind = "create" THEN seen[w].item = None
    ELSE /\ req[w].id \in DOMAIN rows
         /\ seen[w].item = lastTrade /\ seen[w].status = rows[req[w].id].status
         /\ pc[w] = "commit" /\ req[w].kind # "edit" => seen[w].newest = Snapshot(req[w].id)

(* Any purchases have a newest one: what Snapshot looks for is there. *)
NewestInv == \A S \in SUBSET (DOMAIN rows) : S # {} => \E i \in S : \A j \in S : Newer(i, j)
TradeInv == LastTradeIsLive /\ NewestInv /\ \A w \in Workers : Open(w) => Undisturbed(w)

LEMMA DaysAreNumbers == \A d \in Days : d \in Int
<1>1. Days \subseteq Nat
  BY CreationAssumption
<1> QED BY <1>1

(* Adding or changing one purchase leaves every set with a newest one. *)
LEMMA NewestKept ==
    ASSUME TypeInv', NewestInv, NEW id, DOMAIN rows' \subseteq DOMAIN rows \union {id},
           \A i \in DOMAIN rows \ {id} : rows'[i].day = rows[i].day
                                         /\ rows'[i].number = rows[i].number
    PROVE  NewestInv'
<1>1. /\ \A i, j \in DOMAIN rows' : Newer(i, j)' \/ Newer(j, i)'
      /\ \A i, j, k \in DOMAIN rows' : Newer(i, j)' /\ Newer(j, k)' => Newer(i, k)'
  <2>1. \A i \in DOMAIN rows' : rows'[i].day \in Days /\ rows'[i].number \in Nat
    BY DEF TypeInv, TypeOK, Row
  <2>2. \A i \in DOMAIN rows' : rows'[i].day \in Int /\ rows'[i].number \in Int
    BY <2>1, DaysAreNumbers
  <2> QED BY <2>2 DEF Newer
<1> SUFFICES ASSUME NEW S \in SUBSET (DOMAIN rows'), S # {}
             PROVE  \E i \in S : \A j \in S : Newer(i, j)'
  BY DEF NewestInv
<1> DEFINE T == S \ {id}
<1>2. T \in SUBSET (DOMAIN rows)
  OBVIOUS
<1>3. ASSUME NEW i \in T, NEW j \in T, Newer(i, j) PROVE Newer(i, j)'
  BY <1>2, <1>3 DEF Newer
<1>4. CASE T = {}
  <2>1. S = {id} /\ Newer(id, id)'
    BY <1>1, <1>4
  <2> QED BY <2>1
<1>5. CASE T # {}
  <2>1. PICK i \in T : \A j \in T : Newer(i, j)
    BY <1>2, <1>5 DEF NewestInv
  <2>2. \A j \in T : Newer(i, j)'
    BY <1>3, <2>1
  <2>3. CASE id \notin S
    BY <2>2, <2>3
  <2>4. CASE id \in S /\ Newer(i, id)'
    BY <2>2, <2>4
  <2>5. CASE id \in S /\ ~Newer(i, id)'
    <3>1. Newer(id, i)' /\ Newer(id, id)'
      BY <1>1, <2>5
    <3>2. \A j \in T : Newer(id, j)'
      BY <1>1, <2>2, <2>5, <3>1
    <3> QED BY <2>5, <3>1, <3>2
  <2> QED BY <2>3, <2>4, <2>5
<1> QED BY <1>4, <1>5

(* A snapshot is None only if no other purchase counts, and never one that    *)
(* does not.                                                                  *)
LEMMA SnapshotIs ==
    ASSUME NewestInv, NEW self
    PROVE  /\ Snapshot(self) # None =>
                 /\ Snapshot(self) \in DOMAIN rows \ {self}
                 /\ rows[Snapshot(self)].status \notin SnapshotSkips
           /\ \A i \in DOMAIN rows \ {self} :
                 rows[i].status \notin SnapshotSkips => Snapshot(self) \in DOMAIN rows
<1> DEFINE counted == {i \in DOMAIN rows \ {self} : rows[i].status \notin SnapshotSkips}
           newest == {i \in counted : \A j \in counted : Newer(i, j)}
<1>1. Snapshot(self) = IF newest = {} THEN None ELSE CHOOSE i \in newest : TRUE
  BY DEF Snapshot
<1>2. newest # {} => Snapshot(self) \in newest
  BY <1>1
<1>3. counted # {} => newest # {}
  <2>1. counted \in SUBSET (DOMAIN rows)
    OBVIOUS
  <2> QED BY <2>1 DEF NewestInv
<1> QED BY <1>1, <1>2, <1>3

(* Steps that write no purchase and leave the last trade.                    *)
SameSession(v) ==
    \/ ~Open(v)'
    \/ /\ Open(v) /\ req'[v] = req[v]
       /\ seen'[v].item = seen[v].item /\ seen'[v].status = seen[v].status
       /\ (pc'[v] = "commit" /\ req[v].kind \notin {"create", "edit"}) =>
             \/ seen'[v].newest = Snapshot(req[v].id)
             \/ pc[v] = "commit" /\ seen'[v].newest = seen[v].newest

LEMMA SnapshotSame ==
    ASSUME rows' = rows PROVE \A i : Snapshot(i)' = Snapshot(i)
BY DEF Snapshot, Newer

LEMMA TradeKept ==
    ASSUME TradeInv, rows' = rows, lastTrade' = lastTrade, \A v \in Workers : SameSession(v)
    PROVE  TradeInv'
<1>1. LastTradeIsLive' /\ NewestInv'
  BY DEF TradeInv, LastTradeIsLive, Live, NewestInv, Newer
<1>2. ASSUME NEW v \in Workers, Open(v)' PROVE Undisturbed(v)'
  BY <1>2, SnapshotSame DEF TradeInv, SameSession, Undisturbed
<1> QED BY <1>1, <1>2 DEF TradeInv

LEMMA SameIsSameSession == \A v : Same(v) \/ Ended(v) => SameSession(v)
BY DEF Same, Ended, SameSession, Open

LEMMA AskTrade ==
    ASSUME TypeInv, TradeInv, NEW w \in Workers, Ask(w)
    PROVE  TradeInv'
<1>1. PICK r \in Requests : AskCreate(w, r) \/ AskEdit(w, r) \/ AskClose(w, r)
  BY DEF Ask
<1>2. CASE AnswerAtOnce(w)
  BY <1>2, SameIsSameSession, TradeKept DEF AnswerAtOnce, Same
<1>3. ASSUME NEW next \in {"lock", "close"}, NEW read, Begin(w, r, next, read),
             IF r.kind = "create" THEN read.item = None
             ELSE /\ r.id \in DOMAIN rows
                  /\ read.item = lastTrade /\ read.status = rows[r.id].status
      PROVE  TradeInv'
  <2>1. /\ \A v \in Workers \ {w} : Same(v)
        /\ pc'[w] = next /\ req'[w] = r /\ seen'[w] = read
        /\ rows' = rows /\ lastTrade' = lastTrade
    <3>1. next \in PCs
      BY DEF PCs
    <3> QED BY <1>3, <3>1, BeginFrame
  <2>2. LastTradeIsLive' /\ NewestInv'
    BY <2>1 DEF TradeInv, LastTradeIsLive, Live, NewestInv, Newer
  <2>3. Undisturbed(w)'
    BY <1>3, <2>1 DEF Undisturbed
  <2>4. \A v \in Workers \ {w} : Open(v)' => Undisturbed(v)'
    BY <2>1, SnapshotSame DEF TradeInv, Open, Same, Undisturbed
  <2> QED BY <2>2, <2>3, <2>4 DEF TradeInv
<1>4. CASE AskCreate(w, r)
  BY <1>2, <1>3, <1>4 DEF AskCreate, NothingRead
<1>5. \A i \in DOMAIN rows : Loaded(i).item = lastTrade /\ Loaded(i).status = rows[i].status
  BY DEF Loaded, NothingRead
<1>6. CASE AskEdit(w, r)
  BY <1>2, <1>3, <1>5, <1>6 DEF AskEdit
<1>7. CASE AskClose(w, r)
  BY <1>2, <1>3, <1>5, <1>7 DEF AskClose
<1> QED BY <1>1, <1>4, <1>6, <1>7

(* After a commit no transaction is open. *)
LEMMA LastOneEnds ==
    ASSUME OneTransaction, NEW w \in Workers, Open(w), ~Open(w)',
           \A v \in Workers \ {w} : Same(v)
    PROVE  \A v \in Workers : ~Open(v)'
BY DEF OneTransaction, Open, Same

LEMMA CommitCreateTrade ==
    ASSUME TypeInv, TypeInv', IdInv, NumberInv, TradeInv, OneTransaction,
           NEW w \in Workers, CommitCreate(w), ~DefaultTaken(w)
    PROVE  TradeInv'
<1>0. PICK id : id = req[w].id
  OBVIOUS
<1>1. /\ pc[w] = "commit" /\ req[w].kind = "create" /\ pc' = [pc EXCEPT ![w] = "remember"]
      /\ WriteMemory(w) /\ UNCHANGED <<req, number, seen>>
  BY DEF CommitCreate
<1>2. /\ DOMAIN rows' = DOMAIN rows \union {id}
      /\ \A i \in DOMAIN rows \ {id} : rows'[i] = rows[i]
      /\ rows'[id].status = req[w].status
  <2>1. NewRow(w).status = req[w].status
    BY DEF NewRow
  <2> QED BY <1>0, <2>1, CommitCreateRows
<1>3. id \notin DOMAIN rows /\ id \in Ids
  BY <1>0, <1>1, CommitCreateRows DEF IdInv, Creating
<1>4. \A v \in Workers : ~Open(v)'
  <2>1. Open(w) /\ ~Open(w)' /\ \A v \in Workers \ {w} : Same(v)
    BY <1>1 DEF Open, Same, TypeInv, TypeOK
  <2> QED BY <2>1, LastOneEnds
<1>5. lastTrade' = IF req[w].status = "confirmed" THEN id ELSE lastTrade
  <2>1. seen[w].item = None
    BY <1>1 DEF TradeInv, Undisturbed, Open
  <2>2. id # None
    BY <1>3, CreationAssumption DEF Ids
  <2> QED BY <1>0, <1>1, <2>1, <2>2 DEF WriteMemory, SetLastTrade
<1>6. NewestInv'
  BY <1>2, NewestKept DEF TradeInv
<1>7. LastTradeIsLive'
  <2>1. CASE req[w].status = "confirmed"
    <3>1. id # None
      BY <1>3, CreationAssumption DEF Ids
    <3> QED BY <1>2, <1>5, <2>1, <3>1 DEF LastTradeIsLive, Live, Gone
  <2>2. CASE req[w].status # "confirmed"
    BY <1>2, <1>3, <1>5, <2>2 DEF TradeInv, LastTradeIsLive, Live
  <2> QED BY <2>1, <2>2
<1> QED BY <1>4, <1>6, <1>7 DEF TradeInv

(* The status a commit writes is the one asked for, as nobody changed it. *)
LEMMA CommittedStatus ==
    ASSUME TypeInv, TradeInv, NEW w \in Workers, pc[w] = "commit", req[w].kind # "create",
           NEW s
    PROVE  NewStatus(w, s) = s
BY DEF TradeInv, Open, Undisturbed, NewStatus

LEMMA CommitEditTrade ==
    ASSUME TypeInv, TypeInv', IdInv, TradeInv, OneTransaction,
           NEW w \in Workers, CommitEdit(w), ~DefaultTaken(w)
    PROVE  TradeInv'
<1>0. PICK id : id = req[w].id
  OBVIOUS
<1>1. pc[w] = "commit" /\ req[w].kind = "edit" /\ WriteMemory(w) /\ End(w)
  BY DEF CommitEdit
<1>2. id \in DOMAIN rows
  BY <1>0, <1>1 DEF IdInv
<1>3. /\ DOMAIN rows' = DOMAIN rows
      /\ \A i \in DOMAIN rows \ {id} : rows'[i] = rows[i]
  BY <1>0, CommitEditRows
<1>4. rows'[id].status = req[w].status
  <2>1. NewStatus(w, req[w].status) = req[w].status
    BY <1>1, CommittedStatus
  <2>2. PICK row : row = [rows[id] EXCEPT
                             !.supplier = req[w].supplier, !.day = req[w].day,
                             !.total = req[w].total, !.edited = TRUE,
                             !.status = NewStatus(w, req[w].status)]
    OBVIOUS
  <2>3. rows' = [rows EXCEPT ![id] = row]
    BY <1>0, <2>2 DEF CommitEdit
  <2>4. rows[id] \in Row
    BY <1>2 DEF TypeInv, TypeOK
  <2>5. row.status = req[w].status
    BY <2>1, <2>2, <2>4 DEF Row
  <2> QED BY <1>2, <2>3, <2>5
<1>5. req[w].status \in NewStatuses /\ req[w].status \notin Gone
  <2>1. req[w].status \in NewStatuses
    BY <1>1, RequestType DEF TypeInv, TypeOK
  <2> QED BY <2>1, CreationAssumption DEF Gone
<1>6. \A v \in Workers : ~Open(v)'
  <2>1. Open(w) /\ ~Open(w)' /\ \A v \in Workers \ {w} : Same(v)
    BY <1>1, EndFrame DEF Open, Ended
  <2> QED BY <2>1, LastOneEnds
<1>7. lastTrade' = IF req[w].status = "confirmed" THEN id ELSE lastTrade
  <2>1. seen[w].item = lastTrade
    BY <1>1 DEF TradeInv, Undisturbed, Open
  <2> QED BY <1>0, <1>1, <2>1 DEF WriteMemory, SetLastTrade
<1>8. NewestInv'
  BY <1>3, NewestKept DEF TradeInv
<1>9. LastTradeIsLive'
  <2>1. CASE req[w].status = "confirmed"
    <3>1. id # None
      BY <1>2, CreationAssumption DEF TypeInv, TypeOK, Ids
    <3> QED BY <1>2, <1>3, <1>4, <1>5, <1>7, <2>1, <3>1 DEF LastTradeIsLive, Live
  <2>2. CASE req[w].status # "confirmed"
    <3>1. \A i \in DOMAIN rows' : rows'[i].status = "confirmed" => rows[i].status = "confirmed"
      BY <1>2, <1>3, <1>4, <2>2
    <3>2. \A i \in DOMAIN rows : Live(i) => Live(i)'
      BY <1>2, <1>3, <1>4, <1>5 DEF Live
    <3> QED BY <1>3, <1>7, <2>2, <3>1, <3>2 DEF TradeInv, LastTradeIsLive
  <2> QED BY <2>1, <2>2
<1> QED BY <1>6, <1>8, <1>9 DEF TradeInv

LEMMA CommitCloseTrade ==
    ASSUME TypeInv, TypeInv', TradeInv, OneTransaction, NEW w \in Workers, CommitClose(w)
    PROVE  TradeInv'
<1>0. PICK id, newest : id = req[w].id /\ newest = Snapshot(id)
  OBVIOUS
<1>1. pc[w] = "commit" /\ req[w].kind \in {"cancel", "delete"} /\ End(w)
      /\ SetLastTrade(w, seen[w].newest)
  BY DEF CommitClose
<1>2. id \in DOMAIN rows /\ seen[w].item = lastTrade /\ seen[w].newest = newest
  BY <1>0, <1>1 DEF TradeInv, Undisturbed, Open
<1>3. /\ DOMAIN rows' = DOMAIN rows
      /\ \A i \in DOMAIN rows \ {id} : rows'[i] = rows[i]
      /\ rows'[id].status \in Gone
  <2>1. PICK row : row = [rows[id] EXCEPT !.status = NewStatus(w, ClosedStatus(req[w]))]
    OBVIOUS
  <2>2. rows' = [rows EXCEPT ![id] = row]
    BY <1>0, <2>1 DEF CommitClose
  <2>3. NewStatus(w, ClosedStatus(req[w])) = ClosedStatus(req[w])
    BY <1>1, CommittedStatus
  <2>4. rows[id] \in Row
    BY <1>2 DEF TypeInv, TypeOK
  <2>5. row.status \in Gone
    BY <1>1, <2>1, <2>3, <2>4 DEF Row, ClosedStatus, Gone
  <2> QED BY <1>2, <2>2, <2>5
<1>4. \A v \in Workers : ~Open(v)'
  <2>1. Open(w) /\ ~Open(w)' /\ \A v \in Workers \ {w} : Same(v)
    BY <1>1, EndFrame DEF Open, Ended
  <2> QED BY <2>1, LastOneEnds
<1>5. lastTrade' = newest
  BY <1>1, <1>2 DEF SetLastTrade
<1>6. NewestInv'
  BY <1>3, NewestKept DEF TradeInv
<1>7. LastTradeIsLive'
  <2>1. lastTrade' # None => lastTrade' \in DOMAIN rows' /\ Live(lastTrade)'
    <3>1. newest # None => newest \in DOMAIN rows \ {id} /\ rows[newest].status \notin SnapshotSkips
      BY <1>0, SnapshotIs DEF TradeInv
    <3> QED BY <1>3, <1>5, <3>1 DEF Live, SnapshotSkips
  <2>2. ASSUME NEW i \in DOMAIN rows', rows'[i].status = "confirmed" PROVE lastTrade' # None
    <3>1. i \in DOMAIN rows \ {id} /\ rows[i].status = "confirmed"
      BY <1>3, <2>2 DEF Gone
    <3>2. newest \in DOMAIN rows
      BY <1>0, <3>1, SnapshotIs DEF TradeInv, SnapshotSkips, Gone
    <3> QED BY <1>5, <3>2, CreationAssumption DEF TypeInv, TypeOK, Ids
  <2> QED BY <2>1, <2>2 DEF LastTradeIsLive
<1> QED BY <1>4, <1>6, <1>7 DEF TradeInv

LEMMA StepTrade ==
    ASSUME TypeInv, TypeInv', IdInv, NumberInv, TradeInv, OneTransaction,
           NEW w \in Workers, Step(w)
    PROVE  TradeInv'
<1>1. CASE CommitCreate(w) /\ ~DefaultTaken(w)
  BY <1>1, CommitCreateTrade
<1>2. CASE CommitEdit(w) /\ ~DefaultTaken(w)
  BY <1>2, CommitEditTrade
<1>3. CASE CommitClose(w)
  BY <1>3, CommitCloseTrade
<1>4. CASE /\ ~CommitClose(w) /\ ~(CommitEdit(w) /\ ~DefaultTaken(w))
           /\ ~(CommitCreate(w) /\ ~DefaultTaken(w))
  <2>1. rows' = rows /\ lastTrade' = lastTrade
    BY <1>4 DEF Step, TakeLock, CheckDuplicate, TakeNumber, Insert, ReadMemory, CommitCreate,
                Remember, WriteRow, CommitEdit, FindSnapshot, Advance, Fail
  <2>2. \A v \in Workers \ {w} : SameSession(v)
    BY StepOutcome, SameIsSameSession
  <2>3. CASE Ended(w)
    BY <2>1, <2>2, <2>3, SameIsSameSession, TradeKept
  <2>4. CASE req'[w] = req[w] /\ <<pc[w], pc'[w]>> \in Moves
    <3>1. pc[w] # "commit" /\ pc[w] # "idle" /\ pc[w] # "remember"
      <4>1. pc[w] = "commit" => Fail(w)
        BY <1>4 DEF Step, TakeLock, CheckDuplicate, TakeNumber, Insert, ReadMemory, CommitCreate,
                    Remember, WriteRow, CommitEdit, FindSnapshot
      <4>2. pc[w] = "commit" => pc'[w] = "idle"
        BY <4>1, EndFrame DEF Fail, Ended
      <4> QED BY <2>4, <4>2 DEF Moves
    <3>2. Open(w)
      BY <3>1 DEF Open
    <3>3. CASE ReadMemory(w)
      <4>1. pc[w] = "memory" /\ req[w].kind \in {"create", "edit"} /\ seen[w] \in Seen
        BY <3>3 DEF ReadMemory, TypeInv, TypeOK, KindInv
      <4>2. seen'[w].item = seen[w].item /\ seen'[w].status = seen[w].status
        BY <3>3, <4>1 DEF ReadMemory, TypeInv, Seen
      <4> QED BY <2>1, <2>2, <2>4, <3>2, <4>1, <4>2, TradeKept DEF SameSession
    <3>4. CASE FindSnapshot(w)
      <4>1. pc[w] = "close" /\ seen[w] \in Seen
        BY <3>4 DEF FindSnapshot, TypeInv, TypeOK
      <4>2. /\ seen'[w].item = seen[w].item /\ seen'[w].status = seen[w].status
            /\ seen'[w].newest = Snapshot(req[w].id)
        BY <3>4, <4>1 DEF FindSnapshot, TypeInv, Seen
      <4> QED BY <2>1, <2>2, <2>4, <3>2, <4>2, TradeKept DEF SameSession
    <3>5. CASE ~ReadMemory(w) /\ ~FindSnapshot(w)
      <4>1. seen' = seen /\ pc'[w] # "commit"
        <5>1. pc[w] # "memory" /\ pc[w] # "close"
          BY <3>5 DEF Step, TakeLock, CheckDuplicate, TakeNumber, Insert, CommitCreate,
                      Remember, WriteRow, CommitEdit, CommitClose
        <5>2. ~Fail(w) /\ ~End(w)
          BY <2>4, EndFrame DEF Fail, Ended, Moves
        <5>3. seen' = seen
          BY <3>1, <3>5, <5>2 DEF Step, TakeLock, CheckDuplicate, TakeNumber, Insert, CommitCreate,
                      Remember, WriteRow, CommitEdit, CommitClose
        <5> QED BY <2>4, <5>1, <5>3 DEF Moves
      <4> QED BY <2>1, <2>2, <2>4, <3>2, <4>1, TradeKept DEF SameSession
    <3> QED BY <3>3, <3>4, <3>5
  <2> QED BY <2>3, <2>4, StepOutcome
<1> QED BY <1>1, <1>2, <1>3, <1>4

LEMMA TradeNext ==
    CreationInv /\ TradeInv /\ OneTransaction /\ [Next]_vars => TradeInv'
<1> SUFFICES ASSUME CreationInv, TradeInv, OneTransaction, [Next]_vars PROVE TradeInv'
  OBVIOUS
<1>1. TypeInv /\ TypeInv' /\ IdInv /\ NumberInv
  BY CreationNext DEF CreationInv
<1>2. CASE \/ UNCHANGED vars \/ Age
           \/ \E p \in Processes, k \in Keys : Forget(p, k)
           \/ \E p \in Processes : Restart(p)
  <2>1. rows' = rows /\ lastTrade' = lastTrade
    BY <1>2 DEF vars, Age, Forget, Restart
  <2>2. \A v \in Workers : Same(v) \/ Ended(v)
    BY <1>1, <1>2, RestartFrame DEF vars, Age, Forget, Same
  <2> QED BY <2>1, <2>2, SameIsSameSession, TradeKept
<1> QED BY <1>1, <1>2, AskTrade, StepTrade DEF Next

(* While transactions come one at a time, through any number of creations,   *)
(* edits, cancellations, deletions and restarts, the item's last trade is a   *)
(* live purchase, and there is one while a confirmed purchase is left.        *)
THEOREM LastTradeIsKept == Spec /\ []OneTransaction => []LastTradeIsLive
<1> DEFINE Inv == CreationInv /\ TradeInv
<1>1. Init => Inv
  <2>1. Init => TradeInv
    BY DEF Init, TradeInv, LastTradeIsLive, NewestInv, Open
  <2> QED BY <2>1, CreationInit
<1>2. Inv /\ OneTransaction /\ [Next]_vars => Inv'
  BY CreationNext, TradeNext
<1>3. Inv => LastTradeIsLive
  BY DEF TradeInv
<1> QED BY <1>1, <1>2, <1>3, PTL DEF Spec
=============================================================================
