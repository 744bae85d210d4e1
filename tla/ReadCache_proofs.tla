-------------------------- MODULE ReadCache_proofs --------------------------
(***************************************************************************)
(* Theorems about ReadCache, for any number of readers and writers, caches, *)
(* times to live and budgets.                                              *)
(***************************************************************************)
EXTENDS ReadCache, FiniteSetTheorems, TLAPS

(* What a writer may still have to do, and what of it is a commit or a bump.  *)
OwesCommit == {<<"commit", "bump">>, <<"bump", "commit">>, <<"commit">>}
OwesBump == {<<"commit", "bump">>, <<"bump", "commit">>, <<"bump">>}
Todos == OwesCommit \union OwesBump \union {<<>>}

Good == [value : Nat, readAt : Nat]
Pending == [todo : Todos, version : Nat]

(* What the constants must be; None is no record and no number.              *)
Sensible ==
    /\ Ttl \in Nat /\ Budget \in Nat /\ MaxWrites \in Nat /\ MaxTime \in Nat
    /\ None \notin Nat /\ None \notin Reading /\ None \notin Entry /\ None \notin Answer
    /\ None \notin Good /\ None \notin Pending

(* What is done, and what the open writes still owe, is no more than writes   *)
(* began: a version or generation never runs out of its range.               *)
Owing(todos) == {w \in Writers : writer[w] # None /\ writer[w].todo \in todos}
Within(done, todos) == /\ IsFiniteSet(Owing(todos))
                       /\ done + Cardinality(Owing(todos)) <= writes

ShapeInv ==
    /\ cache \in [Places -> [Generations -> Entry \union {None}]]
    /\ lastGood \in [Generations -> Good \union {None}]
    /\ reader \in [Readers -> Reading \union {None}]
    /\ writer \in [Writers -> Pending \union {None}]
    /\ answer \in Answer \union {None}
CounterInv ==
    /\ version \in Nat /\ generation \in Nat /\ announced \in Nat
    /\ now \in 0..MaxTime /\ writes \in 0..MaxWrites
    /\ Within(version, OwesCommit) /\ Within(generation, OwesBump)
    /\ announced <= version
    /\ \A w \in Writers : writer[w] # None => writer[w].version <= version
TypeInv == ShapeInv /\ CounterInv

-----------------------------------------------------------------------------
(* The steps of a writer.                                                    *)

LEMMA TodoSteps ==
    ASSUME NEW todo \in Todos, todo # <<>>
    PROVE  /\ Head(todo) = "commit" =>
                 /\ todo \in OwesCommit /\ Tail(todo) \in Todos \ OwesCommit
                 /\ Tail(todo) \in OwesBump <=> todo \in OwesBump
           /\ Head(todo) = "bump" =>
                 /\ todo \in OwesBump /\ Tail(todo) \in Todos \ OwesBump
                 /\ Tail(todo) \in OwesCommit <=> todo \in OwesCommit
           /\ todo = <<"commit", "bump">> => Head(todo) = "commit" /\ Tail(todo) = <<"bump">>
           /\ todo = <<"bump">> => Head(todo) = "bump" /\ Tail(todo) = <<>>
<1>1. CASE todo = <<"commit", "bump">>
  BY <1>1 DEF OwesCommit, OwesBump, Todos
<1>2. CASE todo = <<"bump", "commit">>
  BY <1>2 DEF OwesCommit, OwesBump, Todos
<1>3. CASE todo = <<"commit">>
  BY <1>3 DEF OwesCommit, OwesBump, Todos
<1>4. CASE todo = <<"bump">>
  BY <1>4 DEF OwesCommit, OwesBump, Todos
<1> QED BY <1>1, <1>2, <1>3, <1>4 DEF OwesCommit, OwesBump, Todos

LEMMA FirstSteps ==
    ASSUME NEW kind
    PROVE  /\ StepsOf(kind) \in Todos /\ StepsOf(kind) # <<>>
           /\ kind = "purchase" => StepsOf(kind) = <<"commit", "bump">>
BY DEF StepsOf, Todos, OwesCommit, OwesBump

(* The frame every step of one writer shares. *)
LEMMA OwingFrame ==
    ASSUME NEW w \in Writers, NEW todos, \A v \in Writers \ {w} : writer'[v] = writer[v]
    PROVE  Owing(todos)' \ {w} = Owing(todos) \ {w}
BY DEF Owing

(* A write begins, and owes at most one more. *)
LEMMA WithinBegin ==
    ASSUME NEW w \in Writers, NEW todos, NEW done \in Nat, writes \in Nat,
           Within(done, todos), writes' = writes + 1,
           \A v \in Writers \ {w} : writer'[v] = writer[v]
    PROVE  /\ IsFiniteSet(Owing(todos)')
           /\ done + Cardinality(Owing(todos)') <= writes'
<1>1. Owing(todos)' \ {w} = Owing(todos) \ {w}
  BY OwingFrame
<1> PICK old, new : old = Owing(todos) /\ new = Owing(todos)'
  OBVIOUS
<1>2. IsFiniteSet(old) /\ done + Cardinality(old) <= writes
  BY DEF Within
<1>3. IsFiniteSet(old \union {w}) /\ Cardinality(old \union {w}) <= Cardinality(old) + 1
      /\ Cardinality(old) \in Nat
  <2>1. IsFiniteSet(old \union {w}) /\ Cardinality(old) \in Nat
    BY <1>2, FS_AddElement, FS_CardinalityType
  <2>2. CASE w \in old
    <3>1. old \union {w} = old
      BY <2>2
    <3>2. Cardinality(old \union {w}) = Cardinality(old)
      BY <3>1
    <3> QED BY <2>1, <3>2
  <2>3. CASE w \notin old
    BY <1>2, <2>1, <2>3, FS_AddElement
  <2> QED BY <2>1, <2>2, <2>3
<1>4. new \subseteq old \union {w}
  BY <1>1
<1>5. IsFiniteSet(new) /\ Cardinality(new) <= Cardinality(old \union {w})
      /\ Cardinality(new) \in Nat /\ Cardinality(old \union {w}) \in Nat
  BY <1>3, <1>4, FS_Subset, FS_CardinalityType
<1> QED BY <1>2, <1>3, <1>5

(* A step that does what was owed owes one less. *)
LEMMA WithinDone ==
    ASSUME NEW w \in Writers, NEW todos, NEW done \in Nat, writes \in Nat,
           Within(done, todos), writes' = writes,
           \A v \in Writers \ {w} : writer'[v] = writer[v],
           w \in Owing(todos), w \notin Owing(todos)'
    PROVE  /\ IsFiniteSet(Owing(todos)')
           /\ done + 1 + Cardinality(Owing(todos)') <= writes'
<1>1. Owing(todos)' \ {w} = Owing(todos) \ {w}
  BY OwingFrame
<1> PICK old, new : old = Owing(todos) /\ new = Owing(todos)'
  OBVIOUS
<1>2. IsFiniteSet(old) /\ done + Cardinality(old) <= writes
  BY DEF Within
<1>3. new = old \ {w}
  BY <1>1
<1>4. IsFiniteSet(new) /\ Cardinality(new) = Cardinality(old) - 1
      /\ Cardinality(old) \in Nat
  BY <1>2, <1>3, FS_RemoveElement, FS_CardinalityType
<1> QED BY <1>2, <1>4

(* Any other step leaves what is owed. *)
LEMMA WithinKept ==
    ASSUME NEW w \in Writers, NEW todos, NEW done,
           Within(done, todos), writes' = writes,
           \A v \in Writers \ {w} : writer'[v] = writer[v],
           w \in Owing(todos) <=> w \in Owing(todos)'
    PROVE  /\ IsFiniteSet(Owing(todos)')
           /\ done + Cardinality(Owing(todos)') <= writes'
<1>1. Owing(todos)' = Owing(todos)
  BY OwingFrame
<1> QED BY <1>1 DEF Within

-----------------------------------------------------------------------------
(* Types.                                                                    *)

LEMMA KeysInRange == Sensible /\ TypeInv => generation \in Generations /\ version \in 0..MaxWrites
<1> SUFFICES ASSUME Sensible, TypeInv
             PROVE  generation \in Generations /\ version \in 0..MaxWrites
  OBVIOUS
<1>1. /\ Cardinality(Owing(OwesCommit)) \in Nat /\ Cardinality(Owing(OwesBump)) \in Nat
      /\ version + Cardinality(Owing(OwesCommit)) <= writes
      /\ generation + Cardinality(Owing(OwesBump)) <= writes
  BY FS_CardinalityType DEF TypeInv, CounterInv, Within
<1>2. version \in Nat /\ generation \in Nat /\ writes \in 0..MaxWrites /\ MaxWrites \in Nat
  BY DEF TypeInv, CounterInv, Sensible
<1> QED BY <1>1, <1>2 DEF Generations

(* Steps of a reader, of the caches and of the clock. *)
LEMMA CountersSame ==
    ASSUME CounterInv, now' \in 0..MaxTime,
           UNCHANGED <<version, generation, writer, announced, writes>>
    PROVE  CounterInv'
<1>1. Owing(OwesCommit)' = Owing(OwesCommit) /\ Owing(OwesBump)' = Owing(OwesBump)
  BY DEF Owing
<1> QED BY <1>1 DEF CounterInv, Within

LEMMA AskType ==
    ASSUME Sensible, TypeInv, NEW r \in Readers, NEW place, Ask(r, place)
    PROVE  TypeInv'
<1>1. CounterInv'
  BY CountersSame DEF Ask, TypeInv, CounterInv
<1> DEFINE key == KeyOf(place)
           hit == cache[place][key]
           request == [place |-> place, key |-> key, since |-> now, floor |-> announced,
                       value |-> None, readAt |-> now]
<1>2. place \in Places /\ key \in Generations /\ announced \in Nat /\ now \in Nat
  BY KeysInRange DEF Ask, KeyOf, TypeInv, CounterInv
<1>3. request \in Reading
  BY <1>2 DEF Reading
<1>4. hit \in Entry \union {None}
  BY <1>2 DEF TypeInv, ShapeInv
<1>5. CASE IsLive(hit)
  <2>1. hit \in Entry
    BY <1>4, <1>5 DEF IsLive
  <2>2. AnswerWith(request, hit, FALSE) /\ reader' = reader
    BY <1>5 DEF Ask
  <2>3. answer' \in Answer
    BY <1>2, <2>1, <2>2 DEF AnswerWith, Answer, Entry
  <2> QED BY <1>1, <2>2, <2>3 DEF Ask, TypeInv, ShapeInv
<1>6. CASE ~IsLive(hit)
  <2>1. answer' = None /\ reader' = [reader EXCEPT ![r] = request]
    BY <1>6 DEF Ask
  <2> HIDE DEF request
  <2> QED BY <1>1, <1>3, <2>1 DEF Ask, TypeInv, ShapeInv
<1> QED BY <1>5, <1>6

LEMMA ReadType ==
    ASSUME TypeInv, NEW r \in Readers, Read(r)
    PROVE  TypeInv'
<1>1. CounterInv'
  BY CountersSame DEF Read, TypeInv, CounterInv
<1>2. reader[r] \in Reading /\ version \in Nat /\ now \in Nat
  BY DEF Read, TypeInv, ShapeInv, CounterInv
<1>3. PICK q : q = [reader[r] EXCEPT !.value = version, !.readAt = now]
  OBVIOUS
<1>4. q \in Reading
  BY <1>2, <1>3 DEF Reading
<1>5. reader' = [reader EXCEPT ![r] = q] /\ answer' = None
  BY <1>3 DEF Read
<1> QED BY <1>1, <1>4, <1>5 DEF Read, TypeInv, ShapeInv

(* What a reader stores, and where. *)
LEMMA StoreIs ==
    ASSUME Sensible, TypeInv, NEW r \in Readers, Store(r), NEW q, q = reader[r],
           NEW e, e = [value |-> q.value, readAt |-> q.readAt, storedAt |-> now],
           NEW good, good = [value |-> q.value, readAt |-> q.readAt]
    PROVE  /\ q \in Reading /\ q.value \in Nat /\ InTime(r) /\ e \in Entry /\ good \in Good
           /\ \A p \in Places, g \in Generations :
                 cache'[p][g] = IF p = q.place /\ g = q.key THEN e ELSE cache[p][g]
           /\ cache' \in [Places -> [Generations -> Entry \union {None}]]
           /\ \A g \in Generations :
                 lastGood'[g] = IF q.place = "report" /\ g = q.key THEN good ELSE lastGood[g]
           /\ lastGood' \in [Generations -> Good \union {None}]
           /\ answer' = [place |-> q.place, value |-> q.value, floor |-> q.floor,
                         readAt |-> q.readAt, degraded |-> FALSE]
           /\ answer' \in Answer
           /\ reader' = [reader EXCEPT ![r] = None]
<1>1. reader[r] \in Reading /\ reader[r].value \in Nat /\ InTime(r) /\ now \in Nat
  BY DEF Store, TypeInv, ShapeInv, CounterInv, Reading
<1>2. /\ q.place \in Places /\ q.key \in Generations /\ q.floor \in Nat
      /\ q.value \in Nat /\ q.readAt \in Nat
  BY <1>1 DEF Reading
<1>3. e \in Entry /\ good \in Good
  BY <1>1, <1>2 DEF Entry, Good
<1>4. cache' = [cache EXCEPT ![q.place][q.key] = e]
  BY DEF Store
<1>5. lastGood' = IF q.place = "report" THEN [lastGood EXCEPT ![q.key] = good] ELSE lastGood
  BY DEF Store
<1>6. /\ cache \in [Places -> [Generations -> Entry \union {None}]]
      /\ lastGood \in [Generations -> Good \union {None}]
  BY DEF TypeInv, ShapeInv
<1>7. /\ cache' \in [Places -> [Generations -> Entry \union {None}]]
      /\ \A p \in Places, g \in Generations :
            cache'[p][g] = IF p = q.place /\ g = q.key THEN e ELSE cache[p][g]
  BY <1>2, <1>3, <1>4, <1>6
<1>8. /\ lastGood' \in [Generations -> Good \union {None}]
      /\ \A g \in Generations :
            lastGood'[g] = IF q.place = "report" /\ g = q.key THEN good ELSE lastGood[g]
  BY <1>2, <1>3, <1>5, <1>6
<1>9. /\ answer' = [place |-> q.place, value |-> q.value, floor |-> q.floor,
                    readAt |-> q.readAt, degraded |-> FALSE]
      /\ reader' = [reader EXCEPT ![r] = None]
  BY DEF Store, AnswerWith
<1>10. answer' \in Answer
  BY <1>2, <1>9 DEF Answer
<1> QED BY <1>1, <1>3, <1>7, <1>8, <1>9, <1>10

LEMMA StoreType ==
    ASSUME Sensible, TypeInv, NEW r \in Readers, Store(r)
    PROVE  TypeInv'
<1>1. CounterInv'
  BY CountersSame DEF Store, TypeInv, CounterInv
<1>2. ShapeInv'
  <2> PICK q : q = reader[r]
    OBVIOUS
  <2> PICK e : e = [value |-> q.value, readAt |-> q.readAt, storedAt |-> now]
    OBVIOUS
  <2> PICK good : good = [value |-> q.value, readAt |-> q.readAt]
    OBVIOUS
  <2> QED BY StoreIs DEF Store, TypeInv, ShapeInv
<1> QED BY <1>1, <1>2 DEF TypeInv

LEMMA DegradeType ==
    ASSUME Sensible, TypeInv, NEW r \in Readers, Degrade(r)
    PROVE  TypeInv'
<1>1. CounterInv'
  BY CountersSame DEF Degrade, TypeInv, CounterInv
<1>2. reader[r] \in Reading
  BY DEF Degrade, TypeInv, ShapeInv
<1> PICK q, good : q = reader[r] /\ good = lastGood[q.key]
  OBVIOUS
<1>3. q.place \in Places /\ q.floor \in Nat /\ good \in Good \union {None}
  BY <1>2 DEF Reading, TypeInv, ShapeInv
<1>4. answer' \in Answer \union {None}
  <2>1. CASE good = None
    BY <2>1 DEF Degrade
  <2>2. CASE good # None
    <3>1. answer' = [place |-> q.place, value |-> good.value, floor |-> q.floor,
                     readAt |-> good.readAt, degraded |-> TRUE]
      BY <2>2 DEF Degrade, AnswerWith
    <3> QED BY <1>3, <2>2, <3>1 DEF Answer, Good
  <2> QED BY <2>1, <2>2
<1>5. reader' = [reader EXCEPT ![r] = None]
  BY DEF Degrade
<1> QED BY <1>1, <1>4, <1>5 DEF Degrade, TypeInv, ShapeInv

LEMMA EvictType ==
    ASSUME TypeInv, NEW place \in Places, NEW g \in Generations, Evict(place, g)
    PROVE  TypeInv'
<1>1. CounterInv'
  BY CountersSame DEF Evict, TypeInv, CounterInv
<1> QED BY <1>1 DEF Evict, TypeInv, ShapeInv

LEMMA TickType ==
    ASSUME Sensible, TypeInv, Tick
    PROVE  TypeInv'
<1>1. now' \in 0..MaxTime
  BY DEF Tick, TypeInv, CounterInv, Sensible
<1>2. CounterInv'
  BY <1>1, CountersSame DEF Tick, TypeInv
<1> QED BY <1>2 DEF Tick, TypeInv, ShapeInv

(* What a writer's step makes of it. *)
LEMMA WriterShape ==
    ASSUME Sensible, ShapeInv, NEW w \in Writers, NEW row \in Pending \union {None},
           writer' = [writer EXCEPT ![w] = row],
           cache' = cache \/ cache' = [p \in Places |-> IF p = "list"
                                          THEN [g \in Generations |-> None] ELSE cache[p]],
           answer' = None, UNCHANGED <<lastGood, reader>>
    PROVE  /\ ShapeInv' /\ writer'[w] = row
           /\ \A v \in Writers \ {w} : writer'[v] = writer[v]
BY DEF ShapeInv

LEMMA BeginWriteType ==
    ASSUME Sensible, TypeInv, NEW w \in Writers, NEW kind, BeginWrite(w, kind)
    PROVE  TypeInv'
<1>1. PICK row : row = [todo |-> StepsOf(kind), version |-> 0]
  OBVIOUS
<1>2. row \in Pending
  BY <1>1, FirstSteps DEF Pending
<1>3. writer' = [writer EXCEPT ![w] = row]
  BY <1>1 DEF BeginWrite
<1>4. /\ ShapeInv' /\ writer'[w] = row /\ row.version = 0
      /\ \A v \in Writers \ {w} : writer'[v] = writer[v]
  BY <1>1, <1>2, <1>3, WriterShape DEF BeginWrite, TypeInv
<1>5. /\ writes' = writes + 1 /\ writes' \in 0..MaxWrites /\ writes \in Nat
      /\ UNCHANGED <<version, generation, announced, now>>
  BY DEF BeginWrite, TypeInv, CounterInv, Sensible
<1>6. Within(version, OwesCommit)' /\ Within(generation, OwesBump)'
  BY <1>4, <1>5, WithinBegin DEF TypeInv, CounterInv, Within
<1> QED BY <1>4, <1>5, <1>6 DEF TypeInv, CounterInv

LEMMA CommitType ==
    ASSUME Sensible, TypeInv, NEW w \in Writers, Commit(w)
    PROVE  TypeInv'
<1>1. PICK row, was : row = [todo |-> Tail(was.todo), version |-> version + 1] /\ was = writer[w]
  OBVIOUS
<1>2. was \in Pending /\ was.todo \in Todos /\ was.todo # <<>> /\ Head(was.todo) = "commit"
  BY <1>1 DEF Commit, IsNext, TypeInv, ShapeInv, Pending
<1>3. /\ was.todo \in OwesCommit /\ row.todo \in Todos \ OwesCommit
      /\ row.todo \in OwesBump <=> was.todo \in OwesBump
  BY <1>1, <1>2, TodoSteps
<1>4. version \in Nat /\ row \in Pending /\ row # None /\ was # None /\ row.version = version + 1
  <2>1. version \in Nat /\ version + 1 \in Nat
    BY DEF TypeInv, CounterInv
  <2>2. row.todo \in Todos /\ row.version = version + 1
    BY <1>1, <1>3
  <2>3. row \in Pending
    BY <1>1, <2>1, <2>2 DEF Pending
  <2> QED BY <1>2, <2>1, <2>2, <2>3 DEF Sensible
<1>5. writer' = [writer EXCEPT ![w] = row]
  BY <1>1 DEF Commit
<1>6. /\ ShapeInv' /\ writer'[w] = row
      /\ \A v \in Writers \ {w} : writer'[v] = writer[v]
  BY <1>4, <1>5, WriterShape DEF Commit, TypeInv
<1>7. version' = version + 1 /\ UNCHANGED <<generation, announced, now, writes>>
  BY DEF Commit
<1>8. w \in Owing(OwesCommit) /\ w \notin Owing(OwesCommit)'
      /\ (w \in Owing(OwesBump) <=> w \in Owing(OwesBump)')
  BY <1>1, <1>3, <1>4, <1>6 DEF Owing
<1>9. Within(version, OwesCommit)'
  BY <1>4, <1>6, <1>7, <1>8, WithinDone DEF TypeInv, CounterInv, Within
<1>10. Within(generation, OwesBump)'
  BY <1>6, <1>7, <1>8, WithinKept DEF TypeInv, CounterInv, Within
<1>11. \A v \in Writers : writer'[v] # None => writer'[v].version <= version'
  <2>1. \A v \in Writers \ {w} : writer[v] # None => writer[v].version <= version + 1
    BY <1>4 DEF TypeInv, CounterInv, ShapeInv, Pending
  <2> QED BY <1>4, <1>6, <1>7, <2>1
<1> QED BY <1>4, <1>6, <1>7, <1>9, <1>10, <1>11 DEF TypeInv, CounterInv

LEMMA BumpType ==
    ASSUME Sensible, TypeInv, NEW w \in Writers, Bump(w)
    PROVE  TypeInv'
<1>1. PICK row, was : row = [was EXCEPT !.todo = Tail(was.todo)] /\ was = writer[w]
  OBVIOUS
<1>2. was \in Pending /\ was.todo \in Todos /\ was.todo # <<>> /\ Head(was.todo) = "bump"
  BY <1>1 DEF Bump, IsNext, TypeInv, ShapeInv, Pending
<1>3. /\ was.todo \in OwesBump /\ Tail(was.todo) \in Todos \ OwesBump
      /\ Tail(was.todo) \in OwesCommit <=> was.todo \in OwesCommit
  BY <1>2, TodoSteps
<1>4. /\ row \in Pending /\ row # None /\ was # None
      /\ row.version = was.version /\ row.todo = Tail(was.todo)
  BY <1>1, <1>2, <1>3 DEF Pending, Sensible
<1>5. writer' = [writer EXCEPT ![w] = row]
  BY <1>1 DEF Bump
<1>6. /\ ShapeInv' /\ writer'[w] = row
      /\ \A v \in Writers \ {w} : writer'[v] = writer[v]
  BY <1>4, <1>5, WriterShape DEF Bump, TypeInv
<1>7. generation' = generation + 1 /\ UNCHANGED <<version, announced, now, writes>>
  BY DEF Bump
<1>8. w \in Owing(OwesBump) /\ w \notin Owing(OwesBump)'
      /\ (w \in Owing(OwesCommit) <=> w \in Owing(OwesCommit)')
  BY <1>1, <1>3, <1>4, <1>6 DEF Owing
<1>9. Within(generation, OwesBump)'
  BY <1>6, <1>7, <1>8, WithinDone DEF TypeInv, CounterInv, Within
<1>10. Within(version, OwesCommit)'
  BY <1>6, <1>7, <1>8, WithinKept DEF TypeInv, CounterInv, Within
<1>11. \A v \in Writers : writer'[v] # None => writer'[v].version <= version'
  BY <1>1, <1>4, <1>6, <1>7 DEF TypeInv, CounterInv
<1> QED BY <1>6, <1>7, <1>9, <1>10, <1>11 DEF TypeInv, CounterInv

LEMMA AnswerWriteType ==
    ASSUME Sensible, TypeInv, NEW w \in Writers, AnswerWrite(w)
    PROVE  TypeInv'
<1>1. writer[w] \in Pending /\ writer[w].todo = <<>> /\ writer' = [writer EXCEPT ![w] = None]
  BY DEF AnswerWrite, TypeInv, ShapeInv
<1>2. /\ ShapeInv' /\ writer'[w] = None
      /\ \A v \in Writers \ {w} : writer'[v] = writer[v]
  BY <1>1, WriterShape DEF AnswerWrite, TypeInv
<1>3. announced' \in Nat /\ announced' <= version
      /\ UNCHANGED <<version, generation, now, writes>>
  BY <1>1 DEF AnswerWrite, TypeInv, CounterInv, Pending
<1>4. ~(<<>> \in OwesCommit) /\ ~(<<>> \in OwesBump)
  BY DEF OwesCommit, OwesBump
<1>5. /\ w \in Owing(OwesBump) <=> w \in Owing(OwesBump)'
      /\ w \in Owing(OwesCommit) <=> w \in Owing(OwesCommit)'
  BY <1>1, <1>2, <1>4 DEF Owing
<1>6. Within(generation, OwesBump)' /\ Within(version, OwesCommit)'
  BY <1>2, <1>3, <1>5, WithinKept DEF TypeInv, CounterInv, Within
<1>7. \A v \in Writers : writer'[v] # None => writer'[v].version <= version'
  BY <1>2, <1>3 DEF TypeInv, CounterInv
<1> QED BY <1>2, <1>3, <1>6, <1>7 DEF TypeInv, CounterInv

LEMMA TypeInit == Sensible /\ Init => TypeInv
<1> SUFFICES ASSUME Sensible, Init PROVE TypeInv
  OBVIOUS
<1>1. Owing(OwesCommit) = {} /\ Owing(OwesBump) = {}
  BY DEF Init, Owing
<1>2. Within(version, OwesCommit) /\ Within(generation, OwesBump)
  BY <1>1, FS_EmptySet DEF Within, Init
<1>3. CounterInv
  BY <1>2 DEF CounterInv, Init, Sensible
<1>4. ShapeInv
  BY DEF ShapeInv, Init
<1> QED BY <1>3, <1>4 DEF TypeInv

LEMMA TypeNext == Sensible /\ TypeInv /\ [Next]_vars => TypeInv'
<1> SUFFICES ASSUME Sensible, TypeInv, [Next]_vars PROVE TypeInv'
  OBVIOUS
<1>1. CASE UNCHANGED vars
  <2>1. CounterInv'
    BY <1>1, CountersSame DEF vars, TypeInv, CounterInv
  <2> QED BY <1>1, <2>1 DEF vars, TypeInv, ShapeInv
<1>2. ASSUME NEW r \in Readers,
             AskReport(r) \/ AskList(r) \/ Read(r) \/ Store(r) \/ Degrade(r)
      PROVE  TypeInv'
  BY <1>2, AskType, ReadType, StoreType, DegradeType DEF AskReport, AskList
<1>3. ASSUME NEW w \in Writers,
             \/ \E k \in WriteKinds : BeginWrite(w, k)
             \/ Commit(w) \/ Bump(w) \/ AnswerWrite(w)
      PROVE  TypeInv'
  BY <1>3, BeginWriteType, CommitType, BumpType, AnswerWriteType
<1> QED BY <1>1, <1>2, <1>3, EvictType, TickType DEF Next

(* The caches, the requests and the counters keep their types: no generation  *)
(* is counted up that no entry is kept for.                                   *)
THEOREM TypeCorrect == Sensible => (Spec => []TypeOK)
<1> SUFFICES ASSUME Sensible PROVE Spec => []TypeOK
  OBVIOUS
<1>1. TypeInv => TypeOK
  <2> SUFFICES ASSUME TypeInv PROVE TypeOK
    OBVIOUS
  <2>1. announced \in 0..version
    BY DEF TypeInv, CounterInv
  <2> QED BY <2>1, KeysInRange DEF TypeOK, TypeInv, ShapeInv, CounterInv
<1> QED BY <1>1, TypeInit, TypeNext, PTL DEF Spec

-----------------------------------------------------------------------------
(* How old an answer may be.                                                 *)

AgeInv ==
    /\ StaleForTtlOnly
    /\ \A p \in Places, g \in Generations : p = "report" /\ cache[p][g] # None =>
          cache[p][g].storedAt - cache[p][g].readAt <= Budget
    /\ \A r \in Readers : reader[r] # None =>
          reader[r].since <= reader[r].readAt /\ reader[r].since <= now

LEMMA AgeKept ==
    ASSUME AgeInv, ShapeInv, answer' = None, reader' = reader,
           now \in Nat, now' = now \/ now' = now + 1,
           \A p \in Places, g \in Generations : cache'[p][g] \in {cache[p][g], None}
    PROVE  AgeInv'
<1>1. \A p \in Places, g \in Generations : p = "report" /\ cache'[p][g] # None =>
         cache'[p][g] = cache[p][g]
  OBVIOUS
<1>2. \A r \in Readers : reader[r] # None => reader[r].since \in Nat
  BY DEF ShapeInv, Reading
<1> QED BY <1>1, <1>2 DEF AgeInv, StaleForTtlOnly

LEMMA AskAge ==
    ASSUME Sensible, TypeInv, AgeInv, NEW r \in Readers, NEW place, Ask(r, place)
    PROVE  AgeInv'
<1> DEFINE key == KeyOf(place)
           hit == cache[place][key]
           request == [place |-> place, key |-> key, since |-> now, floor |-> announced,
                       value |-> None, readAt |-> now]
<1>1. place \in Places /\ key \in Generations /\ now \in Nat /\ now' = now /\ cache' = cache
      /\ Ttl \in Nat /\ Budget \in Nat
  BY KeysInRange DEF Ask, KeyOf, TypeInv, CounterInv, Sensible
<1>2. CASE IsLive(hit)
  <2>1. hit \in Entry /\ now - hit.storedAt <= Ttl
    BY <1>1, <1>2 DEF IsLive, TypeInv, ShapeInv
  <2>2. place = "report" => hit.storedAt - hit.readAt <= Budget
    BY <1>1, <1>2 DEF AgeInv, IsLive
  <2>3. reader' = reader /\ answer'.place = place /\ answer'.readAt = hit.readAt
    BY <1>2 DEF Ask, AnswerWith
  <2>4. hit.storedAt \in Nat /\ hit.readAt \in Nat
    BY <2>1 DEF Entry
  <2>5. StaleForTtlOnly'
    <3> HIDE DEF hit
    <3> QED BY <1>1, <2>1, <2>2, <2>3, <2>4 DEF StaleForTtlOnly
  <2> QED BY <1>1, <2>3, <2>5 DEF AgeInv
<1>3. CASE ~IsLive(hit)
  <2>1. answer' = None /\ reader' = [reader EXCEPT ![r] = request]
    BY <1>3 DEF Ask
  <2>2. request.since <= request.readAt /\ request.since <= now
    BY <1>1
  <2> HIDE DEF request
  <2> QED BY <1>1, <2>1, <2>2 DEF AgeInv, StaleForTtlOnly, TypeInv, ShapeInv
<1> QED BY <1>2, <1>3

LEMMA ReadAge ==
    ASSUME Sensible, TypeInv, AgeInv, NEW r \in Readers, Read(r)
    PROVE  AgeInv'
<1>1. reader[r] \in Reading
  BY DEF Read, TypeInv, ShapeInv
<1>2. PICK q : q = [reader[r] EXCEPT !.value = version, !.readAt = now]
  OBVIOUS
<1>3. q.since = reader[r].since /\ q.readAt = now
  BY <1>1, <1>2 DEF Reading
<1>4. /\ reader' = [reader EXCEPT ![r] = q] /\ answer' = None /\ cache' = cache /\ now' = now
      /\ reader[r] # None /\ reader[r].since <= now
  BY <1>2 DEF Read, AgeInv
<1> QED BY <1>3, <1>4 DEF AgeInv, StaleForTtlOnly, TypeInv, ShapeInv

LEMMA StoreAge ==
    ASSUME Sensible, TypeInv, AgeInv, NEW r \in Readers, Store(r)
    PROVE  AgeInv'
<1> PICK q : q = reader[r]
  OBVIOUS
<1> PICK e : e = [value |-> q.value, readAt |-> q.readAt, storedAt |-> now]
  OBVIOUS
<1> PICK good : good = [value |-> q.value, readAt |-> q.readAt]
  OBVIOUS
<1>1. /\ q \in Reading /\ q.since \in Nat /\ q.readAt \in Nat /\ q.since <= q.readAt
      /\ now \in Nat /\ now' = now /\ Ttl \in Nat /\ Budget \in Nat
      /\ q.place = "report" => now - q.since <= Budget
  <2>1. q \in Reading /\ InTime(r)
    BY StoreIs
  <2>2. q.since <= q.readAt
    BY DEF AgeInv, Store
  <2>3. now \in Nat /\ now' = now /\ Ttl \in Nat /\ Budget \in Nat
    BY DEF Store, TypeInv, CounterInv, Sensible
  <2> QED BY <2>1, <2>2, <2>3 DEF InTime, Reading
<1>2. q.place = "report" => now - q.readAt <= Budget
  BY <1>1
<1>3. /\ answer'.place = q.place /\ answer'.readAt = q.readAt
      /\ reader' = [reader EXCEPT ![r] = None]
      /\ \A p \in Places, g \in Generations :
            cache'[p][g] = IF p = q.place /\ g = q.key THEN e ELSE cache[p][g]
  BY StoreIs
<1>4. StaleForTtlOnly'
  BY <1>1, <1>2, <1>3 DEF StaleForTtlOnly
<1>5. ASSUME NEW p \in Places, NEW g \in Generations, p = "report", cache'[p][g] # None
      PROVE  cache'[p][g].storedAt - cache'[p][g].readAt <= Budget
  BY <1>2, <1>3, <1>5 DEF AgeInv
<1>6. \A s \in Readers : reader'[s] # None =>
         reader'[s].since <= reader'[s].readAt /\ reader'[s].since <= now'
  BY <1>1, <1>3 DEF AgeInv, TypeInv, ShapeInv
<1> QED BY <1>4, <1>5, <1>6 DEF AgeInv

LEMMA DegradeAge ==
    ASSUME TypeInv, AgeInv, NEW r \in Readers, Degrade(r)
    PROVE  AgeInv'
<1>1. cache' = cache /\ now' = now /\ reader' = [reader EXCEPT ![r] = None]
  BY DEF Degrade
<1>2. answer' = None \/ answer'.degraded
  BY DEF Degrade, AnswerWith
<1>3. StaleForTtlOnly'
  BY <1>2 DEF StaleForTtlOnly
<1> QED BY <1>1, <1>3 DEF AgeInv, TypeInv, ShapeInv

LEMMA AgeNext == Sensible /\ TypeInv /\ AgeInv /\ [Next]_vars => AgeInv'
<1> SUFFICES ASSUME Sensible, TypeInv, AgeInv, [Next]_vars PROVE AgeInv'
  OBVIOUS
<1>1. CASE UNCHANGED vars
  BY <1>1 DEF vars, AgeInv, StaleForTtlOnly
<1>2. ASSUME NEW r \in Readers,
             AskReport(r) \/ AskList(r) \/ Read(r) \/ Store(r) \/ Degrade(r)
      PROVE  AgeInv'
  BY <1>2, AskAge, ReadAge, StoreAge, DegradeAge DEF AskReport, AskList
<1>3. ASSUME \/ \E p \in Places, g \in Generations : Evict(p, g)
             \/ \E w \in Writers : \/ \E k \in WriteKinds : BeginWrite(w, k)
                                   \/ Commit(w) \/ Bump(w) \/ AnswerWrite(w)
             \/ Tick
      PROVE  AgeInv'
  <2>1. now \in Nat /\ ShapeInv
    BY DEF TypeInv, CounterInv
  <2>2. ASSUME NEW p \in Places, NEW g \in Generations, Evict(p, g) PROVE AgeInv'
    BY <2>1, <2>2, AgeKept DEF Evict, ShapeInv
  <2>3. ASSUME NEW w \in Writers, Bump(w) PROVE AgeInv'
    BY <2>1, <2>3, AgeKept DEF Bump
  <2>4. ASSUME Tick \/ \E w \in Writers : \/ \E k \in WriteKinds : BeginWrite(w, k)
                                         \/ Commit(w) \/ AnswerWrite(w)
        PROVE  AgeInv'
    BY <2>1, <2>4, AgeKept DEF Tick, BeginWrite, Commit, AnswerWrite
  <2> QED BY <1>3, <2>2, <2>3, <2>4
<1> QED BY <1>1, <1>2, <1>3 DEF Next

(* Whatever is written, an answer of a report that is not marked degraded was *)
(* read no longer ago than an entry lives and a report may take.              *)
THEOREM StaleNoLongerThanTtl == Sensible => (Spec => []StaleForTtlOnly)
<1> SUFFICES ASSUME Sensible PROVE Spec => []StaleForTtlOnly
  OBVIOUS
<1>1. Init => AgeInv
  BY DEF Init, AgeInv, StaleForTtlOnly
<1>2. TypeInv /\ AgeInv /\ [Next]_vars => (TypeInv /\ AgeInv)'
  BY TypeNext, AgeNext
<1>3. AgeInv => StaleForTtlOnly
  BY DEF AgeInv
<1> QED BY <1>1, <1>2, <1>3, TypeInit, PTL DEF Spec

-----------------------------------------------------------------------------
(* What a read sees while only purchases are written.                        *)

(* No older than any writer that was, or is about to be, answered.           *)
Recent(v) ==
    /\ v >= announced
    /\ \A w \in Writers : writer[w] # None /\ writer[w].todo = <<>> => v >= writer[w].version

(* What is kept for the current generation is recent, and what is kept for   *)
(* any is no older than its readers require; the next has nothing yet.       *)
Has(r) == reader[r] # None /\ reader[r].value # None
CurrentInv ==
    /\ \A p \in Places : cache[p][generation] # None => Recent(cache[p][generation].value)
    /\ lastGood[generation] # None => Recent(lastGood[generation].value)
    /\ \A r \in Readers : Has(r) /\ reader[r].key = generation => Recent(reader[r].value)
EmptyInv ==
    /\ \A r \in Readers : reader[r] # None => reader[r].key <= generation
    /\ \A g \in Generations : g > generation =>
          lastGood[g] = None /\ \A p \in Places : cache[p][g] = None
FloorInv ==
    \A r \in Readers : reader[r] # None =>
        /\ reader[r].floor <= announced
        /\ lastGood[reader[r].key] # None => lastGood[reader[r].key].value >= reader[r].floor
        /\ \A q \in Readers : Has(q) /\ reader[q].key = reader[r].key =>
              reader[q].value >= reader[r].floor
PurchasesInv ==
    \A w \in Writers : writer[w] # None =>
        writer[w].todo \in {<<"commit", "bump">>, <<"bump">>, <<>>}
AnswerInv == answer # None => answer.value >= answer.floor
Seen == AnswerInv /\ PurchasesInv /\ CurrentInv /\ EmptyInv /\ FloorInv
SeenInv == kinds \subseteq {"purchase"} => Seen

LEMMA VersionIsRecent == TypeInv => Recent(version)
BY DEF TypeInv, CounterInv, Recent

(* The numbers the arithmetic is about. *)
LEMMA NumbersAre ==
    ASSUME Sensible, TypeInv
    PROVE  /\ generation \in Nat /\ announced \in Nat /\ version \in Nat
           /\ \A r \in Readers : reader[r] # None =>
                 /\ reader[r] \in Reading /\ reader[r].key \in Generations /\ reader[r].key \in Nat
                 /\ reader[r].floor \in Nat /\ reader[r].value \in Nat \union {None}
           /\ \A g \in Generations : lastGood[g] # None => lastGood[g].value \in Nat
           /\ \A p \in Places, g \in Generations : cache[p][g] # None => cache[p][g].value \in Nat
           /\ \A w \in Writers : writer[w] # None => writer[w].version \in Nat
<1>1. generation \in Nat /\ announced \in Nat /\ version \in Nat
  BY DEF TypeInv, CounterInv
<1>2. \A g \in Generations : g \in Nat
  BY DEF Sensible, Generations
<1>3. ASSUME NEW r \in Readers, reader[r] # None
      PROVE  /\ reader[r] \in Reading /\ reader[r].key \in Generations
             /\ reader[r].floor \in Nat /\ reader[r].value \in Nat \union {None}
  <2>1. reader[r] \in Reading
    BY <1>3 DEF TypeInv, ShapeInv
  <2> QED BY <2>1 DEF Reading
<1>4. ASSUME NEW g \in Generations, lastGood[g] # None PROVE lastGood[g].value \in Nat
  <2>1. lastGood[g] \in Good
    BY <1>4 DEF TypeInv, ShapeInv
  <2> QED BY <2>1 DEF Good
<1>5. ASSUME NEW p \in Places, NEW g \in Generations, cache[p][g] # None
      PROVE  cache[p][g].value \in Nat
  <2>1. cache[p][g] \in Entry
    BY <1>5 DEF TypeInv, ShapeInv
  <2> QED BY <2>1 DEF Entry
<1>6. ASSUME NEW w \in Writers, writer[w] # None PROVE writer[w].version \in Nat
  <2>1. writer[w] \in Pending
    BY <1>6 DEF TypeInv, ShapeInv
  <2> QED BY <2>1 DEF Pending
<1> QED BY <1>1, <1>2, <1>3, <1>4, <1>5, <1>6

LEMMA SeenQuiet ==
    ASSUME TypeInv, Seen, answer' = None,
           UNCHANGED <<generation, announced, writer, reader, lastGood>>,
           \A p \in Places, g \in Generations : cache'[p][g] \in {cache[p][g], None},
           generation \in Generations
    PROVE  Seen'
<1>1. CurrentInv'
  BY DEF Seen, CurrentInv, Recent, Has
<1> QED BY <1>1 DEF Seen, AnswerInv, PurchasesInv, EmptyInv, FloorInv, Has

LEMMA SeenAsk ==
    ASSUME Sensible, TypeInv, Seen, NEW r \in Readers, NEW place, Ask(r, place)
    PROVE  Seen'
<1> DEFINE key == KeyOf(place)
           hit == cache[place][key]
           request == [place |-> place, key |-> key, since |-> now, floor |-> announced,
                       value |-> None, readAt |-> now]
<1>1. /\ place \in Places /\ key = generation /\ generation \in Generations
      /\ UNCHANGED <<version, generation, cache, lastGood, writer, announced>>
  BY KeysInRange DEF Ask, KeyOf
<1>2. CASE IsLive(hit)
  <2>1. reader' = reader /\ answer'.value = hit.value /\ answer'.floor = announced
    BY <1>2 DEF Ask, AnswerWith
  <2>2. hit.value >= announced
    BY <1>1, <1>2 DEF IsLive, Seen, CurrentInv, Recent
  <2>3. AnswerInv'
    BY <2>1, <2>2 DEF AnswerInv
  <2>4. CurrentInv'
    BY <1>1, <2>1 DEF Seen, CurrentInv, Recent, Has
  <2> QED BY <1>1, <2>1, <2>3, <2>4 DEF Seen, PurchasesInv, EmptyInv, FloorInv, Has
<1>3. CASE ~IsLive(hit)
  <2>1. answer' = None /\ reader' = [reader EXCEPT ![r] = request]
    BY <1>3 DEF Ask
  <2>2. /\ request.key = generation /\ request.floor = announced /\ request.value = None
    BY <1>1
  <2> HIDE DEF request
  <2>3. /\ reader'[r] = request /\ \A q \in Readers \ {r} : reader'[q] = reader[q]
    BY <2>1 DEF TypeInv, ShapeInv
  <2>4. CurrentInv'
    BY <1>1, <2>2, <2>3 DEF Seen, CurrentInv, Recent, Has
  <2>5. EmptyInv'
    BY <1>1, <2>2, <2>3, NumbersAre DEF Seen, EmptyInv
  <2>6. FloorInv'
    <3>1. lastGood[generation] # None => lastGood[generation].value >= announced
      BY DEF Seen, CurrentInv, Recent
    <3>2. \A q \in Readers : Has(q) /\ reader[q].key = generation => reader[q].value >= announced
      BY DEF Seen, CurrentInv, Recent
    <3>3. announced <= announced'
      BY <1>1, NumbersAre
    <3>4. \A q \in Readers : Has(q)' => q # r /\ Has(q) /\ reader'[q] = reader[q]
      BY <2>2, <2>3 DEF Has
    <3> QED BY <1>1, <2>2, <2>3, <3>1, <3>2, <3>3, <3>4 DEF Seen, FloorInv
  <2> QED BY <1>1, <2>1, <2>4, <2>5, <2>6 DEF Seen, AnswerInv, PurchasesInv
<1> QED BY <1>2, <1>3

LEMMA SeenRead ==
    ASSUME Sensible, TypeInv, Seen, NEW r \in Readers, Read(r)
    PROVE  Seen'
<1>1. reader[r] \in Reading /\ reader[r] # None /\ answer' = None
      /\ UNCHANGED <<version, generation, cache, lastGood, writer, announced>>
  BY DEF Read, TypeInv, ShapeInv
<1>2. PICK q : q = [reader[r] EXCEPT !.value = version, !.readAt = now]
  OBVIOUS
<1>3. /\ q.key = reader[r].key /\ q.floor = reader[r].floor /\ q.value = version
  BY <1>1, <1>2 DEF Reading
<1>4. reader' = [reader EXCEPT ![r] = q]
  BY <1>2 DEF Read
<1>5. reader'[r] = q /\ \A s \in Readers \ {r} : reader'[s] = reader[s]
  BY <1>4 DEF TypeInv, ShapeInv
<1>6. CurrentInv'
  BY <1>1, <1>3, <1>5, VersionIsRecent DEF Seen, CurrentInv, Recent, Has
<1>7. EmptyInv'
  BY <1>1, <1>3, <1>5 DEF Seen, EmptyInv
<1>8. FloorInv'
  <2>1. \A s \in Readers : reader'[s] # None =>
           /\ reader[s] # None /\ reader'[s].floor = reader[s].floor
           /\ reader'[s].key = reader[s].key /\ version >= reader[s].floor
    <3>1. \A s \in Readers : reader'[s] # None =>
             /\ reader[s] # None /\ reader'[s].floor = reader[s].floor
             /\ reader'[s].key = reader[s].key
      BY <1>1, <1>3, <1>5
    <3>2. \A s \in Readers : reader[s] # None => version >= reader[s].floor
      BY NumbersAre DEF Seen, FloorInv, TypeInv, CounterInv
    <3> QED BY <3>1, <3>2
  <2> QED BY <1>1, <1>3, <1>5, <2>1 DEF Seen, FloorInv, Has
<1> QED BY <1>1, <1>6, <1>7, <1>8 DEF Seen, AnswerInv, PurchasesInv

LEMMA SeenStore ==
    ASSUME Sensible, TypeInv, Seen, NEW r \in Readers, Store(r)
    PROVE  Seen'
<1> PICK q : q = reader[r]
  OBVIOUS
<1> PICK e : e = [value |-> q.value, readAt |-> q.readAt, storedAt |-> now]
  OBVIOUS
<1> PICK good : good = [value |-> q.value, readAt |-> q.readAt]
  OBVIOUS
<1>1. /\ q \in Reading /\ q.value \in Nat /\ e.value = q.value /\ good.value = q.value
      /\ \A p \in Places, g \in Generations :
            cache'[p][g] = IF p = q.place /\ g = q.key THEN e ELSE cache[p][g]
      /\ \A g \in Generations :
            lastGood'[g] = IF q.place = "report" /\ g = q.key THEN good ELSE lastGood[g]
      /\ answer'.value = q.value /\ answer'.floor = q.floor
      /\ reader' = [reader EXCEPT ![r] = None]
  BY StoreIs
<1>2. /\ UNCHANGED <<version, generation, writer, announced>> /\ generation \in Generations
      /\ Has(r) /\ q.key \in Generations
  BY <1>1, KeysInRange DEF Store, Has, Reading
<1>3. reader'[r] = None /\ \A s \in Readers \ {r} : reader'[s] = reader[s]
  BY <1>1 DEF TypeInv, ShapeInv
<1>4. q.key = generation => Recent(q.value)
  BY <1>2 DEF Seen, CurrentInv
<1>5. q.key <= generation
  BY <1>2 DEF Seen, EmptyInv, Has
<1>6. \A s \in Readers : reader[s] # None /\ reader[s].key = q.key => q.value >= reader[s].floor
  BY <1>2 DEF Seen, FloorInv
<1>7. AnswerInv'
  BY <1>1, <1>2, <1>6 DEF AnswerInv, Has
<1>8. CurrentInv'
  BY <1>1, <1>2, <1>3, <1>4 DEF Seen, CurrentInv, Recent, Has
<1>9. EmptyInv'
  <2>1. \A s \in Readers : reader'[s] # None => reader'[s].key <= generation'
    BY <1>2, <1>3 DEF Seen, EmptyInv
  <2>2. ASSUME NEW g \in Generations, g > generation
        PROVE  lastGood'[g] = None /\ \A p \in Places : cache'[p][g] = None
    <3>1. g # q.key
      BY <1>2, <1>5, <2>2, NumbersAre DEF Has
    <3>2. lastGood[g] = None /\ \A p \in Places : cache[p][g] = None
      BY <2>2 DEF Seen, EmptyInv
    <3> QED BY <1>1, <3>1, <3>2
  <2> QED BY <1>2, <2>1, <2>2 DEF EmptyInv
<1>10. FloorInv'
  <2>1. \A s \in Readers : reader'[s] # None =>
           s # r /\ reader[s] # None /\ reader'[s] = reader[s] /\ reader[s].key \in Generations
    BY <1>3, NumbersAre
  <2> QED BY <1>1, <1>2, <1>6, <2>1 DEF Seen, FloorInv, Has
<1> QED BY <1>2, <1>7, <1>8, <1>9, <1>10 DEF Seen, PurchasesInv

LEMMA SeenDegrade ==
    ASSUME Sensible, TypeInv, Seen, NEW r \in Readers, Degrade(r)
    PROVE  Seen'
<1>1. /\ reader[r] # None /\ reader' = [reader EXCEPT ![r] = None]
      /\ UNCHANGED <<version, generation, cache, lastGood, writer, announced>>
  BY DEF Degrade
<1>2. reader'[r] = None /\ \A s \in Readers \ {r} : reader'[s] = reader[s]
  BY <1>1 DEF TypeInv, ShapeInv
<1>3. AnswerInv'
  <2> PICK q, good : q = reader[r] /\ good = lastGood[q.key]
    OBVIOUS
  <2>1. good # None => good.value >= q.floor
    BY <1>1 DEF Seen, FloorInv
  <2>2. answer' = None \/ (good # None /\ answer'.value = good.value /\ answer'.floor = q.floor)
    BY DEF Degrade, AnswerWith
  <2> QED BY <2>1, <2>2 DEF AnswerInv
<1>4. CurrentInv'
  BY <1>1, <1>2 DEF Seen, CurrentInv, Recent, Has
<1> QED BY <1>1, <1>2, <1>3, <1>4 DEF Seen, PurchasesInv, EmptyInv, FloorInv, Has

(* The steps of a writer. *)
LEMMA SeenBegin ==
    ASSUME Sensible, TypeInv, Seen, NEW w \in Writers, BeginWrite(w, "purchase")
    PROVE  Seen'
<1>1. PICK row : row = [todo |-> <<"commit", "bump">>, version |-> 0]
  OBVIOUS
<1>2. writer' = [writer EXCEPT ![w] = row] /\ answer' = None
      /\ UNCHANGED <<version, generation, cache, lastGood, reader, announced>>
  BY <1>1, FirstSteps DEF BeginWrite
<1>3. writer'[w] = row /\ \A v \in Writers \ {w} : writer'[v] = writer[v]
  BY <1>2 DEF TypeInv, ShapeInv
<1>4. row.todo = <<"commit", "bump">> /\ row.todo # <<>>
  BY <1>1
<1>5. CurrentInv'
  BY <1>2, <1>3, <1>4 DEF Seen, CurrentInv, Recent, Has
<1>6. PurchasesInv'
  BY <1>3, <1>4 DEF Seen, PurchasesInv
<1> QED BY <1>2, <1>5, <1>6 DEF Seen, AnswerInv, EmptyInv, FloorInv, Has

LEMMA SeenCommit ==
    ASSUME Sensible, TypeInv, Seen, NEW w \in Writers, Commit(w)
    PROVE  Seen'
<1>1. PICK row, was : row = [todo |-> Tail(was.todo), version |-> version + 1] /\ was = writer[w]
  OBVIOUS
<1>2. was # None /\ was.todo # <<>> /\ Head(was.todo) = "commit"
  BY <1>1 DEF Commit, IsNext
<1>3. was.todo = <<"commit", "bump">>
  <2>1. was.todo \in {<<"commit", "bump">>, <<"bump">>}
    BY <1>1, <1>2 DEF Seen, PurchasesInv
  <2>2. <<"bump">> \in Todos /\ <<"bump">> # <<>>
    BY DEF Todos, OwesBump
  <2>3. Head(<<"bump">>) = "bump"
    BY <2>2, TodoSteps
  <2> QED BY <1>2, <2>1, <2>3
<1>4. row.todo = <<"bump">> /\ row.todo # <<>>
  <2>1. was.todo \in Todos /\ was.todo # <<>>
    BY <1>3 DEF Todos, OwesBump
  <2>2. Tail(was.todo) = <<"bump">>
    BY <1>3, <2>1, TodoSteps
  <2> QED BY <1>1, <2>2
<1>5. writer' = [writer EXCEPT ![w] = row] /\ answer' = None
      /\ UNCHANGED <<generation, cache, lastGood, reader, announced>>
  BY <1>1 DEF Commit
<1>6. writer'[w] = row /\ \A v \in Writers \ {w} : writer'[v] = writer[v]
  BY <1>5 DEF TypeInv, ShapeInv
<1>7. CurrentInv'
  BY <1>4, <1>5, <1>6 DEF Seen, CurrentInv, Recent, Has
<1>8. PurchasesInv'
  BY <1>4, <1>6 DEF Seen, PurchasesInv
<1> QED BY <1>5, <1>7, <1>8 DEF Seen, AnswerInv, EmptyInv, FloorInv, Has

(* A bump begins a generation nothing is kept for, after the commit. *)
LEMMA SeenBump ==
    ASSUME Sensible, TypeInv, TypeInv', Seen, NEW w \in Writers, Bump(w)
    PROVE  Seen'
<1>1. PICK row, was : row = [was EXCEPT !.todo = Tail(was.todo)] /\ was = writer[w]
  OBVIOUS
<1>2. was # None /\ was.todo # <<>> /\ Head(was.todo) = "bump" /\ was \in Pending
  BY <1>1 DEF Bump, IsNext, TypeInv, ShapeInv
<1>3. was.todo = <<"bump">>
  <2>1. was.todo \in {<<"commit", "bump">>, <<"bump">>}
    BY <1>1, <1>2 DEF Seen, PurchasesInv
  <2>2. <<"commit", "bump">> \in Todos /\ <<"commit", "bump">> # <<>>
    BY DEF Todos, OwesBump
  <2>3. Head(<<"commit", "bump">>) = "commit"
    BY <2>2, TodoSteps
  <2> QED BY <1>2, <2>1, <2>3
<1>4. row.todo = <<>>
  <2>1. was.todo \in Todos /\ was.todo # <<>>
    BY <1>2 DEF Pending
  <2>2. Tail(was.todo) = <<>>
    BY <1>3, <2>1, TodoSteps
  <2> QED BY <1>1, <1>2, <2>2 DEF Pending
<1>5. writer' = [writer EXCEPT ![w] = row] /\ answer' = None /\ generation' = generation + 1
      /\ UNCHANGED <<version, lastGood, reader, announced>>
  BY <1>1 DEF Bump
<1>6. writer'[w] = row /\ \A v \in Writers \ {w} : writer'[v] = writer[v]
  BY <1>5 DEF TypeInv, ShapeInv
<1>7. generation' \in Generations /\ generation' > generation /\ generation \in Nat
  <2> PICK owed : owed = Cardinality(Owing(OwesBump))'
    OBVIOUS
  <2>1. IsFiniteSet(Owing(OwesBump))' /\ generation' + owed <= writes'
    BY DEF TypeInv, CounterInv, Within
  <2>2. owed \in Nat
    BY <2>1, FS_CardinalityType
  <2>3. generation \in Nat /\ generation' \in Nat /\ writes' \in 0..MaxWrites
    BY DEF TypeInv, CounterInv
  <2> QED BY <1>5, <2>1, <2>2, <2>3 DEF Sensible, Generations
<1>8. \A p \in Places, g \in Generations : cache'[p][g] \in {cache[p][g], None}
  BY DEF Bump
<1>9. EmptyInv'
  BY <1>5, <1>7, <1>8, NumbersAre DEF Seen, EmptyInv, Generations
<1>10. CurrentInv'
  <2>1. lastGood'[generation'] = None /\ \A p \in Places : cache'[p][generation'] = None
    BY <1>5, <1>7, <1>8 DEF Seen, EmptyInv
  <2>2. \A r \in Readers : reader'[r] # None => reader'[r].key # generation'
    BY <1>5, <1>7, NumbersAre DEF Seen, EmptyInv
  <2> QED BY <2>1, <2>2 DEF CurrentInv, Has
<1>11. PurchasesInv'
  BY <1>4, <1>6 DEF Seen, PurchasesInv
<1> QED BY <1>5, <1>9, <1>10, <1>11 DEF Seen, AnswerInv, FloorInv, Has

(* A writer is answered whose version is recent already. *)
LEMMA SeenAnswer ==
    ASSUME Sensible, TypeInv, Seen, NEW w \in Writers, AnswerWrite(w)
    PROVE  Seen'
<1>1. /\ writer[w] # None /\ writer[w].todo = <<>> /\ writer' = [writer EXCEPT ![w] = None]
      /\ announced' = IF writer[w].version > announced THEN writer[w].version ELSE announced
      /\ answer' = None /\ UNCHANGED <<version, generation, cache, lastGood, reader>>
  BY DEF AnswerWrite
<1>2. writer'[w] = None /\ \A v \in Writers \ {w} : writer'[v] = writer[v]
  BY <1>1 DEF TypeInv, ShapeInv
<1>3. CurrentInv'
  BY <1>1, <1>2 DEF Seen, CurrentInv, Recent, Has
<1>4. announced' >= announced /\ announced' \in Nat
  BY <1>1, NumbersAre
<1>5. FloorInv'
  BY <1>1, <1>4, NumbersAre DEF Seen, FloorInv, Has
<1>6. PurchasesInv'
  BY <1>2 DEF Seen, PurchasesInv
<1> QED BY <1>1, <1>3, <1>5, <1>6 DEF Seen, AnswerInv, EmptyInv

LEMMA SeenNext == Sensible /\ TypeInv /\ SeenInv /\ [Next]_vars => SeenInv'
<1> SUFFICES ASSUME Sensible, TypeInv, SeenInv, [Next]_vars, kinds' \subseteq {"purchase"}
             PROVE  Seen'
  BY DEF SeenInv, Seen
<1>1. kinds \subseteq kinds'
  BY DEF Next, vars, AskReport, AskList, Ask, Read, Store, Degrade, Evict, BeginWrite, Commit,
         Bump, AnswerWrite, Tick
<1>2. Seen /\ TypeInv'
  BY <1>1, TypeNext DEF SeenInv, Seen
<1>3. CASE UNCHANGED vars
  <2>1. CurrentInv'
    BY <1>2, <1>3 DEF vars, Seen, CurrentInv, Recent, Has
  <2> QED BY <1>2, <1>3, <2>1 DEF vars, Seen, AnswerInv, PurchasesInv, EmptyInv, FloorInv, Has
<1>4. ASSUME NEW r \in Readers,
             AskReport(r) \/ AskList(r) \/ Read(r) \/ Store(r) \/ Degrade(r)
      PROVE  Seen'
  BY <1>2, <1>4, SeenAsk, SeenRead, SeenStore, SeenDegrade DEF AskReport, AskList
<1>5. ASSUME NEW p \in Places, NEW g \in Generations, Evict(p, g) PROVE Seen'
  <2>1. generation \in Generations
    BY KeysInRange
  <2> QED BY <1>2, <1>5, <2>1, SeenQuiet DEF Evict, TypeInv, ShapeInv
<1>6. CASE Tick
  <2>1. generation \in Generations
    BY KeysInRange
  <2> QED BY <1>2, <1>6, <2>1, SeenQuiet DEF Tick
<1>7. ASSUME NEW w \in Writers, NEW k \in WriteKinds, BeginWrite(w, k) PROVE Seen'
  <2>1. k = "purchase"
    BY <1>7 DEF BeginWrite
  <2> QED BY <1>2, <1>7, <2>1, SeenBegin
<1>8. ASSUME NEW w \in Writers, Commit(w) \/ Bump(w) \/ AnswerWrite(w) PROVE Seen'
  BY <1>2, <1>8, SeenCommit, SeenBump, SeenAnswer
<1> QED BY <1>3, <1>4, <1>5, <1>6, <1>7, <1>8 DEF Next

(* Whoever was told that a purchase is saved sees it in every report and list *)
(* asked for afterwards, however slow requests store what they read before:   *)
(* they store it under the generation they began with.                       *)
THEOREM SavedIsSeen == Sensible => (Spec => []ReadsSeePurchases)
<1> SUFFICES ASSUME Sensible PROVE Spec => []ReadsSeePurchases
  OBVIOUS
<1>1. Init => SeenInv
  <2> SUFFICES ASSUME Init PROVE Seen
    BY DEF SeenInv
  <2>1. 0 \in Generations /\ generation = 0
    BY DEF Init, Sensible, Generations
  <2>2. /\ \A r \in Readers : reader[r] = None
        /\ \A w \in Writers : writer[w] = None
        /\ \A g \in Generations : lastGood[g] = None /\ \A p \in Places : cache[p][g] = None
    BY DEF Init
  <2>3. AnswerInv
    BY DEF Init, AnswerInv
  <2> QED BY <2>1, <2>2, <2>3 DEF Seen, PurchasesInv, CurrentInv, EmptyInv, FloorInv, Has
<1>2. TypeInv /\ SeenInv /\ [Next]_vars => (TypeInv /\ SeenInv)'
  BY TypeNext, SeenNext
<1>3. SeenInv => ReadsSeePurchases
  BY DEF SeenInv, Seen, AnswerInv, ReadsSeePurchases
<1> QED BY <1>1, <1>2, <1>3, TypeInit, PTL DEF Spec
=============================================================================
