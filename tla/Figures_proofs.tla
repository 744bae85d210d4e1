---------------------------- MODULE Figures_proofs ----------------------------
(***************************************************************************)
(* Theorems about the components that count and add up: the reports over   *)
(* purchase lines, the pages of the stock, and the audits of the stock; for *)
(* any bills, items, suppliers, days, counts and thresholds.  The reports  *)
(* are extended, the others are instances: the names two of them have in   *)
(* common (Items, item, day, changes) are one name in this text only, and  *)
(* no theorem is about two components at once.                             *)
(***************************************************************************)
EXTENDS Reports, FiniteSetTheorems, TLAPS

CONSTANTS MaxDay,
          Units, KgPerBag, Levels, Quantities, DelayDays, TruckDays, \* StockViews
          Workers, Audits, Opening, Counts, Used, ApprovalUnits, ApprovalShare,
          MaxRequests, MaxMoves, NoLine, NoLog                  \* StockCounts

VARIABLES purchase, bought, used, net, count, reorder, day,
          stock, audits, delivered, logs, moves, request, requests

Views == INSTANCE StockViews
Counting == INSTANCE StockCounts

-----------------------------------------------------------------------------
(* Sums over finite sets.                                                    *)
-----------------------------------------------------------------------------
(* Sums over finite sets, by the recursion MapThenSumSet makes.              *)

Pick(s) == CHOOSE x \in s : TRUE
IsIter(g, w, S) ==
    g = [s \in SUBSET S |-> IF s = {} THEN 0 ELSE w[Pick(s)] + g[s \ {Pick(s)}]]
Iter(w, S) == CHOOSE g : IsIter(g, w, S)
SumOver(w, S) == Iter(w, S)[S]

(* Induction over a finite set: a failure is one at a smallest subset.       *)
LEMMA SmallestSet ==
    ASSUME NEW S, IsFiniteSet(S), NEW Bad \in SUBSET (SUBSET S), Bad # {}
    PROVE  \E T \in Bad : IsFiniteSet(T) /\ \A U \in SUBSET T : U # T => U \notin Bad
<1>1. Bad \subseteq FiniteSubsetsOf(S)
  BY FS_Subset DEF FiniteSubsetsOf
<1>2. PICK T \in Bad : \A U \in Bad : <<U, T>> \notin StrictSubsetOrdering(S)
  BY <1>1, FS_StrictSubsetOrderingWellFounded, WFMin
<1>3. T \subseteq S /\ IsFiniteSet(T)
  BY FS_Subset
<1>4. ASSUME NEW U \in SUBSET T, U # T, U \in Bad PROVE FALSE
  BY <1>2, <1>3, <1>4 DEF StrictSubsetOrdering
<1> QED BY <1>3, <1>4

LEMMA Picked == \A s : s # {} => Pick(s) \in s /\ s \ {Pick(s)} # s
BY DEF Pick

LEMMA IterStep ==
    ASSUME NEW S, NEW w, NEW g, IsIter(g, w, S)
    PROVE  /\ g[{}] = 0
           /\ \A s \in SUBSET S : s # {} => g[s] = w[Pick(s)] + g[s \ {Pick(s)}]
BY DEF IsIter

LEMMA IterUnique ==
    ASSUME NEW S, NEW T, NEW w, NEW v, NEW g, NEW h, IsIter(g, w, S), IsIter(h, v, T),
           NEW A \in SUBSET S, A \subseteq T, IsFiniteSet(A), \A x \in A : w[x] = v[x]
    PROVE  g[A] = h[A]
<1> DEFINE Bad == {s \in SUBSET A : g[s] # h[s]}
<1> SUFFICES ASSUME Bad # {} PROVE FALSE
  OBVIOUS
<1>0. Bad \in SUBSET (SUBSET A)
  OBVIOUS
<1>1. PICK s \in Bad : \A U \in SUBSET s : U # s => U \notin Bad
  <2> HIDE DEF Bad
  <2> QED BY <1>0, SmallestSet
<1>2. s \in SUBSET A /\ g[s] # h[s]
  OBVIOUS
<1> HIDE DEF Bad
<1>3. s # {}
  BY <1>2, IterStep
<1>4. Pick(s) \in s /\ s \ {Pick(s)} # s
  BY <1>3, Picked
<1>5. g[s \ {Pick(s)}] = h[s \ {Pick(s)}]
  BY <1>1, <1>2, <1>4 DEF Bad
<1>6. s \in SUBSET S /\ s \in SUBSET T
  BY <1>2
<1>7. g[s] = w[Pick(s)] + g[s \ {Pick(s)}]
  BY <1>3, <1>6, IterStep
<1>8. h[s] = v[Pick(s)] + h[s \ {Pick(s)}]
  BY <1>3, <1>6 DEF IsIter
<1>9. w[Pick(s)] = v[Pick(s)]
  BY <1>2, <1>4
<1> QED BY <1>2, <1>5, <1>7, <1>8, <1>9

LEMMA IterExists ==
    ASSUME NEW S, IsFiniteSet(S), NEW w
    PROVE  IsIter(Iter(w, S), w, S)
<1> DEFINE Bad == {T \in SUBSET S : ~ IsIter(Iter(w, T), w, T)}
<1> SUFFICES ASSUME Bad # {} PROVE FALSE
  OBVIOUS
<1>0. Bad \in SUBSET (SUBSET S)
  OBVIOUS
<1>1. PICK T \in Bad : IsFiniteSet(T) /\ \A U \in SUBSET T : U # T => U \notin Bad
  <2> HIDE DEF Bad
  <2> QED BY <1>0, SmallestSet
<1>2. T \in SUBSET S /\ ~ IsIter(Iter(w, T), w, T)
  OBVIOUS
<1>3. \A U \in SUBSET T : U # T => IsIter(Iter(w, U), w, U) /\ IsFiniteSet(U)
  BY <1>1, <1>2, FS_Subset
<1> HIDE DEF Bad
<1> DEFINE rest(s) == s \ {Pick(s)}
<1> DEFINE G == [s \in SUBSET T |-> IF s = {} THEN 0
                                   ELSE w[Pick(s)] + Iter(w, rest(s))[rest(s)]]
<1>4. ASSUME NEW s \in SUBSET T, s # {} PROVE G[rest(s)] = Iter(w, rest(s))[rest(s)]
  <2> DEFINE u == rest(s)
  <2>1. u \in SUBSET T /\ u # T
    BY <1>4, Picked
  <2>2. IsIter(Iter(w, u), w, u) /\ IsFiniteSet(u)
    BY <2>1, <1>3
  <2> HIDE DEF u
  <2>3. CASE u = {}
    <3>1. Iter(w, u)[u] = 0
      BY <2>2, <2>3, IterStep
    <3> QED BY <2>1, <2>3, <3>1 DEF u
  <2>4. CASE u # {}
    <3>1. Iter(w, u)[u] = w[Pick(u)] + Iter(w, u)[rest(u)]
      BY <2>2, <2>4, IterStep
    <3>2. rest(u) \in SUBSET T /\ rest(u) # T /\ rest(u) \in SUBSET u
      BY <2>1, <2>4, Picked
    <3>3. IsIter(Iter(w, rest(u)), w, rest(u)) /\ IsFiniteSet(rest(u))
      BY <1>3, <3>2
    <3>4. Iter(w, u)[rest(u)] = Iter(w, rest(u))[rest(u)]
      BY <2>2, <3>2, <3>3, IterUnique
    <3>5. G[u] = w[Pick(u)] + Iter(w, rest(u))[rest(u)]
      BY <2>1, <2>4
    <3> QED BY <3>1, <3>4, <3>5 DEF u
  <2> QED BY <2>3, <2>4
<1>5. IsIter(G, w, T)
  <2>1. \A s \in SUBSET T : G[s] = IF s = {} THEN 0 ELSE w[Pick(s)] + G[s \ {Pick(s)}]
    BY <1>4
  <2> QED BY <2>1 DEF IsIter
<1> QED BY <1>2, <1>5 DEF Iter

LEMMA SumSame ==
    ASSUME NEW S, IsFiniteSet(S), NEW w, NEW v, \A x \in S : w[x] = v[x]
    PROVE  SumOver(w, S) = SumOver(v, S)
<1>1. IsIter(Iter(w, S), w, S) /\ IsIter(Iter(v, S), v, S)
  BY IterExists
<1> QED BY <1>1, IterUnique DEF SumOver

LEMMA SumEmpty == \A w : SumOver(w, {}) = 0
<1> TAKE w
<1>1. IsIter(Iter(w, {}), w, {})
  BY IterExists, FS_EmptySet
<1> QED BY <1>1, IterStep DEF SumOver

LEMMA SumPick ==
    ASSUME NEW S, IsFiniteSet(S), S # {}, NEW w
    PROVE  SumOver(w, S) = w[Pick(S)] + SumOver(w, S \ {Pick(S)})
<1> DEFINE R == S \ {Pick(S)}
<1>1. IsFiniteSet(R) /\ R \in SUBSET S
  BY FS_Subset
<1>2. IsIter(Iter(w, S), w, S) /\ IsIter(Iter(w, R), w, R)
  BY <1>1, IterExists
<1>3. Iter(w, S)[S] = w[Pick(S)] + Iter(w, S)[R]
  BY <1>2, IterStep
<1>4. Iter(w, S)[R] = Iter(w, R)[R]
  BY <1>1, <1>2, IterUnique
<1> QED BY <1>3, <1>4 DEF SumOver

LEMMA SumRemove ==
    ASSUME NEW S, IsFiniteSet(S), NEW w, NEW a \in S, \A x \in S : w[x] \in Int
    PROVE  /\ SumOver(w, S \ {a}) \in Int
           /\ SumOver(w, S) = w[a] + SumOver(w, S \ {a})
<1> DEFINE Fine(T) == /\ SumOver(w, T) \in Int
                      /\ \A x \in T : /\ SumOver(w, T \ {x}) \in Int
                                     /\ SumOver(w, T) = w[x] + SumOver(w, T \ {x})
<1> DEFINE Bad == {T \in SUBSET S : ~ Fine(T)}
<1> SUFFICES ASSUME Bad # {} PROVE FALSE
  BY S \in SUBSET S
<1>0. Bad \in SUBSET (SUBSET S)
  OBVIOUS
<1>1. PICK T \in Bad : IsFiniteSet(T) /\ \A U \in SUBSET T : U # T => U \notin Bad
  <2> HIDE DEF Bad
  <2> QED BY <1>0, SmallestSet
<1>2. T \in SUBSET S /\ ~ Fine(T) /\ IsFiniteSet(T)
  BY <1>1
<1>3. \A U \in SUBSET T : U # T => Fine(U) /\ IsFiniteSet(U)
  BY <1>1, <1>2, FS_Subset
<1> HIDE DEF Bad
<1>4. T # {}
  BY <1>2, SumEmpty
<1> DEFINE c == Pick(T)
<1>5. c \in T
  BY <1>4, Picked
<1>6. SumOver(w, T) = w[c] + SumOver(w, T \ {c})
  BY <1>2, <1>4, SumPick
<1> HIDE DEF c
<1>7. Fine(T \ {c})
  BY <1>3, <1>5
<1>8. SumOver(w, T) \in Int
  BY <1>2, <1>5, <1>6, <1>7
<1>9. ASSUME NEW x \in T
      PROVE  SumOver(w, T \ {x}) \in Int /\ SumOver(w, T) = w[x] + SumOver(w, T \ {x})
  <2>1. CASE x = c
    BY <2>1, <1>6, <1>7
  <2>2. CASE x # c
    <3> DEFINE Rest == (T \ {c}) \ {x}
    <3>1. Fine(T \ {x})
      BY <1>3
    <3>2. SumOver(w, T \ {c}) = w[x] + SumOver(w, Rest) /\ SumOver(w, Rest) \in Int
      BY <1>7, <2>2
    <3>3. (T \ {x}) \ {c} = Rest
      OBVIOUS
    <3>4. SumOver(w, T \ {x}) = w[c] + SumOver(w, Rest)
      BY <1>5, <2>2, <3>1, <3>3
    <3>5. w[c] \in Int /\ w[x] \in Int
      BY <1>2, <1>5
    <3> HIDE DEF Rest
    <3> QED BY <1>6, <3>1, <3>2, <3>4, <3>5
  <2> QED BY <2>1, <2>2
<1> QED BY <1>2, <1>8, <1>9

LEMMA SumType ==
    ASSUME NEW S, IsFiniteSet(S), NEW w, \A x \in S : w[x] \in Int
    PROVE  SumOver(w, S) \in Int
<1>1. CASE S = {}
  BY <1>1, SumEmpty
<1>2. CASE S # {}
  <2>1. PICK a \in S : TRUE
    BY <1>2
  <2>2. SumOver(w, S) = w[a] + SumOver(w, S \ {a}) /\ SumOver(w, S \ {a}) \in Int
    BY SumRemove
  <2> QED BY <2>2
<1> QED BY <1>1, <1>2

LEMMA SumSplit ==
    ASSUME NEW S, IsFiniteSet(S), NEW w, \A x \in S : w[x] \in Int, NEW A \in SUBSET S
    PROVE  SumOver(w, S) = SumOver(w, A) + SumOver(w, S \ A)
<1> DEFINE Fine(T) == SumOver(w, T) = SumOver(w, T \intersect A) + SumOver(w, T \ A)
<1> DEFINE Bad == {T \in SUBSET S : ~ Fine(T)}
<1> SUFFICES ASSUME Bad # {} PROVE FALSE
  BY S \in SUBSET S, S \intersect A = A
<1>0. Bad \in SUBSET (SUBSET S)
  OBVIOUS
<1>1. PICK T \in Bad : IsFiniteSet(T) /\ \A U \in SUBSET T : U # T => U \notin Bad
  <2> HIDE DEF Bad
  <2> QED BY <1>0, SmallestSet
<1>2. T \in SUBSET S /\ ~ Fine(T) /\ IsFiniteSet(T)
  BY <1>1
<1>3. \A U \in SUBSET T : U # T => Fine(U) /\ IsFiniteSet(U)
  BY <1>1, <1>2, FS_Subset
<1> HIDE DEF Bad
<1>4. T # {}
  <2>1. Fine({})
    <3>1. {} \intersect A = {} /\ {} \ A = {} /\ SumOver(w, {}) = 0
      BY SumEmpty
    <3> QED BY <3>1
  <2> QED BY <1>2, <2>1
<1>5. PICK a \in T : TRUE
  BY <1>4
<1> DEFINE U == T \ {a}
<1>6. Fine(U) /\ IsFiniteSet(U)
  BY <1>3, <1>5
<1>7. /\ IsFiniteSet(T \intersect A) /\ IsFiniteSet(T \ A)
      /\ IsFiniteSet(U \intersect A) /\ IsFiniteSet(U \ A)
  BY <1>2, FS_Subset
<1>8. \A x \in T : w[x] \in Int
  BY <1>2
<1>9. /\ SumOver(w, T) = w[a] + SumOver(w, U)
      /\ SumOver(w, U \intersect A) \in Int /\ SumOver(w, U \ A) \in Int
  BY <1>2, <1>5, <1>7, <1>8, SumRemove, SumType
<1>10. CASE a \in A
  <2>1. (T \intersect A) \ {a} = U \intersect A /\ T \ A = U \ A
    BY <1>10
  <2>2. SumOver(w, T \intersect A) = w[a] + SumOver(w, (T \intersect A) \ {a})
    <3>1. a \in T \intersect A /\ \A x \in T \intersect A : w[x] \in Int
      BY <1>5, <1>8, <1>10
    <3> HIDE DEF U
    <3> QED BY <1>7, <3>1, SumRemove
  <2>3. /\ SumOver(w, T \intersect A) = w[a] + SumOver(w, U \intersect A)
        /\ SumOver(w, T \ A) = SumOver(w, U \ A)
    BY <2>1, <2>2
  <2>4. w[a] \in Int
    BY <1>5, <1>8
  <2> HIDE DEF U
  <2> QED BY <1>2, <1>6, <1>9, <2>3, <2>4
<1>11. CASE a \notin A
  <2>1. (T \ A) \ {a} = U \ A /\ T \intersect A = U \intersect A
    BY <1>11
  <2>2. SumOver(w, T \ A) = w[a] + SumOver(w, (T \ A) \ {a})
    <3>1. a \in T \ A /\ \A x \in T \ A : w[x] \in Int
      BY <1>5, <1>8, <1>11
    <3> HIDE DEF U
    <3> QED BY <1>7, <3>1, SumRemove
  <2>3. /\ SumOver(w, T \ A) = w[a] + SumOver(w, U \ A)
        /\ SumOver(w, T \intersect A) = SumOver(w, U \intersect A)
    BY <2>1, <2>2
  <2>4. w[a] \in Int
    BY <1>5, <1>8
  <2> HIDE DEF U
  <2> QED BY <1>2, <1>6, <1>9, <2>3, <2>4
<1> QED BY <1>10, <1>11

LEMMA SumMinus ==
    ASSUME NEW S, IsFiniteSet(S), NEW u, NEW v, NEW w,
           \A x \in S : v[x] \in Int /\ w[x] \in Int /\ u[x] = v[x] - w[x]
    PROVE  SumOver(u, S) = SumOver(v, S) - SumOver(w, S)
<1> DEFINE Fine(T) == SumOver(u, T) = SumOver(v, T) - SumOver(w, T)
<1> DEFINE Bad == {T \in SUBSET S : ~ Fine(T)}
<1> SUFFICES ASSUME Bad # {} PROVE FALSE
  BY S \in SUBSET S
<1>0. Bad \in SUBSET (SUBSET S)
  OBVIOUS
<1>1. PICK T \in Bad : IsFiniteSet(T) /\ \A U \in SUBSET T : U # T => U \notin Bad
  <2> HIDE DEF Bad
  <2> QED BY <1>0, SmallestSet
<1>2. T \in SUBSET S /\ ~ Fine(T) /\ IsFiniteSet(T)
  BY <1>1
<1>3. \A U \in SUBSET T : U # T => Fine(U)
  BY <1>1, <1>2
<1> HIDE DEF Bad
<1>4. T # {}
  <2>1. SumOver(u, {}) = 0 /\ SumOver(v, {}) = 0 /\ SumOver(w, {}) = 0
    BY SumEmpty
  <2>2. Fine({})
    BY <2>1
  <2> QED BY <1>2, <2>2
<1>5. PICK a \in T : TRUE
  BY <1>4
<1> DEFINE U == T \ {a}
<1>6. Fine(U)
  BY <1>3, <1>5
<1>7. \A x \in T : u[x] \in Int /\ v[x] \in Int /\ w[x] \in Int /\ u[x] = v[x] - w[x]
  BY <1>2
<1>8. SumOver(u, T) = u[a] + SumOver(u, U) /\ SumOver(u, U) \in Int
  BY <1>2, <1>5, <1>7, SumRemove
<1>9. SumOver(v, T) = v[a] + SumOver(v, U) /\ SumOver(v, U) \in Int
  BY <1>2, <1>5, <1>7, SumRemove
<1>10. SumOver(w, T) = w[a] + SumOver(w, U) /\ SumOver(w, U) \in Int
  BY <1>2, <1>5, <1>7, SumRemove
<1> HIDE DEF U
<1> QED BY <1>2, <1>5, <1>6, <1>7, <1>8, <1>9, <1>10

LEMMA SumZero ==
    ASSUME NEW S, IsFiniteSet(S), NEW w, \A x \in S : w[x] = 0
    PROVE  SumOver(w, S) = 0
<1>1. SumOver(w, S) = SumOver(w, S) - SumOver(w, S)
  <2>1. \A x \in S : w[x] \in Int /\ w[x] = w[x] - w[x]
    OBVIOUS
  <2> QED BY <2>1, SumMinus
<1>2. SumOver(w, S) \in Int
  BY SumType
<1> QED BY <1>1, <1>2

(* What counts nothing may be left out.                                      *)
LEMMA SumFilter ==
    ASSUME NEW S, IsFiniteSet(S), NEW w, \A x \in S : w[x] \in Int, NEW A \in SUBSET S,
           \A x \in S \ A : w[x] = 0
    PROVE  SumOver(w, S) = SumOver(w, A)
<1>1. IsFiniteSet(A) /\ IsFiniteSet(S \ A)
  BY FS_Subset
<1>2. SumOver(w, S \ A) = 0 /\ SumOver(w, A) \in Int
  BY <1>1, SumZero, SumType
<1> QED BY <1>2, SumSplit

LEMMA SumNat ==
    ASSUME NEW S, IsFiniteSet(S), NEW w, \A x \in S : w[x] \in Nat
    PROVE  SumOver(w, S) \in Nat
<1> DEFINE Bad == {T \in SUBSET S : SumOver(w, T) \notin Nat}
<1> SUFFICES ASSUME Bad # {} PROVE FALSE
  BY S \in SUBSET S
<1>0. Bad \in SUBSET (SUBSET S)
  OBVIOUS
<1>1. PICK T \in Bad : IsFiniteSet(T) /\ \A U \in SUBSET T : U # T => U \notin Bad
  <2> HIDE DEF Bad
  <2> QED BY <1>0, SmallestSet
<1>2. T \in SUBSET S /\ SumOver(w, T) \notin Nat /\ IsFiniteSet(T)
  BY <1>1
<1>3. \A U \in SUBSET T : U # T => SumOver(w, U) \in Nat
  BY <1>1, <1>2
<1> HIDE DEF Bad
<1>4. T # {}
  BY <1>2, SumEmpty
<1>5. PICK a \in T : TRUE
  BY <1>4
<1>6. SumOver(w, T \ {a}) \in Nat
  BY <1>3, <1>5
<1>7. \A x \in T : w[x] \in Int /\ w[x] \in Nat
  BY <1>2
<1>8. SumOver(w, T) = w[a] + SumOver(w, T \ {a})
  BY <1>2, <1>5, <1>7, SumRemove
<1> QED BY <1>2, <1>5, <1>6, <1>7, <1>8

LEMMA SumPositive ==
    ASSUME NEW S, IsFiniteSet(S), NEW w, \A x \in S : w[x] \in Nat, NEW a \in S, w[a] > 0
    PROVE  SumOver(w, S) > 0
<1>1. SumOver(w, S) = w[a] + SumOver(w, S \ {a})
  BY SumRemove
<1>2. SumOver(w, S \ {a}) \in Nat
  BY FS_Subset, SumNat
<1> QED BY <1>1, <1>2

(* Disjoint parts of a set, by name, and what they make up together.         *)
Parts(S, K, part, all) ==
    /\ \A k \in K : part[k] \subseteq S
    /\ \A k, m \in K : k # m => part[k] \intersect part[m] = {}
    /\ all = UNION {part[k] : k \in K}

(* The sums of the parts add up to the sum of the whole.                     *)
LEMMA SumParts ==
    ASSUME NEW S, IsFiniteSet(S), NEW R, IsFiniteSet(R), NEW part, NEW whole,
           Parts(S, R, part, whole), NEW w, \A x \in S : w[x] \in Int,
           NEW v, \A r \in R : v[r] = SumOver(w, part[r])
    PROVE  SumOver(v, R) = SumOver(w, whole)
<1> USE DEF Parts
<1> DEFINE All(Q) == UNION {part[r] : r \in Q}
<1> DEFINE Fine(Q) == SumOver(v, Q) = SumOver(w, All(Q))
<1> DEFINE Bad == {T \in SUBSET R : ~ Fine(T)}
<1> SUFFICES ASSUME Bad # {} PROVE FALSE
  BY R \in SUBSET R, whole = All(R)
<1>0. Bad \in SUBSET (SUBSET R)
  OBVIOUS
<1>1. PICK T \in Bad : IsFiniteSet(T) /\ \A U \in SUBSET T : U # T => U \notin Bad
  <2> HIDE DEF Bad
  <2> QED BY <1>0, SmallestSet
<1>2. T \in SUBSET R /\ ~ Fine(T) /\ IsFiniteSet(T)
  BY <1>1
<1>3. \A U \in SUBSET T : U # T => Fine(U)
  BY <1>1, <1>2
<1> HIDE DEF Bad
<1>4. T # {}
  <2>1. All({}) = {}
    OBVIOUS
  <2> QED BY <1>2, <2>1, SumEmpty
<1>5. PICK a \in T : TRUE
  BY <1>4
<1> DEFINE U == T \ {a}
<1>6. Fine(U)
  BY <1>3, <1>5
<1>7. /\ All(T) \subseteq S /\ IsFiniteSet(All(T)) /\ part[a] \subseteq All(T)
      /\ All(T) \ part[a] = All(U)
  <2>1. All(T) \subseteq S /\ part[a] \subseteq All(T)
    BY <1>2, <1>5
  <2>2. All(T) \ part[a] = All(U)
    BY <1>2, <1>5
  <2> QED BY <2>1, <2>2, FS_Subset
<1> HIDE DEF U, All
<1>8. SumOver(w, All(T)) = SumOver(w, part[a]) + SumOver(w, All(T) \ part[a])
  <2>1. \A x \in All(T) : w[x] \in Int
    BY <1>7
  <2> QED BY <1>7, <2>1, SumSplit
<1>9. ASSUME NEW r \in R PROVE v[r] \in Int
  <2>1. IsFiniteSet(part[r]) /\ \A x \in part[r] : w[x] \in Int
    BY FS_Subset
  <2>2. SumOver(w, part[r]) \in Int
    BY <2>1, SumType
  <2> QED BY <2>2
<1>10. SumOver(v, T) = v[a] + SumOver(v, U)
  BY <1>2, <1>5, <1>9, SumRemove DEF U
<1> QED BY <1>2, <1>5, <1>6, <1>7, <1>8, <1>10

-----------------------------------------------------------------------------
(* Reports: the breakdowns of a period.                                      *)

LEMMA SumOfAmount ==
    ASSUME NEW S PROVE Sum(Amount, S) = SumOver([r \in S |-> Amount(r)], S)
<1>1. ASSUME NEW g
      PROVE  IsIter(g, [r \in S |-> Amount(r)], S)
                <=> g = [s \in SUBSET S |-> IF s = {} THEN 0
                                            ELSE Amount(Pick(s)) + g[s \ {Pick(s)}]]
  BY DEF IsIter, Pick
<1> QED BY <1>1 DEF Sum, MapThenSumSet, MapThenFoldSet, SumOver, Iter, Pick

LEMMA AmountsSum ==
    ASSUME NEW S PROVE Amounts(S) = SumOver([r \in S |-> r.totals.amount], S)
<1>1. ASSUME NEW g
      PROVE  IsIter(g, [r \in S |-> r.totals.amount], S)
                <=> g = [s \in SUBSET S |-> IF s = {} THEN 0
                                            ELSE Pick(s).totals.amount + g[s \ {Pick(s)}]]
  BY DEF IsIter, Pick
<1> QED BY <1>1 DEF Amounts, Sum, MapThenSumSet, MapThenFoldSet, SumOver, Iter, Pick

(* What is mapped from a finite set is finite.                               *)
LEMMA ImageFinite ==
    ASSUME NEW S, IsFiniteSet(S), NEW f, f = [x \in S |-> f[x]]
    PROVE  IsFiniteSet({f[x] : x \in S})
<1> DEFINE T == {f[x] : x \in S}
<1>1. f \in Surjection(S, T)
  BY DEF Surjection
<1> QED BY <1>1, FS_Surjection

(* f gives each name in K the row of B for it.                               *)
Named(K, f, B) ==
    /\ f = [k \in K |-> f[k]]
    /\ \A k, m \in K : f[k] = f[m] => k = m
    /\ B = {f[k] : k \in K}
Adds(K, f, v, w, part) == \A k \in K : v[f[k]] = SumOver(w, part[k])

LEMMA SumFamily ==
    ASSUME NEW S, IsFiniteSet(S), NEW w, \A x \in S : w[x] \in Int,
           NEW K, IsFiniteSet(K), NEW part, NEW whole, Parts(S, K, part, whole),
           NEW f, NEW B, Named(K, f, B), NEW v, Adds(K, f, v, w, part)
    PROVE  IsFiniteSet(B) /\ SumOver(v, B) = SumOver(w, whole)
<1>1. IsFiniteSet(B)
  BY ImageFinite DEF Named
<1> DEFINE of == [b \in B |-> part[CHOOSE k \in K : f[k] = b]]
<1>2. \A k \in K : f[k] \in B /\ of[f[k]] = part[k]
  BY DEF Named
<1>3. \A b \in B : \E k \in K : b = f[k] /\ of[b] = part[k]
  BY <1>2 DEF Named
<1> HIDE DEF of
<1>4. \A b \in B : of[b] \subseteq S /\ v[b] = SumOver(w, of[b])
  BY <1>3 DEF Parts, Adds
<1>5. Parts(S, B, of, whole)
  <2>1. \A b, c \in B : b # c => of[b] \intersect of[c] = {}
    BY <1>3 DEF Parts
  <2>2. {of[b] : b \in B} = {part[k] : k \in K}
    BY <1>2, <1>3
  <2> QED BY <1>4, <2>1, <2>2 DEF Parts
<1>6. SumOver(v, B) = SumOver(w, whole)
  BY <1>1, <1>4, <1>5, SumParts
<1> QED BY <1>1, <1>6

(* GROUP BY: one row for each key that occurs.                               *)
Keyed(S, key, K) == key = [x \in S |-> key[x]] /\ K = {key[x] : x \in S}
Group(S, key, k) == {x \in S : key[x] = k}

LEMMA SumGroups ==
    ASSUME NEW S, IsFiniteSet(S), NEW w, \A x \in S : w[x] \in Int,
           NEW key, NEW K, Keyed(S, key, K), NEW f, NEW B, Named(K, f, B),
           NEW v, \A k \in K : v[f[k]] = SumOver(w, Group(S, key, k))
    PROVE  IsFiniteSet(B) /\ SumOver(v, B) = SumOver(w, S)
<1> DEFINE part == [k \in K |-> Group(S, key, k)]
<1>1. IsFiniteSet(K)
  BY ImageFinite DEF Keyed
<1>2. \A k \in K : part[k] \subseteq S /\ part[k] = Group(S, key, k)
  BY DEF Group
<1>3. \A k, m \in K : k # m => part[k] \intersect part[m] = {}
  BY DEF Group
<1>4. UNION {part[k] : k \in K} = S
  <2>1. \A x \in S : key[x] \in K /\ x \in part[key[x]]
    BY DEF Keyed, Group
  <2> HIDE DEF part
  <2> QED BY <1>2, <2>1
<1> HIDE DEF part
<1>5. Parts(S, K, part, S) /\ Adds(K, f, v, w, part)
  BY <1>2, <1>3, <1>4 DEF Parts, Adds
<1> QED BY <1>1, <1>5, SumFamily

ReportsSensible ==
    /\ IsFiniteSet(Purchases) /\ IsFiniteSet(Items) /\ IsFiniteSet(Brokers)
    /\ \A bill \in Bills : bill \in Purchase /\ IsFiniteSet(bill.lines)
    /\ \E first, last \in Int : Days = first..last
    /\ MaxChanges \in Nat
    /\ None \notin Int \union Items \union Suppliers \union Brokers \union Purchase
    /\ "Uncategorized" \notin Categories

SavedBills == {bill \in Purchase : IsFiniteSet(bill.lines)}
ReportsInv ==
    /\ purchases \in [Purchases -> SavedBills \union {None}]
    /\ item \in [Items -> ItemRow]
    /\ changes \in 0..MaxChanges

LEMMA StatusSet ==
    ASSUME NEW bill \in SavedBills, NEW to \in Statuses, NEW del \in BOOLEAN,
           NEW new, new = [bill EXCEPT !.status = to, !.delivered = del]
    PROVE  new \in SavedBills
<1>1. new \in Purchase
  BY DEF SavedBills, Purchase
<1>2. new.lines = bill.lines
  BY DEF SavedBills, Purchase
<1> QED BY <1>1, <1>2 DEF SavedBills

LEMMA ReportsStep == ReportsSensible /\ ReportsInv /\ [Next]_vars => ReportsInv'
<1> SUFFICES ASSUME ReportsSensible, ReportsInv, [Next]_vars PROVE ReportsInv'
  OBVIOUS
<1>1. CASE UNCHANGED vars
  BY <1>1 DEF vars, ReportsInv
<1>2. ASSUME NEW p \in Purchases, NEW bill \in Bills, Record(p, bill) PROVE ReportsInv'
  BY <1>2 DEF Record, ReportsInv, ReportsSensible, SavedBills
<1>3. ASSUME NEW p \in Purchases, NEW to \in Statuses, SetStatus(p, to) PROVE ReportsInv'
  <2> DEFINE del == purchases[p].delivered /\ to \notin {"cancelled", "deleted"}
             new == [purchases[p] EXCEPT !.status = to, !.delivered = del]
  <2>1. purchases[p] \in SavedBills
    BY <1>3 DEF SetStatus, ReportsInv
  <2>2. new \in SavedBills
    <3>1. del \in BOOLEAN
      OBVIOUS
    <3>2. new = [purchases[p] EXCEPT !.status = to, !.delivered = del]
      OBVIOUS
    <3> HIDE DEF new, del
    <3> QED BY <2>1, <3>1, <3>2, StatusSet
  <2>3. purchases' = [purchases EXCEPT ![p] = new]
    BY <1>3, <2>1 DEF SetStatus, ReportsInv, SavedBills, Purchase
  <2>4. changes' \in 0..MaxChanges /\ item' = item
    <3>1. changes \in 0..MaxChanges /\ MaxChanges \in Nat
      BY DEF ReportsInv, ReportsSensible
    <3>2. changes < MaxChanges /\ changes' = changes + 1 /\ UNCHANGED item
      BY <1>3 DEF SetStatus
    <3> QED BY <3>1, <3>2
  <2> HIDE DEF new
  <2>5. purchases' \in [Purchases -> SavedBills \union {None}]
    BY <2>2, <2>3 DEF ReportsInv
  <2> QED BY <2>4, <2>5 DEF ReportsInv
<1>4. ASSUME NEW p \in Purchases, Deliver(p) PROVE ReportsInv'
  <2> DEFINE new == [purchases[p] EXCEPT !.delivered = TRUE]
  <2>1. purchases[p] \in SavedBills
    BY <1>4 DEF Deliver, ReportsInv
  <2>2. new \in SavedBills
    BY <2>1 DEF SavedBills, Purchase
  <2>3. purchases' = [purchases EXCEPT ![p] = new]
    BY <1>4 DEF Deliver
  <2>4. changes' \in 0..MaxChanges /\ item' = item
    <3>1. changes \in 0..MaxChanges /\ MaxChanges \in Nat
      BY DEF ReportsInv, ReportsSensible
    <3>2. changes < MaxChanges /\ changes' = changes + 1 /\ UNCHANGED item
      BY <1>4 DEF Deliver
    <3> QED BY <3>1, <3>2
  <2> HIDE DEF new
  <2>5. purchases' \in [Purchases -> SavedBills \union {None}]
    BY <2>2, <2>3 DEF ReportsInv
  <2> QED BY <2>4, <2>5 DEF ReportsInv
<1>5. ASSUME NEW i \in Items, NEW row \in ItemRow, Reclassify(i, row) PROVE ReportsInv'
  BY <1>5 DEF Reclassify, ReportsInv, ReportsSensible
<1> QED BY <1>1, <1>2, <1>3, <1>4, <1>5 DEF Next

LEMMA ReportsStart == ReportsSensible /\ Init => ReportsInv
<1> SUFFICES ASSUME ReportsSensible, Init PROVE ReportsInv
  OBVIOUS
<1>1. item \in [Items -> ItemRow]
  <2>1. ASSUME NEW i \in Items PROVE item[i] \in ItemRow
    <3>1. item[i] \in [category : Categories, type : {None}, archived : {FALSE}]
      BY DEF Init
    <3>2. /\ item[i] = [category |-> item[i].category, type |-> item[i].type,
                        archived |-> item[i].archived]
          /\ item[i].category \in Categories /\ item[i].type = None /\ item[i].archived = FALSE
      BY <3>1
    <3>3. None \in Types \union {None} /\ FALSE \in BOOLEAN
      OBVIOUS
    <3> QED BY <3>2, <3>3 DEF ItemRow
  <2>2. item \in [Items -> [category : Categories, type : {None}, archived : {FALSE}]]
    BY DEF Init
  <2> QED BY <2>1, <2>2
<1> QED BY <1>1 DEF Init, ReportsInv, ReportsSensible

LEMMA ReportsInvariant == ReportsSensible => (Spec => []ReportsInv)
<1> SUFFICES ASSUME ReportsSensible PROVE Spec => []ReportsInv
  OBVIOUS
<1>1. Init => ReportsInv
  BY ReportsStart
<1>2. ReportsInv /\ [Next]_vars => ReportsInv'
  BY ReportsStep
<1> QED BY <1>1, <1>2, PTL DEF Spec

-----------------------------------------------------------------------------
LEMMA LineFields ==
    ASSUME NEW l \in Line
    PROVE  /\ l.item \in Items \union {None} /\ l.unit \in {"bag", "box", "kg"}
           /\ l.qty \in Nat /\ l.rate \in Nat /\ l.perKg \in Nat /\ l.weight \in Nat
           /\ l.selling \in Nat \union {None} /\ l.total \in Nat \union {None}
           /\ l.profit \in Int \union {None}
BY DEF Line

LEMMA BillFields ==
    ASSUME ReportsInv, NEW p \in Purchases, purchases[p] # None
    PROVE  /\ purchases[p] \in Purchase /\ IsFiniteSet(purchases[p].lines)
           /\ purchases[p].status \in Statuses /\ purchases[p].day \in Days
           /\ purchases[p].supplier \in Suppliers \union {None}
           /\ purchases[p].broker \in Brokers \union {None}
           /\ purchases[p].delivered \in BOOLEAN /\ purchases[p].lines \subseteq Line
<1>1. purchases[p] \in Purchase /\ IsFiniteSet(purchases[p].lines)
  BY DEF ReportsInv, SavedBills
<1> QED BY <1>1 DEF Purchase

(* Whatever bills are saved, every line and every item keeps what the queries  *)
(* join: a known item or none, quantities and prices that are not negative.   *)
THEOREM ReportsTypeCorrect == ReportsSensible => (Spec => []TypeOK)
<1> SUFFICES ASSUME ReportsSensible PROVE Spec => []TypeOK
  OBVIOUS
<1>1. ReportsInv => TypeOK
  <2> SUFFICES ASSUME ReportsInv PROVE TypeOK
    OBVIOUS
  <2>1. \A l \in Line : IsLine(l)
    BY LineFields DEF IsLine
  <2>2. ASSUME NEW p \in Purchases, purchases[p] # None
        PROVE  LET b == purchases[p]
               IN /\ b.status \in Statuses /\ b.day \in Days /\ b.delivered \in BOOLEAN
                  /\ b.supplier \in Suppliers \union {None} /\ b.broker \in Brokers \union {None}
                  /\ \A l \in b.lines : IsLine(l)
    BY <2>1, <2>2, BillFields
  <2> QED BY <2>2 DEF TypeOK, ReportsInv
<1>2. Spec => []ReportsInv
  BY ReportsInvariant
<1> QED BY <1>1, <1>2, PTL

LEMMA Products == \A m, n \in Nat : m * n \in Nat
OBVIOUS

(* What a joined row holds.                                                  *)
LEMMA RowFields ==
    ASSUME ReportsSensible, ReportsInv, NEW from, NEW to, NEW r \in Rows(from, to)
    PROVE  /\ r[1] \in Purchases /\ InPeriod(r[1], from, to)
           /\ r[2] \in purchases[r[1]].lines /\ r = <<r[1], r[2]>> /\ r[2] \in Line
           /\ Amount(r) \in Nat /\ Qty(r) \in Nat /\ Selling(r) \in Nat /\ Weight(r) \in Nat
           /\ Bags(r) \in Nat /\ Boxes(r) \in Nat /\ Profit(r) \in Int
<1>0. PICK p \in Purchases : InPeriod(p, from, to) /\ \E l \in purchases[p].lines : r = <<p, l>>
  BY DEF Rows
<1>1. PICK l \in purchases[p].lines : r = <<p, l>>
  BY <1>0
<1>2. l \in Line
  BY <1>0, BillFields DEF InPeriod
<1>3. /\ l.qty \in Nat /\ l.rate \in Nat /\ l.perKg \in Nat /\ l.weight \in Nat
      /\ l.selling \in Nat \union {None} /\ l.total \in Nat \union {None}
      /\ l.profit \in Int \union {None}
  BY <1>2, LineFields
<1>4. l.qty * l.weight \in Nat /\ (l.qty * l.weight) * l.perKg \in Nat /\ l.qty * l.rate \in Nat
      /\ (l.selling # None => l.qty * l.selling \in Nat)
  BY <1>3, Products
<1>5. r[2] = l /\ r[1] = p
  BY <1>1
<1>6. Amount(r) \in Nat
  BY <1>3, <1>4, <1>5 DEF Amount, Either
<1>7. Selling(r) \in Nat
  BY <1>3, <1>4, <1>5 DEF Selling
<1>8. Profit(r) \in Int
  <2>1. Selling(r) - Amount(r) \in Int
    BY <1>6, <1>7
  <2> QED BY <1>3, <1>5, <2>1 DEF Profit, Either
<1>9. Qty(r) \in Nat /\ Weight(r) \in Nat /\ Bags(r) \in Nat /\ Boxes(r) \in Nat
  BY <1>3, <1>4, <1>5 DEF Qty, Weight, Bags, Boxes, QtyOf
<1> QED BY <1>0, <1>1, <1>2, <1>5, <1>6, <1>7, <1>8, <1>9

LEMMA RowsFinite ==
    ASSUME ReportsSensible, ReportsInv, NEW from, NEW to
    PROVE  IsFiniteSet(Rows(from, to))
<1> DEFINE Q == {q \in Purchases : InPeriod(q, from, to)}
           f == [q \in Q |-> purchases[q].lines]
           Lines == {f[q] : q \in Q}
<1>1. IsFiniteSet(Q)
  BY FS_Subset DEF ReportsSensible
<1>2. IsFiniteSet(Lines)
  <2>1. f = [q \in Q |-> f[q]]
    OBVIOUS
  <2> HIDE DEF Q, f
  <2> QED BY <1>1, <2>1, ImageFinite
<1>3. \A T \in Lines : IsFiniteSet(T)
  BY BillFields DEF InPeriod
<1>4. IsFiniteSet(Q \X UNION Lines)
  <2> HIDE DEF Q, Lines
  <2>1. IsFiniteSet(UNION Lines)
    BY <1>2, <1>3, FS_UNION
  <2> QED BY <1>1, <2>1, FS_Product
<1>5. Rows(from, to) \in SUBSET (Q \X UNION Lines)
  <2> SUFFICES ASSUME NEW r \in Rows(from, to) PROVE r \in Q \X UNION Lines
    OBVIOUS
  <2>1. r[1] \in Q /\ r[2] \in f[r[1]] /\ r = <<r[1], r[2]>>
    BY RowFields
  <2> QED BY <2>1
<1> HIDE DEF Q, Lines
<1> QED BY <1>4, <1>5, FS_Subset

LEMMA SumOfQty ==
    ASSUME NEW S PROVE Sum(Qty, S) = SumOver([r \in S |-> Qty(r)], S)
<1>1. ASSUME NEW g
      PROVE  IsIter(g, [r \in S |-> Qty(r)], S)
                <=> g = [s \in SUBSET S |-> IF s = {} THEN 0 ELSE Qty(Pick(s)) + g[s \ {Pick(s)}]]
  BY DEF IsIter, Pick
<1> QED BY <1>1 DEF Sum, MapThenSumSet, MapThenFoldSet, SumOver, Iter, Pick

LEMMA SumOfProfit ==
    ASSUME NEW S PROVE Sum(Profit, S) = SumOver([r \in S |-> Profit(r)], S)
<1>1. ASSUME NEW g
      PROVE  IsIter(g, [r \in S |-> Profit(r)], S)
                <=> g = [s \in SUBSET S |-> IF s = {} THEN 0
                                            ELSE Profit(Pick(s)) + g[s \ {Pick(s)}]]
  BY DEF IsIter, Pick
<1> QED BY <1>1 DEF Sum, MapThenSumSet, MapThenFoldSet, SumOver, Iter, Pick

LEMMA SumOfSelling ==
    ASSUME NEW S PROVE Sum(Selling, S) = SumOver([r \in S |-> Selling(r)], S)
<1>1. ASSUME NEW g
      PROVE  IsIter(g, [r \in S |-> Selling(r)], S)
                <=> g = [s \in SUBSET S |-> IF s = {} THEN 0
                                            ELSE Selling(Pick(s)) + g[s \ {Pick(s)}]]
  BY DEF IsIter, Pick
<1> QED BY <1>1 DEF Sum, MapThenSumSet, MapThenFoldSet, SumOver, Iter, Pick

LEMMA QuantitiesSum ==
    ASSUME NEW S PROVE Volumes(S) = SumOver([b \in S |-> b.totals.qty], S)
<1>1. ASSUME NEW g
      PROVE  IsIter(g, [b \in S |-> b.totals.qty], S)
                <=> g = [s \in SUBSET S |-> IF s = {} THEN 0
                                            ELSE Pick(s).totals.qty + g[s \ {Pick(s)}]]
  BY DEF IsIter, Pick
<1> QED BY <1>1 DEF Volumes, Sum, MapThenSumSet, MapThenFoldSet, SumOver, Iter, Pick

LEMMA ProfitsSum ==
    ASSUME NEW S PROVE Profits(S) = SumOver([b \in S |-> b.profit], S)
<1>1. ASSUME NEW g
      PROVE  IsIter(g, [b \in S |-> b.profit], S)
                <=> g = [s \in SUBSET S |-> IF s = {} THEN 0
                                            ELSE Pick(s).profit + g[s \ {Pick(s)}]]
  BY DEF IsIter, Pick
<1> QED BY <1>1 DEF Profits, Sum, MapThenSumSet, MapThenFoldSet, SumOver, Iter, Pick

(* The sums of some rows of a finite set, as sums of one function over it.   *)
LEMMA SumsOfRows ==
    ASSUME NEW R, IsFiniteSet(R), NEW S \in SUBSET R
    PROVE  /\ Sum(Amount, S) = SumOver([r \in R |-> Amount(r)], S)
           /\ Sum(Qty, S) = SumOver([r \in R |-> Qty(r)], S)
           /\ Sum(Profit, S) = SumOver([r \in R |-> Profit(r)], S)
           /\ Sum(Selling, S) = SumOver([r \in R |-> Selling(r)], S)
<1>1. IsFiniteSet(S)
  BY FS_Subset
<1> DEFINE a == [r \in S |-> Amount(r)]   aa == [r \in R |-> Amount(r)]
           q == [r \in S |-> Qty(r)]      qq == [r \in R |-> Qty(r)]
           p == [r \in S |-> Profit(r)]   pp == [r \in R |-> Profit(r)]
           s == [r \in S |-> Selling(r)]  ss == [r \in R |-> Selling(r)]
<1>2. \A r \in S : a[r] = aa[r] /\ q[r] = qq[r] /\ p[r] = pp[r] /\ s[r] = ss[r]
  OBVIOUS
<1>3. /\ Sum(Amount, S) = SumOver(a, S) /\ Sum(Qty, S) = SumOver(q, S)
      /\ Sum(Profit, S) = SumOver(p, S) /\ Sum(Selling, S) = SumOver(s, S)
  BY SumOfAmount, SumOfQty, SumOfProfit, SumOfSelling
<1> HIDE DEF a, aa, q, qq, p, pp, s, ss
<1>4. /\ SumOver(a, S) = SumOver(aa, S) /\ SumOver(q, S) = SumOver(qq, S)
      /\ SumOver(p, S) = SumOver(pp, S) /\ SumOver(s, S) = SumOver(ss, S)
  BY <1>1, <1>2, SumSame
<1> QED BY <1>3, <1>4 DEF a, aa, q, qq, p, pp, s, ss

(* The rows are joined rows of a period.                                     *)
IsRows(S) == IsFiniteSet(S) /\ \A r \in S : Amount(r) \in Nat /\ Qty(r) \in Nat
                                            /\ Selling(r) \in Nat /\ Profit(r) \in Int

LEMMA RowsAreRows ==
    ASSUME ReportsSensible, ReportsInv, NEW from, NEW to
    PROVE  \A S \in SUBSET Rows(from, to) : IsRows(S)
<1> TAKE S \in SUBSET Rows(from, to)
<1>1. IsFiniteSet(S)
  BY RowsFinite, FS_Subset
<1> QED BY <1>1, RowFields DEF IsRows

(* The groups of GROUP BY, and the rows a report shows for them.             *)
Groups(S, key, K) == {[key |-> k, rows |-> Group(S, key, k)] : k \in K}
Shown(G, h, B) ==
    /\ h = [g \in G |-> h[g]]
    /\ \A g, o \in G : h[g] = h[o] => g.key = o.key
    /\ B = {h[g] : g \in G}

LEMMA SumOfGroups ==
    ASSUME NEW S, IsFiniteSet(S), NEW w, \A x \in S : w[x] \in Int,
           NEW key, NEW K, Keyed(S, key, K), NEW h, NEW B, Shown(Groups(S, key, K), h, B),
           NEW v, \A g \in Groups(S, key, K) : v[h[g]] = SumOver(w, g.rows)
    PROVE  IsFiniteSet(B) /\ SumOver(v, B) = SumOver(w, S)
<1> DEFINE group(k) == [key |-> k, rows |-> Group(S, key, k)]
           f == [k \in K |-> h[group(k)]]
<1>1. Groups(S, key, K) = {group(k) : k \in K}
  BY DEF Groups
<1>2. \A k \in K : group(k).key = k /\ group(k).rows = Group(S, key, k)
  OBVIOUS
<1> HIDE DEF group
<1>3. Named(K, f, B)
  <2>1. B = {f[k] : k \in K}
    <3>1. B = {h[g] : g \in {group(k) : k \in K}}
      BY <1>1 DEF Shown
    <3> QED BY <3>1
  <2>2. \A k, l \in K : f[k] = f[l] => k = l
    <3> TAKE k \in K, l \in K
    <3> HAVE f[k] = f[l]
    <3>1. group(k) \in Groups(S, key, K) /\ group(l) \in Groups(S, key, K)
      BY <1>1
    <3>2. h[group(k)] = h[group(l)]
      OBVIOUS
    <3>3. group(k).key = group(l).key
      BY <3>1, <3>2 DEF Shown
    <3> QED BY <3>3, <1>2
  <2> QED BY <2>1, <2>2 DEF Named
<1>4. \A k \in K : v[f[k]] = SumOver(w, Group(S, key, k))
  BY <1>1, <1>2
<1> HIDE DEF f
<1> QED BY <1>3, <1>4, SumGroups

(* Any grouping of rows adds up to the rows.                                 *)
LEMMA GroupedAmounts ==
    ASSUME NEW S, IsRows(S), NEW key, NEW K, Keyed(S, key, K),
           NEW h, NEW B, Shown(Groups(S, key, K), h, B)
    PROVE  /\ (\A g \in Groups(S, key, K) : h[g].totals.amount = Sum(Amount, g.rows))
                 => Amounts(B) = Sum(Amount, S)
           /\ (\A g \in Groups(S, key, K) : h[g].totals.qty = Sum(Qty, g.rows))
                 => Volumes(B) = Sum(Qty, S)
           /\ (\A g \in Groups(S, key, K) : h[g].profit = Sum(Profit, g.rows))
                 => Profits(B) = Sum(Profit, S)
           /\ (\A g \in Groups(S, key, K) :
                  h[g].profit = Sum(Selling, g.rows) - Sum(Amount, g.rows))
                 => Profits(B) = Sum(Selling, S) - Sum(Amount, S)
<1> DEFINE G == Groups(S, key, K)
           aa == [r \in S |-> Amount(r)]
           qq == [r \in S |-> Qty(r)]
           pp == [r \in S |-> Profit(r)]
           ss == [r \in S |-> Selling(r)]
           dd == [r \in S |-> Selling(r) - Amount(r)]
           va == [b \in B |-> b.totals.amount]
           vq == [b \in B |-> b.totals.qty]
           vp == [b \in B |-> b.profit]
<1>1. /\ \A r \in S : /\ aa[r] \in Int /\ qq[r] \in Int /\ pp[r] \in Int /\ ss[r] \in Int
                      /\ dd[r] \in Int /\ dd[r] = ss[r] - aa[r]
      /\ IsFiniteSet(S)
  BY DEF IsRows
<1>2. \A g \in G : h[g] \in B
  BY DEF Shown
<1>3. \A g \in G : va[h[g]] = h[g].totals.amount /\ vq[h[g]] = h[g].totals.qty
                   /\ vp[h[g]] = h[g].profit
  BY <1>2
<1>4. /\ Amounts(B) = SumOver(va, B) /\ Volumes(B) = SumOver(vq, B)
      /\ Profits(B) = SumOver(vp, B)
  BY AmountsSum, QuantitiesSum, ProfitsSum
<1>5. \A T \in SUBSET S : /\ Sum(Amount, T) = SumOver(aa, T) /\ Sum(Qty, T) = SumOver(qq, T)
                          /\ Sum(Profit, T) = SumOver(pp, T) /\ Sum(Selling, T) = SumOver(ss, T)
  BY <1>1, SumsOfRows
<1>6. \A g \in G : g.rows \in SUBSET S /\ IsFiniteSet(g.rows)
  <2>1. \A g \in G : g.rows \in SUBSET S
    BY DEF Groups, Group
  <2> QED BY <1>1, <2>1, FS_Subset
<1> HIDE DEF aa, qq, pp, ss, dd, va, vq, vp, G
<1>7. \A T \in SUBSET S : IsFiniteSet(T) => SumOver(dd, T) = SumOver(ss, T) - SumOver(aa, T)
  BY <1>1, SumMinus
<1>8. ASSUME \A g \in G : h[g].totals.amount = Sum(Amount, g.rows)
      PROVE  Amounts(B) = Sum(Amount, S)
  <2>1. \A g \in G : va[h[g]] = SumOver(aa, g.rows)
    BY <1>3, <1>5, <1>6, <1>8
  <2>2. SumOver(va, B) = SumOver(aa, S)
    BY <1>1, <2>1, SumOfGroups DEF G
  <2> QED BY <1>4, <1>5, <2>2
<1>9. ASSUME \A g \in G : h[g].totals.qty = Sum(Qty, g.rows)
      PROVE  Volumes(B) = Sum(Qty, S)
  <2>1. \A g \in G : vq[h[g]] = SumOver(qq, g.rows)
    BY <1>3, <1>5, <1>6, <1>9
  <2>2. SumOver(vq, B) = SumOver(qq, S)
    BY <1>1, <2>1, SumOfGroups DEF G
  <2> QED BY <1>4, <1>5, <2>2
<1>10. ASSUME \A g \in G : h[g].profit = Sum(Profit, g.rows)
       PROVE  Profits(B) = Sum(Profit, S)
  <2>1. \A g \in G : vp[h[g]] = SumOver(pp, g.rows)
    BY <1>3, <1>5, <1>6, <1>10
  <2>2. SumOver(vp, B) = SumOver(pp, S)
    BY <1>1, <2>1, SumOfGroups DEF G
  <2> QED BY <1>4, <1>5, <2>2
<1>11. ASSUME \A g \in G : h[g].profit = Sum(Selling, g.rows) - Sum(Amount, g.rows)
       PROVE  Profits(B) = Sum(Selling, S) - Sum(Amount, S)
  <2>1. \A g \in G : vp[h[g]] = SumOver(dd, g.rows)
    BY <1>3, <1>5, <1>6, <1>7, <1>11
  <2>2. SumOver(vp, B) = SumOver(dd, S)
    BY <1>1, <2>1, SumOfGroups DEF G
  <2> QED BY <1>1, <1>4, <1>5, <1>7, <2>2
<1> QED BY <1>8, <1>9, <1>10, <1>11 DEF G

LEMMA SupplierRowsShown ==
    ASSUME NEW from, NEW to
    PROVE  \E key, K, h :
              /\ Keyed(Rows(from, to), key, K)
              /\ Shown(Groups(Rows(from, to), key, K), h, SupplierRows(from, to))
              /\ \A r \in Rows(from, to) : key[r] = purchases[r[1]].supplier
              /\ \A g \in Groups(Rows(from, to), key, K) :
                    /\ h[g].supplier = g.key /\ h[g].deals = Deals(g.rows)
                    /\ h[g].totals = TotalsOf(g.rows) /\ h[g].profit = Sum(Profit, g.rows)
<1> DEFINE R == Rows(from, to)
           key == [r \in R |-> purchases[r[1]].supplier]
           K == {key[r] : r \in R}
           G == Groups(R, key, K)
           h == [g \in G |-> [supplier |-> g.key, deals |-> Deals(g.rows),
                              totals |-> TotalsOf(g.rows), profit |-> Sum(Profit, g.rows)]]
           of(k) == [key |-> k, rows |-> {r \in R : purchases[r[1]].supplier = k}]
<1>1. K = {purchases[r[1]].supplier : r \in R}
      /\ \A k \in K : of(k) = [key |-> k, rows |-> Group(R, key, k)]
  BY DEF Group
<1>2. GroupsBy(LAMBDA r : purchases[r[1]].supplier, R) = {of(k) : k \in K}
  BY <1>1 DEF GroupsBy
<1>3. {of(k) : k \in K} = G
  <2> HIDE DEF of, K, R, key
  <2> QED BY <1>1 DEF Groups
<1>4. SupplierRows(from, to) = {h[g] : g \in G}
  <2> HIDE DEF of, K, key, G
  <2> QED BY <1>2, <1>3 DEF SupplierRows
<1>5. Keyed(R, key, K) /\ Shown(G, h, SupplierRows(from, to))
  <2>1. Keyed(R, key, K)
    BY DEF Keyed
  <2> HIDE DEF G, key, K, R
  <2> QED BY <1>4, <2>1 DEF Shown
<1>6. \A r \in R : key[r] = purchases[r[1]].supplier
  OBVIOUS
<1>7. \A g \in G : /\ h[g].supplier = g.key /\ h[g].deals = Deals(g.rows)
                     /\ h[g].totals = TotalsOf(g.rows) /\ h[g].profit = Sum(Profit, g.rows)
  <2> HIDE DEF G
  <2> QED OBVIOUS
<1> HIDE DEF key, K, h, G
<1> QED BY <1>5, <1>6, <1>7 DEF G

LEMMA SupplierRowsAdd ==
    ASSUME ReportsSensible, ReportsInv, NEW from, NEW to
    PROVE  /\ Amounts(SupplierRows(from, to)) = Sum(Amount, Rows(from, to))
           /\ Volumes(SupplierRows(from, to)) = Sum(Qty, Rows(from, to))
           /\ Profits(SupplierRows(from, to)) = Sum(Profit, Rows(from, to))
<1> DEFINE R == Rows(from, to)
<1>1. PICK key, K, h :
          /\ Keyed(R, key, K) /\ Shown(Groups(R, key, K), h, SupplierRows(from, to))
          /\ \A g \in Groups(R, key, K) :
                /\ h[g].supplier = g.key /\ h[g].deals = Deals(g.rows)
                /\ h[g].totals = TotalsOf(g.rows) /\ h[g].profit = Sum(Profit, g.rows)
  BY SupplierRowsShown
<1>2. IsRows(R)
  BY RowsAreRows
<1>3. \A g \in Groups(R, key, K) : /\ h[g].totals.amount = Sum(Amount, g.rows)
                                   /\ h[g].totals.qty = Sum(Qty, g.rows)
                                   /\ h[g].profit = Sum(Profit, g.rows)
  <2> TAKE g \in Groups(R, key, K)
  <2> HIDE DEF R
  <2>1. h[g].totals = TotalsOf(g.rows) /\ h[g].profit = Sum(Profit, g.rows)
    BY <1>1
  <2>2. TotalsOf(g.rows).amount = Sum(Amount, g.rows) /\ TotalsOf(g.rows).qty = Sum(Qty, g.rows)
    BY DEF TotalsOf
  <2> QED BY <2>1, <2>2
<1> HIDE DEF R
<1> QED BY <1>1, <1>2, <1>3, GroupedAmounts DEF R

(* The rows of /trade-items that pass its filters.                           *)
Wanted(from, to, cats, types, sups) ==
    {r \in Rows(from, to) :
       /\ sups # {} => purchases[r[1]].supplier \in sups
       /\ cats # {} => Catalogued(r) /\ item[r[2].item].category \in cats
       /\ types # {} => Catalogued(r) /\ item[r[2].item].type \in types}

LEMMA ItemRowsShown ==
    ASSUME NEW from, NEW to, NEW cats, NEW types, NEW sups
    PROVE  \E key, K, h :
              /\ Keyed(Wanted(from, to, cats, types, sups), key, K)
              /\ Shown(Groups(Wanted(from, to, cats, types, sups), key, K), h,
                       ItemRows(from, to, cats, types, sups))
              /\ \A r \in Wanted(from, to, cats, types, sups) : key[r] = r[2].name
              /\ \A g \in Groups(Wanted(from, to, cats, types, sups), key, K) :
                    /\ h[g].name = g.key
                    /\ h[g].totals = TotalsOf(g.rows)
                    /\ h[g].profit = Sum(Selling, g.rows) - Sum(Amount, g.rows)
<1> DEFINE R == Wanted(from, to, cats, types, sups)
           key == [r \in R |-> r[2].name]
           K == {key[r] : r \in R}
           G == Groups(R, key, K)
           h == [g \in G |-> [name |-> g.key, deals |-> Deals(g.rows), totals |-> TotalsOf(g.rows),
                              selling |-> Sum(Selling, g.rows),
                              profit |-> Sum(Selling, g.rows) - Sum(Amount, g.rows)]]
           of(k) == [key |-> k, rows |-> {r \in R : r[2].name = k}]
<1>1. K = {r[2].name : r \in R}
      /\ \A k \in K : of(k) = [key |-> k, rows |-> Group(R, key, k)]
  BY DEF Group
<1>2. GroupsBy(LAMBDA r : r[2].name, R) = {of(k) : k \in K}
  BY <1>1 DEF GroupsBy
<1>3. {of(k) : k \in K} = G
  <2> HIDE DEF of, K, R, key
  <2> QED BY <1>1 DEF Groups
<1>4. ItemRows(from, to, cats, types, sups) = {h[g] : g \in G}
  <2> HIDE DEF of, K, key, G
  <2> QED BY <1>2, <1>3 DEF ItemRows, Wanted
<1>5. Keyed(R, key, K) /\ Shown(G, h, ItemRows(from, to, cats, types, sups))
  <2>1. Keyed(R, key, K)
    BY DEF Keyed
  <2> HIDE DEF G, key, K, R
  <2> QED BY <1>4, <2>1 DEF Shown
<1>6. \A r \in R : key[r] = r[2].name
  OBVIOUS
<1>7. \A g \in G :
         /\ h[g].name = g.key
         /\ h[g].totals = TotalsOf(g.rows)
         /\ h[g].profit = Sum(Selling, g.rows) - Sum(Amount, g.rows)
  <2> HIDE DEF G
  <2> QED OBVIOUS
<1> HIDE DEF key, K, h, G
<1> QED BY <1>5, <1>6, <1>7 DEF G

LEMMA TypeRowsShown ==
    ASSUME NEW from, NEW to
    PROVE  \E key, K, h :
              /\ Keyed(Rows(from, to), key, K)
              /\ Shown(Groups(Rows(from, to), key, K), h, TypeRows(from, to))
              /\ \A r \in Rows(from, to) : key[r] = <<CategoryOf(r), TypeOf(r)>>
              /\ \A g \in Groups(Rows(from, to), key, K) :
                    /\ h[g].totals = TotalsOf(g.rows)
                    /\ h[g].profit = Sum(Profit, g.rows)
<1> DEFINE R == Rows(from, to)
           key == [r \in R |-> <<CategoryOf(r), TypeOf(r)>>]
           K == {key[r] : r \in R}
           G == Groups(R, key, K)
           h == [g \in G |-> [type |-> g.key, totals |-> TotalsOf(g.rows), profit |-> Sum(Profit, g.rows)]]
           of(k) == [key |-> k, rows |-> {r \in R : <<CategoryOf(r), TypeOf(r)>> = k}]
<1>1. K = {<<CategoryOf(r), TypeOf(r)>> : r \in R}
      /\ \A k \in K : of(k) = [key |-> k, rows |-> Group(R, key, k)]
  BY DEF Group
<1>2. GroupsBy(LAMBDA r : <<CategoryOf(r), TypeOf(r)>>, R) = {of(k) : k \in K}
  BY <1>1 DEF GroupsBy
<1>3. {of(k) : k \in K} = G
  <2> HIDE DEF of, K, R, key
  <2> QED BY <1>1 DEF Groups
<1>4. TypeRows(from, to) = {h[g] : g \in G}
  <2> HIDE DEF of, K, key, G
  <2> QED BY <1>2, <1>3 DEF TypeRows, JoinCatalog
<1>5. Keyed(R, key, K) /\ Shown(G, h, TypeRows(from, to))
  <2>1. Keyed(R, key, K)
    BY DEF Keyed
  <2> HIDE DEF G, key, K, R
  <2> QED BY <1>4, <2>1 DEF Shown
<1>6. \A r \in R : key[r] = <<CategoryOf(r), TypeOf(r)>>
  OBVIOUS
<1>7. \A g \in G :
         /\ h[g].totals = TotalsOf(g.rows)
         /\ h[g].profit = Sum(Profit, g.rows)
  <2> HIDE DEF G
  <2> QED OBVIOUS
<1> HIDE DEF key, K, h, G
<1> QED BY <1>5, <1>6, <1>7 DEF G

LEMMA CategoryRowsShown ==
    ASSUME NEW from, NEW to
    PROVE  \E key, K, h :
              /\ Keyed(Rows(from, to), key, K)
              /\ Shown(Groups(Rows(from, to), key, K), h, CategoryRows(from, to))
              /\ \A r \in Rows(from, to) : key[r] = CategoryOf(r)
              /\ \A g \in Groups(Rows(from, to), key, K) :
                    /\ h[g].category = g.key
                    /\ h[g].lines = Cardinality(g.rows)
                    /\ h[g].totals = TotalsOf(g.rows)
                    /\ h[g].profit = Sum(Profit, g.rows)
<1> DEFINE R == Rows(from, to)
           key == [r \in R |-> CategoryOf(r)]
           K == {key[r] : r \in R}
           G == Groups(R, key, K)
           h == [g \in G |-> [category |-> g.key, lines |-> Cardinality(g.rows), totals |-> TotalsOf(g.rows),
                              items |-> Cardinality({r[2].item : r \in g.rows} \ {None}),
                              profit |-> Sum(Profit, g.rows)]]
           of(k) == [key |-> k, rows |-> {r \in R : CategoryOf(r) = k}]
<1>1. K = {CategoryOf(r) : r \in R}
      /\ \A k \in K : of(k) = [key |-> k, rows |-> Group(R, key, k)]
  BY DEF Group
<1>2. GroupsBy(CategoryOf, R) = {of(k) : k \in K}
  BY <1>1 DEF GroupsBy
<1>3. {of(k) : k \in K} = G
  <2> HIDE DEF of, K, R, key
  <2> QED BY <1>1 DEF Groups
<1>4. CategoryRows(from, to) = {h[g] : g \in G}
  <2> HIDE DEF of, K, key, G
  <2> QED BY <1>2, <1>3 DEF CategoryRows, JoinCatalog
<1>5. Keyed(R, key, K) /\ Shown(G, h, CategoryRows(from, to))
  <2>1. Keyed(R, key, K)
    BY DEF Keyed
  <2> HIDE DEF G, key, K, R
  <2> QED BY <1>4, <2>1 DEF Shown
<1>6. \A r \in R : key[r] = CategoryOf(r)
  OBVIOUS
<1>7. \A g \in G :
         /\ h[g].category = g.key
         /\ h[g].lines = Cardinality(g.rows)
         /\ h[g].totals = TotalsOf(g.rows)
         /\ h[g].profit = Sum(Profit, g.rows)
  <2> HIDE DEF G
  <2> QED OBVIOUS
<1> HIDE DEF key, K, h, G
<1> QED BY <1>5, <1>6, <1>7 DEF G

LEMMA DailyProfitShown ==
    ASSUME NEW from, NEW to
    PROVE  \E key, K, h :
              /\ Keyed(Rows(from, to), key, K)
              /\ Shown(Groups(Rows(from, to), key, K), h, DailyProfit(from, to))
              /\ \A r \in Rows(from, to) : key[r] = purchases[r[1]].day
              /\ \A g \in Groups(Rows(from, to), key, K) :
                    /\ h[g].profit = Sum(Profit, g.rows)
<1> DEFINE R == Rows(from, to)
           key == [r \in R |-> purchases[r[1]].day]
           K == {key[r] : r \in R}
           G == Groups(R, key, K)
           h == [g \in G |-> [day |-> g.key, profit |-> Sum(Profit, g.rows)]]
           of(k) == [key |-> k, rows |-> {r \in R : purchases[r[1]].day = k}]
<1>1. K = {purchases[r[1]].day : r \in R}
      /\ \A k \in K : of(k) = [key |-> k, rows |-> Group(R, key, k)]
  BY DEF Group
<1>2. GroupsBy(LAMBDA r : purchases[r[1]].day, R) = {of(k) : k \in K}
  BY <1>1 DEF GroupsBy
<1>3. {of(k) : k \in K} = G
  <2> HIDE DEF of, K, R, key
  <2> QED BY <1>1 DEF Groups
<1>4. DailyProfit(from, to) = {h[g] : g \in G}
  <2> HIDE DEF of, K, key, G
  <2> QED BY <1>2, <1>3 DEF DailyProfit
<1>5. Keyed(R, key, K) /\ Shown(G, h, DailyProfit(from, to))
  <2>1. Keyed(R, key, K)
    BY DEF Keyed
  <2> HIDE DEF G, key, K, R
  <2> QED BY <1>4, <2>1 DEF Shown
<1>6. \A r \in R : key[r] = purchases[r[1]].day
  OBVIOUS
<1>7. \A g \in G :
         /\ h[g].profit = Sum(Profit, g.rows)
  <2> HIDE DEF G
  <2> QED OBVIOUS
<1> HIDE DEF key, K, h, G
<1> QED BY <1>5, <1>6, <1>7 DEF G

LEMMA ItemRowsAdd ==
    ASSUME ReportsSensible, ReportsInv, NEW from, NEW to, NEW cats, NEW types, NEW sups
    PROVE  /\ Amounts(ItemRows(from, to, cats, types, sups))
                = Sum(Amount, Wanted(from, to, cats, types, sups))
           /\ Volumes(ItemRows(from, to, cats, types, sups))
                = Sum(Qty, Wanted(from, to, cats, types, sups))
           /\ Profits(ItemRows(from, to, cats, types, sups))
                = Sum(Selling, Wanted(from, to, cats, types, sups))
                    - Sum(Amount, Wanted(from, to, cats, types, sups))
<1> DEFINE R == Wanted(from, to, cats, types, sups)
<1>1. PICK key, K, h :
          /\ Keyed(R, key, K) /\ Shown(Groups(R, key, K), h, ItemRows(from, to, cats, types, sups))
          /\ \A g \in Groups(R, key, K) :
                /\ h[g].name = g.key
                /\ h[g].totals = TotalsOf(g.rows)
                /\ h[g].profit = Sum(Selling, g.rows) - Sum(Amount, g.rows)
  BY ItemRowsShown
<1>2. IsRows(R)
  BY RowsAreRows DEF Wanted
<1>3. \A g \in Groups(R, key, K) : /\ h[g].totals.amount = Sum(Amount, g.rows)
                                   /\ h[g].totals.qty = Sum(Qty, g.rows)
                                   /\ h[g].profit = Sum(Selling, g.rows) - Sum(Amount, g.rows)
  <2> TAKE g \in Groups(R, key, K)
  <2> HIDE DEF R
  <2>1. h[g].totals = TotalsOf(g.rows) /\ h[g].profit = Sum(Selling, g.rows) - Sum(Amount, g.rows)
    BY <1>1
  <2>2. TotalsOf(g.rows).amount = Sum(Amount, g.rows) /\ TotalsOf(g.rows).qty = Sum(Qty, g.rows)
    BY DEF TotalsOf
  <2> QED BY <2>1, <2>2
<1> HIDE DEF R
<1> QED BY <1>1, <1>2, <1>3, GroupedAmounts DEF R

LEMMA TypeRowsAdd ==
    ASSUME ReportsSensible, ReportsInv, NEW from, NEW to
    PROVE  /\ Amounts(TypeRows(from, to)) = Sum(Amount, Rows(from, to))
           /\ Volumes(TypeRows(from, to)) = Sum(Qty, Rows(from, to))
           /\ Profits(TypeRows(from, to)) = Sum(Profit, Rows(from, to))
<1> DEFINE R == Rows(from, to)
<1>1. PICK key, K, h :
          /\ Keyed(R, key, K) /\ Shown(Groups(R, key, K), h, TypeRows(from, to))
          /\ \A g \in Groups(R, key, K) :
                /\ h[g].totals = TotalsOf(g.rows)
                /\ h[g].profit = Sum(Profit, g.rows)
  BY TypeRowsShown
<1>2. IsRows(R)
  BY RowsAreRows
<1>3. \A g \in Groups(R, key, K) : /\ h[g].totals.amount = Sum(Amount, g.rows)
                                   /\ h[g].totals.qty = Sum(Qty, g.rows)
                                   /\ h[g].profit = Sum(Profit, g.rows)
  <2> TAKE g \in Groups(R, key, K)
  <2> HIDE DEF R
  <2>1. h[g].totals = TotalsOf(g.rows) /\ h[g].profit = Sum(Profit, g.rows)
    BY <1>1
  <2>2. TotalsOf(g.rows).amount = Sum(Amount, g.rows) /\ TotalsOf(g.rows).qty = Sum(Qty, g.rows)
    BY DEF TotalsOf
  <2> QED BY <2>1, <2>2
<1> HIDE DEF R
<1> QED BY <1>1, <1>2, <1>3, GroupedAmounts DEF R

LEMMA CategoryRowsAdd ==
    ASSUME ReportsSensible, ReportsInv, NEW from, NEW to
    PROVE  /\ Amounts(CategoryRows(from, to)) = Sum(Amount, Rows(from, to))
           /\ Volumes(CategoryRows(from, to)) = Sum(Qty, Rows(from, to))
           /\ Profits(CategoryRows(from, to)) = Sum(Profit, Rows(from, to))
<1> DEFINE R == Rows(from, to)
<1>1. PICK key, K, h :
          /\ Keyed(R, key, K) /\ Shown(Groups(R, key, K), h, CategoryRows(from, to))
          /\ \A g \in Groups(R, key, K) :
                /\ h[g].category = g.key
                /\ h[g].lines = Cardinality(g.rows)
                /\ h[g].totals = TotalsOf(g.rows)
                /\ h[g].profit = Sum(Profit, g.rows)
  BY CategoryRowsShown
<1>2. IsRows(R)
  BY RowsAreRows
<1>3. \A g \in Groups(R, key, K) : /\ h[g].totals.amount = Sum(Amount, g.rows)
                                   /\ h[g].totals.qty = Sum(Qty, g.rows)
                                   /\ h[g].profit = Sum(Profit, g.rows)
  <2> TAKE g \in Groups(R, key, K)
  <2> HIDE DEF R
  <2>1. h[g].totals = TotalsOf(g.rows) /\ h[g].profit = Sum(Profit, g.rows)
    BY <1>1
  <2>2. TotalsOf(g.rows).amount = Sum(Amount, g.rows) /\ TotalsOf(g.rows).qty = Sum(Qty, g.rows)
    BY DEF TotalsOf
  <2> QED BY <2>1, <2>2
<1> HIDE DEF R
<1> QED BY <1>1, <1>2, <1>3, GroupedAmounts DEF R

LEMMA DailyProfitAdd ==
    ASSUME ReportsSensible, ReportsInv, NEW from, NEW to
    PROVE  /\ Profits(DailyProfit(from, to)) = Sum(Profit, Rows(from, to))
<1> DEFINE R == Rows(from, to)
<1>1. PICK key, K, h :
          /\ Keyed(R, key, K) /\ Shown(Groups(R, key, K), h, DailyProfit(from, to))
          /\ \A g \in Groups(R, key, K) :
                /\ h[g].profit = Sum(Profit, g.rows)
  BY DailyProfitShown
<1>2. IsRows(R)
  BY RowsAreRows
<1>3. \A g \in Groups(R, key, K) : /\ h[g].profit = Sum(Profit, g.rows)
  <2> TAKE g \in Groups(R, key, K)
  <2> HIDE DEF R
  <2>1. h[g].profit = Sum(Profit, g.rows)
    BY <1>1
  <2> QED BY <2>1
<1> HIDE DEF R
<1> QED BY <1>1, <1>2, <1>3, GroupedAmounts DEF R

(* What the items of a dashboard's category, and its categories, sum.        *)
Spent(B) == LET spent(n) == n.amount IN Sum(spent, B)
SpentInAll(D) ==
    LET spent(n) == n.amount
        spentIn(c) == Sum(spent, c.items)
    IN Sum(spentIn, D)

LEMMA SpentSum ==
    ASSUME NEW S PROVE Spent(S) = SumOver([n \in S |-> n.amount], S)
<1>1. ASSUME NEW g
      PROVE  IsIter(g, [n \in S |-> n.amount], S)
                <=> g = [s \in SUBSET S |-> IF s = {} THEN 0
                                            ELSE Pick(s).amount + g[s \ {Pick(s)}]]
  BY DEF IsIter, Pick
<1> QED BY <1>1 DEF Spent, Sum, MapThenSumSet, MapThenFoldSet, SumOver, Iter, Pick

LEMMA SpentInAllSum ==
    ASSUME NEW S PROVE SpentInAll(S) = SumOver([c \in S |-> Spent(c.items)], S)
<1>1. SpentInAll(S) = MapThenSumSet(LAMBDA c : Spent(c.items), S)
  BY DEF SpentInAll, Spent, Sum
<1>2. ASSUME NEW g
      PROVE  IsIter(g, [c \in S |-> Spent(c.items)], S)
                <=> g = [s \in SUBSET S |-> IF s = {} THEN 0
                                            ELSE Spent(Pick(s).items) + g[s \ {Pick(s)}]]
  BY DEF IsIter, Pick
<1> QED BY <1>1, <1>2 DEF MapThenSumSet, MapThenFoldSet, SumOver, Iter, Pick

(* The groups of lines of one name that the dashboard's categories hold.     *)
DashboardNames(from, to) ==
    LET nameOf(r) == <<CategoryOf(r), r[2].name>>
    IN {[category |-> g.key[1], name |-> g.key[2], qty |-> Sum(Qty, g.rows),
         amount |-> Sum(Amount, g.rows)] : g \in GroupsBy(nameOf, JoinCatalog(Rows(from, to)))}
Of(B, c) == {n \in B : n.category = c}

LEMMA DashboardShown ==
    ASSUME NEW from, NEW to
    PROVE  DashboardCategories(from, to) =
             {[category |-> c, items |-> Of(DashboardNames(from, to), c)] :
                c \in {n.category : n \in DashboardNames(from, to)}}
BY DEF DashboardCategories, DashboardNames, Of

LEMMA DashboardNamesShown ==
    ASSUME NEW from, NEW to
    PROVE  \E key, K, h :
              /\ Keyed(Rows(from, to), key, K)
              /\ Shown(Groups(Rows(from, to), key, K), h, DashboardNames(from, to))
              /\ \A r \in Rows(from, to) : key[r] = <<CategoryOf(r), r[2].name>>
              /\ \A g \in Groups(Rows(from, to), key, K) :
                    /\ h[g].category = g.key[1] /\ h[g].name = g.key[2]
                    /\ h[g].amount = Sum(Amount, g.rows)
<1> DEFINE R == Rows(from, to)
           key == [r \in R |-> <<CategoryOf(r), r[2].name>>]
           K == {key[r] : r \in R}
           G == Groups(R, key, K)
           h == [g \in G |-> [category |-> g.key[1], name |-> g.key[2], qty |-> Sum(Qty, g.rows),
                              amount |-> Sum(Amount, g.rows)]]
           of(k) == [key |-> k, rows |-> {r \in R : <<CategoryOf(r), r[2].name>> = k}]
<1>1. K = {<<CategoryOf(r), r[2].name>> : r \in R}
      /\ \A k \in K : of(k) = [key |-> k, rows |-> Group(R, key, k)]
  BY DEF Group
<1>2. GroupsBy(LAMBDA r : <<CategoryOf(r), r[2].name>>, R) = {of(k) : k \in K}
  BY <1>1 DEF GroupsBy
<1>3. {of(k) : k \in K} = G
  <2> HIDE DEF of, K, R, key
  <2> QED BY <1>1 DEF Groups
<1>4. DashboardNames(from, to) = {h[g] : g \in G}
  <2> HIDE DEF of, K, key, G
  <2> QED BY <1>2, <1>3 DEF DashboardNames, JoinCatalog
<1>5. Keyed(R, key, K) /\ Shown(G, h, DashboardNames(from, to))
  <2>1. Keyed(R, key, K)
    BY DEF Keyed
  <2>2. \A g \in G : g.key = <<g.key[1], g.key[2]>>
    <3>1. \A k \in K : k = <<k[1], k[2]>>
      OBVIOUS
    <3> HIDE DEF K, key, R
    <3> QED BY <3>1 DEF Groups
  <2>3. \A g \in G : h[g].category = g.key[1] /\ h[g].name = g.key[2]
    <3> HIDE DEF G
    <3> QED OBVIOUS
  <2>4. h = [g \in G |-> h[g]]
    <3> HIDE DEF G
    <3> QED OBVIOUS
  <2> HIDE DEF G, key, K, R, h
  <2> QED BY <1>4, <2>1, <2>2, <2>3, <2>4 DEF Shown
<1>6. \A r \in R : key[r] = <<CategoryOf(r), r[2].name>>
  OBVIOUS
<1>7. \A g \in G :
         /\ h[g].category = g.key[1] /\ h[g].name = g.key[2]
         /\ h[g].amount = Sum(Amount, g.rows)
  <2> HIDE DEF G
  <2> QED OBVIOUS
<1> HIDE DEF key, K, h, G
<1> QED BY <1>5, <1>6, <1>7 DEF G

(* A table split by a field adds up to the table.                            *)
LEMMA DashboardAdds ==
    ASSUME ReportsSensible, ReportsInv, NEW from, NEW to
    PROVE  SpentInAll(DashboardCategories(from, to)) = Sum(Amount, Rows(from, to))
<1> DEFINE R == Rows(from, to)
           N == DashboardNames(from, to)
           D == DashboardCategories(from, to)
           a == [r \in R |-> Amount(r)]
           v == [n \in N |-> n.amount]
           key == [n \in N |-> n.category]
           K == {key[n] : n \in N}
           f == [c \in K |-> [category |-> c, items |-> Of(N, c)]]
           w == [d \in D |-> Spent(d.items)]
<1>1. IsFiniteSet(R) /\ \A r \in R : a[r] \in Int
  BY RowFields, RowsFinite
<1>2. \A T \in SUBSET R : Sum(Amount, T) = SumOver(a, T)
  <2>1. IsRows(R)
    BY RowsAreRows
  <2> HIDE DEF R
  <2> QED BY <2>1, SumsOfRows DEF IsRows
<1>3. PICK k, KK, h :
          /\ Keyed(R, k, KK) /\ Shown(Groups(R, k, KK), h, N)
          /\ \A g \in Groups(R, k, KK) : h[g].amount = Sum(Amount, g.rows)
  <2>1. PICK k, KK, h :
          /\ Keyed(R, k, KK) /\ Shown(Groups(R, k, KK), h, N)
          /\ \A g \in Groups(R, k, KK) : /\ h[g].category = g.key[1] /\ h[g].name = g.key[2]
                                         /\ h[g].amount = Sum(Amount, g.rows)
    BY DashboardNamesShown
  <2> HIDE DEF R, N
  <2> QED BY <2>1
<1>4. IsFiniteSet(N) /\ SumOver(v, N) = SumOver(a, R) /\ \A n \in N : v[n] \in Int
  <2>1. \A g \in Groups(R, k, KK) : g.rows \subseteq R /\ IsFiniteSet(g.rows)
    <3>1. \A g \in Groups(R, k, KK) : g.rows \subseteq R
      BY DEF Groups, Group
    <3> HIDE DEF R
    <3> QED BY <1>1, <3>1, FS_Subset
  <2>2. \A g \in Groups(R, k, KK) : h[g] \in N
    BY <1>3 DEF Shown
  <2>3. \A g \in Groups(R, k, KK) : v[h[g]] = SumOver(a, g.rows)
    <3>1. \A n \in N : v[n] = n.amount
      OBVIOUS
    <3> HIDE DEF v, a, R, N
    <3> QED BY <1>2, <1>3, <2>1, <2>2, <3>1
  <2> HIDE DEF R, N, a, v
  <2>4. IsFiniteSet(N) /\ SumOver(v, N) = SumOver(a, R)
    BY <1>1, <1>3, <2>3, SumOfGroups
  <2>5. ASSUME NEW n \in N PROVE v[n] \in Int
    <3>1. PICK g \in Groups(R, k, KK) : n = h[g]
      BY <1>3 DEF Shown
    <3>2. SumOver(a, g.rows) \in Int
      BY <1>1, <2>1, SumType
    <3> QED BY <2>3, <3>1, <3>2
  <2> QED BY <2>4, <2>5
<1>5. Keyed(N, key, K)
  BY DEF Keyed
<1>6. Named(K, f, D)
  <2>1. K = {n.category : n \in N}
    OBVIOUS
  <2>2. \A c \in K : f[c] = [category |-> c, items |-> Of(N, c)]
    OBVIOUS
  <2>3. D = {f[c] : c \in K}
    <3> HIDE DEF N, K, key, f, D
    <3>1. D = {[category |-> c, items |-> Of(N, c)] : c \in K}
      BY <2>1, DashboardShown DEF D, N
    <3> QED BY <2>2, <3>1
  <2>4. \A c, e \in K : f[c] = f[e] => c = e
    <3>1. \A c \in K : f[c].category = c
      OBVIOUS
    <3> HIDE DEF f, K
    <3> QED BY <3>1
  <2>5. f = [c \in K |-> f[c]]
    <3> HIDE DEF K, N
    <3> QED OBVIOUS
  <2> HIDE DEF f, K, D
  <2> QED BY <2>3, <2>4, <2>5 DEF Named
<1>7. \A c \in K : w[f[c]] = SumOver(v, Group(N, key, c))
  <2>1. \A T \in SUBSET N : IsFiniteSet(T) => Spent(T) = SumOver(v, T)
    <3> TAKE T \in SUBSET N
    <3> HAVE IsFiniteSet(T)
    <3> DEFINE u == [n \in T |-> n.amount]
    <3>1. Spent(T) = SumOver(u, T)
      BY SpentSum
    <3>2. \A n \in T : u[n] = v[n] /\ v[n] \in Int
      BY <1>4
    <3> HIDE DEF u, v, N
    <3> QED BY <3>1, <3>2, SumSame
  <2>2. \A c \in K : /\ f[c] \in D /\ f[c].items = Of(N, c)
    <3>1. \A c \in K : f[c].items = Of(N, c)
      <4> HIDE DEF N, K
      <4> QED OBVIOUS
    <3> HIDE DEF f, K, D
    <3> QED BY <1>6, <3>1 DEF Named
  <2>3. \A c \in K : Of(N, c) = Group(N, key, c) /\ Of(N, c) \subseteq N
    <3> HIDE DEF N, K
    <3> QED BY DEF Of, Group
  <2>4. \A c \in K : IsFiniteSet(Of(N, c))
    <3> HIDE DEF N, K
    <3> QED BY <1>4, <2>3, FS_Subset
  <2>5. \A d \in D : w[d] = Spent(d.items)
    OBVIOUS
  <2> HIDE DEF N, K, D, f, w, v, key
  <2> QED BY <2>1, <2>2, <2>3, <2>4, <2>5
<1>8. SumOver(w, D) = SumOver(v, N)
  <2> HIDE DEF N, K, D, f, w, v, key
  <2> QED BY <1>4, <1>5, <1>6, <1>7, SumGroups
<1>9. SpentInAll(D) = SumOver(w, D)
  BY SpentInAllSum
<1> HIDE DEF N, D, w, v, a
<1> QED BY <1>2, <1>4, <1>8, <1>9 DEF D

LEMMA UnfilteredRows ==
    ASSUME NEW from, NEW to PROVE Wanted(from, to, {}, {}, {}) = Rows(from, to)
BY DEF Wanted

LEMMA SummaryOfRows ==
    ASSUME NEW from, NEW to
    PROVE  /\ Summary(from, to).totals = TotalsOf(Rows(from, to))
           /\ Summary(from, to).deals = Deals(Rows(from, to))
           /\ Summary(from, to).totals.amount = Sum(Amount, Rows(from, to))
           /\ Summary(from, to).totals.qty = Sum(Qty, Rows(from, to))
           /\ Summary(from, to).totals.weight = Sum(Weight, Rows(from, to))
           /\ Summary(from, to).profit = Sum(Selling, Rows(from, to)) - Sum(Amount, Rows(from, to))
BY DEF Summary, TotalsOf

LEMMA ReportsAdd ==
    ASSUME ReportsSensible, ReportsInv, NEW from \in Days, NEW to \in Days
    PROVE  /\ \A breakdown \in {SupplierRows(from, to), ItemBreakdown(from, to),
                                TypeRows(from, to), CategoryRows(from, to)} :
                 /\ Amounts(breakdown) = Summary(from, to).totals.amount
                 /\ Volumes(breakdown) = Summary(from, to).totals.qty
           /\ SpentInAll(DashboardCategories(from, to)) = Summary(from, to).totals.amount
           /\ TradeSummary(from, to, None) = [deals |-> Summary(from, to).deals,
                                              totals |-> Summary(from, to).totals]
           /\ SpendOfWeek(from, to) = Summary(from, to).totals.amount
           /\ LET period == PeriodComparison(from, to).current
              IN /\ period.amount = Summary(from, to).totals.amount
                 /\ period.weight = Summary(from, to).totals.weight
                 /\ period.deals = Cardinality(ActivityFeed(from, to))
                 /\ period.suppliers = DashboardCounts(from, to).suppliers
<1>1. /\ Amounts(ItemBreakdown(from, to)) = Sum(Amount, Rows(from, to))
      /\ Volumes(ItemBreakdown(from, to)) = Sum(Qty, Rows(from, to))
  BY ItemRowsAdd, UnfilteredRows DEF ItemBreakdown
<1>2. \A breakdown \in {SupplierRows(from, to), ItemBreakdown(from, to),
                        TypeRows(from, to), CategoryRows(from, to)} :
         /\ Amounts(breakdown) = Summary(from, to).totals.amount
         /\ Volumes(breakdown) = Summary(from, to).totals.qty
  BY <1>1, SummaryOfRows, SupplierRowsAdd, TypeRowsAdd, CategoryRowsAdd
<1>3. SpentInAll(DashboardCategories(from, to)) = Summary(from, to).totals.amount
  BY SummaryOfRows, DashboardAdds
<1>4. TradeSummary(from, to, None) = [deals |-> Summary(from, to).deals,
                                      totals |-> Summary(from, to).totals]
  <2>1. {r \in Rows(from, to) : None # None => purchases[r[1]].supplier = None} = Rows(from, to)
    OBVIOUS
  <2>2. TradeSummary(from, to, None) = [deals |-> Deals(Rows(from, to)),
                                        totals |-> TotalsOf(Rows(from, to))]
    BY <2>1 DEF TradeSummary
  <2> QED BY <2>2, SummaryOfRows
<1>5. SpendOfWeek(from, to) = Summary(from, to).totals.amount
  BY SummaryOfRows DEF SpendOfWeek
<1>6. LET period == PeriodComparison(from, to).current
      IN /\ period.amount = Summary(from, to).totals.amount
         /\ period.weight = Summary(from, to).totals.weight
         /\ period.deals = Cardinality(ActivityFeed(from, to))
         /\ period.suppliers = DashboardCounts(from, to).suppliers
  <2>1. PeriodComparison(from, to).current = PeriodTotals(from, to)
    BY DEF PeriodComparison
  <2>2. /\ PeriodTotals(from, to).amount = Sum(Amount, Rows(from, to))
        /\ PeriodTotals(from, to).weight = Sum(Weight, Rows(from, to))
        /\ PeriodTotals(from, to).deals = Cardinality(ActivityFeed(from, to))
    BY DEF PeriodTotals, ActivityFeed
  <2>3. PeriodTotals(from, to).suppliers = DashboardCounts(from, to).suppliers
    BY DEF PeriodTotals, DashboardCounts
  <2> QED BY <2>1, <2>2, <2>3, SummaryOfRows
<1> QED BY <1>2, <1>3, <1>4, <1>5, <1>6

LEMMA ReportsAgreeHere ==
    ASSUME ReportsSensible, ReportsInv PROVE ReportsAgree
BY ReportsAdd DEF ReportsAgree, SpentInAll

(* Every breakdown of a period adds up to its summary (ReportsAgree), for any  *)
(* bills, any catalog and any two days: grouping the joined lines by any of    *)
(* the keys of the handlers loses no line and counts none twice.              *)
THEOREM ReportsAlwaysAgree == ReportsSensible => (Spec => []ReportsAgree)
<1> SUFFICES ASSUME ReportsSensible PROVE Spec => []ReportsAgree
  OBVIOUS
<1>1. ReportsInv => ReportsAgree
  BY ReportsAgreeHere
<1>2. Spec => []ReportsInv
  BY ReportsInvariant
<1> QED BY <1>1, <1>2, PTL

(* A line is saved with its sale less its price and charges, which are never  *)
(* negative (line_profit, line_totals_service.py:98).                         *)
ChargesDeduct ==
    \A bill \in Bills : \A l \in bill.lines :
        l.profit # None => \A p \in Purchases : l.profit <= Selling(<<p, l>>) - Amount(<<p, l>>)
SavedCharges ==
    \A p \in Purchases : purchases[p] # None =>
        \A l \in purchases[p].lines :
            l.profit # None => l.profit <= Selling(<<p, l>>) - Amount(<<p, l>>)

LEMMA SavedChargesInvariant == ReportsSensible /\ ChargesDeduct => (Spec => []SavedCharges)
<1> SUFFICES ASSUME ReportsSensible, ChargesDeduct PROVE Spec => []SavedCharges
  OBVIOUS
<1>1. Init => SavedCharges
  BY DEF Init, SavedCharges
<1>2. ReportsInv /\ SavedCharges /\ [Next]_vars => SavedCharges'
  <2> SUFFICES ASSUME ReportsInv, SavedCharges, [Next]_vars PROVE SavedCharges'
    OBVIOUS
  <2> USE DEF SavedCharges, ReportsInv
  <2>0. purchases \in [Purchases -> SavedBills \union {None}]
    OBVIOUS
  <2>1. ASSUME NEW p \in Purchases, NEW bill \in Bills, Record(p, bill)
        PROVE  SavedCharges'
    <3>1. purchases' = [purchases EXCEPT ![p] = bill]
      BY <2>1 DEF Record
    <3>2. \A l \in bill.lines :
             l.profit # None => l.profit <= Selling(<<p, l>>) - Amount(<<p, l>>)
      BY DEF ChargesDeduct
    <3> QED BY <3>1, <3>2
  <2>2. ASSUME NEW p \in Purchases, NEW to \in Statuses, SetStatus(p, to)
        PROVE  SavedCharges'
    <3> DEFINE del == purchases[p].delivered /\ to \notin {"cancelled", "deleted"}
               new == [purchases[p] EXCEPT !.status = to, !.delivered = del]
    <3>1. purchases[p] \in SavedBills /\ purchases[p] # None
      BY <2>2 DEF SetStatus
    <3>2. new.lines = purchases[p].lines
      <4> HIDE DEF del
      <4> QED BY <3>1 DEF SavedBills, Purchase
    <3>3. purchases' = [purchases EXCEPT ![p] = new]
      BY <2>2, <3>1 DEF SetStatus, SavedBills, Purchase
    <3> HIDE DEF new
    <3> QED BY <3>1, <3>2, <3>3
  <2>3. ASSUME NEW p \in Purchases, Deliver(p) PROVE SavedCharges'
    <3>1. /\ purchases[p] # None
          /\ \A q \in Purchases : q # p => purchases'[q] = purchases[q]
          /\ purchases'[p].lines = purchases[p].lines
      BY <2>3 DEF Deliver, SavedBills, Purchase
    <3> QED BY <3>1
  <2>4. ASSUME UNCHANGED purchases PROVE SavedCharges'
    BY <2>4
  <2> QED BY <2>1, <2>2, <2>3, <2>4 DEF Next, Reclassify, vars
<1> QED BY <1>1, <1>2, ReportsInvariant, PTL DEF Spec

(* The lines a broker brought.                                               *)
BrokerRows(b, from, to) == {r \in Rows(from, to) : purchases[r[1]].broker = b}
Brokered(from, to) ==
    LET brokered(b) == BrokerMetrics(b, from, to).profit IN Sum(brokered, Brokers)

LEMMA BrokeredSum ==
    ASSUME NEW from, NEW to
    PROVE  Brokered(from, to) =
              SumOver([b \in Brokers |-> Sum(Profit, BrokerRows(b, from, to))], Brokers)
<1>1. \A b : BrokerMetrics(b, from, to).profit = Sum(Profit, BrokerRows(b, from, to))
  BY DEF BrokerMetrics, BrokerRows
<1> DEFINE earned(b) == BrokerMetrics(b, from, to).profit
           w == [b \in Brokers |-> Sum(Profit, BrokerRows(b, from, to))]
           v == [b \in Brokers |-> earned(b)]
<1>2. w = v
  BY <1>1
<1>3. Brokered(from, to) = MapThenSumSet(LAMBDA b : earned(b), Brokers)
  BY DEF Brokered, Sum
<1> HIDE DEF earned
<1>4. ASSUME NEW g
      PROVE  IsIter(g, v, Brokers)
                <=> g = [s \in SUBSET Brokers |-> IF s = {} THEN 0
                                                  ELSE earned(Pick(s)) + g[s \ {Pick(s)}]]
  BY DEF IsIter, Pick
<1>5. Brokered(from, to) = SumOver(v, Brokers)
  BY <1>3, <1>4 DEF MapThenSumSet, MapThenFoldSet, SumOver, Iter, Pick
<1> HIDE DEF v, w
<1> QED BY <1>2, <1>5 DEF w

LEMMA BrokersAdd ==
    ASSUME ReportsSensible, ReportsInv, NEW from, NEW to
    PROVE  Sum(Profit, Rows(from, to)) = Brokered(from, to)
              + Sum(Profit, {r \in Rows(from, to) : purchases[r[1]].broker = None})
<1> DEFINE R == Rows(from, to)
           a == [r \in R |-> Profit(r)]
           part == [b \in Brokers |-> BrokerRows(b, from, to)]
           rest == {r \in R : purchases[r[1]].broker = None}
           w == [b \in Brokers |-> Sum(Profit, BrokerRows(b, from, to))]
<1>1. IsFiniteSet(R) /\ \A r \in R : a[r] \in Int
  BY RowFields, RowsFinite
<1>2. \A T \in SUBSET R : Sum(Profit, T) = SumOver(a, T)
  <2>1. IsRows(R)
    BY RowsAreRows
  <2> HIDE DEF R
  <2> QED BY <2>1, SumsOfRows DEF IsRows
<1>3. \A r \in R : purchases[r[1]].broker \in Brokers \union {None}
  <2> TAKE r \in R
  <2>1. r[1] \in Purchases /\ InPeriod(r[1], from, to)
    BY RowFields
  <2> QED BY <2>1, BillFields DEF InPeriod
<1>4. \A b \in Brokers : part[b] \subseteq R /\ part[b] = BrokerRows(b, from, to)
  BY DEF BrokerRows
<1>5. Parts(R, Brokers, part, R \ rest)
  <2>1. \A b, c \in Brokers : b # c => part[b] \intersect part[c] = {}
    BY DEF BrokerRows
  <2>2. \A b \in Brokers : b # None
    BY DEF ReportsSensible
  <2>3. UNION {part[b] : b \in Brokers} = R \ rest
    BY <1>3, <2>2 DEF BrokerRows
  <2> HIDE DEF R, part, rest
  <2> QED BY <1>4, <2>1, <2>3 DEF Parts
<1>6. \A b \in Brokers : w[b] = SumOver(a, part[b])
  <2>1. \A b \in Brokers : w[b] = Sum(Profit, part[b])
    OBVIOUS
  <2> HIDE DEF w, a, R, part
  <2> QED BY <1>2, <1>4, <2>1
<1>7. IsFiniteSet(Brokers) /\ rest \subseteq R
  BY DEF ReportsSensible
<1>8. SumOver(w, Brokers) = SumOver(a, R \ rest)
  <2> HIDE DEF w, a, R, part, rest
  <2> QED BY <1>1, <1>5, <1>6, <1>7, SumParts
<1>9. SumOver(a, R) = SumOver(a, rest) + SumOver(a, R \ rest)
       /\ SumOver(a, rest) \in Int /\ SumOver(a, R \ rest) \in Int
  <2>1. IsFiniteSet(rest) /\ IsFiniteSet(R \ rest)
    BY <1>1, <1>7, FS_Subset
  <2> HIDE DEF a, R, rest
  <2> QED BY <1>1, <1>7, <2>1, SumSplit, SumType
<1>10. Sum(Profit, R) = SumOver(a, R) /\ Sum(Profit, rest) = SumOver(a, rest)
  BY <1>2, <1>7
<1>11. Brokered(from, to) = SumOver(w, Brokers)
  BY BrokeredSum
<1> HIDE DEF a, R, rest, w
<1>12. Sum(Profit, R) = Brokered(from, to) + Sum(Profit, rest)
  BY <1>8, <1>9, <1>10, <1>11
<1> QED BY <1>12 DEF R, rest

LEMMA ProfitsAdd ==
    ASSUME ReportsSensible, ReportsInv, SavedCharges, NEW from \in Days, NEW to \in Days
    PROVE  LET profit == Profits(SupplierRows(from, to))
               rows == Rows(from, to)
               charged(r) == r[2].profit # None /\ r[2].profit < Selling(r) - Amount(r)
           IN /\ Profits(TypeRows(from, to)) = profit
              /\ Profits(CategoryRows(from, to)) = profit
              /\ Profits(DailyProfit(from, to)) = profit
              /\ profit = Brokered(from, to)
                             + Sum(Profit, {r \in rows : purchases[r[1]].broker = None})
              /\ Summary(from, to).profit = Profits(ItemBreakdown(from, to))
              /\ (\A r \in rows : ~charged(r)) => Summary(from, to).profit = profit
<1> DEFINE R == Rows(from, to)
           p == [r \in R |-> Profit(r)]
           s == [r \in R |-> Selling(r)]
           a == [r \in R |-> Amount(r)]
<1>1. Profits(SupplierRows(from, to)) = Sum(Profit, R)
  BY SupplierRowsAdd
<1>2. /\ Profits(TypeRows(from, to)) = Sum(Profit, R)
      /\ Profits(CategoryRows(from, to)) = Sum(Profit, R)
      /\ Profits(DailyProfit(from, to)) = Sum(Profit, R)
  BY TypeRowsAdd, CategoryRowsAdd, DailyProfitAdd
<1>3. Sum(Profit, R) = Brokered(from, to)
              + Sum(Profit, {r \in R : purchases[r[1]].broker = None})
  BY BrokersAdd
<1>4. Profits(ItemBreakdown(from, to)) = Sum(Selling, R) - Sum(Amount, R)
  BY ItemRowsAdd, UnfilteredRows DEF ItemBreakdown
<1>5. Summary(from, to).profit = Sum(Selling, R) - Sum(Amount, R)
  BY SummaryOfRows
<1>6. ASSUME \A r \in R : ~(r[2].profit # None /\ r[2].profit < Selling(r) - Amount(r))
      PROVE  Sum(Profit, R) = Sum(Selling, R) - Sum(Amount, R)
  <2>1. \A r \in R : Profit(r) = Selling(r) - Amount(r)
    <3> TAKE r \in R
    <3>1. /\ r[1] \in Purchases /\ purchases[r[1]] # None /\ r = <<r[1], r[2]>>
          /\ r[2] \in purchases[r[1]].lines /\ r[2] \in Line
          /\ Selling(r) \in Nat /\ Amount(r) \in Nat
      BY RowFields DEF InPeriod
    <3>2. r[2].profit # None => r[2].profit <= Selling(r) - Amount(r)
      <4>1. r[2].profit # None
              => r[2].profit <= Selling(<<r[1], r[2]>>) - Amount(<<r[1], r[2]>>)
        BY <3>1 DEF SavedCharges
      <4> QED BY <3>1, <4>1
    <3>3. r[2].profit \in Int \union {None}
      BY <3>1, LineFields
    <3>4. ~(r[2].profit # None /\ r[2].profit < Selling(r) - Amount(r))
      BY <1>6
    <3> QED BY <3>1, <3>2, <3>3, <3>4 DEF Profit, Either
  <2>2. /\ IsFiniteSet(R)
        /\ \A r \in R : s[r] \in Int /\ a[r] \in Int /\ p[r] = s[r] - a[r]
    BY <2>1, RowFields, RowsFinite
  <2>3. Sum(Profit, R) = SumOver(p, R) /\ Sum(Selling, R) = SumOver(s, R)
        /\ Sum(Amount, R) = SumOver(a, R)
    BY SumOfProfit, SumOfSelling, SumOfAmount
  <2> HIDE DEF R, p, s, a
  <2>4. SumOver(p, R) = SumOver(s, R) - SumOver(a, R)
    BY <2>2, SumMinus
  <2> QED BY <2>3, <2>4
<1> QED BY <1>1, <1>2, <1>3, <1>4, <1>5, <1>6

LEMMA ProfitsAgreeHere ==
    ASSUME ReportsSensible, ReportsInv, SavedCharges PROVE ProfitsAgree
BY ProfitsAdd DEF ProfitsAgree, Brokered

(* Profit is the same by supplier, broker, type, category and day, and the     *)
(* dashboard's where no line has charges (ProfitsAgree), as long as a saved    *)
(* profit is what the code computes: never more than the sale less the price. *)
THEOREM ProfitsAlwaysAgree ==
    ReportsSensible /\ ChargesDeduct => (Spec => []ProfitsAgree)
<1> SUFFICES ASSUME ReportsSensible, ChargesDeduct PROVE Spec => []ProfitsAgree
  OBVIOUS
<1>1. ReportsInv /\ SavedCharges => ProfitsAgree
  BY ProfitsAgreeHere
<1>2. Spec => []ReportsInv
  BY ReportsInvariant
<1>3. Spec => []SavedCharges
  BY SavedChargesInvariant
<1> QED BY <1>1, <1>2, <1>3, PTL

LEMMA SumNamed ==
    ASSUME NEW S, IsFiniteSet(S), NEW w, \A x \in S : w[x] \in Int,
           NEW f, NEW B, Named(S, f, B), NEW v, \A x \in S : v[f[x]] = w[x]
    PROVE  SumOver(v, B) = SumOver(w, S)
<1> DEFINE part == [x \in S |-> {x}]
<1>1. \A x \in S : SumOver(w, {x}) = w[x]
  <2> TAKE x \in S
  <2>1. IsFiniteSet({x}) /\ {x} \ {x} = {} /\ \A y \in {x} : w[y] \in Int
    BY FS_Singleton
  <2>2. x \in {x}
    OBVIOUS
  <2>3. SumOver(w, {x}) = w[x] + SumOver(w, {})
    BY <2>1, <2>2, SumRemove
  <2> QED BY <2>3, SumEmpty
<1>2. Parts(S, S, part, S)
  BY DEF Parts
<1>3. Adds(S, f, v, w, part)
  BY <1>1 DEF Adds
<1> HIDE DEF part
<1> QED BY <1>2, <1>3, SumFamily

(* Spent, bought and earned over any rows of a report.                       *)
Bought(B) == LET quantity(n) == n.qty IN Sum(quantity, B)
Earned(B) == LET earned(l) == l.profit IN Sum(earned, B)

LEMMA BoughtSum ==
    ASSUME NEW S PROVE Bought(S) = SumOver([n \in S |-> n.qty], S)
<1>1. ASSUME NEW g
      PROVE  IsIter(g, [n \in S |-> n.qty], S)
                <=> g = [s \in SUBSET S |-> IF s = {} THEN 0
                                            ELSE Pick(s).qty + g[s \ {Pick(s)}]]
  BY DEF IsIter, Pick
<1> QED BY <1>1 DEF Bought, Sum, MapThenSumSet, MapThenFoldSet, SumOver, Iter, Pick

LEMMA EarnedSum ==
    ASSUME NEW S PROVE Earned(S) = SumOver([n \in S |-> n.profit], S)
<1>1. ASSUME NEW g
      PROVE  IsIter(g, [n \in S |-> n.profit], S)
                <=> g = [s \in SUBSET S |-> IF s = {} THEN 0
                                            ELSE Pick(s).profit + g[s \ {Pick(s)}]]
  BY DEF IsIter, Pick
<1> QED BY <1>1 DEF Earned, Sum, MapThenSumSet, MapThenFoldSet, SumOver, Iter, Pick

(* Groups that show what was spent add up to what was spent on their rows.   *)
LEMMA GroupedSpent ==
    ASSUME NEW S, IsRows(S), NEW key, NEW K, Keyed(S, key, K),
           NEW h, NEW B, Shown(Groups(S, key, K), h, B)
    PROVE  /\ (\A g \in Groups(S, key, K) : h[g].amount = Sum(Amount, g.rows))
                 => Spent(B) = Sum(Amount, S)
           /\ (\A g \in Groups(S, key, K) : h[g].qty = Sum(Qty, g.rows))
                 => Bought(B) = Sum(Qty, S)
<1> DEFINE G == Groups(S, key, K)
           aa == [r \in S |-> Amount(r)]
           qq == [r \in S |-> Qty(r)]
           va == [b \in B |-> b.amount]
           vq == [b \in B |-> b.qty]
<1>1. (\A r \in S : aa[r] \in Int /\ qq[r] \in Int) /\ IsFiniteSet(S)
  BY DEF IsRows
<1>2. \A g \in G : h[g] \in B
  BY DEF Shown
<1>3. \A g \in G : va[h[g]] = h[g].amount /\ vq[h[g]] = h[g].qty
  BY <1>2
<1>4. Spent(B) = SumOver(va, B) /\ Bought(B) = SumOver(vq, B)
  BY SpentSum, BoughtSum
<1>5. \A T \in SUBSET S : Sum(Amount, T) = SumOver(aa, T) /\ Sum(Qty, T) = SumOver(qq, T)
  BY <1>1, SumsOfRows DEF IsRows
<1>6. \A g \in G : g.rows \in SUBSET S
  BY DEF Groups, Group
<1> HIDE DEF aa, qq, va, vq, G
<1>7. ASSUME \A g \in G : h[g].amount = Sum(Amount, g.rows)
      PROVE  Spent(B) = Sum(Amount, S)
  <2>1. \A g \in G : va[h[g]] = SumOver(aa, g.rows)
    BY <1>3, <1>5, <1>6, <1>7
  <2>2. SumOver(va, B) = SumOver(aa, S)
    BY <1>1, <2>1, SumOfGroups DEF G
  <2> QED BY <1>4, <1>5, <2>2
<1>8. ASSUME \A g \in G : h[g].qty = Sum(Qty, g.rows)
      PROVE  Bought(B) = Sum(Qty, S)
  <2>1. \A g \in G : vq[h[g]] = SumOver(qq, g.rows)
    BY <1>3, <1>5, <1>6, <1>8
  <2>2. SumOver(vq, B) = SumOver(qq, S)
    BY <1>1, <2>1, SumOfGroups DEF G
  <2> QED BY <1>4, <1>5, <2>2
<1> QED BY <1>7, <1>8 DEF G

(* The rows behind the supplier prices of an item and a category's items.    *)
AllTime(i) == {r \in AllRows : r[2].item = i /\ purchases[r[1]].supplier # None}
Latest(rows) == {r \in rows : \A q \in rows : purchases[q[1]].day <= purchases[r[1]].day}
CategoryLines(c, from, to) ==
    {r \in Rows(from, to) : r[2].item # None /\ item[r[2].item].category = c}

LEMMA SupplierPricesShown ==
    ASSUME NEW i
    PROVE  \E key, K, h :
              /\ Keyed(AllTime(i), key, K)
              /\ Shown(Groups(AllTime(i), key, K), h, SupplierPrices(i))
              /\ \A r \in AllTime(i) : key[r] = purchases[r[1]].supplier
              /\ \A g \in Groups(AllTime(i), key, K) :
                    /\ h[g].supplier = g.key
                    /\ h[g].amount = Sum(Amount, g.rows)
<1> DEFINE R == AllTime(i)
           key == [r \in R |-> purchases[r[1]].supplier]
           K == {key[r] : r \in R}
           G == Groups(R, key, K)
           h == [g \in G |-> [supplier |-> g.key, deals |-> Deals(g.rows), qty |-> Sum(Qty, g.rows),
                              amount |-> Sum(Amount, g.rows),
                              latest |-> {r[2].rate : r \in Latest(g.rows)}]]
           of(k) == [key |-> k, rows |-> {r \in R : purchases[r[1]].supplier = k}]
<1>1. K = {purchases[r[1]].supplier : r \in R}
      /\ \A k \in K : of(k) = [key |-> k, rows |-> Group(R, key, k)]
  BY DEF Group
<1>2. GroupsBy(LAMBDA r : purchases[r[1]].supplier, R) = {of(k) : k \in K}
  BY <1>1 DEF GroupsBy
<1>3. {of(k) : k \in K} = G
  <2> HIDE DEF of, K, R, key
  <2> QED BY <1>1 DEF Groups
<1>4. SupplierPrices(i) = {h[g] : g \in G}
  <2> HIDE DEF of, K, key, G
  <2> QED BY <1>2, <1>3 DEF SupplierPrices, AllTime, Latest
<1>5. Keyed(R, key, K) /\ Shown(G, h, SupplierPrices(i))
  <2>1. Keyed(R, key, K)
    BY DEF Keyed
  <2> HIDE DEF G, key, K, R
  <2> QED BY <1>4, <2>1 DEF Shown
<1>6. \A r \in R : key[r] = purchases[r[1]].supplier
  OBVIOUS
<1>7. \A g \in G :
         /\ h[g].supplier = g.key
         /\ h[g].amount = Sum(Amount, g.rows)
  <2> HIDE DEF G
  <2> QED OBVIOUS
<1> HIDE DEF key, K, h, G
<1> QED BY <1>5, <1>6, <1>7 DEF G

LEMMA CategoryItemsShown ==
    ASSUME NEW c, NEW from, NEW to
    PROVE  \E key, K, h :
              /\ Keyed(CategoryLines(c, from, to), key, K)
              /\ Shown(Groups(CategoryLines(c, from, to), key, K), h, CategoryItems(c, from, to))
              /\ \A r \in CategoryLines(c, from, to) : key[r] = r[2].name
              /\ \A g \in Groups(CategoryLines(c, from, to), key, K) :
                    /\ h[g].name = g.key
                    /\ h[g].qty = Sum(Qty, g.rows)
<1> DEFINE R == CategoryLines(c, from, to)
           key == [r \in R |-> r[2].name]
           K == {key[r] : r \in R}
           G == Groups(R, key, K)
           h == [g \in G |-> [name |-> g.key, qty |-> Sum(Qty, g.rows), profit |-> Sum(ProfitSaved, g.rows)]]
           of(k) == [key |-> k, rows |-> {r \in R : r[2].name = k}]
<1>1. K = {r[2].name : r \in R}
      /\ \A k \in K : of(k) = [key |-> k, rows |-> Group(R, key, k)]
  BY DEF Group
<1>2. GroupsBy(LAMBDA r : r[2].name, R) = {of(k) : k \in K}
  BY <1>1 DEF GroupsBy
<1>3. {of(k) : k \in K} = G
  <2> HIDE DEF of, K, R, key
  <2> QED BY <1>1 DEF Groups
<1>4. CategoryItems(c, from, to) = {h[g] : g \in G}
  <2> HIDE DEF of, K, key, G
  <2> QED BY <1>2, <1>3 DEF CategoryItems, CategoryLines, ProfitSaved
<1>5. Keyed(R, key, K) /\ Shown(G, h, CategoryItems(c, from, to))
  <2>1. Keyed(R, key, K)
    BY DEF Keyed
  <2> HIDE DEF G, key, K, R
  <2> QED BY <1>4, <2>1 DEF Shown
<1>6. \A r \in R : key[r] = r[2].name
  OBVIOUS
<1>7. \A g \in G :
         /\ h[g].name = g.key
         /\ h[g].qty = Sum(Qty, g.rows)
  <2> HIDE DEF G
  <2> QED OBVIOUS
<1> HIDE DEF key, K, h, G
<1> QED BY <1>5, <1>6, <1>7 DEF G

Known(from, to) == {r \in Rows(from, to) : r[2].item # None /\ purchases[r[1]].supplier # None}
PairOf(r) == [item |-> r[2].item, supplier |-> purchases[r[1]].supplier,
              broker |-> purchases[r[1]].broker]

LEMMA SupplierBrokerMapShown ==
    ASSUME NEW from, NEW to
    PROVE  \E key, K, h :
              /\ Keyed(Known(from, to), key, K)
              /\ Shown(Groups(Known(from, to), key, K), h, SupplierBrokerMap(from, to))
              /\ \A r \in Known(from, to) : key[r] = PairOf(r)
              /\ \A g \in Groups(Known(from, to), key, K) :
                    /\ h[g].of = g.key
                    /\ h[g].amount = Sum(Amount, g.rows)
<1> DEFINE R == Known(from, to)
           key == [r \in R |-> PairOf(r)]
           K == {key[r] : r \in R}
           G == Groups(R, key, K)
           h == [g \in G |-> [of |-> g.key, deals |-> Deals(g.rows), qty |-> Sum(Qty, g.rows),
                              amount |-> Sum(Amount, g.rows)]]
           of(k) == [key |-> k, rows |-> {r \in R : PairOf(r) = k}]
<1>1. K = {PairOf(r) : r \in R}
      /\ \A k \in K : of(k) = [key |-> k, rows |-> Group(R, key, k)]
  BY DEF Group
<1>2. GroupsBy(LAMBDA r : [item |-> r[2].item, supplier |-> purchases[r[1]].supplier,
                          broker |-> purchases[r[1]].broker], R) = {of(k) : k \in K}
  BY <1>1 DEF GroupsBy, PairOf
<1>3. {of(k) : k \in K} = G
  <2> HIDE DEF of, K, R, key
  <2> QED BY <1>1 DEF Groups
<1>4. SupplierBrokerMap(from, to) = {h[g] : g \in G}
  <2> HIDE DEF of, K, key, G
  <2> QED BY <1>2, <1>3 DEF SupplierBrokerMap, Known
<1>5. Keyed(R, key, K) /\ Shown(G, h, SupplierBrokerMap(from, to))
  <2>1. Keyed(R, key, K)
    BY DEF Keyed
  <2> HIDE DEF G, key, K, R
  <2> QED BY <1>4, <2>1 DEF Shown
<1>6. \A r \in R : key[r] = PairOf(r)
  OBVIOUS
<1>7. \A g \in G :
         /\ h[g].of = g.key
         /\ h[g].amount = Sum(Amount, g.rows)
  <2> HIDE DEF G
  <2> QED OBVIOUS
<1> HIDE DEF key, K, h, G
<1> QED BY <1>5, <1>6, <1>7 DEF G

Chosen(S, key, T, L) == T \subseteq S /\ \A r \in S : r \in T <=> key[r] \in L
With(G, L) == {o \in G : o.key \in L}
Rendered(h, G) == {h[g] : g \in G}

(* The groups of some of the keys are the groups of the rows that have them.  *)
LEMMA SubGroups ==
    ASSUME NEW S, NEW key, NEW K, Keyed(S, key, K), NEW h, NEW B,
           Shown(Groups(S, key, K), h, B), NEW L \in SUBSET K, NEW T, Chosen(S, key, T, L)
    PROVE  \E u, j : /\ Keyed(T, u, L)
                     /\ Shown(Groups(T, u, L), j, Rendered(h, With(Groups(S, key, K), L)))
                     /\ \A g \in Groups(T, u, L) : g \in Groups(S, key, K) /\ j[g] = h[g]
<1> DEFINE G == Groups(S, key, K)
           u == [r \in T |-> key[r]]
           H == {o \in G : o.key \in L}
           C == {h[g] : g \in H}
           j == [g \in H |-> h[g]]
           whole(k) == [key |-> k, rows |-> Group(S, key, k)]
           some(k) == [key |-> k, rows |-> Group(T, u, k)]
<1>1. Keyed(T, u, L)
  BY DEF Keyed, Chosen
<1>2. \A k \in L : whole(k) = some(k)
  <2>1. \A k \in L : Group(S, key, k) = Group(T, u, k)
    BY DEF Group, Chosen
  <2> QED BY <2>1
<1>3. H = {whole(k) : k \in L}
  <2>1. \A k : whole(k).key = k
    OBVIOUS
  <2>2. G = {whole(k) : k \in K}
    BY DEF Groups
  <2> HIDE DEF whole, G
  <2> QED BY <2>1, <2>2
<1>4. Groups(T, u, L) = {some(k) : k \in L}
  BY DEF Groups
<1>5. Groups(T, u, L) = H
  <2> HIDE DEF some, whole, G, u
  <2> QED BY <1>2, <1>3, <1>4
<1>6. H \subseteq G /\ \A g \in H : j[g] = h[g]
  OBVIOUS
<1>7. Shown(H, j, C)
  <2>1. j = [g \in H |-> j[g]]
    <3> HIDE DEF H
    <3> QED OBVIOUS
  <2> HIDE DEF G, j, H
  <2>2. \A g, o \in H : j[g] = j[o] => g.key = o.key
    BY <1>6 DEF Shown, G
  <2>3. C = {j[g] : g \in H}
    BY <1>6
  <2> QED BY <2>1, <2>2, <2>3 DEF Shown
<1>8. C = Rendered(h, With(G, L))
  BY DEF Rendered, With
<1> HIDE DEF u, j, C
<1> QED BY <1>1, <1>5, <1>6, <1>7, <1>8

LEMMA CategoryItemsAdd ==
    ASSUME ReportsSensible, ReportsInv, NEW c, NEW from, NEW to
    PROVE  Bought(CategoryItems(c, from, to)) = Sum(Qty, CategoryLines(c, from, to))
<1> DEFINE R == CategoryLines(c, from, to)
<1>1. PICK key, K, h :
          /\ Keyed(R, key, K) /\ Shown(Groups(R, key, K), h, CategoryItems(c, from, to))
          /\ \A g \in Groups(R, key, K) : h[g].name = g.key /\ h[g].qty = Sum(Qty, g.rows)
  BY CategoryItemsShown
<1>2. IsRows(R)
  BY RowsAreRows DEF CategoryLines
<1> HIDE DEF R
<1> QED BY <1>1, <1>2, GroupedSpent DEF R

(* When the period holds all that was ever bought.                           *)
LEMMA SupplierPricesAdd ==
    ASSUME ReportsSensible, ReportsInv, NEW i, NEW from, NEW to, Rows(from, to) = AllRows
    PROVE  Spent(SupplierPrices(i)) = Sum(Amount, AllTime(i))
<1> DEFINE R == AllTime(i)
<1>1. PICK key, K, h :
          /\ Keyed(R, key, K) /\ Shown(Groups(R, key, K), h, SupplierPrices(i))
          /\ \A g \in Groups(R, key, K) :
                /\ h[g].supplier = g.key
                /\ h[g].amount = Sum(Amount, g.rows)
  BY SupplierPricesShown
<1>2. IsRows(R)
  BY RowsAreRows DEF AllTime
<1> HIDE DEF R
<1> QED BY <1>1, <1>2, GroupedSpent DEF R

(* The pairs of suppliers and brokers an item was bought from.               *)
Pairs(i, from, to) == {d \in SupplierBrokerMap(from, to) : d.of.item = i}
ItemRowsOf(i, from, to) == {r \in Rows(from, to) : r[2].item = i}
PairRows(i, from, to) == {r \in ItemRowsOf(i, from, to) : purchases[r[1]].supplier # None}

LEMMA PairsAdd ==
    ASSUME ReportsSensible, ReportsInv, NEW i \in Items, NEW from, NEW to
    PROVE  Spent(Pairs(i, from, to)) = Sum(Amount, PairRows(i, from, to))
<1> DEFINE S == Known(from, to)
           B == SupplierBrokerMap(from, to)
           T == PairRows(i, from, to)
           C == Pairs(i, from, to)
<1>1. PICK key, K, h :
          /\ Keyed(S, key, K) /\ Shown(Groups(S, key, K), h, B)
          /\ \A r \in S : key[r] = PairOf(r)
          /\ \A g \in Groups(S, key, K) :
                /\ h[g].of = g.key
                /\ h[g].amount = Sum(Amount, g.rows)
  BY SupplierBrokerMapShown
<1>2. \A r \in S : key[r].item = r[2].item
  <2>1. \A r : PairOf(r).item = r[2].item
    BY DEF PairOf
  <2> HIDE DEF S
  <2> QED BY <1>1, <2>1
<1> DEFINE L == {k \in K : k.item = i}
           G == Groups(S, key, K)
           H == {o \in G : o.key \in L}
<1>3. T \subseteq S /\ \A r \in S : r \in T <=> r[2].item = i
  <2>1. i # None
    BY DEF ReportsSensible
  <2> QED BY <2>1 DEF PairRows, ItemRowsOf, Known
<1>4. \A r \in S : r \in T <=> key[r] \in L
  <2>1. \A r \in S : key[r] \in K
    BY <1>1 DEF Keyed
  <2> HIDE DEF S, T
  <2> QED BY <1>2, <1>3, <2>1
<1>5. \A g \in G : g.key \in K
  <2>1. G = {[key |-> k, rows |-> Group(S, key, k)] : k \in K}
    BY DEF Groups
  <2> HIDE DEF S, G
  <2> QED BY <2>1
<1>6. C = {h[g] : g \in H}
  <2>1. B = {h[g] : g \in G}
    BY <1>1 DEF Shown
  <2>2. C = {d \in B : d.of.item = i}
    BY DEF Pairs
  <2>3. \A g \in G : h[g].of = g.key
    BY <1>1
  <2> HIDE DEF S, T, G, C, B
  <2> QED BY <1>5, <2>1, <2>2, <2>3
<1>7. PICK u, j : /\ Keyed(T, u, L) /\ Shown(Groups(T, u, L), j, C)
                  /\ \A g \in Groups(T, u, L) : g \in G /\ j[g] = h[g]
  <2>1. L \in SUBSET K /\ T \in SUBSET S
    BY <1>3
  <2>2. Keyed(S, key, K) /\ Shown(G, h, B)
    BY <1>1
  <2>3. C = Rendered(h, With(G, L))
    BY <1>6 DEF Rendered, With
  <2>4. Chosen(S, key, T, L)
    BY <1>3, <1>4 DEF Chosen
  <2> HIDE DEF S, T, L, B, C
  <2> QED BY <2>1, <2>2, <2>3, <2>4, SubGroups
<1>8. \A g \in Groups(T, u, L) : j[g].amount = Sum(Amount, g.rows)
  <2>1. \A g \in G : h[g].amount = Sum(Amount, g.rows)
    BY <1>1
  <2> HIDE DEF S, T, L, B, G
  <2> QED BY <1>7, <2>1
<1>9. IsRows(T)
  <2>1. T \in SUBSET Rows(from, to)
    BY DEF PairRows, ItemRowsOf
  <2> QED BY <2>1, RowsAreRows
<1>10. Shown(Groups(T, u, L), j, C)
  BY <1>7
<1> HIDE DEF S, T, L, B, G, C
<1>11. Spent(C) = Sum(Amount, T)
  BY <1>7, <1>8, <1>9, <1>10, GroupedSpent
<1> QED BY <1>11 DEF C, T

LEMMA ItemLinesAdd ==
    ASSUME ReportsSensible, ReportsInv, NEW i, NEW from, NEW to
    PROVE  Earned(ItemLines(i, from, to)) = Sum(Profit, ItemRowsOf(i, from, to))
<1> DEFINE S == ItemRowsOf(i, from, to)
           B == ItemLines(i, from, to)
           w == [r \in S |-> Profit(r)]
           f == [r \in S |-> [line |-> r, profit |-> Profit(r)]]
           v == [b \in B |-> b.profit]
<1>1. IsFiniteSet(S) /\ \A r \in S : w[r] \in Int
  <2>1. S \subseteq Rows(from, to)
    BY DEF ItemRowsOf
  <2> QED BY <2>1, RowsFinite, FS_Subset, RowFields
<1>2. Named(S, f, B)
  <2>1. B = {f[r] : r \in S}
    BY DEF ItemLines, ItemRowsOf
  <2>2. \A r, q \in S : f[r] = f[q] => r = q
    <3>1. \A r \in S : f[r].line = r
      <4> HIDE DEF S
      <4> QED OBVIOUS
    <3> HIDE DEF f, S
    <3> QED BY <3>1
  <2>3. f = [r \in S |-> f[r]]
    <3> HIDE DEF S
    <3> QED OBVIOUS
  <2> HIDE DEF f, S, B
  <2> QED BY <2>1, <2>2, <2>3 DEF Named
<1>3. \A r \in S : v[f[r]] = w[r]
  <2>1. \A r \in S : f[r] \in B
    <3> HIDE DEF f, S, B
    <3> QED BY <1>2 DEF Named
  <2>2. \A r \in S : f[r].profit = w[r]
    <3> HIDE DEF S
    <3> QED OBVIOUS
  <2>3. \A b \in B : v[b] = b.profit
    OBVIOUS
  <2> HIDE DEF f, S, B, w, v
  <2> QED BY <2>1, <2>2, <2>3
<1>4. Earned(B) = SumOver(v, B) /\ Sum(Profit, S) = SumOver(w, S)
  BY EarnedSum, SumOfProfit
<1> HIDE DEF f, S, B, w, v
<1>5. SumOver(v, B) = SumOver(w, S)
  BY <1>1, <1>2, <1>3, SumNamed
<1> QED BY <1>4, <1>5 DEF S, B

SupplierLines(s, from, to) == {r \in Rows(from, to) : purchases[r[1]].supplier = s}

(* A row of the breakdown by supplier, and the rows it stands for.           *)
LEMMA SupplierRow ==
    ASSUME NEW from, NEW to, NEW g \in SupplierRows(from, to)
    PROVE  LET mine == SupplierLines(g.supplier, from, to)
           IN g.deals = Deals(mine) /\ g.totals = TotalsOf(mine) /\ g.profit = Sum(Profit, mine)
<1> DEFINE R == Rows(from, to)
           B == SupplierRows(from, to)
           mine == SupplierLines(g.supplier, from, to)
<1>1. PICK key, K, h :
          /\ Keyed(R, key, K) /\ Shown(Groups(R, key, K), h, B)
          /\ \A r \in R : key[r] = purchases[r[1]].supplier
          /\ \A o \in Groups(R, key, K) :
                /\ h[o].supplier = o.key /\ h[o].deals = Deals(o.rows)
                /\ h[o].totals = TotalsOf(o.rows) /\ h[o].profit = Sum(Profit, o.rows)
  BY SupplierRowsShown
<1>2. PICK o \in Groups(R, key, K) : g = h[o]
  <2> HIDE DEF R
  <2> QED BY <1>1 DEF Shown
<1>3. o.rows = Group(R, key, o.key)
  <2> HIDE DEF R
  <2> QED BY DEF Groups
<1>4. g.supplier = o.key /\ g.deals = Deals(o.rows) /\ g.totals = TotalsOf(o.rows)
      /\ g.profit = Sum(Profit, o.rows)
  <2> HIDE DEF R
  <2> QED BY <1>1, <1>2
<1>5. mine = o.rows
  <2>1. Group(R, key, o.key) = {r \in R : purchases[r[1]].supplier = o.key}
    BY <1>1 DEF Group
  <2> QED BY <1>3, <1>4, <2>1 DEF SupplierLines
<1> HIDE DEF mine
<1> QED BY <1>4, <1>5 DEF mine

LEMMA SuppliersPage ==
    ASSUME ReportsSensible, ReportsInv, NEW from \in Days, NEW to \in Days
    PROVE  \A g \in SupplierRows(from, to) : g.supplier # None =>
              LET page == SupplierMetrics(g.supplier, from, to)
                  summary == TradeSummary(from, to, g.supplier)
              IN /\ page.amount = g.totals.amount /\ page.profit = g.profit
                 /\ page.deals = g.deals
                 /\ summary.totals = g.totals /\ summary.deals = g.deals
                 /\ Amounts(ItemRows(from, to, {}, {}, {g.supplier})) = g.totals.amount
<1> TAKE g \in SupplierRows(from, to)
<1> HAVE g.supplier # None
<1> DEFINE s == g.supplier
           mine == SupplierLines(s, from, to)
<1>1. g.deals = Deals(mine) /\ g.totals = TotalsOf(mine) /\ g.profit = Sum(Profit, mine)
  BY SupplierRow
<1>2. g.totals.amount = Sum(Amount, mine)
  <2>1. TotalsOf(mine).amount = Sum(Amount, mine)
    BY DEF TotalsOf
  <2> QED BY <1>1, <2>1
<1>3. SupplierMetrics(s, from, to) = [deals |-> Deals(mine), amount |-> Sum(Amount, mine),
                                      profit |-> Sum(Profit, mine)]
  BY DEF SupplierMetrics, SupplierLines
<1>4. TradeSummary(from, to, s) = [deals |-> Deals(mine), totals |-> TotalsOf(mine)]
  <2>1. {r \in Rows(from, to) : s # None => purchases[r[1]].supplier = s} = mine
    BY DEF SupplierLines
  <2> QED BY <2>1 DEF TradeSummary
<1>5. Amounts(ItemRows(from, to, {}, {}, {s})) = Sum(Amount, mine)
  <2>1. Wanted(from, to, {}, {}, {s}) = mine
    BY DEF Wanted, SupplierLines
  <2>2. Amounts(ItemRows(from, to, {}, {}, {s})) = Sum(Amount, Wanted(from, to, {}, {}, {s}))
    BY ItemRowsAdd
  <2> QED BY <2>1, <2>2
<1> HIDE DEF mine
<1> QED BY <1>1, <1>2, <1>3, <1>4, <1>5

LEMMA ItemsPage ==
    ASSUME ReportsSensible, ReportsInv, NEW from \in Days, NEW to \in Days
    PROVE  \A i \in Items :
              LET page == ItemReport(i, from, to)
                  pairs == Pairs(i, from, to)
              IN /\ (\A r \in page.lines : purchases[r[1]].supplier # None)
                       => Spent(pairs) = page.amount
                 /\ Earned(ItemLines(i, from, to)) = ItemInsights(i, from, to).profit
                 /\ ItemInsights(i, from, to).deals = page.deals
                 /\ Rows(from, to) = AllRows =>
                       Spent(pairs) = Spent(SupplierPrices(i))
<1> TAKE i \in Items
<1> DEFINE rows == ItemRowsOf(i, from, to)
<1>1. ItemReport(i, from, to) = [deals |-> Deals(rows), amount |-> Sum(Amount, rows),
                                 qty |-> Sum(Qty, rows), lines |-> rows]
  BY DEF ItemReport, ItemRowsOf
<1>2. ItemInsights(i, from, to) = [lines |-> Cardinality(rows), deals |-> Deals(rows),
                                   profit |-> Sum(Profit, rows)]
  BY DEF ItemInsights, ItemRowsOf
<1>3. Spent(Pairs(i, from, to)) = Sum(Amount, PairRows(i, from, to))
  BY PairsAdd
<1>4. ASSUME \A r \in rows : purchases[r[1]].supplier # None
      PROVE  Spent(Pairs(i, from, to)) = Sum(Amount, rows)
  <2>1. PairRows(i, from, to) = rows
    BY <1>4 DEF PairRows
  <2> QED BY <1>3, <2>1
<1>5. Earned(ItemLines(i, from, to)) = Sum(Profit, rows)
  BY ItemLinesAdd
<1>6. ASSUME Rows(from, to) = AllRows
      PROVE  Spent(Pairs(i, from, to)) = Spent(SupplierPrices(i))
  <2>1. AllTime(i) = PairRows(i, from, to)
    BY <1>6 DEF AllTime, PairRows, ItemRowsOf
  <2> QED BY <1>3, <1>6, <2>1, SupplierPricesAdd
<1> HIDE DEF rows
<1> QED BY <1>1, <1>2, <1>4, <1>5, <1>6

-----------------------------------------------------------------------------
(* Categories, all of whose items are offered.                               *)
Offered(c) == c \in Categories /\ \A i \in Items : item[i].category = c => ~item[i].archived
Members(c) == {i \in Items : item[i].category = c}

LEMMA CategoryRow ==
    ASSUME NEW from, NEW to, NEW g \in CategoryRows(from, to)
    PROVE  LET mine == {r \in Rows(from, to) : CategoryOf(r) = g.category}
           IN /\ g.lines = Cardinality(mine) /\ g.totals = TotalsOf(mine)
              /\ g.profit = Sum(Profit, mine)
<1> DEFINE R == Rows(from, to)
           B == CategoryRows(from, to)
           mine == {r \in R : CategoryOf(r) = g.category}
<1>1. PICK key, K, h :
          /\ Keyed(R, key, K) /\ Shown(Groups(R, key, K), h, B)
          /\ \A r \in R : key[r] = CategoryOf(r)
          /\ \A o \in Groups(R, key, K) :
                /\ h[o].category = o.key /\ h[o].lines = Cardinality(o.rows)
                /\ h[o].totals = TotalsOf(o.rows) /\ h[o].profit = Sum(Profit, o.rows)
  BY CategoryRowsShown
<1>2. PICK o \in Groups(R, key, K) : g = h[o]
  <2> HIDE DEF R
  <2> QED BY <1>1 DEF Shown
<1>3. o.rows = Group(R, key, o.key)
  <2> HIDE DEF R
  <2> QED BY DEF Groups
<1>4. g.category = o.key /\ g.lines = Cardinality(o.rows) /\ g.totals = TotalsOf(o.rows)
      /\ g.profit = Sum(Profit, o.rows)
  <2> HIDE DEF R
  <2> QED BY <1>1, <1>2
<1>5. mine = o.rows
  <2>1. Group(R, key, o.key) = {r \in R : CategoryOf(r) = o.key}
    BY <1>1 DEF Group
  <2> QED BY <1>3, <1>4, <2>1
<1> HIDE DEF mine
<1> QED BY <1>4, <1>5 DEF mine

LEMMA OfferedLines ==
    ASSUME ReportsSensible, ReportsInv, NEW c, Offered(c), NEW from, NEW to
    PROVE  /\ {r \in Rows(from, to) : CategoryOf(r) = c} = CategoryLines(c, from, to)
           /\ \A r \in Rows(from, to) : r \in CategoryLines(c, from, to)
                                          <=> r[2].item \in Members(c)
<1>1. c # "Uncategorized" /\ None \notin Items
  BY DEF ReportsSensible, Offered
<1>2. \A r \in Rows(from, to) : r[2].item \in Items \union {None}
  <2> TAKE r \in Rows(from, to)
  <2>1. r[2] \in Line
    BY RowFields
  <2> QED BY <2>1, LineFields
<1>3. \A r \in Rows(from, to) : CategoryOf(r) = c
           <=> r[2].item # None /\ item[r[2].item].category = c
  BY <1>1, <1>2 DEF CategoryOf, Catalogued, Offered
<1> QED BY <1>1, <1>2, <1>3 DEF CategoryLines, Members

LEMMA CatalogAdds ==
    ASSUME ReportsSensible, ReportsInv, NEW c, Offered(c), NEW from, NEW to,
           Rows(from, to) = AllRows
    PROVE  Spent(CategoryTradeSummary(c)) = Sum(Amount, CategoryLines(c, from, to))
<1> DEFINE R == Rows(from, to)
           C == CategoryLines(c, from, to)
           K == Members(c)
           B == CategoryTradeSummary(c)
           a == [r \in R |-> Amount(r)]
           part == [i \in K |-> ItemRowsOf(i, from, to)]
           f == [i \in K |-> [item |-> i, amount |-> Sum(Amount, ItemRowsOf(i, from, to)),
                              bags |-> Sum(Bags, ItemRowsOf(i, from, to)),
                              weight |-> Sum(Weight, ItemRowsOf(i, from, to))]]
           v == [b \in B |-> b.amount]
<1>1. IsFiniteSet(R) /\ \A r \in R : a[r] \in Int
  BY RowFields, RowsFinite
<1>2. \A T \in SUBSET R : Sum(Amount, T) = SumOver(a, T)
  <2>1. IsRows(R)
    BY RowsAreRows
  <2> HIDE DEF R
  <2> QED BY <2>1, SumsOfRows DEF IsRows
<1>3. IsFiniteSet(K)
  BY FS_Subset DEF ReportsSensible, Members
<1>4. Parts(R, K, part, C)
  <2>1. \A i \in K : part[i] \subseteq R
    BY DEF ItemRowsOf
  <2>2. \A i, j \in K : i # j => part[i] \intersect part[j] = {}
    BY DEF ItemRowsOf
  <2>3. C = UNION {part[i] : i \in K}
    <3>1. \A r \in R : r \in C <=> r[2].item \in K
      BY OfferedLines
    <3>2. C \subseteq R
      BY DEF CategoryLines
    <3>3. \A r : r \in UNION {part[i] : i \in K} <=> r \in R /\ r[2].item \in K
      BY DEF ItemRowsOf
    <3> HIDE DEF R, C, K, part
    <3> QED BY <3>1, <3>2, <3>3
  <2> HIDE DEF R, C, K, part
  <2> QED BY <2>1, <2>2, <2>3 DEF Parts
<1>5. Named(K, f, B)
  <2>1. B = {f[i] : i \in K}
    BY DEF CategoryTradeSummary, ItemRowsOf, Members
  <2>2. \A i, j \in K : f[i] = f[j] => i = j
    <3>1. \A i \in K : f[i].item = i
      <4> HIDE DEF K
      <4> QED OBVIOUS
    <3> HIDE DEF f, K
    <3> QED BY <3>1
  <2>3. f = [i \in K |-> f[i]]
    <3> HIDE DEF K
    <3> QED OBVIOUS
  <2> HIDE DEF f, K, B
  <2> QED BY <2>1, <2>2, <2>3 DEF Named
<1>6. Adds(K, f, v, a, part)
  <2>1. \A i \in K : f[i] \in B
    <3> HIDE DEF f, K, B
    <3> QED BY <1>5 DEF Named
  <2>2. \A i \in K : f[i].amount = Sum(Amount, part[i])
    <3> HIDE DEF K
    <3> QED OBVIOUS
  <2>3. \A b \in B : v[b] = b.amount
    OBVIOUS
  <2>4. \A i \in K : part[i] \in SUBSET R
    BY DEF ItemRowsOf
  <2> HIDE DEF f, K, B, v, part, R, a
  <2> QED BY <1>2, <2>1, <2>2, <2>3, <2>4 DEF Adds
<1>7. Spent(B) = SumOver(v, B)
  BY SpentSum
<1>8. C \in SUBSET R
  BY DEF CategoryLines
<1> HIDE DEF f, K, B, v, part, R, a, C
<1>9. SumOver(v, B) = SumOver(a, C)
  BY <1>1, <1>3, <1>4, <1>5, <1>6, SumFamily
<1>10. Spent(B) = Sum(Amount, C)
  BY <1>2, <1>7, <1>8, <1>9
<1> QED BY <1>10 DEF B, C

LEMMA CategoriesPage ==
    ASSUME ReportsSensible, ReportsInv, NEW from \in Days, NEW to \in Days
    PROVE  \A g \in CategoryRows(from, to) :
              g.category \in Categories
                 /\ (\A i \in Items : item[i].category = g.category => ~item[i].archived) =>
                 /\ Rows(from, to) = AllRows =>
                       Spent(CategoryTradeSummary(g.category)) = g.totals.amount
                 /\ Bought(CategoryItems(g.category, from, to)) = g.totals.qty
                 /\ Amounts(ItemRows(from, to, {g.category}, {}, {})) = g.totals.amount
                 /\ CategoryInsights(g.category, from, to).profit = g.profit
                 /\ CategoryInsights(g.category, from, to).lines = g.lines
<1> TAKE g \in CategoryRows(from, to)
<1> DEFINE c == g.category
           mine == CategoryLines(c, from, to)
<1> SUFFICES ASSUME Offered(c)
             PROVE  /\ Rows(from, to) = AllRows =>
                          Spent(CategoryTradeSummary(c)) = g.totals.amount
                    /\ Bought(CategoryItems(c, from, to)) = g.totals.qty
                    /\ Amounts(ItemRows(from, to, {c}, {}, {})) = g.totals.amount
                    /\ CategoryInsights(c, from, to).profit = g.profit
                    /\ CategoryInsights(c, from, to).lines = g.lines
  BY DEF Offered
<1>1. /\ g.lines = Cardinality(mine) /\ g.totals = TotalsOf(mine)
      /\ g.profit = Sum(Profit, mine)
  <2>1. {r \in Rows(from, to) : CategoryOf(r) = c} = mine
    BY OfferedLines
  <2> HIDE DEF mine
  <2> QED BY <2>1, CategoryRow
<1>2. g.totals.amount = Sum(Amount, mine) /\ g.totals.qty = Sum(Qty, mine)
  <2>1. TotalsOf(mine).amount = Sum(Amount, mine) /\ TotalsOf(mine).qty = Sum(Qty, mine)
    BY DEF TotalsOf
  <2> QED BY <1>1, <2>1
<1>3. Rows(from, to) = AllRows => Spent(CategoryTradeSummary(c)) = Sum(Amount, mine)
  BY CatalogAdds
<1>4. Bought(CategoryItems(c, from, to)) = Sum(Qty, mine)
  BY CategoryItemsAdd
<1>5. Amounts(ItemRows(from, to, {c}, {}, {})) = Sum(Amount, mine)
  <2>1. Wanted(from, to, {c}, {}, {}) = mine
    <3>1. \A r \in Rows(from, to) : r[2].item \in Items \union {None}
      <4> TAKE r \in Rows(from, to)
      <4>1. r[2] \in Line
        BY RowFields
      <4> QED BY <4>1, LineFields
    <3>2. \A r \in Rows(from, to) : (Catalogued(r) /\ item[r[2].item].category \in {c})
             <=> (r[2].item # None /\ item[r[2].item].category = c)
      BY <3>1 DEF Catalogued, Offered
    <3> QED BY <3>2 DEF Wanted, CategoryLines
  <2>2. Amounts(ItemRows(from, to, {c}, {}, {})) = Sum(Amount, Wanted(from, to, {c}, {}, {}))
    BY ItemRowsAdd
  <2> QED BY <2>1, <2>2
<1>6. CategoryInsights(c, from, to) = [items |-> Cardinality(Members(c)),
                                       lines |-> Cardinality(mine), profit |-> Sum(Profit, mine)]
  <2>1. {r \in Rows(from, to) : r[2].item \in Members(c)} = mine
    BY OfferedLines DEF CategoryLines
  <2> QED BY <2>1 DEF CategoryInsights, Members
<1> HIDE DEF mine
<1> QED BY <1>1, <1>2, <1>3, <1>4, <1>5, <1>6

LEMMA PagesAgreeHere ==
    ASSUME ReportsSensible, ReportsInv PROVE PagesAgree
BY SuppliersPage, ItemsPage, CategoriesPage DEF PagesAgree, Pairs, Spent, Bought, Earned

(* The page of a supplier, an item or a category shows what the breakdowns say *)
(* of it (PagesAgree): each page's own query selects the lines of one group.  *)
THEOREM PagesAlwaysAgree == ReportsSensible => (Spec => []PagesAgree)
<1> SUFFICES ASSUME ReportsSensible PROVE Spec => []PagesAgree
  OBVIOUS
<1>1. ReportsInv => PagesAgree
  BY PagesAgreeHere
<1>2. Spec => []ReportsInv
  BY ReportsInvariant
<1> QED BY <1>1, <1>2, PTL

-----------------------------------------------------------------------------
(* StockViews: the pages of the stock.                                       *)

ViewsSensible ==
    /\ IsFiniteSet(Items) /\ IsFiniteSet(Purchases)
    /\ Levels \subseteq Nat /\ Quantities \subseteq Nat
    /\ MaxDay \in Nat /\ MaxChanges \in Nat
    /\ None \notin Int \union Purchases /\ None \notin Views!Purchase

ViewTypes ==
    /\ item \in [Items -> Views!Item]
    /\ purchase \in [Purchases -> Views!Purchase \union {None}]
    /\ bought \in [Items -> [Views!DayRange -> Nat]] /\ used \in [Items -> [Views!DayRange -> Nat]]
    /\ net \in [Items -> Int] /\ count \in [Items -> Int \union {None}]
    /\ reorder \in [Items -> [Views!Entries -> Nat]]
    /\ \A i \in Items : reorder[i]["pending"] <= 1
    /\ day \in Views!DayRange /\ changes \in 0..MaxChanges

(* A purchase that is not cancelled counts as delivered exactly when its      *)
(* stock was taken in, and then it brought something.                         *)
UnitsOf(row) == IF row.recv = None THEN row.qty ELSE row.recv
SoundRow(row) ==
    row.status # "cancelled" =>
        /\ row.delivery # "cancelled"
        /\ row.delivered <=> row.delivery = "stock_committed"
        /\ row.delivery = "stock_committed" => UnitsOf(row) > 0
RowsSound == \A p \in Purchases : purchase[p] # None => SoundRow(purchase[p])

(* The last trade of an item is a purchase of it.                            *)
LastIsOwn == \A i \in Items : item[i].last # None =>
    purchase[item[i].last] # None /\ purchase[item[i].last].item = i

ViewsInv == ViewTypes /\ RowsSound /\ LastIsOwn

LEMMA PurchaseFields ==
    ASSUME ViewTypes, NEW p \in Purchases, purchase[p] # None
    PROVE  /\ purchase[p] \in Views!Purchase /\ purchase[p].item \in Items
           /\ purchase[p].qty \in Nat /\ purchase[p].recv \in Nat \union {None}
           /\ purchase[p].status \in Views!Statuses /\ purchase[p].delivery \in Views!Deliveries
           /\ purchase[p].delivered \in BOOLEAN
           /\ purchase[p].moved \subseteq {"receive", "revert"}
           /\ Views!StockUnits(p) = UnitsOf(purchase[p]) /\ Views!StockUnits(p) \in Nat /\ Views!SaleUnits(p) \in Nat
<1>1. purchase[p] \in Views!Purchase
  BY DEF ViewTypes
<1>2. /\ purchase[p].item \in Items /\ purchase[p].qty \in Nat
      /\ purchase[p].recv \in Nat \union {None} /\ purchase[p].status \in Views!Statuses
      /\ purchase[p].delivery \in Views!Deliveries /\ purchase[p].delivered \in BOOLEAN
      /\ purchase[p].moved \subseteq {"receive", "revert"}
  BY <1>1 DEF Views!Purchase
<1> QED BY <1>1, <1>2 DEF Views!StockUnits, UnitsOf, Views!SaleUnits

LEMMA ItemFields ==
    ASSUME ViewTypes, NEW i \in Items
    PROVE  /\ item[i] \in Views!Item /\ item[i].unit \in Units
           /\ item[i].stockUnit \in Units /\ item[i].stock \in Nat
           /\ item[i].level \in Levels /\ item[i].opening \in Nat \union {None}
           /\ item[i].archived \in BOOLEAN /\ item[i].last \in Purchases \union {None}
           /\ item[i].since \in Views!DayRange \union {None}
<1>1. item[i] \in Views!Item
  BY DEF ViewTypes
<1> QED BY <1>1 DEF Views!Item

LEMMA ViewsStart == ViewsSensible /\ Views!Init => ViewsInv
<1> SUFFICES ASSUME ViewsSensible, Views!Init PROVE ViewsInv
  OBVIOUS
<1>1. item \in [Items -> Views!Item] /\ \A i \in Items : item[i].last = None
  <2>1. item \in [Items -> [unit : Units, stockUnit : Units, stock : {0}, level : Levels,
                            opening : {None}, archived : {FALSE}, last : {None},
                            since : {None}]]
    BY DEF Views!Init
  <2>2. ASSUME NEW i \in Items PROVE item[i] \in Views!Item /\ item[i].last = None
    <3>1. item[i] \in [unit : Units, stockUnit : Units, stock : {0}, level : Levels,
                       opening : {None}, archived : {FALSE}, last : {None}, since : {None}]
      BY <2>1
    <3>2. /\ item[i] = [unit |-> item[i].unit, stockUnit |-> item[i].stockUnit,
                         stock |-> item[i].stock, level |-> item[i].level,
                         opening |-> item[i].opening, archived |-> item[i].archived,
                         last |-> item[i].last, since |-> item[i].since]
          /\ item[i].unit \in Units /\ item[i].stockUnit \in Units
          /\ item[i].stock = 0 /\ item[i].level \in Levels
          /\ item[i].opening = None /\ item[i].archived = FALSE
          /\ item[i].last = None /\ item[i].since = None
      BY <3>1
    <3>3. None \in Nat \union {None} /\ None \in Purchases \union {None}
          /\ None \in Views!DayRange \union {None} /\ 0 \in Nat /\ FALSE \in BOOLEAN
      OBVIOUS
    <3> QED BY <3>2, <3>3 DEF Views!Item
  <2> QED BY <2>1, <2>2
<1>2. /\ reorder \in [Items -> [Views!Entries -> Nat]]
      /\ \A i \in Items : reorder[i]["pending"] <= 1
  BY DEF Views!Init, Views!Entries
<1>3. ViewTypes
  BY <1>1, <1>2 DEF Views!Init, ViewTypes, ViewsSensible, Views!DayRange
<1> QED BY <1>1, <1>3 DEF ViewsInv, RowsSound, LastIsOwn, Views!Init

(* Writing one purchase and at most one item.                                *)
LEMMA RowsWritten ==
    ASSUME ViewsSensible, ViewsInv, NEW p \in Purchases, NEW row \in Views!Purchase,
           NEW j \in Items, NEW new \in Views!Item,
           purchase' = [purchase EXCEPT ![p] = row],
           item' = [item EXCEPT ![j] = new],
           SoundRow(row), purchase[p] # None => row.item = purchase[p].item,
           \/ new.last \in {item[j].last, None}
           \/ purchase'[new.last] # None /\ purchase'[new.last].item = j,
           Views!Purchasing, changes' \in 0..MaxChanges
    PROVE  ViewsInv'
<1>1. ViewTypes'
  BY DEF ViewsInv, ViewTypes, Views!Purchasing
<1>2. RowsSound'
  BY DEF ViewsInv, ViewTypes, RowsSound
<1>3. ASSUME NEW i \in Items, item'[i].last # None
      PROVE  purchase'[item'[i].last] # None /\ purchase'[item'[i].last].item = i
  <2>1. item'[i] = IF i = j THEN new ELSE item[i]
    BY DEF ViewsInv, ViewTypes
  <2>2. \A q \in Purchases : purchase'[q] = IF q = p THEN row ELSE purchase[q]
    BY DEF ViewsInv, ViewTypes
  <2>3. row # None
    BY DEF ViewsSensible
  <2>4. CASE item'[i].last = item[i].last
    <3>1. item[i].last \in Purchases /\ purchase[item[i].last] # None
          /\ purchase[item[i].last].item = i
      BY <1>3, <2>4, ItemFields DEF ViewsInv, LastIsOwn
    <3> QED BY <2>2, <2>3, <2>4, <3>1
  <2>5. CASE item'[i].last # item[i].last
    BY <1>3, <2>1, <2>5
  <2> QED BY <2>4, <2>5
<1> QED BY <1>1, <1>2, <1>3 DEF ViewsInv, LastIsOwn

(* Writing one purchase and no item.                                         *)
LEMMA RowWritten ==
    ASSUME ViewsSensible, ViewsInv, NEW p \in Purchases, NEW row \in Views!Purchase,
           purchase' = [purchase EXCEPT ![p] = row], item' = item,
           SoundRow(row), purchase[p] # None => row.item = purchase[p].item,
           Views!Purchasing, changes' \in 0..MaxChanges
    PROVE  ViewsInv'
<1>1. row.item \in Items
  BY DEF Views!Purchase
<1>2. item[row.item] \in Views!Item /\ item' = [item EXCEPT ![row.item] = item[row.item]]
  BY <1>1 DEF ViewsInv, ViewTypes
<1> QED BY <1>1, <1>2, RowsWritten

(* Writing one item and no purchase.                                         *)
LEMMA ItemWritten ==
    ASSUME ViewsSensible, ViewsInv, NEW j \in Items, NEW new \in Views!Item,
           new.last = item[j].last,
           item' = [item EXCEPT ![j] = new], purchase' = purchase,
           bought' \in [Items -> [Views!DayRange -> Nat]], used' \in [Items -> [Views!DayRange -> Nat]],
           net' \in [Items -> Int], count' \in [Items -> Int \union {None}],
           reorder' = reorder, day' = day, changes' \in 0..MaxChanges
    PROVE  ViewsInv'
<1>1. ViewTypes'
  BY DEF ViewsInv, ViewTypes
<1>2. \A i \in Items : item'[i].last = item[i].last
  BY DEF ViewsInv, ViewTypes
<1> QED BY <1>1, <1>2 DEF ViewsInv, RowsSound, LastIsOwn

LEMMA LossType ==
    ASSUME ViewsInv, NEW p \in Purchases, purchase[p] # None
    PROVE  Views!Loss(p) \in Nat /\ purchase[p].item \in Items
BY PurchaseFields DEF Views!Loss, ViewsInv

LEMMA Restocked ==
    ASSUME NEW old \in Views!Item, NEW n \in Nat, NEW new, new = [old EXCEPT !.stock = n]
    PROVE  new \in Views!Item /\ new.last = old.last
BY DEF Views!Item

Restock(old, n, q, d) == [old EXCEPT !.stock = n, !.last = q, !.since = d]
LEMMA RestockType ==
    ASSUME NEW old \in Views!Item, NEW n \in Nat, NEW q \in Purchases \union {None},
           NEW d \in Views!DayRange \union {None}
    PROVE  Restock(old, n, q, d) \in Views!Item /\ Restock(old, n, q, d).last = q
BY DEF Views!Item, Restock

TakeIn(old, n, d) == [old EXCEPT !.stock = n, !.since = d]
LEMMA TakeInType ==
    ASSUME NEW old \in Views!Item, NEW n \in Nat, NEW d \in Views!DayRange
    PROVE  TakeIn(old, n, d) \in Views!Item /\ TakeIn(old, n, d).last = old.last
BY DEF Views!Item, TakeIn

LEMMA CreateSound ==
    ASSUME ViewsSensible, ViewsInv, NEW p \in Purchases, NEW i \in Items, NEW qty \in Quantities,
           NEW status \in {"draft", "confirmed"}, Views!Create(p, i, qty, status),
           changes' \in 0..MaxChanges
    PROVE  ViewsInv'
<1> DEFINE row == [item |-> i, qty |-> qty, recv |-> None, day |-> day, status |-> status,
                   delivery |-> "pending", delivered |-> FALSE, moved |-> {}]
<1>1. row \in Views!Purchase /\ SoundRow(row) /\ row.item = i /\ row # None
  <2>1. row \in Views!Purchase
    BY DEF Views!Purchase, ViewsSensible, ViewsInv, ViewTypes, Views!Statuses, Views!Deliveries
  <2>2. SoundRow(row)
    BY DEF SoundRow
  <2> QED BY <2>1, <2>2 DEF ViewsSensible
<1>2. purchase' = [purchase EXCEPT ![p] = row] /\ purchase[p] = None /\ Views!Purchasing
  BY DEF Views!Create, Views!SetRow
<1> HIDE DEF row
<1>3. CASE status = "confirmed"
  <2> DEFINE new == [item[i] EXCEPT !.last = p]
  <2>1. item' = [item EXCEPT ![i] = new]
    BY <1>3 DEF Views!Create, Views!SetItem
  <2>2. new \in Views!Item /\ new.last = p
    BY ItemFields DEF Views!Item, ViewsInv
  <2>3. purchase'[p] = row
    BY <1>2 DEF ViewsInv, ViewTypes
  <2> HIDE DEF new
  <2> QED BY <1>1, <1>2, <2>1, <2>2, <2>3, RowsWritten
<1>4. CASE status # "confirmed"
  <2>1. item' = item
    BY <1>4 DEF Views!Create, Views!SetItem, ViewsInv, ViewTypes
  <2> QED BY <1>1, <1>2, <2>1, RowWritten
<1> QED BY <1>3, <1>4

LEMMA ArriveSound ==
    ASSUME ViewsSensible, ViewsInv, NEW p \in Purchases, Views!Arrive(p), changes' \in 0..MaxChanges
    PROVE  ViewsInv'
<1> DEFINE row == [purchase[p] EXCEPT !.delivery = "arrived"]
<1>1. purchase[p] # None /\ purchase[p].delivery = "pending" /\ purchase[p].status # "cancelled"
  BY DEF Views!Arrive, Views!Live
<1>2. row \in Views!Purchase /\ row.item = purchase[p].item
  BY <1>1, PurchaseFields DEF Views!Purchase, Views!Deliveries, ViewsInv
<1>3. SoundRow(row)
  BY <1>1, PurchaseFields DEF SoundRow, ViewsInv, RowsSound, Views!Purchase, UnitsOf
<1> QED BY <1>1, <1>2, <1>3, RowWritten DEF Views!Arrive, Views!SetRow

(* The delivery may be committed from the row as it is or as it was just      *)
(* verified.                                                                  *)
LEMMA CommitSound ==
    ASSUME ViewsSensible, ViewsInv, NEW p \in Purchases, purchase[p] # None,
           NEW row \in Views!Purchase, SoundRow(row), row.item = purchase[p].item,
           Views!Commit(p, row), Views!Purchasing, changes' \in 0..MaxChanges
    PROVE  ViewsInv'
<1>1. CASE "receive" \in row.moved
  BY <1>1, RowWritten DEF Views!Commit, Views!SetRow
<1>2. CASE "receive" \notin row.moved
  <2> DEFINE gain == UnitsOf(row)
             done == [row EXCEPT !.delivery = "stock_committed", !.delivered = TRUE,
                                 !.status = "added_to_stock", !.moved = @ \union {"receive"}]
             new == [item[row.item] EXCEPT !.stock = @ + gain, !.since = day]
  <2>1. gain > 0 /\ Views!SetRow(p, done) /\ Views!SetItem(row.item, new)
    BY <1>2 DEF Views!Commit, UnitsOf
  <2>2. row.item \in Items /\ gain \in Nat
    BY DEF Views!Purchase, UnitsOf
  <2>3. /\ done \in Views!Purchase /\ done.item = row.item /\ done.recv = row.recv /\ done.qty = row.qty
        /\ done.delivery = "stock_committed" /\ done.delivered = TRUE
    BY DEF Views!Purchase, Views!Deliveries, Views!Statuses
  <2>4. SoundRow(done)
    <3>1. UnitsOf(done) = gain
      BY <2>3 DEF UnitsOf
    <3> HIDE DEF done, gain
    <3> QED BY <2>1, <2>3, <3>1 DEF SoundRow
  <2>5. new \in Views!Item /\ new.last = item[row.item].last
    <3> HIDE DEF gain
    <3>1. item[row.item] \in Views!Item /\ day \in Views!DayRange
      BY <2>2, ItemFields DEF ViewsInv, ViewTypes
    <3>2. item[row.item].stock + gain \in Nat
      BY <2>2, <3>1 DEF Views!Item
    <3>3. new = TakeIn(item[row.item], item[row.item].stock + gain, day)
      BY DEF TakeIn
    <3> HIDE DEF new
    <3> QED BY <3>1, <3>2, <3>3, TakeInType
  <2> HIDE DEF done, new, gain
  <2> QED BY <2>1, <2>2, <2>3, <2>4, <2>5, RowsWritten DEF Views!SetRow, Views!SetItem
<1> QED BY <1>1, <1>2

LEMMA VerifySound ==
    ASSUME ViewsSensible, ViewsInv, NEW p \in Purchases, NEW counted \in Quantities,
           Views!VerifyDelivery(p, counted), changes' \in 0..MaxChanges
    PROVE  ViewsInv'
<1> DEFINE short == counted < purchase[p].qty
           row == [purchase[p] EXCEPT
                      !.recv = counted,
                      !.delivery = IF short THEN "partial" ELSE "staff_verified",
                      !.status = IF short THEN "verification_pending" ELSE "verified"]
<1>1. /\ purchase[p] # None /\ purchase[p].delivery = "arrived"
      /\ purchase[p].status # "cancelled"
      /\ IF short THEN Views!SetRow(p, row) /\ UNCHANGED item ELSE Views!Commit(p, row)
      /\ Views!Purchasing
  BY DEF Views!VerifyDelivery, Views!Live
<1>2. purchase[p] \in Views!Purchase /\ counted \in Nat /\ purchase[p].delivered = FALSE
  <2>1. SoundRow(purchase[p])
    BY <1>1 DEF ViewsInv, RowsSound
  <2> QED BY <1>1, <2>1, PurchaseFields DEF ViewsInv, ViewsSensible, SoundRow
<1>3. /\ row \in Views!Purchase /\ row.item = purchase[p].item /\ row.delivered = FALSE
      /\ row.delivery \in {"partial", "staff_verified"}
  BY <1>2 DEF Views!Purchase, Views!Deliveries, Views!Statuses
<1>4. SoundRow(row)
  BY <1>3 DEF SoundRow
<1> HIDE DEF row
<1>5. CASE short
  BY <1>1, <1>3, <1>4, <1>5, RowWritten DEF Views!SetRow
<1>6. CASE ~short
  BY <1>1, <1>3, <1>4, <1>6, CommitSound
<1> QED BY <1>5, <1>6

LEMMA CommitDeliverySound ==
    ASSUME ViewsSensible, ViewsInv, NEW p \in Purchases, Views!CommitDelivery(p),
           changes' \in 0..MaxChanges
    PROVE  ViewsInv'
<1>1. purchase[p] # None /\ Views!Commit(p, purchase[p]) /\ Views!Purchasing
  BY DEF Views!CommitDelivery, Views!Live
<1>2. purchase[p] \in Views!Purchase /\ SoundRow(purchase[p])
  BY <1>1, PurchaseFields DEF ViewsInv, RowsSound
<1> QED BY <1>1, <1>2, CommitSound

LEMMA TakenBackFields ==
    ASSUME NEW p \in Purchases, NEW row \in Views!Purchase
    PROVE  /\ Views!TakenBack(p, row) \in Views!Purchase
           /\ Views!TakenBack(p, row).item = row.item /\ Views!TakenBack(p, row).status = row.status
           /\ Views!TakenBack(p, row).delivery = row.delivery
           /\ Views!TakenBack(p, row).delivered = row.delivered
BY DEF Views!TakenBack, Views!Purchase

LEMMA RevertSound ==
    ASSUME ViewsSensible, ViewsInv, NEW p \in Purchases, Views!RevertDelivery(p),
           changes' \in 0..MaxChanges
    PROVE  ViewsInv'
<1> DEFINE row == Views!TakenBack(p, Views!PendingAgain(p))
           j == purchase[p].item
           new == [item[j] EXCEPT !.stock = @ - Views!Loss(p)]
<1>1. /\ purchase[p] # None /\ item[j].stock >= Views!Loss(p) /\ Views!SetRow(p, row) /\ Views!SetItem(j, new)
      /\ Views!Purchasing
  BY DEF Views!RevertDelivery, Views!Live
<1>2. /\ Views!PendingAgain(p) \in Views!Purchase /\ Views!PendingAgain(p).item = j
      /\ Views!PendingAgain(p).delivered = FALSE /\ Views!PendingAgain(p).delivery = "pending"
  BY <1>1, PurchaseFields DEF Views!PendingAgain, Views!Purchase, Views!Deliveries, ViewsInv
<1>3. row \in Views!Purchase /\ row.item = j /\ row.delivered = FALSE /\ row.delivery = "pending"
  BY <1>2, TakenBackFields
<1>4. SoundRow(row)
  BY <1>3 DEF SoundRow
<1>5. Views!Loss(p) \in Nat /\ j \in Items
  BY <1>1, LossType
<1>6. new \in Views!Item /\ new.last = item[j].last
  BY <1>1, <1>5, ItemFields DEF Views!Item, ViewsInv
<1> HIDE DEF row, new, j
<1> QED BY <1>1, <1>3, <1>4, <1>5, <1>6, RowsWritten DEF Views!SetRow, Views!SetItem, j

LEMMA CancelSound ==
    ASSUME ViewsSensible, ViewsInv, NEW p \in Purchases, Views!Cancel(p), changes' \in 0..MaxChanges
    PROVE  ViewsInv'
<1> DEFINE gone == [purchase[p] EXCEPT !.status = "cancelled", !.delivered = FALSE,
                                       !.delivery = "cancelled"]
           row == Views!TakenBack(p, gone)
           j == purchase[p].item
<1>1. PICK q \in Views!Latest(j, Purchases \ {p}) :
          Views!SetItem(j, [item[j] EXCEPT !.stock = @ - Views!Loss(p), !.last = q,
                                           !.since = IF q = None THEN None ELSE @])
  BY DEF Views!Cancel
<1> DEFINE new == [item[j] EXCEPT !.stock = @ - Views!Loss(p), !.last = q,
                                  !.since = IF q = None THEN None ELSE @]
<1>2. purchase[p] # None /\ item[j].stock >= Views!Loss(p) /\ Views!SetRow(p, row) /\ Views!Purchasing
  BY DEF Views!Cancel, Views!Live
<1>3. gone \in Views!Purchase /\ gone.item = j /\ gone.status = "cancelled"
  BY <1>2, PurchaseFields DEF Views!Purchase, Views!Deliveries, Views!Statuses, ViewsInv
<1>4. row \in Views!Purchase /\ row.item = j /\ row.status = "cancelled"
  BY <1>3, TakenBackFields
<1>5. SoundRow(row)
  BY <1>4 DEF SoundRow
<1>6. Views!Loss(p) \in Nat /\ j \in Items
  BY <1>2, LossType
<1>7. q = None \/ (q \in Purchases \ {p} /\ purchase[q] # None /\ purchase[q].item = j)
  BY DEF Views!Latest, Views!Live
<1>8. new \in Views!Item /\ new.last = q
  <2> DEFINE n == item[j].stock - Views!Loss(p)
             d == IF q = None THEN None ELSE item[j].since
  <2>1. item[j] \in Views!Item /\ n \in Nat /\ d \in Views!DayRange \union {None}
        /\ q \in Purchases \union {None}
    BY <1>2, <1>6, <1>7, ItemFields DEF ViewsInv
  <2>2. new = Restock(item[j], n, q, d)
    BY DEF Restock
  <2> HIDE DEF n, d, j, new
  <2> QED BY <2>1, <2>2, RestockType
<1>9. q # None => purchase'[q] # None /\ purchase'[q].item = j
  BY <1>2, <1>7 DEF Views!SetRow, ViewsInv, ViewTypes
<1> HIDE DEF row, new, j, gone
<1> QED BY <1>1, <1>2, <1>4, <1>5, <1>6, <1>8, <1>9, RowsWritten DEF Views!SetRow, Views!SetItem, j, new

(* The requests that write one item.                                         *)
LEMMA SumOfBought ==
    ASSUME ViewsSensible, ViewsInv, NEW S \in SUBSET Purchases, \A p \in S : purchase[p] # None
    PROVE  Views!MapThenSumSet(Views!SaleUnits, S) \in Nat
<1> DEFINE w == [p \in S |-> Views!SaleUnits(p)]
           G(g) == [s \in SUBSET S |-> IF s = {} THEN 0
                                       ELSE Views!SaleUnits(Pick(s)) + g[s \ {Pick(s)}]]
<1>1. (CHOOSE g : IsIter(g, w, S)) = (CHOOSE g : g = G(g))
  <2>1. ASSUME NEW g PROVE IsIter(g, w, S) <=> g = G(g)
    BY DEF IsIter, Pick
  <2> QED BY <2>1
<1>2. Views!MapThenSumSet(Views!SaleUnits, S) = (CHOOSE g : g = G(g))[S]
  BY DEF Views!MapThenSumSet, Views!MapThenFoldSet, Pick
<1>3. Views!MapThenSumSet(Views!SaleUnits, S) = SumOver(w, S)
  BY <1>1, <1>2 DEF SumOver, Iter
<1>4. IsFiniteSet(S) /\ \A p \in S : w[p] \in Nat
  BY PurchaseFields, FS_Subset DEF ViewsSensible, ViewsInv
<1> HIDE DEF w
<1> QED BY <1>3, <1>4, SumNat

LEMMA QuickSound ==
    ASSUME ViewsSensible, ViewsInv, NEW i \in Items, NEW qty \in Quantities,
           Views!QuickPurchase(i, qty), changes' \in 0..MaxChanges
    PROVE  ViewsInv'
<1>1. qty \in Nat /\ item[i].stock \in Nat /\ day \in Views!DayRange
  BY ItemFields DEF ViewsSensible, ViewsInv, ViewTypes
<1>2. item[i].stock + qty \in Nat
  BY <1>1
<1>3. bought' \in [Items -> [Views!DayRange -> Nat]]
  BY <1>1 DEF Views!QuickPurchase, ViewsInv, ViewTypes
<1> DEFINE new == [item[i] EXCEPT !.stock = @ + qty]
<1>4. new \in Views!Item /\ new.last = item[i].last
  <2>1. new = [item[i] EXCEPT !.stock = item[i].stock + qty] /\ item[i] \in Views!Item
    BY ItemFields DEF ViewsInv
  <2> HIDE DEF new
  <2> QED BY <1>2, <2>1, Restocked
<1> QED BY <1>3, <1>4, ItemWritten DEF Views!QuickPurchase, Views!SetItem, ViewsInv, ViewTypes

LEMMA UsageSound ==
    ASSUME ViewsSensible, ViewsInv, NEW i \in Items, NEW qty \in Quantities,
           Views!SubmitUsage(i, qty), changes' \in 0..MaxChanges
    PROVE  ViewsInv'
<1> DEFINE today == {p \in Views!LinesOf(i) : purchase[p].delivered /\ purchase[p].day = day}
           closing == Views!Larger(item[i].stock, Views!BoughtToday(i)) - qty
           new == [item[i] EXCEPT !.stock = closing]
<1>1. qty \in Nat /\ item[i].stock \in Nat /\ day \in Views!DayRange /\ net[i] \in Int
  BY ItemFields DEF ViewsSensible, ViewsInv, ViewTypes
<1>2. Views!BoughtToday(i) \in Nat
  <2>1. today \in SUBSET Purchases /\ \A p \in today : purchase[p] # None
    BY DEF Views!LinesOf, Views!Live
  <2> HIDE DEF today
  <2>2. Views!MapThenSumSet(Views!SaleUnits, today) \in Nat
    BY <2>1, SumOfBought
  <2> QED BY <2>2 DEF Views!BoughtToday, today
<1>3. closing \in Int
  BY <1>1, <1>2 DEF Views!Larger
<1>4. closing >= 0 /\ item' = [item EXCEPT ![i] = new]
      /\ used' = [used EXCEPT ![i][day] = qty] /\ net' = [net EXCEPT ![i] = @ + closing - item[i].stock]
      /\ UNCHANGED <<purchase, bought, count, reorder, day>>
  BY DEF Views!SubmitUsage, Views!SetItem
<1> HIDE DEF closing
<1>5. closing \in Nat
  BY <1>3, <1>4
<1>6. new \in Views!Item /\ new.last = item[i].last
  <2>1. new = [item[i] EXCEPT !.stock = closing] /\ item[i] \in Views!Item
    BY ItemFields DEF ViewsInv
  <2> HIDE DEF new
  <2> QED BY <1>5, <2>1, Restocked
<1>7. used' \in [Items -> [Views!DayRange -> Nat]] /\ net' \in [Items -> Int]
  BY <1>1, <1>3, <1>4 DEF ViewsInv, ViewTypes
<1> HIDE DEF new
<1> QED BY <1>4, <1>6, <1>7, ItemWritten DEF ViewsInv, ViewTypes

LEMMA CountSound ==
    ASSUME ViewsSensible, ViewsInv, NEW i \in Items, NEW qty \in Quantities,
           NEW update \in BOOLEAN, Views!CountItem(i, qty, update), changes' \in 0..MaxChanges
    PROVE  ViewsInv'
<1>1. qty \in Nat /\ item[i].stock \in Nat /\ net[i] \in Int
  BY ItemFields DEF ViewsSensible, ViewsInv, ViewTypes
<1>2. count' \in [Items -> Int \union {None}]
  BY <1>1 DEF Views!CountItem, ViewsInv, ViewTypes
<1>3. CASE update
  <2> DEFINE new == [item[i] EXCEPT !.stock = qty]
  <2>1. new \in Views!Item /\ new.last = item[i].last
    <3>1. new = [item[i] EXCEPT !.stock = qty] /\ item[i] \in Views!Item
      BY ItemFields DEF ViewsInv
    <3> HIDE DEF new
    <3> QED BY <1>1, <3>1, Restocked
  <2>2. item' = [item EXCEPT ![i] = new] /\ net' \in [Items -> Int]
    BY <1>1, <1>3 DEF Views!CountItem, Views!SetItem, ViewsInv, ViewTypes
  <2> HIDE DEF new
  <2> QED BY <1>2, <2>1, <2>2, ItemWritten DEF Views!CountItem, ViewsInv, ViewTypes
<1>4. CASE ~update
  <2>1. item[i] \in Views!Item /\ item' = [item EXCEPT ![i] = item[i]] /\ net' = net
    BY <1>4, ItemFields DEF Views!CountItem, ViewsInv, ViewTypes
  <2> QED BY <1>2, <2>1, ItemWritten DEF Views!CountItem, ViewsInv, ViewTypes
<1> QED BY <1>3, <1>4

LEMMA OpeningSound ==
    ASSUME ViewsSensible, ViewsInv, NEW i \in Items, NEW qty \in Quantities,
           Views!SetOpening(i, qty), changes' \in 0..MaxChanges
    PROVE  ViewsInv'
<1>1. qty \in Nat /\ item[i].stock \in Nat /\ net[i] \in Int
  BY ItemFields DEF ViewsSensible, ViewsInv, ViewTypes
<1> DEFINE new == [item[i] EXCEPT !.stock = qty, !.opening = qty]
<1>2. new \in Views!Item /\ new.last = item[i].last
  BY <1>1, ItemFields DEF Views!Item, ViewsInv
<1>3. item' = [item EXCEPT ![i] = new] /\ net' \in [Items -> Int]
  BY <1>1 DEF Views!SetOpening, Views!SetItem, ViewsInv, ViewTypes
<1> HIDE DEF new
<1> QED BY <1>2, <1>3, ItemWritten DEF Views!SetOpening, ViewsInv, ViewTypes

LEMMA LevelSound ==
    ASSUME ViewsSensible, ViewsInv, NEW i \in Items, NEW level \in Levels,
           Views!SetLevel(i, level), changes' \in 0..MaxChanges
    PROVE  ViewsInv'
<1>1. [item[i] EXCEPT !.level = level] \in Views!Item
      /\ [item[i] EXCEPT !.level = level].last = item[i].last
  BY ItemFields DEF Views!Item, ViewsInv
<1> QED BY <1>1, ItemWritten DEF Views!SetLevel, Views!SetItem, ViewsInv, ViewTypes

LEMMA ArchiveSound ==
    ASSUME ViewsSensible, ViewsInv, NEW i \in Items, Views!Archive(i), changes' \in 0..MaxChanges
    PROVE  ViewsInv'
<1>1. [item[i] EXCEPT !.archived = TRUE] \in Views!Item
      /\ [item[i] EXCEPT !.archived = TRUE].last = item[i].last
  BY ItemFields DEF Views!Item, ViewsInv
<1> QED BY <1>1, ItemWritten DEF Views!Archive, Views!SetItem, ViewsInv, ViewTypes

LEMMA SetUnitSound ==
    ASSUME ViewsSensible, ViewsInv, NEW i \in Items, NEW unit \in Units, NEW stockUnit \in Units,
           Views!SetUnit(i, unit, stockUnit), changes' \in 0..MaxChanges
    PROVE  ViewsInv'
<1> DEFINE new == [item[i] EXCEPT !.unit = unit, !.stockUnit = stockUnit]
<1>1. new \in Views!Item /\ new.last = item[i].last
  BY ItemFields DEF Views!Item, ViewsInv
<1>2. item' = [item EXCEPT ![i] = new]
  BY DEF Views!SetUnit, Views!SetItem
<1> HIDE DEF new
<1> QED BY <1>1, <1>2, ItemWritten DEF Views!SetUnit, ViewsInv, ViewTypes

(* An item has at most one pending entry to reorder.                         *)
LEMMA ReorderSound ==
    ASSUME ViewsSensible, ViewsInv, NEW i \in Items, Views!Reorder(i), changes' \in 0..MaxChanges
    PROVE  ViewsInv'
<1>1. reorder \in [Items -> [Views!Entries -> Nat]] /\ \A j \in Items : reorder[j]["pending"] <= 1
  BY DEF ViewsInv, ViewTypes
<1>2. \A s \in Views!Entries : reorder[i][s] \in Nat
  BY <1>1
<1>3. ASSUME NEW new \in [Views!Entries -> Nat], new["pending"] <= 1,
             reorder' = [reorder EXCEPT ![i] = new]
      PROVE  ViewsInv'
  <2>1. /\ reorder' \in [Items -> [Views!Entries -> Nat]]
        /\ \A j \in Items : reorder'[j]["pending"] <= 1
    BY <1>1, <1>3
  <2> QED BY <2>1 DEF Views!Reorder, ViewsInv, ViewTypes, RowsSound, LastIsOwn
<1>4. CASE Views!AddReorder(i)
  <2> DEFINE new == [reorder[i] EXCEPT !["pending"] = 1]
  <2>1. new \in [Views!Entries -> Nat] /\ new["pending"] <= 1
    BY <1>1 DEF Views!Entries
  <2>2. reorder' = [reorder EXCEPT ![i] = new]
    BY <1>1, <1>4 DEF Views!AddReorder
  <2> HIDE DEF new
  <2> QED BY <1>3, <2>1, <2>2
<1>5. ASSUME NEW s \in Views!Entries, Views!DeleteReorder(i, s) PROVE ViewsInv'
  <2> DEFINE new == [reorder[i] EXCEPT ![s] = @ - 1]
  <2>1. reorder[i][s] > 0
    BY <1>5 DEF Views!DeleteReorder, Views!EntriesOf
  <2>2. new \in [Views!Entries -> Nat] /\ new["pending"] <= 1
    BY <1>1, <1>2, <2>1 DEF Views!Entries
  <2>3. reorder' = [reorder EXCEPT ![i] = new]
    BY <1>1, <1>5 DEF Views!DeleteReorder
  <2> HIDE DEF new
  <2> QED BY <1>3, <2>2, <2>3
<1>6. ASSUME NEW s \in Views!Entries, NEW to \in Views!Entries, Views!PatchReorder(i, s, to)
      PROVE  ViewsInv'
  <2> DEFINE new == [reorder[i] EXCEPT ![s] = @ - 1, ![to] = @ + 1]
  <2>1. s # to /\ reorder[i][s] > 0 /\ (to = "pending" => ~(reorder[i]["pending"] > 0))
    BY <1>6 DEF Views!PatchReorder, Views!EntriesOf, Views!Entries
  <2>2. \A e \in Views!Entries : new[e] = IF e = to THEN reorder[i][to] + 1
                                          ELSE IF e = s THEN reorder[i][s] - 1 ELSE reorder[i][e]
    BY <1>1, <2>1
  <2>3. new \in [Views!Entries -> Nat]
    BY <1>1, <1>2, <2>1, <2>2
  <2>4. new["pending"] <= 1
    BY <1>1, <1>2, <2>1, <2>2 DEF Views!Entries
  <2>5. reorder' = [reorder EXCEPT ![i] = new]
    BY <1>1, <1>6, <2>1 DEF Views!PatchReorder
  <2> HIDE DEF new
  <2> QED BY <1>3, <2>3, <2>4, <2>5
<1> QED BY <1>4, <1>5, <1>6 DEF Views!Reorder

LEMMA ViewsStep == ViewsSensible /\ ViewsInv /\ [Views!Next]_Views!vars => ViewsInv'
<1> SUFFICES ASSUME ViewsSensible, ViewsInv, [Views!Next]_Views!vars PROVE ViewsInv'
  OBVIOUS
<1>1. CASE UNCHANGED Views!vars
  BY <1>1 DEF Views!vars, ViewsInv, ViewTypes, RowsSound, LastIsOwn
<1>2. CASE Views!Next
  <2>1. changes' \in 0..MaxChanges
    BY <1>2 DEF Views!Next, ViewsInv, ViewTypes, ViewsSensible
  <2>2. ASSUME NEW p \in Purchases, NEW i \in Items, NEW qty \in Quantities,
               NEW status \in {"draft", "confirmed"}, Views!Create(p, i, qty, status)
        PROVE  ViewsInv'
    BY <2>1, <2>2, CreateSound
  <2>3. ASSUME NEW p \in Purchases,
               Views!Arrive(p) \/ Views!CommitDelivery(p) \/ Views!RevertDelivery(p) \/ Views!Cancel(p)
        PROVE  ViewsInv'
    BY <2>1, <2>3, ArriveSound, CommitDeliverySound, RevertSound, CancelSound
  <2>4. ASSUME NEW p \in Purchases, NEW counted \in Quantities, Views!VerifyDelivery(p, counted)
        PROVE  ViewsInv'
    BY <2>1, <2>4, VerifySound
  <2>5. ASSUME NEW i \in Items, NEW qty \in Quantities,
               \/ Views!QuickPurchase(i, qty) \/ Views!SubmitUsage(i, qty) \/ Views!SetOpening(i, qty)
               \/ \E update \in BOOLEAN : Views!CountItem(i, qty, update)
        PROVE  ViewsInv'
    BY <2>1, <2>5, QuickSound, UsageSound, OpeningSound, CountSound
  <2>6. ASSUME NEW i \in Items,
               \/ \E level \in Levels : Views!SetLevel(i, level)
               \/ \E unit, stockUnit \in Units : Views!SetUnit(i, unit, stockUnit)
               \/ Views!Archive(i) \/ Views!Reorder(i)
        PROVE  ViewsInv'
    BY <2>1, <2>6, LevelSound, SetUnitSound, ArchiveSound, ReorderSound
  <2>7. CASE Views!NewDay
    BY <2>1, <2>7 DEF Views!NewDay, ViewsInv, ViewTypes, RowsSound, LastIsOwn, ViewsSensible, Views!DayRange
  <2> QED BY <1>2, <2>2, <2>3, <2>4, <2>5, <2>6, <2>7 DEF Views!Next
<1> QED BY <1>1, <1>2

LEMMA ViewsInvariant == ViewsSensible => (Views!Spec => []ViewsInv)
<1> SUFFICES ASSUME ViewsSensible PROVE Views!Spec => []ViewsInv
  OBVIOUS
<1>1. Views!Init => ViewsInv
  BY ViewsStart
<1>2. ViewsInv /\ [Views!Next]_Views!vars => ViewsInv'
  BY ViewsStep
<1> QED BY <1>1, <1>2, PTL DEF Views!Spec

(* The database's conditions on the status of an item and the function       *)
(* behind its row agree.                                                     *)
LEMMA FilterIsStatus ==
    ASSUME ViewsSensible, ViewsInv, NEW i \in Items
    PROVE  /\ \A status \in {"out", "critical", "low"} : Views!Filter(i, status) <=> Views!Status(i) = status
           /\ Views!Shortage(i) <=> Views!Status(i) # "healthy"
           /\ Views!Shortage(i) <=> Views!Status(i) \in {"out", "critical", "low"}
           /\ item[i].level > 0 /\ item[i].stock <= item[i].level => Views!Shortage(i)
<1>1. item[i].stock \in Nat /\ item[i].level \in Nat
  BY ItemFields DEF ViewsInv, ViewsSensible
<1>2. Views!Filter(i, "out") <=> Views!Status(i) = "out"
  BY <1>1 DEF Views!Filter, Views!Status, Views!One
<1>3. Views!Filter(i, "critical") <=> Views!Status(i) = "critical"
  BY <1>1 DEF Views!Filter, Views!Status, Views!One
<1>4. Views!Filter(i, "low") <=> Views!Status(i) = "low"
  BY <1>1 DEF Views!Filter, Views!Status, Views!One
<1>5. Views!Status(i) \in {"out", "critical", "low", "healthy"}
  BY DEF Views!Status
<1>6. item[i].level > 0 /\ item[i].stock <= item[i].level => Views!Status(i) # "healthy"
  BY <1>1 DEF Views!Status
<1> QED BY <1>2, <1>3, <1>4, <1>5, <1>6 DEF Views!Shortage

LEMMA ListedByStatus ==
    ASSUME ViewsSensible, ViewsInv
    PROVE  /\ \A status \in {"out", "critical", "low"} :
                 /\ Views!Listed(status, FALSE, Items) = {i \in Views!Active : Views!Status(i) = status}
                 /\ Views!OpeningSetup("all", status) = {i \in Views!Active : Views!Status(i) = status}
                 /\ {i \in Views!Active : Views!Filter(i, status)} = {i \in Views!Active : Views!Status(i) = status}
           /\ Views!Listed("shortage", FALSE, Items) = {i \in Views!Active : Views!Status(i) # "healthy"}
           /\ Views!Listed("all", TRUE, Items) \subseteq Views!Listed("shortage", FALSE, Items)
<1>1. Views!Active \subseteq Items
  BY DEF Views!Active
<1>2. ASSUME NEW status \in {"out", "critical", "low"}
      PROVE  /\ Views!Listed(status, FALSE, Items) = {i \in Views!Active : Views!Status(i) = status}
             /\ Views!OpeningSetup("all", status) = {i \in Views!Active : Views!Status(i) = status}
             /\ {i \in Views!Active : Views!Filter(i, status)} = {i \in Views!Active : Views!Status(i) = status}
  BY <1>1, FilterIsStatus DEF Views!Listed, Views!OpeningSetup
<1>3. Views!Listed("shortage", FALSE, Items) = {i \in Views!Active : Views!Status(i) # "healthy"}
  BY <1>1, FilterIsStatus DEF Views!Listed
<1>4. Views!Listed("all", TRUE, Items) \subseteq Views!Listed("shortage", FALSE, Items)
  BY <1>1, FilterIsStatus DEF Views!Listed
<1> QED BY <1>2, <1>3, <1>4

ShortItems == {i \in Views!Active : Views!Status(i) # "healthy"}
WithStatus(status) == {i \in Views!Active : Views!Status(i) = status}

(* The pages of the low stock show the shortages.                            *)
LEMMA OperationsByStatus ==
    ASSUME ViewsSensible, ViewsInv
    PROVE  /\ Views!LowStockOperations("all", 0, day) = ShortItems
           /\ Views!LowStockOperations("low", 0, day) = WithStatus("low") \union WithStatus("critical")
           /\ Views!LowStockOperations("out", 0, day) = WithStatus("out")
           /\ Views!LowStockOperations("out", 0, day) \subseteq Views!LowStockOperations("urgent", 0, day)
           /\ Views!LowStockOperations("delayed", 0, day) \subseteq Views!LowStockOperations("urgent", 0, day)
           /\ ShortItems = WithStatus("out") \union WithStatus("low") \union WithStatus("critical")
<1>1. Views!Listed("shortage", FALSE, Items) = ShortItems
  BY ListedByStatus DEF ShortItems
<1>2. \A i \in Items : Views!Status(i) \in {"out", "critical", "low", "healthy"}
  BY DEF Views!Status
<1>3. Views!Active \subseteq Items
  BY DEF Views!Active
<1>4. Views!LowStockOperations("all", 0, day) = ShortItems
  BY <1>1 DEF Views!LowStockOperations
<1>5. Views!LowStockOperations("low", 0, day) = WithStatus("low") \union WithStatus("critical")
  BY <1>1, <1>2, <1>3 DEF Views!LowStockOperations, ShortItems, WithStatus, Views!Out
<1>6. Views!LowStockOperations("out", 0, day) = WithStatus("out")
  BY <1>1, <1>2, <1>3 DEF Views!LowStockOperations, ShortItems, WithStatus, Views!Out
<1>7. \A i \in Items : Views!Out(i) \/ Views!Delayed(i) => Views!Band(i, 0, day) \in {"critical", "high"}
  BY DEF Views!Band
<1>8. Views!LowStockOperations("out", 0, day) \subseteq Views!LowStockOperations("urgent", 0, day)
  BY <1>1, <1>3, <1>7 DEF Views!LowStockOperations, ShortItems
<1>9. Views!LowStockOperations("delayed", 0, day) \subseteq Views!LowStockOperations("urgent", 0, day)
  BY <1>1, <1>3, <1>7 DEF Views!LowStockOperations, ShortItems
<1>10. ShortItems = WithStatus("out") \union WithStatus("low") \union WithStatus("critical")
  BY <1>2, <1>3 DEF ShortItems, WithStatus
<1> QED BY <1>4, <1>5, <1>6, <1>8, <1>9, <1>10

LEMMA StagesTrue ==
    ASSUME ViewsSensible, ViewsInv, NEW shown \in Views!OperationsPage("all", 0, day)
    PROVE  /\ shown.row.status # "healthy" /\ "attention" \notin shown.stages
           /\ "reorder_requested" \in shown.stages => shown.id \in Views!ReorderList("pending")
<1>1. PICK i \in ShortItems :
          shown = [id |-> i, row |-> Views!Row(i, 0, day, FALSE), stages |-> Views!Stages(i, 0, day)]
  BY OperationsByStatus DEF Views!OperationsPage
<1>2. i \in Views!Active /\ i \in Items /\ Views!Status(i) # "healthy"
      /\ Views!Status(i) \in {"out", "critical", "low", "healthy"}
  BY DEF ShortItems, Views!Active, Views!Status
<1>3. Views!Row(i, 0, day, FALSE).status = Views!Status(i)
  BY DEF Views!Row
<1>4. "attention" \notin Views!Stages(i, 0, day)
  BY <1>2 DEF Views!Stages, Views!Out
<1>5. "reorder_requested" \in Views!Stages(i, 0, day) => "pending" \in Views!EntriesOf(i)
  BY DEF Views!Stages
<1> QED BY <1>1, <1>2, <1>3, <1>4, <1>5 DEF Views!ReorderList

(* An instance counts as FiniteSets does.                                    *)
LEMMA InstanceCounts == \A S : Views!Cardinality(S) = Cardinality(S)
BY DEF Views!Cardinality, Cardinality

LEMMA SizeOfPair ==
    ASSUME NEW A, NEW B, IsFiniteSet(A), IsFiniteSet(B), A \intersect B = {}
    PROVE  /\ IsFiniteSet(A \union B)
           /\ Cardinality(A \union B) = Cardinality(A) + Cardinality(B)
<1> DEFINE both == A \intersect B
<1>1. both = {}
  OBVIOUS
<1>2. /\ IsFiniteSet(A \union B)
      /\ Cardinality(A \union B) = Cardinality(A) + Cardinality(B) - Cardinality(both)
  BY FS_Union
<1> HIDE DEF both
<1>3. Cardinality(both) = 0
  BY <1>1, FS_EmptySet
<1>4. Cardinality(A) \in Nat /\ Cardinality(B) \in Nat
  BY FS_CardinalityType
<1> QED BY <1>2, <1>3, <1>4

LEMMA SizeOfUnion ==
    ASSUME NEW A, NEW B, NEW C, IsFiniteSet(A), IsFiniteSet(B), IsFiniteSet(C),
           A \intersect B = {}, A \intersect C = {}, B \intersect C = {}
    PROVE  Views!Cardinality(A \union B \union C) = Views!Cardinality(A) + Views!Cardinality(B) + Views!Cardinality(C)
<1> DEFINE D == A \union B
<1>1. IsFiniteSet(D) /\ Cardinality(D) = Cardinality(A) + Cardinality(B)
  BY SizeOfPair
<1>2. D \intersect C = {}
  OBVIOUS
<1> HIDE DEF D
<1>3. Cardinality(D \union C) = Cardinality(D) + Cardinality(C)
  BY <1>1, <1>2, SizeOfPair
<1> QED BY <1>1, <1>3, InstanceCounts DEF D

LEMMA SumOfStock ==
    ASSUME NEW S
    PROVE  Views!MapThenSumSet(LAMBDA i : item[i].stock, S) = SumOver([i \in S |-> item[i].stock], S)
<1> DEFINE w == [i \in S |-> item[i].stock]
           G(g) == [s \in SUBSET S |-> IF s = {} THEN 0
                                       ELSE item[Pick(s)].stock + g[s \ {Pick(s)}]]
<1>1. (CHOOSE g : IsIter(g, w, S)) = (CHOOSE g : g = G(g))
  <2>1. ASSUME NEW g PROVE IsIter(g, w, S) <=> g = G(g)
    BY DEF IsIter, Pick
  <2> QED BY <2>1
<1>2. Views!MapThenSumSet(LAMBDA i : item[i].stock, S) = (CHOOSE g : g = G(g))[S]
  BY DEF Views!MapThenSumSet, Views!MapThenFoldSet, Pick
<1> QED BY <1>1, <1>2 DEF SumOver, Iter

(* While every item is stocked in its default unit, the totals are the       *)
(* inventory's and the weight of the bags.                                   *)
LEMMA InventoryIsTotal ==
    ASSUME ViewsSensible, ViewsInv, NEW b \in Views!Buckets,
           \A i \in Views!Active : item[i].unit = Views!Bucket(item[i].stockUnit)
    PROVE  Views!StockTotals[b] = Views!Inventory[b] + IF b = "kg" THEN Views!BagWeight ELSE 0
<1> DEFINE all == {i \in Views!Active : item[i].unit = b}
           held == {i \in Views!Active : Views!Bucket(item[i].stockUnit) = b /\ item[i].stock > 0}
           w == [i \in all |-> item[i].stock]
           v == [i \in held |-> item[i].stock]
<1>1. all \in SUBSET Items /\ held \in SUBSET all
  BY DEF Views!Active
<1>2. IsFiniteSet(all) /\ IsFiniteSet(held)
  BY <1>1, FS_Subset DEF ViewsSensible
<1>3. \A i \in all : w[i] \in Int /\ (i \notin held => w[i] = 0)
  BY <1>1, ItemFields DEF ViewsInv
<1>4. \A i \in held : v[i] = w[i]
  BY <1>1
<1>5. Views!InStock(all) = SumOver(w, all) /\ Views!InStock(held) = SumOver(v, held)
  BY SumOfStock DEF Views!InStock
<1>6. /\ Views!StockTotals[b] = Views!InStock(all) + IF b = "kg" THEN Views!BagWeight ELSE 0
      /\ Views!Inventory[b] = Views!InStock(held)
  BY DEF Views!StockTotals, Views!Inventory
<1> HIDE DEF w, v, all, held
<1>7. SumOver(w, all) = SumOver(w, held)
  BY <1>1, <1>2, <1>3, SumFilter
<1>8. SumOver(v, held) = SumOver(w, held)
  BY <1>2, <1>4, SumSame
<1> QED BY <1>5, <1>6, <1>7, <1>8

LEMMA AlertsByStatus ==
    ASSUME ViewsSensible, ViewsInv
    PROVE  /\ Views!Alerts.out = Views!Cardinality(WithStatus("out"))
           /\ Views!Alerts.critical = Views!Cardinality(WithStatus("critical"))
           /\ Views!Alerts.low = Views!Cardinality(WithStatus("low"))
<1>1. \A status \in {"out", "critical", "low"} :
          {i \in Views!Active : Views!Filter(i, status)} = WithStatus(status)
  BY ListedByStatus DEF WithStatus
<1>2. Views!Alerts.out = Views!Cardinality({i \in Views!Active : Views!Filter(i, "out")})
  BY DEF Views!Alerts
<1>3. Views!Alerts.critical = Views!Cardinality({i \in Views!Active : Views!Filter(i, "critical")})
  BY DEF Views!Alerts
<1>4. Views!Alerts.low = Views!Cardinality({i \in Views!Active : Views!Filter(i, "low")})
  BY DEF Views!Alerts
<1> QED BY <1>1, <1>2, <1>3, <1>4

LEMMA SummaryByStatus ==
    ASSUME ViewsSensible, ViewsInv
    PROVE  /\ Views!LowStockSummary(0, day).attention = Views!Cardinality(ShortItems)
           /\ Views!LowStockSummary(0, day).out = Views!Cardinality(WithStatus("out"))
<1>1. Views!Listed("shortage", FALSE, Items) = ShortItems /\ Views!Active \subseteq Items
  BY ListedByStatus DEF ShortItems, Views!Active
<1>2. Views!LowStockSummary(0, day).attention =
                Views!Cardinality({i \in Views!Listed("shortage", FALSE, Items) :
                                Views!Out(i) \/ Views!Status(i) \in {"low", "critical"}})
  BY DEF Views!LowStockSummary
<1>3. Views!LowStockSummary(0, day).out = Views!Cardinality({i \in Views!Listed("shortage", FALSE, Items) : Views!Out(i)})
  BY DEF Views!LowStockSummary
<1>4. \A i \in Items : Views!Status(i) \in {"out", "critical", "low", "healthy"}
  BY DEF Views!Status
<1>5. {i \in ShortItems : Views!Out(i) \/ Views!Status(i) \in {"low", "critical"}} = ShortItems
  BY <1>1, <1>4 DEF ShortItems, Views!Out
<1>6. {i \in ShortItems : Views!Out(i)} = WithStatus("out")
  BY <1>1, <1>4 DEF ShortItems, Views!Out, WithStatus
<1> QED BY <1>1, <1>2, <1>3, <1>5, <1>6

LEMMA StatusesTrue == ASSUME ViewsSensible, ViewsInv PROVE Views!StatusesAgree
<1>1. \A status \in {"out", "critical", "low"} :
          /\ Views!Listed(status, FALSE, Items) = WithStatus(status)
          /\ Views!OpeningSetup("all", status) = WithStatus(status)
  BY ListedByStatus DEF WithStatus
<1>2. Views!Listed("shortage", FALSE, Items) = ShortItems /\ Views!Listed("all", TRUE, Items) \subseteq ShortItems
  BY ListedByStatus DEF ShortItems
<1>3. Views!Cardinality(ShortItems) = Views!Cardinality(WithStatus("out"))
          + Views!Cardinality(WithStatus("critical")) + Views!Cardinality(WithStatus("low"))
  <2> DEFINE A == WithStatus("out")
             B == WithStatus("critical")
             C == WithStatus("low")
  <2>1. A \in SUBSET Items /\ B \in SUBSET Items /\ C \in SUBSET Items
    BY DEF WithStatus, Views!Active
  <2>2. IsFiniteSet(A) /\ IsFiniteSet(B) /\ IsFiniteSet(C)
    BY <2>1, FS_Subset DEF ViewsSensible
  <2>3. A \intersect B = {} /\ A \intersect C = {} /\ B \intersect C = {}
    BY DEF WithStatus
  <2>4. ShortItems = A \union B \union C
    BY OperationsByStatus
  <2> HIDE DEF A, B, C
  <2>5. Views!Cardinality(ShortItems) = Views!Cardinality(A) + Views!Cardinality(B) + Views!Cardinality(C)
    BY <2>2, <2>3, <2>4, SizeOfUnion
  <2> QED BY <2>5 DEF A, B, C
<1>4. Views!TopLowStock = WithStatus("low")
  BY <1>1 DEF Views!TopLowStock
<1>5. Views!OpeningSummary.pending = Views!Cardinality(Views!MissingOpening)
  BY DEF Views!OpeningSummary, Views!MissingOpening
<1>6. Views!OpeningSummary.completed = Views!Cardinality(Views!OpeningSetup("completed", "all"))
  <2>1. Views!OpeningSetup("completed", "all") = {i \in Views!Active : ~Views!Unset(i)}
    BY DEF Views!OpeningSetup
  <2> QED BY <2>1 DEF Views!OpeningSummary
<1> DEFINE ops(filter) == Views!LowStockOperations(filter, 0, day)
<1>7. /\ ops("all") = ops("low") \union ops("out")
      /\ Views!TopLowStock \union Views!Listed("critical", FALSE, Items) = ops("low")
      /\ Views!Listed("all", TRUE, Items) \subseteq ops("all")
      /\ ops("out") \union ops("delayed") \subseteq ops("urgent")
  BY <1>1, <1>2, <1>4, OperationsByStatus
<1>8. /\ Views!Alerts.out = Views!Cardinality(Views!OpeningSetup("all", "out"))
      /\ Views!LowStockSummary(0, day).attention = Views!Cardinality(Views!Listed("shortage", FALSE, Items))
      /\ Views!LowStockSummary(0, day).attention = Views!Alerts.out + Views!Alerts.critical + Views!Alerts.low
      /\ Views!LowStockSummary(0, day).out = Views!Alerts.out
  BY <1>1, <1>2, <1>3, AlertsByStatus, SummaryByStatus
<1>9. \A shown \in Views!OperationsPage("all", 0, day) :
          /\ shown.row.status # "healthy" /\ "attention" \notin shown.stages
          /\ "reorder_requested" \in shown.stages => shown.id \in Views!ReorderList("pending")
  BY StagesTrue
<1>10. (\A i \in Views!Active : item[i].unit = Views!Bucket(item[i].stockUnit)) =>
          \A b \in Views!Buckets :
             Views!StockTotals[b] = Views!Inventory[b] + IF b = "kg" THEN Views!BagWeight ELSE 0
  BY InventoryIsTotal
<1> HIDE DEF ops
<1> QED BY <1>1, <1>5, <1>6, <1>7, <1>8, <1>9, <1>10 DEF Views!StatusesAgree, ops

-----------------------------------------------------------------------------
LEMMA CommittedArrived ==
    ASSUME ViewsSensible, ViewsInv, NEW i \in Items, NEW p \in Views!LinesOf(i),
           purchase[p].delivery = "stock_committed"
    PROVE  Views!DeliveredQty(i) > 0
<1> DEFINE S == {q \in Views!LinesOf(i) : purchase[q].delivery = "stock_committed"}
           T == {q \in Purchases : /\ purchase[q] # None /\ purchase[q].item = i
                                   /\ "receive" \in purchase[q].moved}
<1>1. \A Q \in SUBSET Purchases :
          Views!MapThenSumSet(Views!StockUnits, Q) = SumOver([q \in Q |-> Views!StockUnits(q)], Q)
  <2> TAKE Q \in SUBSET Purchases
  <2> DEFINE w == [q \in Q |-> Views!StockUnits(q)]
             G(g) == [s \in SUBSET Q |-> IF s = {} THEN 0
                                         ELSE Views!StockUnits(Pick(s)) + g[s \ {Pick(s)}]]
  <2>1. (CHOOSE g : IsIter(g, w, Q)) = (CHOOSE g : g = G(g))
    <3>1. ASSUME NEW g PROVE IsIter(g, w, Q) <=> g = G(g)
      BY DEF IsIter, Pick
    <3> QED BY <3>1
  <2>2. Views!MapThenSumSet(Views!StockUnits, Q) = (CHOOSE g : g = G(g))[Q]
    BY DEF Views!MapThenSumSet, Views!MapThenFoldSet, Pick
  <2> QED BY <2>1, <2>2 DEF SumOver, Iter
<1>2. S \in SUBSET Purchases /\ T \in SUBSET Purchases /\ p \in S
  BY DEF Views!LinesOf
<1>3. IsFiniteSet(S) /\ IsFiniteSet(T)
  BY <1>2, FS_Subset DEF ViewsSensible
<1>4. \A q \in S \union T : Views!StockUnits(q) \in Nat
  BY <1>2, PurchaseFields DEF Views!LinesOf, Views!Live, ViewsInv
<1>5. Views!StockUnits(p) > 0
  BY <1>2, PurchaseFields DEF Views!LinesOf, Views!Live, ViewsInv, RowsSound, SoundRow
<1>6. Views!CommittedQty(i) = SumOver([q \in S |-> Views!StockUnits(q)], S)
      /\ Views!MovementQty(i) = SumOver([q \in T |-> Views!StockUnits(q)], T)
  BY <1>1, <1>2 DEF Views!CommittedQty, Views!MovementQty
<1> DEFINE w == [q \in S |-> Views!StockUnits(q)]
           v == [q \in T |-> Views!StockUnits(q)]
<1>7. /\ \A q \in S : w[q] \in Nat
      /\ \A q \in T : v[q] \in Nat
      /\ w[p] > 0 /\ p \in S
  BY <1>2, <1>4, <1>5
<1> HIDE DEF S, T, w, v
<1>8. SumOver(w, S) > 0 /\ SumOver(w, S) \in Nat /\ SumOver(v, T) \in Nat
  BY <1>3, <1>7, SumPositive, SumNat
<1> QED BY <1>6, <1>8 DEF Views!DeliveredQty, Views!Larger, w, v

LEMMA LinesAwaited ==
    ASSUME ViewsSensible, ViewsInv
    PROVE  \A i \in Items : \A p \in Views!LinesOf(i) :
               /\ p \in Purchases /\ Views!Live(p) /\ purchase[p].item = i /\ i \in Views!Active
               /\ ~purchase[p].delivered
                    <=> purchase[p].delivery \notin {"stock_committed", "cancelled"}
BY DEF Views!LinesOf, Views!Live, ViewsInv, RowsSound, SoundRow, Views!Active

LEMMA TrucksTrue == ASSUME ViewsSensible, ViewsInv PROVE Views!TrucksAgree
<1>1. \A i \in Items : Views!LifetimePending(i) = Views!PendingOrders(i)
  BY LinesAwaited DEF Views!LifetimePending, Views!PendingOrders
<1>2. \A i \in Views!Active : Views!StockPage(i, 0, day).pending = Views!StockPage(i, 0, day).row.pending
  BY <1>1 DEF Views!StockPage, Views!Row, Views!Active
<1>3. UNION {Views!PendingOrders(i) : i \in Views!Active} =
          {p \in Views!Awaited : ~item[purchase[p].item].archived}
  <2>1. ASSUME NEW i \in Views!Active, NEW p \in Views!PendingOrders(i)
        PROVE  p \in Views!Awaited /\ ~item[purchase[p].item].archived
    BY <1>1, <2>1, LinesAwaited DEF Views!LifetimePending, Views!Awaited, Views!Active
  <2>2. ASSUME NEW p \in Views!Awaited, ~item[purchase[p].item].archived
        PROVE  \E i \in Views!Active : p \in Views!PendingOrders(i)
    <3> DEFINE i == purchase[p].item
    <3>1. i \in Items /\ Views!Live(p) /\ ~purchase[p].delivered /\ p \in Purchases
      BY PurchaseFields DEF Views!Awaited, Views!Live, ViewsInv
    <3>2. i \in Views!Active /\ p \in Views!LifetimePending(i)
      BY <2>2, <3>1 DEF Views!Active, Views!LifetimePending, Views!LinesOf
    <3> QED BY <1>1, <3>1, <3>2
  <2> QED BY <2>1, <2>2
<1>4. (\A i \in Items : i \in Views!Active) =>
          Views!WarehouseAlerts.deliveries = Views!Cardinality(UNION {Views!PendingOrders(i) : i \in Items})
  <2> SUFFICES ASSUME \A i \in Items : i \in Views!Active
               PROVE  Views!WarehouseAlerts.deliveries
                                = Views!Cardinality(UNION {Views!PendingOrders(i) : i \in Items})
    OBVIOUS
  <2>1. Views!Active = Items
    BY DEF Views!Active
  <2>2. {p \in Views!Awaited : ~item[purchase[p].item].archived} = Views!Awaited
    <3>1. \A p \in Views!Awaited : purchase[p].item \in Items
      BY PurchaseFields DEF Views!Awaited, Views!Live, ViewsInv
    <3> QED BY <3>1 DEF Views!Active
  <2>3. UNION {Views!PendingOrders(i) : i \in Items} = Views!Awaited
    BY <1>3, <2>1, <2>2
  <2> QED BY <2>3 DEF Views!WarehouseAlerts
<1>5. ASSUME NEW i \in Views!Active
      PROVE  /\ Views!Indicator(i) = "pending" <=> Views!HasPending(i)
             /\ Views!Indicator(i) = "delivered" => Views!DeliveredQty(i) > 0
  <2>1. i \in Items /\ ~item[i].archived
    BY DEF Views!Active
  <2>2. CASE Views!HasPending(i)
    BY <2>2 DEF Views!Indicator
  <2>3. CASE ~Views!HasPending(i) /\ Views!LastTrade(i) = None
    BY <2>3 DEF Views!Indicator
  <2>4. CASE ~Views!HasPending(i) /\ Views!LastTrade(i) # None
    <3> DEFINE p == Views!LastTrade(i)
    <3>1. p = item[i].last /\ Views!Live(p) /\ item[i].last # None
      BY <2>4 DEF Views!LastTrade
    <3>2. p \in Purchases /\ purchase[p].item = i
      BY <2>1, <3>1, ItemFields DEF ViewsInv, LastIsOwn
    <3>3. p \in Views!LinesOf(i)
      BY <2>1, <3>1, <3>2 DEF Views!LinesOf
    <3>4. purchase[p].delivery # "cancelled"
      BY <3>1, <3>2 DEF Views!Live, ViewsInv, RowsSound, SoundRow
    <3>5. purchase[p].delivery = "stock_committed"
      BY <2>4, <3>3, <3>4 DEF Views!HasPending, Views!PendingOrders
    <3>6. Views!DeliveredQty(i) > 0
      BY <2>1, <3>3, <3>5, CommittedArrived
    <3> QED BY <2>4, <3>5, <3>6 DEF Views!Indicator
  <2> QED BY <2>2, <2>3, <2>4
<1>6. Views!DeliveryCounts["pending"] = Views!Cardinality({i \in Views!Active : Views!HasPending(i)})
  <2>1. {i \in Views!Active : Views!Indicator(i) = "pending"} = {i \in Views!Active : Views!HasPending(i)}
    BY <1>5
  <2> QED BY <2>1 DEF Views!DeliveryCounts
<1> QED BY <1>2, <1>3, <1>4, <1>5, <1>6 DEF Views!TrucksAgree

(* Stock, levels, logs and purchases stay in their types, whatever is bought,  *)
(* used, counted and archived in any order: no stock is ever negative.        *)
THEOREM ViewsTypeCorrect == ViewsSensible => (Views!Spec => []Views!TypeOK)
<1>1. ViewsInv => Views!TypeOK
  BY ItemFields, PurchaseFields DEF ViewsInv, ViewTypes, Views!TypeOK
<1> QED BY <1>1, ViewsInvariant, PTL

(* Every list, tab and counter of the stock shows the same items as out,       *)
(* critical and low (StatusesAgree).                                          *)
THEOREM StatusesAlwaysAgree == ViewsSensible => (Views!Spec => []Views!StatusesAgree)
<1> SUFFICES ASSUME ViewsSensible PROVE Views!Spec => []Views!StatusesAgree
  OBVIOUS
<1>1. ViewsInv => Views!StatusesAgree
  BY StatusesTrue
<1>2. Views!Spec => []ViewsInv
  BY ViewsInvariant
<1> QED BY <1>1, <1>2, PTL

(* The pages agree on what is on its way (TrucksAgree): a purchase that is not *)
(* cancelled counts as delivered exactly when its stock was taken in.         *)
THEOREM TrucksAlwaysAgree == ViewsSensible => (Views!Spec => []Views!TrucksAgree)
<1> SUFFICES ASSUME ViewsSensible PROVE Views!Spec => []Views!TrucksAgree
  OBVIOUS
<1>1. ViewsInv => Views!TrucksAgree
  BY TrucksTrue
<1>2. Views!Spec => []ViewsInv
  BY ViewsInvariant
<1> QED BY <1>1, <1>2, PTL

-----------------------------------------------------------------------------
(* StockCounts: audits.                                                      *)
CountsSensible ==
    /\ Opening \in Nat /\ Counts \subseteq Nat /\ Used \subseteq Nat
    /\ MaxRequests \in Nat /\ MaxMoves \in Nat /\ MaxDay \in Nat /\ None \notin Nat

(* What a request knows: quantities of items it reads, and an audit that did  *)
(* not forbid it.                                                             *)
Asked(r) ==
    /\ \A i \in Items : r.counted[i] # None => i \in r.items /\ r.kind \in {"count", "replace"}
    /\ r.kind = "count" => \A i \in r.items : r.counted[i] # None
    /\ r.kind = "approve" => r.items # {} /\ r.items \subseteq Counting!Having(r.copy, "pending_approval")
    /\ r.kind \in {"count", "complete", "replace"} => Counting!Open(r.copy)
    /\ r.kind = "delete" => r.copy.status = "draft"

CountInv ==
    /\ Counting!TypeOK
    /\ \A w \in Workers : request[w] # None => Asked(request[w])

LEMMA CountTypes ==
    ASSUME CountInv
    PROVE  /\ stock \in [Items -> Nat] /\ audits \in [Audits -> Counting!Audit]
           /\ request \in [Workers -> Counting!Request \union {None}]
           /\ \A w \in Workers : request[w] # None =>
                 request[w] \in Counting!Request /\ Asked(request[w])
BY DEF CountInv, Counting!TypeOK

LEMMA RequestTypes ==
    ASSUME NEW r \in Counting!Request
    PROVE  /\ r.number \in Nat /\ r.audit \in Audits /\ r.items \subseteq Items
           /\ r.counted \in [Items -> Counts \union {None}] /\ r.seen \in [Items -> Nat \union {None}]
           /\ r.copy \in Counting!Audit /\ r.copy.lines \in [Items -> Counting!Line \union {NoLine}]
           /\ r.copy.status \in {"absent", "draft", "pending_review", "completed", "deleted"}
           /\ r.kind \in {"count", "complete", "approve", "replace", "delete"}
BY DEF Counting!Request, Counting!Audit

(* What is applied was counted, or is a line of the copy.                    *)
LEMMA AppliesTo ==
    ASSUME NEW r \in Counting!Request, Asked(r), NEW i \in Counting!Applies(r)
    PROVE  /\ i \in Items
           /\ r.counted[i] # None \/ /\ r.kind \in {"complete", "approve"}
                                     /\ r.copy.lines[i] \in Counting!Line
BY RequestTypes DEF Counting!Applies, Counting!Having, Counting!LinesOf, Asked

LEMMA AppliedStatus ==
    ASSUME NEW line \in Counting!Line, NEW status \in Counting!LineStatuses
    PROVE  /\ [line EXCEPT !.status = status] \in Counting!Line
           /\ [line EXCEPT !.status = status].status = status
           /\ [line EXCEPT !.status = status].counted = line.counted
BY DEF Counting!Line

LEMMA CountedTypes ==
    ASSUME CountsSensible, NEW r \in Counting!Request, Asked(r), Counting!Unread(r) = {},
           NEW i \in Items, r.counted[i] # None
    PROVE  /\ Counting!CountedLine(r, i) \in Counting!Line
           /\ Counting!LineAfter(r, i) = Counting!CountedLine(r, i)
           /\ i \in Counting!Applies(r) => Counting!CountedLine(r, i).status = "applied"
<1>1. r.seen[i] \in Nat /\ r.counted[i] \in Nat
  BY RequestTypes DEF Asked, Counting!Unread, CountsSensible
<1>2. Counting!LineStatus(r.seen[i], r.counted[i]) \in Counting!LineStatuses
  BY DEF Counting!LineStatus, Counting!LineStatuses
<1> DEFINE there == r.kind = "count" /\ r.copy.lines[i] # NoLine
           row == IF there THEN r.copy.lines[i].row ELSE r.number
           status == IF i \in Counting!Applies(r) THEN "applied"
                     ELSE Counting!LineStatus(r.seen[i], r.counted[i])
<1>3. row \in Nat
  <2>1. r.number \in Nat /\ (r.copy.lines[i] # NoLine => r.copy.lines[i] \in Counting!Line)
    BY RequestTypes
  <2> QED BY <2>1 DEF Counting!Line
<1>4. status \in Counting!LineStatuses
  BY <1>2 DEF Counting!LineStatuses
<1>5. Counting!CountedLine(r, i) =
        [row |-> row, system |-> r.seen[i], counted |-> r.counted[i],
         difference |-> r.counted[i] - r.seen[i], status |-> status]
  BY DEF Counting!CountedLine
<1> HIDE DEF row
<1>6. Counting!LineAfter(r, i) = Counting!CountedLine(r, i)
  <2>1. r.kind \in {"count", "replace"}
    BY DEF Asked
  <2> QED BY <2>1 DEF Counting!LineAfter
<1>7. i \in Counting!Applies(r) => status = "applied"
  OBVIOUS
<1> HIDE DEF status
<1> QED BY <1>1, <1>3, <1>4, <1>5, <1>6, <1>7 DEF Counting!Line

LEMMA LineAfterTypes ==
    ASSUME CountsSensible, NEW r \in Counting!Request, Asked(r), Counting!Unread(r) = {},
           NEW i \in Items
    PROVE  /\ Counting!LineAfter(r, i) \in Counting!Line \union {NoLine}
           /\ i \in Counting!Applies(r) => /\ Counting!LineAfter(r, i) \in Counting!Line
                                           /\ Counting!LineAfter(r, i).status = "applied"
<1>1. CASE r.counted[i] # None
  BY <1>1, CountedTypes
<1>2. CASE r.counted[i] = None
  <2> DEFINE line == r.copy.lines[i]
  <2>1. line \in Counting!Line \union {NoLine}
    BY RequestTypes
  <2>2. CASE i \in Counting!Applies(r)
    <3>1. r.kind \in {"complete", "approve"} /\ line \in Counting!Line
      BY <1>2, <2>2, AppliesTo
    <3>2. Counting!LineAfter(r, i) = [line EXCEPT !.status = "applied"]
      BY <1>2, <2>2, <3>1 DEF Counting!LineAfter
    <3>3. "applied" \in Counting!LineStatuses
      BY DEF Counting!LineStatuses
    <3> QED BY <3>1, <3>2, <3>3, AppliedStatus
  <2>3. CASE i \notin Counting!Applies(r)
    <3>1. \/ Counting!LineAfter(r, i) \in {line, NoLine}
          \/ line # NoLine /\ Counting!LineAfter(r, i) = [line EXCEPT !.status = "matched"]
      <4>1. CASE r.kind = "replace"
        BY <1>2, <4>1 DEF Counting!LineAfter
      <4>2. CASE r.kind = "complete"
        BY <1>2, <2>3, <4>2 DEF Counting!LineAfter, Counting!Agrees
      <4>3. CASE r.kind \in {"count", "approve", "delete"}
        BY <1>2, <2>3, <4>3 DEF Counting!LineAfter
      <4> QED BY <4>1, <4>2, <4>3, RequestTypes
    <3>2. "matched" \in Counting!LineStatuses
      BY DEF Counting!LineStatuses
    <3> QED BY <2>1, <2>3, <3>1, <3>2, AppliedStatus
  <2> QED BY <2>2, <2>3
<1> QED BY <1>1, <1>2

LEMMA StatusAfterTypes ==
    ASSUME NEW r \in Counting!Request
    PROVE  Counting!StatusAfter(r) \in {"absent", "draft", "pending_review", "completed", "deleted"}
BY RequestTypes DEF Counting!StatusAfter, Counting!Reviewed

(* Whatever an audit became meanwhile, what is written is one.               *)
LEMMA WrittenTypes ==
    ASSUME CountsSensible, NEW r \in Counting!Request, Asked(r), Counting!Unread(r) = {},
           NEW now \in Counting!Audit
    PROVE  Counting!AuditWritten(r, now) \in Counting!Audit
<1>1. CASE r.kind = "delete"
  BY <1>1 DEF Counting!AuditWritten, Counting!Without, Counting!Audit
<1>2. CASE r.kind # "delete"
  <2>1. ASSUME NEW i \in Items
        PROVE  Counting!LineWritten(r, i, now.lines[i]) \in Counting!Line \union {NoLine}
    <3> DEFINE old == r.copy.lines[i]
               new == Counting!LineAfter(r, i)
               line == now.lines[i]
    <3>1. /\ old \in Counting!Line \union {NoLine} /\ new \in Counting!Line \union {NoLine}
          /\ line \in Counting!Line \union {NoLine}
      BY RequestTypes, LineAfterTypes DEF Counting!Audit
    <3> DEFINE written == Counting!LineWritten(r, i, line)
    <3>2. written \in {line, new, NoLine} \/
          /\ new # NoLine /\ line # NoLine
          /\ written = [row |-> line.row,
                        system |-> Counting!Written(line.system, old.system, new.system),
                        counted |-> Counting!Written(line.counted, old.counted, new.counted),
                        difference |-> Counting!Written(line.difference, old.difference, new.difference),
                        status |-> IF i \in Counting!Applies(r) THEN "applied"
                                   ELSE Counting!Written(line.status, old.status, new.status)]
      BY DEF Counting!LineWritten, Counting!SameRow
    <3> HIDE DEF old, new, line, written
    <3>3. CASE new # NoLine /\ line # NoLine
      <4>1. new \in Counting!Line /\ line \in Counting!Line
        BY <3>1, <3>3
      <4>2. /\ Counting!Written(line.system, old.system, new.system) \in Nat
            /\ Counting!Written(line.counted, old.counted, new.counted) \in Nat
            /\ Counting!Written(line.difference, old.difference, new.difference) \in Int
            /\ Counting!Written(line.status, old.status, new.status) \in Counting!LineStatuses
            /\ line.row \in Nat /\ "applied" \in Counting!LineStatuses
        BY <4>1 DEF Counting!Written, Counting!Line, Counting!LineStatuses
      <4>3. written \in Counting!Line \union {NoLine}
        BY <3>1, <3>2, <4>2 DEF Counting!Line
      <4> QED BY <4>3 DEF written, line
    <3>4. CASE new = NoLine \/ line = NoLine
      BY <3>1, <3>2, <3>4 DEF written, line
    <3> QED BY <3>3, <3>4
  <2>2. Counting!Written(now.status, r.copy.status, Counting!StatusAfter(r))
          \in {"absent", "draft", "pending_review", "completed", "deleted"}
    BY StatusAfterTypes DEF Counting!Written, Counting!Audit
  <2> QED BY <1>2, <2>1, <2>2 DEF Counting!AuditWritten, Counting!Audit
<1> QED BY <1>1, <1>2

(* What is written to stock is a count.                                      *)
LEMMA CorrectionTypes ==
    ASSUME CountsSensible, CountInv, NEW r \in Counting!Request, Asked(r), Counting!Unread(r) = {},
           NEW i \in Items
    PROVE  Counting!StockWritten(r, i) \in Nat
<1>1. i \in Counting!Applies(r) => Counting!LineAfter(r, i).counted \in Nat
  BY LineAfterTypes DEF Counting!Line
<1> QED BY <1>1, CountTypes DEF Counting!StockWritten

-----------------------------------------------------------------------------
(* Every request keeps the types.                                            *)
LEMMA Noted ==
    ASSUME CountInv, NEW w \in Workers, NEW r,
           r = None \/ (r \in Counting!Request /\ Asked(r)),
           request' = [request EXCEPT ![w] = r],
           stock' \in [Items -> Nat], audits' \in [Audits -> Counting!Audit],
           requests' \in 0..MaxRequests, UNCHANGED <<delivered, logs, day, moves>>
    PROVE  CountInv'
<1>1. request' \in [Workers -> Counting!Request \union {None}]
  BY CountTypes
<1>2. \A v \in Workers : request'[v] # None => Asked(request'[v])
  BY CountTypes
<1> QED BY <1>1, <1>2 DEF CountInv, Counting!TypeOK, Asked, Counting!Having, Counting!LinesOf, Counting!Open

LEMMA LoadStep ==
    ASSUME CountsSensible, CountInv, NEW w \in Workers, NEW a \in Audits,
           NEW kind \in {"count", "complete", "approve", "replace", "delete"},
           NEW items \in SUBSET Items, NEW counted \in [Items -> Counts \union {None}],
           NEW atOnce \in BOOLEAN, Counting!Load(w, a, kind, items, counted, atOnce),
           Asked(Counting!Loaded(a, kind, items, counted, atOnce))
    PROVE  CountInv'
<1>1. requests \in 0..MaxRequests /\ requests' = requests + 1 /\ requests < MaxRequests
  BY DEF CountInv, Counting!TypeOK, Counting!Load
<1>2. requests + 1 \in 1..MaxRequests /\ requests' \in 0..MaxRequests
  BY <1>1 DEF CountsSensible
<1>3. Counting!Loaded(a, kind, items, counted, atOnce) \in Counting!Request
  BY <1>2, CountTypes DEF Counting!Loaded, Counting!Request
<1> QED BY <1>2, <1>3, Noted, CountTypes DEF Counting!Load

LEMMA AskStep ==
    ASSUME CountsSensible, CountInv, NEW w \in Workers, Counting!Asks(w)
    PROVE  CountInv'
<1>1. PICK a \in Audits :
        \/ Counting!Complete(w, a) \/ Counting!Delete(w, a)
        \/ \E counted \in [Items -> Counts \union {None}] : Counting!Replace(w, a, counted)
        \/ \E i \in Items : \/ Counting!Approve(w, a, i)
                            \/ \E qty \in Counts, atOnce \in BOOLEAN :
                                  Counting!UpsertLine(w, a, i, qty, atOnce)
  BY DEF Counting!Asks
<1>2. Counting!NoCounts \in [Items -> Counts \union {None}]
      /\ \A i \in Items : Counting!NoCounts[i] = None
  BY DEF Counting!NoCounts
<1>3. Counting!LinesOf(audits[a]) \subseteq Items
  BY DEF Counting!LinesOf
<1>4. CASE Counting!Complete(w, a)
  <2>1. Asked(Counting!Loaded(a, "complete", Counting!LinesOf(audits[a]), Counting!NoCounts, FALSE))
    BY <1>2, <1>4 DEF Counting!Complete, Counting!Loaded, Asked
  <2> QED BY <1>2, <1>3, <1>4, <2>1, LoadStep DEF Counting!Complete
<1>5. CASE Counting!Delete(w, a)
  <2>1. Asked(Counting!Loaded(a, "delete", {}, Counting!NoCounts, FALSE))
    BY <1>2, <1>5 DEF Counting!Delete, Counting!Loaded, Asked
  <2> QED BY <1>2, <1>5, <2>1, LoadStep DEF Counting!Delete
<1>6. ASSUME NEW counted \in [Items -> Counts \union {None}], Counting!Replace(w, a, counted)
      PROVE  CountInv'
  <2>1. Asked(Counting!Loaded(a, "replace", {i \in Items : counted[i] # None}, counted, FALSE))
    BY <1>6 DEF Counting!Replace, Counting!Loaded, Asked
  <2> QED BY <1>6, <2>1, LoadStep DEF Counting!Replace
<1>7. ASSUME NEW i \in Items, Counting!Approve(w, a, i) PROVE CountInv'
  <2>1. Asked(Counting!Loaded(a, "approve", {i}, Counting!NoCounts, FALSE))
    BY <1>2, <1>7 DEF Counting!Approve, Counting!Approvable, Counting!Loaded, Asked
  <2> QED BY <1>2, <1>7, <2>1, LoadStep DEF Counting!Approve
<1>8. ASSUME NEW i \in Items, NEW qty \in Counts, NEW atOnce \in BOOLEAN,
             Counting!UpsertLine(w, a, i, qty, atOnce)
      PROVE  CountInv'
  <2> DEFINE counted == [Counting!NoCounts EXCEPT ![i] = qty]
  <2>1. counted \in [Items -> Counts \union {None}]
        /\ \A j \in Items : counted[j] # None => j \in {i}
    BY <1>2
  <2>2. counted[i] # None
    BY <1>2 DEF CountsSensible
  <2> HIDE DEF counted
  <2>3. Asked(Counting!Loaded(a, "count", {i}, counted, atOnce))
    BY <1>8, <2>1, <2>2 DEF Counting!UpsertLine, Counting!Loaded, Asked
  <2> QED BY <1>8, <2>1, <2>3, LoadStep DEF Counting!UpsertLine, counted
<1> QED BY <1>1, <1>4, <1>5, <1>6, <1>7, <1>8

LEMMA ReadStockStep ==
    ASSUME CountInv, NEW w \in Workers, Counting!ReadStock(w)
    PROVE  CountInv'
<1>1. PICK some : request' = [request EXCEPT ![w].seen =
                                [i \in Items |-> IF i \in some THEN stock[i] ELSE @[i]]]
  BY DEF Counting!ReadStock
<1>2. request[w] \in Counting!Request /\ Asked(request[w])
  BY CountTypes DEF Counting!ReadStock
<1> DEFINE seen == [i \in Items |-> IF i \in some THEN stock[i] ELSE request[w].seen[i]]
           r == [request[w] EXCEPT !.seen = seen]
<1>3. seen \in [Items -> Nat \union {None}]
  BY <1>2, CountTypes, RequestTypes
<1>4. request' = [request EXCEPT ![w] = r]
  BY <1>1, CountTypes
<1> HIDE DEF seen
<1>5. r \in Counting!Request
  BY <1>2, <1>3 DEF Counting!Request
<1>6. /\ r.counted = request[w].counted /\ r.items = request[w].items
      /\ r.kind = request[w].kind /\ r.copy = request[w].copy
  BY <1>2 DEF Counting!Request
<1> HIDE DEF r
<1>7. Asked(r)
  BY <1>2, <1>6 DEF Asked
<1> QED BY <1>4, <1>5, <1>7, Noted, CountTypes DEF Counting!ReadStock, CountInv, Counting!TypeOK

LEMMA CommitStep ==
    ASSUME CountsSensible, CountInv, NEW w \in Workers, Counting!Commit(w)
    PROVE  CountInv'
<1> DEFINE r == request[w]
           written == Counting!AuditWritten(r, audits[r.audit])
<1>1. r \in Counting!Request /\ Asked(r) /\ Counting!Unread(r) = {} /\ r.audit \in Audits
  BY CountTypes, RequestTypes DEF Counting!Commit
<1>2. written \in Counting!Audit
  BY <1>1, WrittenTypes, CountTypes
<1>3. audits' = [audits EXCEPT ![r.audit] = written]
  BY DEF Counting!Commit
<1> HIDE DEF written
<1>4. audits' \in [Audits -> Counting!Audit]
  BY <1>1, <1>2, <1>3, CountTypes
<1>5. stock' \in [Items -> Nat]
  BY <1>1, CorrectionTypes DEF Counting!Commit
<1> QED BY <1>4, <1>5, Noted, CountTypes DEF Counting!Commit, CountInv, Counting!TypeOK

LEMMA FailStep ==
    ASSUME CountInv, NEW w \in Workers, Counting!Fail(w)
    PROVE  CountInv'
BY Noted, CountTypes DEF Counting!Fail, CountInv, Counting!TypeOK

(* Steps that leave the requests alone.                                      *)
LEMMA RequestsKept ==
    ASSUME CountInv, Counting!TypeOK', UNCHANGED request
    PROVE  CountInv'
BY DEF CountInv, Asked, Counting!Having, Counting!LinesOf, Counting!Open

LEMMA CreateStep ==
    ASSUME CountInv, NEW a \in Audits, Counting!CreateAudit(a)
    PROVE  CountInv'
<1>1. Counting!Without("draft") \in Counting!Audit
  BY DEF Counting!Without, Counting!Audit
<1>2. audits' \in [Audits -> Counting!Audit]
  BY <1>1, CountTypes DEF Counting!CreateAudit
<1> QED BY <1>2, RequestsKept DEF Counting!CreateAudit, CountInv, Counting!TypeOK

LEMMA LogTypes ==
    ASSUME CountInv, NEW i \in Items
    PROVE  /\ Counting!OpeningToday(i) \in Nat /\ delivered[i] \in Nat /\ stock[i] \in Nat
           /\ \A d \in 0..MaxDay : logs[i][d] # NoLog =>
                 logs[i][d] \in Counting!Log /\ logs[i][d].closing \in Nat
<1>1. /\ delivered[i] \in Nat /\ stock[i] \in Nat
      /\ \A d \in 0..MaxDay : logs[i][d] \in Counting!Log \union {NoLog}
  BY DEF CountInv, Counting!TypeOK
<1> QED BY <1>1 DEF Counting!OpeningToday, Counting!Available, Counting!Log

(* Steps that are about no audit.                                            *)
Elsewhere == Counting!TypeOK' /\ UNCHANGED <<audits, request>>

LEMMA SubmitStep ==
    ASSUME CountsSensible, CountInv, NEW i \in Items, NEW taken \in Used, NEW role \in Counting!Roles,
           Counting!SubmitUsage(i, taken, role)
    PROVE  Elsewhere
<1> DEFINE closing == Counting!OpeningToday(i) + delivered[i] - taken
           log == [opening |-> Counting!OpeningToday(i), purchased |-> delivered[i], used |-> taken,
                   closing |-> closing]
<1>1. Counting!OpeningToday(i) \in Nat /\ delivered[i] \in Nat /\ taken \in Nat /\ closing \in Nat
  BY LogTypes DEF Counting!SubmitUsage, Counting!Usable, CountsSensible
<1>2. log \in Counting!Log
  BY <1>1 DEF Counting!Log
<1>3. stock' = [stock EXCEPT ![i] = closing] /\ logs' = [logs EXCEPT ![i][day] = log]
  BY DEF Counting!SubmitUsage
<1> HIDE DEF closing, log
<1>4. stock' \in [Items -> Nat] /\ logs' \in [Items -> [0..MaxDay -> Counting!Log \union {NoLog}]]
  BY <1>1, <1>2, <1>3 DEF CountInv, Counting!TypeOK
<1>5. moves' \in 0..MaxMoves
  BY DEF Counting!SubmitUsage, CountInv, Counting!TypeOK, CountsSensible
<1> QED BY <1>4, <1>5 DEF Counting!SubmitUsage, CountInv, Counting!TypeOK, Elsewhere

LEMMA MaterializeStep ==
    ASSUME CountsSensible, CountInv, Counting!Materialize
    PROVE  Elsewhere
<1>1. ASSUME NEW i \in Items PROVE Counting!SnapshotOf(i) \in Counting!Log
  <2>1. day \in 0..MaxDay /\ (day > 0 => day - 1 \in 0..MaxDay)
    BY DEF CountInv, Counting!TypeOK, CountsSensible
  <2>2. PICK opening \in Nat : Counting!SnapshotOf(i) =
           [opening |-> opening, purchased |-> delivered[i], used |-> 0,
            closing |-> opening + delivered[i]]
    BY <2>1, LogTypes DEF Counting!SnapshotOf
  <2> QED BY <2>2, LogTypes DEF Counting!Log
<1>2. logs' = [i \in Items |->
                 IF stock[i] > 0 /\ logs[i][day] = NoLog
                 THEN [logs[i] EXCEPT ![day] = Counting!SnapshotOf(i)] ELSE logs[i]]
  BY DEF Counting!Materialize
<1>3. logs' \in [Items -> [0..MaxDay -> Counting!Log \union {NoLog}]]
  BY <1>1, <1>2 DEF CountInv, Counting!TypeOK
<1> QED BY <1>3 DEF Counting!Materialize, CountInv, Counting!TypeOK, Elsewhere

LEMMA DeliverStep ==
    ASSUME CountsSensible, CountInv, NEW i \in Items, NEW qty \in Counts, NEW role \in Counting!Roles,
           Counting!Deliver(i, qty, role)
    PROVE  Elsewhere
<1>1. stock' \in [Items -> Nat] /\ delivered' \in [Items -> Nat] /\ moves' \in 0..MaxMoves
  BY DEF Counting!Deliver, CountInv, Counting!TypeOK, CountsSensible
<1> QED BY <1>1 DEF Counting!Deliver, CountInv, Counting!TypeOK, Elsewhere

LEMMA NextDayStep ==
    ASSUME CountsSensible, CountInv, Counting!NextDay
    PROVE  Elsewhere
<1>1. day' \in 0..MaxDay /\ delivered' \in [Items -> Nat]
  BY DEF Counting!NextDay, CountInv, Counting!TypeOK, CountsSensible
<1> QED BY <1>1 DEF Counting!NextDay, CountInv, Counting!TypeOK, Elsewhere

AnyStep ==
    \/ \E a \in Audits : Counting!CreateAudit(a)
    \/ \E w \in Workers : Counting!Asks(w) \/ Counting!ReadStock(w) \/ Counting!Commit(w) \/ Counting!Fail(w)
    \/ Elsewhere

LEMMA NextIs == CountsSensible /\ CountInv /\ Counting!Next => AnyStep
<1> SUFFICES ASSUME CountsSensible, CountInv, Counting!Next PROVE AnyStep
  OBVIOUS
<1>1. ASSUME NEW i \in Items, NEW role \in Counting!Roles,
             \/ \E taken \in Used : Counting!SubmitUsage(i, taken, role)
             \/ \E qty \in Counts : Counting!Deliver(i, qty, role)
      PROVE  Elsewhere
  BY <1>1, SubmitStep, DeliverStep
<1> QED BY <1>1, MaterializeStep, NextDayStep DEF Counting!Next, AnyStep

LEMMA CountStep == CountsSensible /\ CountInv /\ [Counting!Next]_Counting!vars => CountInv'
<1> SUFFICES ASSUME CountsSensible, CountInv, [Counting!Next]_Counting!vars PROVE CountInv'
  OBVIOUS
<1>1. CASE Counting!Next
  <2>1. AnyStep
    BY <1>1, NextIs
  <2>2. CASE Elsewhere
    BY <2>2, RequestsKept DEF Elsewhere
  <2> QED BY <2>1, <2>2, CreateStep, AskStep, ReadStockStep, CommitStep, FailStep DEF AnyStep
<1>2. CASE UNCHANGED Counting!vars
  BY <1>2, RequestsKept DEF Counting!vars, CountInv, Counting!TypeOK
<1> QED BY <1>1, <1>2

LEMMA CountInit == CountsSensible /\ Counting!Init => CountInv
<1> SUFFICES ASSUME CountsSensible, Counting!Init PROVE CountInv
  OBVIOUS
<1>1. Counting!Without("absent") \in Counting!Audit
  BY DEF Counting!Without, Counting!Audit
<1> QED BY <1>1 DEF CountsSensible, Counting!Init, CountInv, Counting!TypeOK

LEMMA CountInvariant == CountsSensible => (Counting!Spec => []CountInv)
<1> SUFFICES ASSUME CountsSensible PROVE Counting!Spec => []CountInv
  OBVIOUS
<1>1. Counting!Init => CountInv
  BY CountInit
<1>2. CountInv /\ [Counting!Next]_Counting!vars => CountInv'
  BY CountStep
<1> QED BY <1>1, <1>2, PTL DEF Counting!Spec

(* Stock, what was delivered and every line of every audit and log stay       *)
(* natural, however requests about audits overlap: usage is checked against   *)
(* what there was, and an absolute correction is a count.                     *)
THEOREM CountsTypeCorrect == CountsSensible => (Counting!Spec => []Counting!TypeOK)
<1> SUFFICES ASSUME CountsSensible PROVE Counting!Spec => []Counting!TypeOK
  OBVIOUS
<1>1. CountInv => Counting!TypeOK
  BY DEF CountInv
<1>2. Counting!Spec => []CountInv
  BY CountInvariant
<1> QED BY <1>1, <1>2, PTL

-----------------------------------------------------------------------------
(* Requests one at a time: what a request loaded is the audit still.         *)
OneWorker == \A v, w \in Workers : v = w

(* No line of a completed audit waits, and an audit not made yet has none.   *)
Settled(audit) ==
    /\ audit.status = "completed" => \A i \in Items : ~Counting!Approvable(audit, i)
    /\ audit.status = "absent" => Counting!LinesOf(audit) = {}

SerialInv ==
    /\ \A a \in Audits : Settled(audits[a])
    /\ \A w \in Workers : request[w] # None =>
         request[w].copy = audits[request[w].audit] /\ request[w].copy.status # "absent"

KeptFinal == \A a \in Audits : audits[a].status = "completed"
    => /\ audits'[a] = audits[a]
       /\ \A i \in Items : ~Counting!Approvable(audits[a], i)

(* Loading: what is loaded was not absent.                                   *)
LEMMA LoadsThere ==
    ASSUME CountInv, SerialInv, NEW w \in Workers, Counting!Asks(w)
    PROVE  /\ audits' = audits
           /\ \E r : /\ request' = [request EXCEPT ![w] = r]
                     /\ r.audit \in Audits /\ r.copy = audits[r.audit]
                     /\ r.copy.status # "absent"
<1>1. PICK a, kind, items, counted, atOnce :
        /\ a \in Audits /\ Counting!Load(w, a, kind, items, counted, atOnce)
        /\ \/ Counting!Open(audits[a]) \/ audits[a].status = "draft"
           \/ \E i \in Items : Counting!Approvable(audits[a], i)
  BY DEF Counting!Asks, Counting!Complete, Counting!Delete, Counting!Replace, Counting!Approve,
         Counting!UpsertLine
<1>2. audits[a].status # "absent"
  BY <1>1 DEF Counting!Open, Counting!Approvable, Counting!Having, SerialInv, Settled
<1> DEFINE r == Counting!Loaded(a, kind, items, counted, atOnce)
<1>3. r.audit = a /\ r.copy = audits[a]
  BY DEF Counting!Loaded
<1> QED BY <1>1, <1>2, <1>3 DEF Counting!Load

LEMMA AskSerial ==
    ASSUME CountInv, SerialInv, NEW w \in Workers, Counting!Asks(w)
    PROVE  SerialInv' /\ audits' = audits
<1>1. audits' = audits
  BY LoadsThere
<1>2. PICK r : /\ request' = [request EXCEPT ![w] = r] /\ r.copy = audits[r.audit]
               /\ r.copy.status # "absent"
  BY LoadsThere
<1>3. \A v \in Workers : request'[v] = IF v = w THEN r ELSE request[v]
  BY <1>2, CountTypes
<1> QED BY <1>1, <1>2, <1>3 DEF SerialInv, Settled, Counting!Approvable, Counting!Having, Counting!LinesOf

LEMMA ReadStockSerial ==
    ASSUME CountInv, SerialInv, NEW w \in Workers, Counting!ReadStock(w)
    PROVE  SerialInv' /\ audits' = audits
<1>1. PICK seen : request' = [request EXCEPT ![w] = [@ EXCEPT !.seen = seen]]
  <2>1. PICK some : request' = [request EXCEPT ![w].seen =
                                  [i \in Items |-> IF i \in some THEN stock[i] ELSE @[i]]]
    BY DEF Counting!ReadStock
  <2> QED BY <2>1
<1>2. request[w] \in Counting!Request
  BY CountTypes DEF Counting!ReadStock
<1>3. \A v \in Workers : request'[v] = IF v = w THEN [request[w] EXCEPT !.seen = seen] ELSE request[v]
  BY <1>1, CountTypes
<1>4. /\ [request[w] EXCEPT !.seen = seen].copy = request[w].copy
      /\ [request[w] EXCEPT !.seen = seen].audit = request[w].audit
  BY <1>2 DEF Counting!Request
<1>5. audits' = audits /\ request[w] # None
  BY DEF Counting!ReadStock
<1> QED BY <1>3, <1>4, <1>5 DEF SerialInv, Settled, Counting!Approvable, Counting!Having, Counting!LinesOf

LEMMA FailSerial ==
    ASSUME CountInv, SerialInv, NEW w \in Workers, Counting!Fail(w)
    PROVE  SerialInv' /\ audits' = audits
BY CountTypes DEF Counting!Fail, SerialInv, Settled, Counting!Approvable, Counting!Having, Counting!LinesOf

LEMMA CreateSerial ==
    ASSUME CountInv, SerialInv, NEW a \in Audits, Counting!CreateAudit(a)
    PROVE  SerialInv' /\ KeptFinal
<1>1. Settled(Counting!Without("draft"))
  BY DEF Settled, Counting!Without
<1>2. \A b \in Audits : audits'[b] = IF b = a THEN Counting!Without("draft") ELSE audits[b]
  BY CountTypes DEF Counting!CreateAudit
<1>3. audits[a].status = "absent" /\ request' = request
  BY DEF Counting!CreateAudit
<1>4. \A w \in Workers : request[w] # None => request[w].audit \in Audits
  BY CountTypes, RequestTypes
<1>5. \A b \in Audits : Settled(audits[b])
  BY DEF SerialInv
<1>6. \A b \in Audits : Settled(audits'[b])
  BY <1>1, <1>2, <1>5
<1>7. SerialInv'
  BY <1>2, <1>3, <1>4, <1>6 DEF SerialInv, Settled, Counting!Approvable, Counting!Having, Counting!LinesOf
<1>8. KeptFinal
  BY <1>2, <1>3, <1>5 DEF KeptFinal, Settled
<1> QED BY <1>7, <1>8

(* Written over what was loaded, an audit is what the request made of it.    *)
LEMMA WrittenOver ==
    ASSUME CountsSensible, NEW r \in Counting!Request, Asked(r), Counting!Unread(r) = {},
           r.kind # "delete"
    PROVE  Counting!AuditWritten(r, r.copy) =
             [status |-> Counting!StatusAfter(r), lines |-> [i \in Items |-> Counting!LineAfter(r, i)]]
<1>1. ASSUME NEW i \in Items
      PROVE  Counting!LineWritten(r, i, r.copy.lines[i]) = Counting!LineAfter(r, i)
  <2> DEFINE old == r.copy.lines[i]
             new == Counting!LineAfter(r, i)
  <2>1. /\ new # NoLine => new \in Counting!Line
        /\ i \in Counting!Applies(r) => new.status = "applied"
    BY LineAfterTypes
  <2>2. CASE new = NoLine \/ ~Counting!SameRow(old, new)
    BY <2>2 DEF Counting!LineWritten, Counting!SameRow
  <2>3. CASE new # NoLine /\ Counting!SameRow(old, new)
    <3>1. Counting!SameRow(old, old) /\ old.row = new.row
      BY <2>3 DEF Counting!SameRow
    <3>2. Counting!LineWritten(r, i, old) =
            [row |-> old.row,
             system |-> Counting!Written(old.system, old.system, new.system),
             counted |-> Counting!Written(old.counted, old.counted, new.counted),
             difference |-> Counting!Written(old.difference, old.difference, new.difference),
             status |-> IF i \in Counting!Applies(r) THEN "applied"
                        ELSE Counting!Written(old.status, old.status, new.status)]
      BY <2>3, <3>1 DEF Counting!LineWritten
    <3>3. new \in Counting!Line
      BY <2>1, <2>3
    <3> HIDE DEF old, new
    <3>4. Counting!LineWritten(r, i, old) =
            [row |-> new.row, system |-> new.system, counted |-> new.counted,
             difference |-> new.difference, status |-> new.status]
      BY <2>1, <3>1, <3>2 DEF Counting!Written
    <3>5. Counting!LineWritten(r, i, old) = new
      BY <3>3, <3>4 DEF Counting!Line
    <3> QED BY <3>5 DEF old, new
  <2> QED BY <2>2, <2>3
<1>2. Counting!Written(r.copy.status, r.copy.status, Counting!StatusAfter(r)) = Counting!StatusAfter(r)
  BY DEF Counting!Written
<1> QED BY <1>1, <1>2 DEF Counting!AuditWritten

LEMMA AfterIsSettled ==
    ASSUME CountsSensible, NEW r \in Counting!Request, Asked(r), Counting!Unread(r) = {},
           Settled(r.copy), r.copy.status # "absent"
    PROVE  /\ Settled(Counting!AuditWritten(r, r.copy)) /\ r.copy.status # "completed"
<1>1. r.copy.status # "completed"
  BY RequestTypes DEF Asked, Counting!Open, Settled, Counting!Approvable
<1>2. CASE r.kind = "delete"
  <2>1. Counting!AuditWritten(r, r.copy) = [status |-> "deleted", lines |-> [i \in Items |-> NoLine]]
    BY <1>2 DEF Counting!AuditWritten, Counting!Without
  <2>2. Counting!AuditWritten(r, r.copy).status = "deleted"
    BY <2>1
  <2> QED BY <1>1, <2>2 DEF Settled
<1>3. CASE r.kind # "delete"
  <2> DEFINE lines == [i \in Items |-> Counting!LineAfter(r, i)]
             after == [r.copy EXCEPT !.lines = lines]
             audit == [status |-> Counting!StatusAfter(r), lines |-> lines]
  <2>1. Counting!AuditWritten(r, r.copy) = audit
    BY <1>3, WrittenOver
  <2>2. after.lines = lines
    BY RequestTypes DEF Counting!Audit
  <2>3. Counting!StatusAfter(r) # "absent"
    BY RequestTypes DEF Counting!StatusAfter, Counting!Reviewed
  <2>4. Counting!StatusAfter(r) = "completed" => Counting!Having(after, "pending_approval") = {}
    BY <1>1 DEF Counting!StatusAfter, Counting!Reviewed
  <2> HIDE DEF lines
  <2>5. Counting!Having(after, "pending_approval") = Counting!Having(audit, "pending_approval")
    BY <2>2 DEF Counting!Having, Counting!LinesOf
  <2>6. Settled(audit)
    BY <2>3, <2>4, <2>5 DEF Settled, Counting!Approvable
  <2> QED BY <1>1, <2>1, <2>6
<1> QED BY <1>2, <1>3

LEMMA CommitSerial ==
    ASSUME CountsSensible, OneWorker, CountInv, SerialInv, NEW w \in Workers, Counting!Commit(w)
    PROVE  SerialInv' /\ KeptFinal
<1> DEFINE r == request[w]
           written == Counting!AuditWritten(r, r.copy)
<1>1. r \in Counting!Request /\ Asked(r) /\ Counting!Unread(r) = {} /\ r.audit \in Audits
  BY CountTypes, RequestTypes DEF Counting!Commit
<1>2. r.copy = audits[r.audit] /\ r.copy.status # "absent" /\ Settled(r.copy)
  BY <1>1 DEF SerialInv, Counting!Commit
<1>3. Settled(written) /\ r.copy.status # "completed"
  BY <1>1, <1>2, AfterIsSettled
<1>4. audits' = [audits EXCEPT ![r.audit] = written]
  BY <1>2 DEF Counting!Commit
<1> HIDE DEF written
<1>5. \A b \in Audits : audits'[b] = IF b = r.audit THEN written ELSE audits[b]
  BY <1>4, CountTypes
<1>6. \A b \in Audits : Settled(audits[b])
  BY DEF SerialInv
<1>7. \A b \in Audits : Settled(audits'[b])
  BY <1>3, <1>5, <1>6
<1>8. \A v \in Workers : request'[v] = None
  BY CountTypes DEF Counting!Commit, OneWorker
<1>9. SerialInv'
  BY <1>7, <1>8 DEF SerialInv, Settled, Counting!Approvable, Counting!Having, Counting!LinesOf
<1>10. KeptFinal
  BY <1>2, <1>3, <1>5, <1>6 DEF KeptFinal, Settled
<1> QED BY <1>9, <1>10

LEMMA AuditsKept ==
    ASSUME SerialInv, audits' = audits
    PROVE  KeptFinal
BY DEF SerialInv, Settled, KeptFinal

LEMMA SerialStep ==
    CountsSensible /\ OneWorker /\ CountInv /\ SerialInv /\ [Counting!Next]_Counting!vars
        => SerialInv' /\ [KeptFinal]_Counting!vars
<1> SUFFICES ASSUME CountsSensible, OneWorker, CountInv, SerialInv, [Counting!Next]_Counting!vars
             PROVE  SerialInv' /\ [KeptFinal]_Counting!vars
  OBVIOUS
<1>1. CASE UNCHANGED <<audits, request>>
  <2>1. SerialInv'
    BY <1>1 DEF SerialInv, Settled, Counting!Approvable, Counting!Having, Counting!LinesOf
  <2> QED BY <1>1, <2>1, AuditsKept
<1>2. CASE Counting!Next
  <2>1. AnyStep
    BY <1>2, NextIs
  <2>2. CASE Elsewhere
    BY <1>1, <2>2 DEF Elsewhere
  <2>3. ASSUME NEW a \in Audits, Counting!CreateAudit(a) PROVE SerialInv' /\ KeptFinal
    BY <2>3, CreateSerial
  <2>4. ASSUME NEW w \in Workers,
               Counting!Asks(w) \/ Counting!ReadStock(w) \/ Counting!Commit(w) \/ Counting!Fail(w)
        PROVE  SerialInv' /\ KeptFinal
    BY <2>4, AskSerial, ReadStockSerial, CommitSerial, FailSerial, AuditsKept
  <2> QED BY <2>1, <2>2, <2>3, <2>4 DEF AnyStep
<1>3. CASE UNCHANGED Counting!vars
  BY <1>1, <1>3 DEF Counting!vars
<1> QED BY <1>2, <1>3

LEMMA SerialInit == Counting!Init => SerialInv
<1> SUFFICES ASSUME Counting!Init PROVE SerialInv
  OBVIOUS
<1>1. Settled(Counting!Without("absent"))
  BY DEF Settled, Counting!Without, Counting!LinesOf
<1> QED BY <1>1 DEF Counting!Init, SerialInv

(* One request about audits at a time, a completed audit is final: what is    *)
(* counted again, replaced or approved was decided on the audit as it is, and *)
(* none of its lines waits, so that approving, which does not ask whether the *)
(* audit is open, has nothing to approve.                                     *)
THEOREM CompletionIsFinal ==
    CountsSensible /\ OneWorker => (Counting!Spec => Counting!CompletedIsFinal)
<1> SUFFICES ASSUME CountsSensible, OneWorker PROVE Counting!Spec => Counting!CompletedIsFinal
  OBVIOUS
<1>1. Counting!Init => SerialInv
  BY SerialInit
<1>2. CountInv /\ SerialInv /\ [Counting!Next]_Counting!vars => SerialInv'
  BY SerialStep
<1>3. CountInv /\ SerialInv /\ [Counting!Next]_Counting!vars => [KeptFinal]_Counting!vars
  BY SerialStep
<1>4. Counting!Spec => []CountInv
  BY CountInvariant
<1> QED BY <1>1, <1>2, <1>3, <1>4, PTL DEF Counting!Spec, Counting!CompletedIsFinal, KeptFinal
=============================================================================
