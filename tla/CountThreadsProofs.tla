------------------------- MODULE CountThreadsProofs -------------------------
(***************************************************************************)
(* For any number of threads and any limit: the lock protects the count,   *)
(* the count passes the limit by less than the number of threads, and it   *)
(* is the sum of what each of them has counted.                            *)
(***************************************************************************)
EXTENDS CountThreads, FiniteSetTheorems, WellFoundedInduction, TLAPS

(* What a thread has loaded is still the count when it stores.             *)
Fresh == \A t \in Tids : pc[t] = "store" => loaded[t] = global_count

(* Every committed thread still counts, so they are counted in advance.    *)
Budget ==
  IF global_limit > 0
  THEN global_count + Cardinality(Committed) <= global_limit + NThreads - 1
  ELSE global_count = 0 /\ Committed = {}

(* A thread leaves only at the limit, and main only after every thread.    *)
Left ==
  /\ \A t \in Tids : pc[t] = "done" => global_count >= global_limit
  /\ main = "join" => \A t \in Tids : t < i => pc[t] = "done"
  /\ main = "done" => \A t \in Tids : pc[t] = "done"

IInv == TypeOK /\ LockHeld /\ Fresh /\ Budget /\ Left

LEMMA CommittedFinite ==
  /\ IsFiniteSet(Tids) /\ Cardinality(Tids) = NThreads
  /\ IsFiniteSet(Committed) /\ Cardinality(Committed) \in Nat
  /\ Cardinality(Committed) <= NThreads
<1>1. IsFiniteSet(Tids) /\ Cardinality(Tids) = NThreads
  BY FS_Interval, CountThreadsAssumption DEF Tids
<1>2. Committed \subseteq Tids
  BY DEF Committed
<1> QED
  BY <1>1, <1>2, FS_Subset, FS_CardinalityType

(* One thread more, one less.                                              *)
LEMMA Commit ==
  ASSUME NEW t \in Tids, t \notin Committed, Committed' = Committed \cup {t}
  PROVE  /\ Cardinality(Committed)' = Cardinality(Committed) + 1
         /\ Cardinality(Committed) <= NThreads - 1
<1>1. Cardinality(Committed \cup {t}) = Cardinality(Committed) + 1
  BY CommittedFinite, FS_AddElement
<1>2. Committed \cup {t} \subseteq Tids
  BY DEF Committed
<1>3. Cardinality(Committed \cup {t}) <= NThreads
  BY <1>2, CommittedFinite, FS_Subset
<1> QED
  BY <1>1, <1>3, CommittedFinite, CountThreadsAssumption

LEMMA Deliver ==
  ASSUME NEW t \in Tids, t \in Committed, Committed' = Committed \ {t}
  PROVE  Cardinality(Committed)' = Cardinality(Committed) - 1
BY CommittedFinite, FS_RemoveElement

LEMMA InitInvariant == Init => IInv
<1> SUFFICES ASSUME Init PROVE IInv
  OBVIOUS
<1>1. Committed = {}
  BY DEF Init, Committed
<1>2. TypeOK /\ LockHeld /\ Fresh /\ Left
  BY CountThreadsAssumption
  DEF Init, TypeOK, LockHeld, Holding, Fresh, Left, Tids, PCs
<1>3. Budget
  BY <1>1, FS_EmptySet, CountThreadsAssumption DEF Init, Budget
<1> QED
  BY <1>2, <1>3 DEF IInv

(* Steps that neither commit a thread nor count keep the budget.           *)
LEMMA BudgetKept ==
  ASSUME Budget, UNCHANGED <<global_limit, global_count>>, Committed' = Committed
  PROVE  Budget'
BY DEF Budget

LEMMA CreateStep == ASSUME IInv, create PROVE IInv'
<1> USE DEF IInv, create, go
<1>1. i \in Tids
  BY CountThreadsAssumption DEF TypeOK, Tids
<1>2. TypeOK'
  BY <1>1, CountThreadsAssumption DEF TypeOK, Tids, PCs
<1>3. LockHeld' /\ Fresh' /\ Left'
  BY <1>1, CountThreadsAssumption DEF TypeOK, LockHeld, Holding, Fresh, Left
<1>4. Committed' = Committed
  BY <1>1 DEF Committed, TypeOK
<1> QED
  BY <1>2, <1>3, <1>4, BudgetKept

LEMMA FireStep == ASSUME IInv, fire PROVE IInv'
<1> USE DEF IInv, fire
<1>1. TypeOK'
  BY CountThreadsAssumption DEF TypeOK, Tids
<1>2. Holding = {}
  BY CountThreadsAssumption DEF LockHeld, Holding, Tids
<1>3. LockHeld' /\ Fresh' /\ Left'
  BY <1>2, CountThreadsAssumption DEF TypeOK, LockHeld, Holding, Fresh, Left, Tids
<1>4. Committed' = Committed
  BY DEF Committed
<1> QED
  BY <1>1, <1>3, <1>4, BudgetKept

LEMMA JoinStep == ASSUME IInv, join PROVE IInv'
<1> USE DEF IInv, join
<1>1. TypeOK' /\ LockHeld' /\ Fresh'
  BY CountThreadsAssumption DEF TypeOK, LockHeld, Holding, Fresh, Tids
<1>2. Left'
  <2>1. CASE i < NThreads
    BY <2>1, CountThreadsAssumption DEF TypeOK, Left, Tids
  <2>2. CASE ~(i < NThreads)
    BY <2>2, CountThreadsAssumption DEF TypeOK, Left, Tids
  <2> QED
    BY <2>1, <2>2
<1>3. Committed' = Committed
  BY DEF Committed
<1> QED
  BY <1>1, <1>2, <1>3, BudgetKept

(* Only a thread below the limit commits, when the others may all have.    *)
LEMMA TestStep == ASSUME IInv, NEW t \in Tids, test(t) PROVE IInv'
<1> USE DEF IInv, test, go
<1>1. TypeOK' /\ LockHeld' /\ Fresh' /\ Left'
  BY CountThreadsAssumption DEF TypeOK, LockHeld, Holding, Fresh, Left, PCs
<1>2. Budget'
  <2>1. CASE global_count < global_limit
    <3>1. t \notin Committed /\ Committed' = Committed \cup {t}
      BY <2>1 DEF Committed, TypeOK
    <3>2. global_limit > 0
      BY <2>1, CountThreadsAssumption DEF TypeOK, Budget
    <3>3. /\ Cardinality(Committed)' = Cardinality(Committed) + 1
          /\ Cardinality(Committed) <= NThreads - 1
          /\ Cardinality(Committed) \in Nat
      BY <3>1, Commit, CommittedFinite
    <3>4. /\ global_limit \in Int /\ global_count \in Nat /\ NThreads \in Nat
          /\ global_limit' = global_limit /\ global_count' = global_count
      BY CountThreadsAssumption DEF TypeOK
    <3>5. global_count' + Cardinality(Committed)' <= global_limit' + NThreads - 1
      BY <2>1, <3>3, <3>4
    <3> QED
      BY <3>2, <3>4, <3>5 DEF Budget
  <2>2. CASE ~(global_count < global_limit)
    <3>1. Committed' = Committed
      BY <2>2 DEF Committed, TypeOK
    <3> QED
      BY <3>1, BudgetKept
  <2> QED
    BY <2>1, <2>2
<1> QED
  BY <1>1, <1>2

LEMMA LockStep == ASSUME IInv, NEW t \in Tids, lock(t) PROVE IInv'
<1> USE DEF IInv, lock, go
<1>1. Holding = {} /\ main # "create"
  BY CountThreadsAssumption DEF LockHeld, Holding
<1>2. TypeOK' /\ LockHeld' /\ Fresh' /\ Left'
  BY <1>1, CountThreadsAssumption DEF TypeOK, LockHeld, Holding, Fresh, Left, PCs
<1>3. Committed' = Committed
  BY DEF Committed, TypeOK
<1> QED
  BY <1>2, <1>3, BudgetKept

LEMMA LoadStep == ASSUME IInv, NEW t \in Tids, load_global(t) PROVE IInv'
<1> USE DEF IInv, load_global, go
<1>1. TypeOK' /\ LockHeld' /\ Fresh' /\ Left'
  BY CountThreadsAssumption DEF TypeOK, LockHeld, Holding, Fresh, Left, PCs
<1>2. Committed' = Committed
  BY DEF Committed, TypeOK
<1> QED
  BY <1>1, <1>2, BudgetKept

(* The lock makes the stored value the count plus one.                     *)
LEMMA StoreStep == ASSUME IInv, NEW t \in Tids, store_global(t) PROVE IInv'
<1> USE DEF IInv, store_global, go
<1>1. global_count' = global_count + 1
  BY DEF Fresh
<1>2. \A u \in Tids : u # t => pc[u] # "store"
  BY DEF LockHeld, Holding
<1>3. TypeOK' /\ LockHeld'
  BY <1>1, CountThreadsAssumption DEF TypeOK, LockHeld, Holding, PCs
<1>4. Fresh'
  BY <1>2 DEF Fresh, TypeOK
<1>5. Left'
  BY <1>1, CountThreadsAssumption DEF Left, TypeOK
<1>6. t \in Committed /\ Committed' = Committed \ {t}
  BY DEF Committed, TypeOK
<1>7. Budget'
  <2>1. global_limit > 0 /\ global_limit' = global_limit
    BY <1>6 DEF Budget
  <2>2. /\ Cardinality(Committed)' = Cardinality(Committed) - 1
        /\ Cardinality(Committed) \in Nat
    BY <1>6, Deliver, CommittedFinite
  <2>3. /\ global_count + Cardinality(Committed) <= global_limit + NThreads - 1
        /\ global_limit \in Int /\ global_count \in Nat /\ NThreads \in Nat
    BY <2>1, CountThreadsAssumption DEF Budget, TypeOK
  <2>4. global_count' + Cardinality(Committed)' <= global_limit' + NThreads - 1
    BY <1>1, <2>1, <2>2, <2>3
  <2> QED
    BY <2>1, <2>4 DEF Budget
<1> QED
  BY <1>3, <1>4, <1>5, <1>7

LEMMA OwnStep == ASSUME IInv, NEW t \in Tids, increment_own(t) PROVE IInv'
<1> USE DEF IInv, increment_own, go
<1>1. TypeOK' /\ LockHeld' /\ Fresh' /\ Left'
  BY CountThreadsAssumption DEF TypeOK, LockHeld, Holding, Fresh, Left, PCs
<1>2. Committed' = Committed
  BY DEF Committed, TypeOK
<1> QED
  BY <1>1, <1>2, BudgetKept

LEMMA UnlockStep == ASSUME IInv, NEW t \in Tids, unlock(t) PROVE IInv'
<1> USE DEF IInv, unlock, go
<1>1. main # "create" /\ \A u \in Holding : u = t
  BY CountThreadsAssumption DEF LockHeld, Holding
<1>2. TypeOK' /\ LockHeld' /\ Fresh' /\ Left'
  BY <1>1, CountThreadsAssumption DEF TypeOK, LockHeld, Holding, Fresh, Left, PCs
<1>3. Committed' = Committed
  BY DEF Committed, TypeOK
<1> QED
  BY <1>2, <1>3, BudgetKept

LEMMA StutterStep == ASSUME IInv, UNCHANGED vars PROVE IInv'
BY DEF IInv, vars, TypeOK, LockHeld, Holding, Fresh, Budget, Left, Committed

LEMMA NextInvariant == IInv /\ [Next]_vars => IInv'
<1> SUFFICES ASSUME IInv, [Next]_vars PROVE IInv'
  OBVIOUS
<1>1. CASE Main
  BY <1>1, CreateStep, FireStep, JoinStep DEF Main
<1>2. ASSUME NEW t \in Tids, threadfun(t) PROVE IInv'
  BY <1>2, TestStep, LockStep, LoadStep, StoreStep, OwnStep, UnlockStep DEF threadfun
<1>3. CASE UNCHANGED vars
  BY <1>3, StutterStep
<1> QED
  BY <1>1, <1>2, <1>3 DEF Next

LEMMA CountInvariance == Spec => []IInv
BY InitInvariant, NextInvariant, PTL DEF Spec

(* The variables of threads.c keep their types.                            *)
THEOREM CountTyping == Spec => []TypeOK
BY CountInvariance, PTL DEF IInv

(* count_lock protects what is between pthread_mutex_lock and _unlock.     *)
THEOREM CountLocking == Spec => []LockHeld
BY CountInvariance, PTL DEF IInv

(* The test outside the lock costs less than one count for each thread.    *)
THEOREM Overshoot == Spec => []OvershootBounded
<1>1. IInv => OvershootBounded
  <2> SUFFICES ASSUME IInv PROVE OvershootBounded
    OBVIOUS
  <2>1. IF global_limit > 0 THEN global_count <= global_limit + NThreads - 1
                            ELSE global_count = 0
    BY CommittedFinite, CountThreadsAssumption DEF IInv, TypeOK, Budget
  <2>2. main = "done" => global_count >= global_limit
    BY CountThreadsAssumption DEF IInv, Left, Tids
  <2> QED
    BY <2>1, <2>2 DEF OvershootBounded
<1> QED
  BY <1>1, CountInvariance, PTL
-----------------------------------------------------------------------------
(* Induction over the numbers, for the set of those it is true of.         *)
LEMMA SetInduction ==
  ASSUME NEW S, 0 \in S, \A n \in Nat : n \in S => n + 1 \in S
  PROVE  \A n \in Nat : n \in S
<1> DEFINE T == Nat \ S
           R == OpToRel(<, Nat)
<1>1. IsWellFoundedOn(R, Nat)
  BY NatLessThanWellFounded, Zenon
<1>2. \A x, y \in Nat : <<x, y>> \in R <=> x < y
  BY DEF OpToRel
<1>3. ASSUME T # {} PROVE FALSE
  <2> HIDE DEF R
  <2>1. PICK x \in T : \A y \in T : ~(<<y, x>> \in R)
    BY <1>1, <1>3, WFMin
  <2>2. x # 0 /\ x - 1 \in Nat
    OBVIOUS
  <2>3. <<x - 1, x>> \in R
    BY <1>2, <2>2
  <2>4. x - 1 \notin T
    BY <2>1, <2>3
  <2> QED
    BY <2>2, <2>4
<1> QED
  BY <1>3

(* f adds up the first n of the counts c.                                  *)
Adds(f, c, n) ==
  f \in [0 .. n -> Nat] /\ f[0] = 0 /\ \A k \in 0 .. n - 1 : f[k + 1] = f[k] + c[k]

(* There is a function that does.                                          *)
LEMMA AddsExists ==
  ASSUME NEW c \in [Tids -> Nat]
  PROVE  \E f : Adds(f, c, NThreads)
<1> DEFINE S == {n \in Nat : n <= NThreads => \E f : Adds(f, c, n)}
<1>1. 0 \in S
  <2>1. Adds([k \in 0 .. 0 |-> 0], c, 0)
    BY DEF Adds
  <2> QED
    BY <2>1
<1>2. ASSUME NEW n \in Nat, n \in S PROVE n + 1 \in S
  <2> SUFFICES ASSUME n + 1 <= NThreads PROVE \E f : Adds(f, c, n + 1)
    OBVIOUS
  <2>1. PICK f : Adds(f, c, n)
    BY <1>2, CountThreadsAssumption
  <2> DEFINE g == [k \in 0 .. n + 1 |-> IF k = n + 1 THEN f[n] + c[n] ELSE f[k]]
  <2>2. c[n] \in Nat /\ f[n] \in Nat
    BY <2>1, CountThreadsAssumption DEF Tids, Adds
  <2>3. g \in [0 .. n + 1 -> Nat] /\ g[0] = 0
    BY <2>1, <2>2 DEF Adds
  <2>4. ASSUME NEW k \in 0 .. n PROVE g[k + 1] = g[k] + c[k]
    BY <2>1, <2>4 DEF Adds
  <2>5. Adds(g, c, n + 1)
    <3> HIDE DEF g
    <3> QED
      BY <2>3, <2>4 DEF Adds
  <2> QED
    BY <2>5
<1>3. \A n \in Nat : n \in S
  <2> HIDE DEF S
  <2> QED
    BY <1>1, <1>2, SetInduction
<1> QED
  BY <1>3, CountThreadsAssumption

LEMMA Summed ==
  ASSUME NEW c \in [Tids -> Nat]
  PROVE  \E f : f = [k \in 0 .. NThreads |-> IF k = 0 THEN 0 ELSE f[k - 1] + c[k - 1]]
<1>1. PICK f : Adds(f, c, NThreads)
  BY AddsExists
<1>2. ASSUME NEW k \in 0 .. NThreads PROVE f[k] = IF k = 0 THEN 0 ELSE f[k - 1] + c[k - 1]
  <2>1. CASE k = 0
    BY <1>1, <2>1 DEF Adds
  <2>2. CASE k # 0
    <3>1. k - 1 \in 0 .. NThreads - 1 /\ (k - 1) + 1 = k
      BY <2>2, CountThreadsAssumption
    <3> QED
      BY <1>1, <2>2, <3>1 DEF Adds
  <2> QED
    BY <2>1, <2>2
<1>3. f = [k \in 0 .. NThreads |-> IF k = 0 THEN 0 ELSE f[k - 1] + c[k - 1]]
  BY <1>1, <1>2 DEF Adds
<1> QED
  BY <1>3, Zenon

LEMMA AddsOf ==
  ASSUME NEW c \in [Tids -> Nat], NEW f,
         f = [k \in 0 .. NThreads |-> IF k = 0 THEN 0 ELSE f[k - 1] + c[k - 1]]
  PROVE  Adds(f, c, NThreads)
<1>1. \A k \in 0 .. NThreads : f[k] = IF k = 0 THEN 0 ELSE f[k - 1] + c[k - 1]
  BY Zenon
<1>2. f[0] = 0
  BY <1>1, CountThreadsAssumption
<1>3. ASSUME NEW k \in 0 .. NThreads - 1 PROVE f[k + 1] = f[k] + c[k]
  <2>1. k + 1 \in 0 .. NThreads /\ k + 1 # 0 /\ (k + 1) - 1 = k
    BY CountThreadsAssumption
  <2> QED
    BY <1>1, <2>1
<1> DEFINE S == {k \in Nat : k <= NThreads => f[k] \in Nat}
<1>4. 0 \in S
  BY <1>2
<1>5. ASSUME NEW k \in Nat, k \in S PROVE k + 1 \in S
  BY <1>3, <1>5, CountThreadsAssumption DEF Tids
<1>6. \A k \in Nat : k \in S
  <2> HIDE DEF S
  <2> QED
    BY <1>4, <1>5, SetInduction
<1>7. f \in [0 .. NThreads -> Nat]
  BY <1>6, CountThreadsAssumption
<1> QED
  BY <1>2, <1>3, <1>7 DEF Adds

LEMMA SumAdds ==
  ASSUME count \in [Tids -> Nat]
  PROVE  Adds(sum, count, NThreads)
<1>1. sum = [k \in 0 .. NThreads |-> IF k = 0 THEN 0 ELSE sum[k - 1] + count[k - 1]]
  BY Summed, Zenon DEF sum
<1> QED
  BY <1>1, AddsOf

LEMMA SumAddsNext ==
  ASSUME (count \in [Tids -> Nat])'
  PROVE  Adds(sum', count', NThreads)
<1>1. sum' = [k \in 0 .. NThreads |-> IF k = 0 THEN 0 ELSE sum'[k - 1] + count'[k - 1]]
  BY Summed, Zenon DEF sum
<1> QED
  BY <1>1, AddsOf

(* x is one more than y; a name, for first-order steps that add nothing.   *)
Succeeds(x, y) == x = y + 1

(* The counts d are the counts c and one more of t.                        *)
OneMore(c, d, t) == \A u \in Tids : d[u] = IF u = t THEN c[u] + 1 ELSE c[u]

(* Nothing adds up to nothing, and one count more is one more.             *)
LEMMA SumOfNothing ==
  ASSUME NEW c \in [Tids -> Nat], \A t \in Tids : c[t] = 0, NEW f, Adds(f, c, NThreads)
  PROVE  f[NThreads] = 0
<1> DEFINE S == {k \in Nat : k <= NThreads => f[k] = 0}
<1>1. 0 \in S
  BY DEF Adds
<1>2. ASSUME NEW k \in Nat, k \in S PROVE k + 1 \in S
  BY <1>2, CountThreadsAssumption DEF Adds, Tids
<1>3. \A k \in Nat : k \in S
  <2> HIDE DEF S
  <2> QED
    BY <1>1, <1>2, SetInduction
<1> QED
  BY <1>3, CountThreadsAssumption

LEMMA SumOfOneMore ==
  ASSUME NEW c \in [Tids -> Nat], NEW t \in Tids, NEW d, OneMore(c, d, t),
         NEW f, Adds(f, c, NThreads), NEW g, Adds(g, d, NThreads)
  PROVE  g[NThreads] = f[NThreads] + 1
<1> DEFINE S == {k \in Nat : k <= NThreads => g[k] = IF t < k THEN f[k] + 1 ELSE f[k]}
<1>1. 0 \in S
  BY CountThreadsAssumption DEF Adds, Tids
<1>2. ASSUME NEW k \in Nat, k \in S PROVE k + 1 \in S
  <2> SUFFICES ASSUME k + 1 <= NThreads
               PROVE  g[k + 1] = IF t < k + 1 THEN f[k + 1] + 1 ELSE f[k + 1]
    OBVIOUS
  <2>a. k \in 0 .. NThreads - 1 /\ k \in 0 .. NThreads
    BY CountThreadsAssumption
  <2>b. f \in [0 .. NThreads -> Nat]
    BY DEF Adds
  <2>1. k \in Tids /\ k \in 0 .. NThreads - 1 /\ f[k] \in Nat
    BY <2>a, <2>b DEF Tids
  <2>2. f[k + 1] = f[k] + c[k] /\ g[k + 1] = g[k] + (IF k = t THEN c[k] + 1 ELSE c[k])
    BY <2>1 DEF Adds, OneMore
  <2>3. g[k] = IF t < k THEN f[k] + 1 ELSE f[k]
    BY <1>2, CountThreadsAssumption
  <2>4. c[k] \in Nat /\ t \in Nat
    BY <2>1, CountThreadsAssumption DEF Tids
  <2> QED
    BY <2>1, <2>2, <2>3, <2>4
<1>3. \A k \in Nat : k \in S
  <2> HIDE DEF S
  <2> QED
    BY <1>1, <1>2, SetInduction
<1>4. t < NThreads
  BY CountThreadsAssumption DEF Tids
<1> QED
  BY <1>3, <1>4, CountThreadsAssumption

(* Who has added to the shared count and not yet to its own.               *)
Ahead == IF \E t \in Tids : pc[t] = "own" THEN 1 ELSE 0

(* Nothing is counted before all threads are there, and from then on the   *)
(* counts are behind by one while somebody is ahead.                       *)
Tally ==
  /\ main \in {"create", "failed"} =>
       /\ count_lock = MainThread /\ global_count = 0
       /\ \A t \in Tids : pc[t] # "none" => count[t] = 0
  /\ main = "create" => \A t \in Tids : t < i => pc[t] # "none"
  /\ main \in {"join", "done"} => /\ \A t \in Tids : pc[t] # "none"
                                  /\ global_count = sum[NThreads] + Ahead

LEMMA SameSum == UNCHANGED count => sum' = sum
BY DEF sum

LEMMA TallyStart == Init => Tally
BY CountThreadsAssumption DEF Init, Tally, Tids

(* Steps of the threads that count nothing.                                *)
LEMMA QuietTally ==
  ASSUME IInv, Tally, UNCHANGED <<global_count, count, main, i>>,
         main \in {"create", "failed"} => UNCHANGED count_lock,
         \A t \in Tids : /\ pc'[t] = "none" <=> pc[t] = "none"
                         /\ pc'[t] = "own" <=> pc[t] = "own"
  PROVE  Tally'
<1>1. sum' = sum
  BY SameSum
<1>2. Ahead' = Ahead
  BY DEF Ahead
<1>3. /\ UNCHANGED <<global_count, count, main, i>>
      /\ main \in {"create", "failed"} => UNCHANGED count_lock
      /\ \A t \in Tids : pc'[t] # "none" <=> pc[t] # "none"
  OBVIOUS
<1> QED
  BY <1>1, <1>2, <1>3 DEF Tally

LEMMA TallyStep ==
  ASSUME IInv, Tally, [Next]_vars
  PROVE  Tally'
<1>1. TypeOK /\ TypeOK' /\ LockHeld
  BY NextInvariant DEF IInv
<1>2. CASE UNCHANGED vars
  BY <1>2, QuietTally DEF vars
<1>3. CASE create
  BY <1>1, <1>3, CountThreadsAssumption DEF create, go, Tally, TypeOK, Tids
<1>4. CASE fire
  <2>1. \A t \in Tids : pc[t] # "none" /\ count[t] = 0
    BY <1>4, CountThreadsAssumption DEF fire, Tally, Tids
  <2>2. count \in [Tids -> Nat]
    BY <1>1, <2>1 DEF TypeOK
  <2>3. sum[NThreads] = 0
    BY <2>1, <2>2, SumAdds, SumOfNothing
  <2>4. Ahead = 0
    BY <1>1, <1>4, CountThreadsAssumption DEF fire, Ahead, LockHeld, Holding
  <2>5. sum' = sum /\ Ahead' = Ahead
    BY <1>4, SameSum DEF fire, Ahead
  <2> QED
    BY <1>4, <2>1, <2>3, <2>4, <2>5 DEF fire, Tally
<1>5. CASE join
  <2>1. sum' = sum /\ Ahead' = Ahead
    BY <1>5, SameSum DEF join, Ahead
  <2> QED
    BY <1>5, <2>1 DEF join, Tally
<1>6. ASSUME NEW t \in Tids, test(t) \/ lock(t) \/ load_global(t) PROVE Tally'
  <2>1. \A u \in Tids : /\ pc'[u] = "none" <=> pc[u] = "none"
                        /\ pc'[u] = "own" <=> pc[u] = "own"
    BY <1>1, <1>6 DEF test, lock, load_global, go, TypeOK
  <2>2. main \in {"create", "failed"} => UNCHANGED count_lock
    BY <1>6, CountThreadsAssumption DEF Tally, test, lock, load_global
  <2> QED
    BY <1>6, <2>1, <2>2, QuietTally DEF test, lock, load_global
<1>7. ASSUME NEW t \in Tids, unlock(t) PROVE Tally'
  <2>1. \A u \in Tids : /\ pc'[u] = "none" <=> pc[u] = "none"
                        /\ pc'[u] = "own" <=> pc[u] = "own"
    BY <1>1, <1>7 DEF unlock, go, TypeOK
  <2>2. main \notin {"create", "failed"}
    BY <1>1, <1>7, CountThreadsAssumption DEF Tally, unlock, go, LockHeld, Holding
  <2> QED
    BY <1>7, <2>1, <2>2, QuietTally DEF unlock
<1>8. ASSUME NEW t \in Tids, store_global(t) PROVE Tally'
  <2>1. count_lock = t /\ main \notin {"create", "failed"}
    BY <1>1, <1>8, CountThreadsAssumption DEF Tally, store_global, go, LockHeld, Holding
  <2>2. Ahead = 0
    BY <1>1, <1>8, <2>1 DEF Ahead, store_global, go, LockHeld, Holding
  <2>3. Ahead' = 1 /\ \A u \in Tids : pc[u] # "none" => pc'[u] # "none"
    BY <1>1, <1>8 DEF Ahead, store_global, go, TypeOK
  <2>4. global_count' = global_count + 1 /\ global_count \in Nat
    BY <1>1, <1>8 DEF IInv, Fresh, store_global, go, TypeOK
  <2>5. sum' = sum /\ main' = main
    BY <1>8, SameSum DEF store_global
  <2>6. ASSUME main \in {"join", "done"} PROVE global_count' = sum'[NThreads] + Ahead'
    <3>1. global_count = sum[NThreads] + 0
      BY <2>2, <2>6 DEF Tally
    <3>2. sum[NThreads] \in Nat
      <4>1. count \in [Tids -> Nat]
        BY <1>1, <2>6 DEF Tally, TypeOK
      <4> QED
        BY <4>1, SumAdds, CountThreadsAssumption DEF Adds
    <3> QED
      BY <2>3, <2>4, <2>5, <3>1, <3>2
  <2> QED
    BY <2>1, <2>3, <2>5, <2>6 DEF Tally
<1>9. ASSUME NEW t \in Tids, increment_own(t) PROVE Tally'
  <2>1. count_lock = t /\ main \notin {"create", "failed"} /\ main' = main
    BY <1>1, <1>9, CountThreadsAssumption DEF Tally, increment_own, go, LockHeld, Holding
  <2>2. Ahead = 1 /\ Ahead' = 0
    BY <1>1, <1>9, <2>1 DEF Ahead, increment_own, go, LockHeld, Holding, TypeOK
  <2>3. \A u \in Tids : pc[u] # "none" => pc'[u] # "none"
    BY <1>1, <1>9 DEF increment_own, go, TypeOK
  <2>4. ASSUME main \in {"join", "done"} PROVE global_count' = sum'[NThreads] + Ahead'
    <3>1. global_count = sum[NThreads] + 1 /\ global_count' = global_count
      BY <1>9, <2>2, <2>4 DEF Tally, increment_own
    <3>2. count \in [Tids -> Nat]
      BY <1>1, <2>4 DEF Tally, TypeOK
    <3>3. count' = [count EXCEPT ![t] = @ + 1] /\ (count \in [Tids -> Nat])'
      BY <1>9, <3>2 DEF increment_own
    <3>4. Adds(sum, count, NThreads) /\ Adds(sum', count', NThreads)
      BY <3>2, <3>3, SumAdds, SumAddsNext
    <3>5. OneMore(count, count', t)
      BY <3>2, <3>3 DEF OneMore
    <3>6. sum'[NThreads] = sum[NThreads] + 1
      <4>1. \A c \in [Tids -> Nat] : \A d, f, g :
              OneMore(c, d, t) /\ Adds(f, c, NThreads) /\ Adds(g, d, NThreads) =>
                Succeeds(g[NThreads], f[NThreads])
        BY SumOfOneMore DEF Succeeds
      <4>2. Succeeds(sum'[NThreads], sum[NThreads])
        BY <3>2, <3>4, <3>5, <4>1, Zenon
      <4> QED
        BY <4>2 DEF Succeeds
    <3>7. sum[NThreads] \in Nat
      BY <3>4, CountThreadsAssumption DEF Adds
    <3> QED
      BY <2>2, <3>1, <3>6, <3>7
  <2> QED
    BY <2>1, <2>3, <2>4 DEF Tally
<1> QED
  BY <1>2, <1>3, <1>4, <1>5, <1>6, <1>7, <1>8, <1>9 DEF Next, Main, threadfun

(* Whenever the lock is free, the shared count is the sum of the threads'  *)
(* own: no increment of threads.c:41-42 is lost.                           *)
THEOREM AddsUp == Spec => []CountsAddUp
<1>1. Init => Tally
  BY TallyStart
<1>2. IInv /\ Tally /\ [Next]_vars => Tally'
  BY TallyStep
<1>3. IInv /\ Tally => CountsAddUp
  <2> SUFFICES ASSUME IInv, Tally, main # "create", count_lock = Nobody
               PROVE  global_count = sum[NThreads]
    BY DEF CountsAddUp
  <2>1. main \in {"join", "done"} /\ Ahead = 0
    BY CountThreadsAssumption DEF IInv, TypeOK, LockHeld, Holding, Tally, Ahead
  <2>2. sum[NThreads] \in Nat
    <3>1. count \in [Tids -> Nat]
      BY <2>1 DEF Tally, IInv, TypeOK
    <3> QED
      BY <3>1, SumAdds, CountThreadsAssumption DEF Adds
  <2> QED
    BY <2>1, <2>2 DEF Tally
<1> QED
  BY <1>1, <1>2, <1>3, CountInvariance, PTL DEF Spec
=============================================================================
