--------------------------- MODULE PintosListProofs --------------------------
(***************************************************************************)
(* What list.c keeps true of its lists, however many and however long they *)
(* are.  First what list_insert, list_remove and list_splice do to a chain *)
(* of nodes and to the chains they do not touch; then the same for whole   *)
(* lists; then, with that, the inductive invariant IInv, step by step.  It *)
(* says where the loop in progress is and what it has achieved, in terms   *)
(* of the contents of the lists.  Everything PintosList states follows.    *)
(***************************************************************************)
EXTENDS PintosList, FiniteSetTheorems, SequenceTheorems, WellFoundedInduction, TLAPS

IsLinked == DOMAIN next = Nodes /\ DOMAIN prev = Nodes

(* The nodes s[0], the head, to s[n], the tail, are linked both ways, and  *)
(* nothing is linked beyond them.                                          *)
Chain(n, s) ==
  /\ n \in Nat /\ s \in [0 .. n -> Nodes]
  /\ \A i, j \in 0 .. n : s[i] = s[j] => i = j
  /\ prev[s[0]] = NULL /\ next[s[n]] = NULL
  /\ \A i \in 0 .. n - 1 : next[s[i]] = s[i + 1] /\ prev[s[i + 1]] = s[i]

(* The chain with x in position i, and the one without its position i.     *)
Inserted(n, s, i, x) ==
  [k \in 0 .. n + 1 |-> IF k < i THEN s[k] ELSE IF k = i THEN x ELSE s[k - 1]]

Removed(n, s, i) == [k \in 0 .. n - 1 |-> IF k < i THEN s[k] ELSE s[k + 1]]

(* list_insert(before, x) of list.c puts x right before BEFORE, the tail   *)
(* or an element, and leaves the order of all others.                      *)
THEOREM InsertChain ==
  ASSUME NEW n, NEW s, NEW i \in 1 .. n, NEW x \in Nodes, IsLinked, Chain(n, s),
         \A k \in 0 .. n : s[k] # x, insert(s[i], x)
  PROVE  Chain(n + 1, Inserted(n, s, i, x))'
<1> DEFINE t == Inserted(n, s, i, x)
<1>1. n \in Nat /\ s \in [0 .. n -> Nodes] /\ prev[s[i]] = s[i - 1]
  BY DEF Chain
<1>2. \A q \in 0 .. n : s[q] # x /\ (q # i => s[q] # s[i]) /\ (q # i - 1 => s[q] # s[i - 1])
  BY <1>1 DEF Chain
<1>3. /\ next'[x] = s[i] /\ prev'[x] = s[i - 1]
      /\ \A q \in 0 .. n : /\ next'[s[q]] = IF q = i - 1 THEN x ELSE next[s[q]]
                           /\ prev'[s[q]] = IF q = i THEN x ELSE prev[s[q]]
  BY <1>1, <1>2 DEF insert, IsLinked
<1>4. /\ \A q \in 0 .. n - 1 : q # i - 1 => next'[s[q]] = s[q + 1] /\ prev'[s[q + 1]] = s[q]
      /\ next'[s[i - 1]] = x /\ prev'[s[i]] = x
      /\ prev'[s[0]] = NULL /\ next'[s[n]] = NULL
  BY <1>1, <1>3 DEF Chain
<1>5. /\ t \in [0 .. n + 1 -> Nodes] /\ t[i] = x
      /\ \A k \in 0 .. i - 1 : t[k] = s[k]
      /\ \A k \in i + 1 .. n + 1 : t[k] = s[k - 1]
  BY <1>1 DEF Inserted
<1>6. \A j, k \in 0 .. n + 1 : t[j] = t[k] => j = k
  BY <1>2 DEF Inserted, Chain
<1> HIDE DEF t
<1>7. prev'[t[0]] = NULL /\ next'[t[n + 1]] = NULL
  <2>1. t[0] = s[0]
    BY <1>1, <1>5
  <2>2. t[n + 1] = s[(n + 1) - 1] /\ (n + 1) - 1 = n
    BY <1>1, <1>5
  <2> QED
    BY <1>4, <2>1, <2>2
<1>8. ASSUME NEW k \in 0 .. n PROVE next'[t[k]] = t[k + 1] /\ prev'[t[k + 1]] = t[k]
  <2>1. CASE k < i - 1
    BY <1>1, <1>4, <1>5, <2>1
  <2>2. CASE k = i - 1
    BY <1>1, <1>3, <1>4, <1>5, <2>2
  <2>3. CASE k = i
    BY <1>1, <1>3, <1>4, <1>5, <2>3
  <2>4. CASE k > i
    <3>1. /\ k - 1 \in 0 .. n - 1 /\ k - 1 # i - 1 /\ (k - 1) + 1 = k /\ (k + 1) - 1 = k
          /\ k \in i + 1 .. n + 1 /\ k + 1 \in i + 1 .. n + 1
      BY <1>1, <2>4
    <3>2. t[k] = s[k - 1] /\ t[k + 1] = s[(k + 1) - 1]
      BY <1>5, <3>1
    <3> QED
      BY <1>4, <3>1, <3>2
  <2> QED
    BY <1>1, <2>1, <2>2, <2>3, <2>4
<1>9. Chain(n + 1, t)'
  BY <1>1, <1>5, <1>6, <1>7, <1>8 DEF Chain
<1> QED
  BY <1>9 DEF t

(* A list that shares no node with the one inserted into stays as it is.   *)
LEMMA InsertElsewhere ==
  ASSUME NEW n, NEW s, NEW i \in 1 .. n, NEW x \in Nodes, IsLinked, Chain(n, s),
         NEW m, NEW u, Chain(m, u), \A j \in 0 .. m : u[j] # x,
         \A j \in 0 .. m, k \in 0 .. n : u[j] # s[k], insert(s[i], x)
  PROVE  Chain(m, u)'
<1>1. /\ n \in Nat /\ m \in Nat /\ prev[s[i]] = s[i - 1] /\ i - 1 \in 0 .. n /\ i \in 0 .. n
      /\ u \in [0 .. m -> Nodes]
  BY DEF Chain
<1>2. \A q \in 0 .. m : next'[u[q]] = next[u[q]] /\ prev'[u[q]] = prev[u[q]]
  BY <1>1 DEF insert, IsLinked
<1>3. 0 \in 0 .. m /\ m \in 0 .. m /\ \A q \in 0 .. m - 1 : q \in 0 .. m /\ q + 1 \in 0 .. m
  BY <1>1
<1> QED
  BY <1>2, <1>3 DEF Chain

(* list_remove(x) of list.c takes x out and leaves the order of all        *)
(* others.                                                                 *)
THEOREM RemoveChain ==
  ASSUME NEW n, NEW s, NEW i \in 1 .. n - 1, IsLinked, Chain(n, s), remove(s[i])
  PROVE  Chain(n - 1, Removed(n, s, i))'
<1> DEFINE t == Removed(n, s, i)
<1>1. n \in Nat /\ s \in [0 .. n -> Nodes] /\ prev[s[i]] = s[i - 1] /\ next[s[i]] = s[i + 1]
  BY DEF Chain
<1>2. \A q \in 0 .. n : (q # i + 1 => s[q] # s[i + 1]) /\ (q # i - 1 => s[q] # s[i - 1])
  BY <1>1 DEF Chain
<1>3. \A q \in 0 .. n : /\ next'[s[q]] = IF q = i - 1 THEN s[i + 1] ELSE next[s[q]]
                        /\ prev'[s[q]] = IF q = i + 1 THEN s[i - 1] ELSE prev[s[q]]
  BY <1>1, <1>2 DEF remove, IsLinked
<1>4. /\ \A q \in 0 .. n - 1 : q # i - 1 => next'[s[q]] = s[q + 1]
      /\ \A q \in 0 .. n - 1 : q # i => prev'[s[q + 1]] = s[q]
      /\ next'[s[i - 1]] = s[i + 1] /\ prev'[s[i + 1]] = s[i - 1]
      /\ prev'[s[0]] = NULL /\ next'[s[n]] = NULL
  <2>1. ASSUME NEW q \in 0 .. n - 1
        PROVE  /\ q \in 0 .. n /\ q + 1 \in 0 .. n /\ (q # i => q + 1 # i + 1)
               /\ next[s[q]] = s[q + 1] /\ prev[s[q + 1]] = s[q]
    BY <1>1 DEF Chain
  <2>2. \A q \in 0 .. n - 1 : q # i - 1 => next'[s[q]] = s[q + 1]
    BY <1>3, <2>1
  <2>3. \A q \in 0 .. n - 1 : q # i => prev'[s[q + 1]] = s[q]
    BY <1>3, <2>1
  <2>4. next'[s[i - 1]] = s[i + 1] /\ prev'[s[i + 1]] = s[i - 1]
    BY <1>1, <1>3
  <2>5. /\ 0 \in 0 .. n /\ n \in 0 .. n /\ 0 # i + 1 /\ n # i - 1
        /\ prev[s[0]] = NULL /\ next[s[n]] = NULL
    BY <1>1 DEF Chain
  <2>6. prev'[s[0]] = NULL /\ next'[s[n]] = NULL
    BY <1>3, <2>5
  <2> QED
    BY <2>2, <2>3, <2>4, <2>6
<1>5. /\ t \in [0 .. n - 1 -> Nodes]
      /\ \A k \in 0 .. i - 1 : t[k] = s[k]
      /\ \A k \in i .. n - 1 : t[k] = s[k + 1]
  BY <1>1 DEF Removed
<1>6. \A j, k \in 0 .. n - 1 : t[j] = t[k] => j = k
  BY DEF Removed, Chain
<1> HIDE DEF t
<1>7. prev'[t[0]] = NULL /\ next'[t[n - 1]] = NULL
  BY <1>1, <1>4, <1>5
<1>8. ASSUME NEW k \in 0 .. n - 2 PROVE next'[t[k]] = t[k + 1] /\ prev'[t[k + 1]] = t[k]
  <2>1. CASE k < i - 1
    BY <1>1, <1>4, <1>5, <2>1
  <2>2. CASE k = i - 1
    BY <1>1, <1>4, <1>5, <2>2
  <2>3. CASE k > i - 1
    <3>1. /\ k + 1 \in 0 .. n - 1 /\ k + 1 # i - 1 /\ k + 1 # i
          /\ k \in i .. n - 1 /\ k + 1 \in i .. n - 1
      BY <1>1, <2>3
    <3>2. t[k] = s[k + 1] /\ t[k + 1] = s[(k + 1) + 1]
      BY <1>5, <3>1
    <3> QED
      BY <1>4, <3>1, <3>2
  <2> QED
    BY <1>1, <2>1, <2>2, <2>3
<1>9. n - 1 \in Nat
  BY <1>1
<1>10. \A k \in 0 .. (n - 1) - 1 : next'[t[k]] = t[k + 1] /\ prev'[t[k + 1]] = t[k]
  BY <1>1, <1>8
<1>11. Chain(n - 1, t)'
  BY <1>5, <1>6, <1>7, <1>9, <1>10 DEF Chain
<1> QED
  BY <1>11 DEF t

(* A list that shares no node with the one removed from stays as it is.    *)
LEMMA RemoveElsewhere ==
  ASSUME NEW n, NEW s, NEW i \in 1 .. n - 1, IsLinked, Chain(n, s),
         NEW m, NEW u, Chain(m, u),
         \A j \in 0 .. m, k \in 0 .. n : u[j] # s[k], remove(s[i])
  PROVE  Chain(m, u)'
<1>1. /\ n \in Nat /\ m \in Nat /\ prev[s[i]] = s[i - 1] /\ next[s[i]] = s[i + 1]
      /\ i - 1 \in 0 .. n /\ i + 1 \in 0 .. n /\ u \in [0 .. m -> Nodes]
  BY DEF Chain
<1>2. \A q \in 0 .. m : next'[u[q]] = next[u[q]] /\ prev'[u[q]] = prev[u[q]]
  BY <1>1 DEF remove, IsLinked
<1>3. 0 \in 0 .. m /\ m \in 0 .. m /\ \A q \in 0 .. m - 1 : q \in 0 .. m /\ q + 1 \in 0 .. m
  BY <1>1
<1> QED
  BY <1>2, <1>3 DEF Chain
-----------------------------------------------------------------------------
(* The chain with its parts p .. q - 1 and q .. r - 1 in the other order.  *)
Exchanged(n, s, p, q, r) ==
  [k \in 0 .. n |-> IF k < p \/ k >= r THEN s[k]
                    ELSE IF k < p + (r - q) THEN s[k + (q - p)] ELSE s[k - (r - q)]]

(* Three links turned at once exchange two neighbouring parts of a list.   *)
LEMMA ExchangeChain ==
  ASSUME NEW n, NEW s, Chain(n, s),
         NEW p \in 1 .. n, NEW q \in 1 .. n, NEW r \in 1 .. n, p < q, q < r,
         \A k \in 0 .. n : next'[s[k]] = IF k = p - 1 THEN s[q] ELSE IF k = r - 1 THEN s[p]
                                         ELSE IF k = q - 1 THEN s[r] ELSE next[s[k]],
         \A k \in 0 .. n : prev'[s[k]] = IF k = q THEN s[p - 1] ELSE IF k = p THEN s[r - 1]
                                         ELSE IF k = r THEN s[q - 1] ELSE prev[s[k]]
  PROVE  Chain(n, Exchanged(n, s, p, q, r))'
<1> DEFINE t == Exchanged(n, s, p, q, r)
<1>1. n \in Nat /\ s \in [0 .. n -> Nodes] /\ p \in Int /\ q \in Int /\ r \in Int
  BY DEF Chain
<1>2. /\ t \in [0 .. n -> Nodes]
      /\ \A k \in 0 .. p - 1 : t[k] = s[k]
      /\ \A k \in r .. n : t[k] = s[k]
      /\ \A k \in p .. p + (r - q) - 1 : t[k] = s[k + (q - p)]
      /\ \A k \in p + (r - q) .. r - 1 : t[k] = s[k - (r - q)]
  BY <1>1 DEF Exchanged
<1>3. \A j, k \in 0 .. n : t[j] = t[k] => j = k
  <2> DEFINE f(k) == IF k < p \/ k >= r THEN k
                     ELSE IF k < p + (r - q) THEN k + (q - p) ELSE k - (r - q)
  <2>1. \A j, k \in 0 .. n : s[j] = s[k] => j = k
    BY DEF Chain
  <2>2. \A k \in 0 .. n : t[k] = s[f(k)]
    BY <1>1 DEF Exchanged
  <2>3. \A k \in 0 .. n : f(k) \in 0 .. n
    BY <1>1
  <2>4. \A j, k \in 0 .. n : f(j) = f(k) => j = k
    BY <1>1
  <2> HIDE DEF f, t
  <2> QED
    BY <2>1, <2>2, <2>3, <2>4
<1> HIDE DEF t
<1>4. prev'[t[0]] = NULL /\ next'[t[n]] = NULL
  <2>1. t[0] = s[0] /\ t[n] = s[n]
    BY <1>1, <1>2
  <2>2. prev[s[0]] = NULL /\ next[s[n]] = NULL
    BY DEF Chain
  <2>3. prev'[s[0]] = prev[s[0]] /\ next'[s[n]] = next[s[n]]
    BY <1>1
  <2> QED
    BY <2>1, <2>2, <2>3
<1>5. \A k \in 0 .. n - 1 : next[s[k]] = s[k + 1] /\ prev[s[k + 1]] = s[k]
  BY DEF Chain
<1>6. ASSUME NEW k \in 0 .. n - 1, k \notin {p - 1, q - 1, r - 1}
      PROVE  next'[s[k]] = s[k + 1] /\ prev'[s[k + 1]] = s[k]
  <2>1. k \in 0 .. n /\ k + 1 \in 0 .. n
    BY <1>1
  <2>2. k # p - 1 /\ k # q - 1 /\ k # r - 1
    BY <1>6
  <2>3. k + 1 # p /\ k + 1 # q /\ k + 1 # r
    BY <1>1, <2>2
  <2>4. next'[s[k]] = next[s[k]]
    BY <2>1, <2>2
  <2>5. prev'[s[k + 1]] = prev[s[k + 1]]
    BY <2>1, <2>3
  <2> QED
    BY <2>4, <2>5, <1>5
<1>7. /\ next'[s[p - 1]] = s[q] /\ prev'[s[q]] = s[p - 1]
      /\ next'[s[r - 1]] = s[p] /\ prev'[s[p]] = s[r - 1]
      /\ next'[s[q - 1]] = s[r] /\ prev'[s[r]] = s[q - 1]
  <2>1. /\ p - 1 \in 0 .. n /\ q - 1 \in 0 .. n /\ r - 1 \in 0 .. n /\ p \in 0 .. n /\ q \in 0 .. n
        /\ r \in 0 .. n /\ p # q /\ p # r /\ q # r
        /\ p - 1 # r - 1 /\ p - 1 # q - 1 /\ q - 1 # r - 1
    BY <1>1
  <2> QED
    BY <2>1
<1>8. ASSUME NEW k \in 0 .. n - 1 PROVE next'[t[k]] = t[k + 1] /\ prev'[t[k + 1]] = t[k]
  <2>1. CASE k < p - 1 \/ k >= r
    <3>1. t[k] = s[k] /\ t[k + 1] = s[k + 1] /\ k \notin {p - 1, q - 1, r - 1}
      BY <1>1, <1>2, <2>1
    <3> QED
      BY <3>1, <1>6
  <2>2. CASE k = p - 1
    <3>1. t[k] = s[p - 1] /\ t[k + 1] = s[q]
      BY <1>1, <1>2, <2>2
    <3> QED
      BY <3>1, <1>7
  <2>3. CASE k >= p /\ k < p + (r - q) - 1
    <3> DEFINE h == k + (q - p)
    <3>1. (k + 1) + (q - p) = h + 1 /\ k \in p .. p + (r - q) - 1 /\ k + 1 \in p .. p + (r - q) - 1
      BY <1>1, <2>3
    <3>2. h \in 0 .. n - 1 /\ h \notin {p - 1, q - 1, r - 1}
      BY <1>1, <2>3
    <3>3. t[k] = s[h] /\ t[k + 1] = s[(k + 1) + (q - p)]
      BY <1>2, <3>1
    <3> HIDE DEF h
    <3> QED
      BY <3>1, <3>2, <3>3, <1>6
  <2>4. CASE k = p + (r - q) - 1
    <3>1. t[k] = s[r - 1] /\ t[k + 1] = s[p]
      BY <1>1, <1>2, <2>4
    <3> QED
      BY <3>1, <1>7
  <2>5. CASE k >= p + (r - q) /\ k < r - 1
    <3> DEFINE h == k - (r - q)
    <3>1. (k + 1) - (r - q) = h + 1 /\ k \in p + (r - q) .. r - 1 /\ k + 1 \in p + (r - q) .. r - 1
      BY <1>1, <2>5
    <3>2. h \in 0 .. n - 1 /\ h \notin {p - 1, q - 1, r - 1}
      BY <1>1, <2>5
    <3>3. t[k] = s[h] /\ t[k + 1] = s[(k + 1) - (r - q)]
      BY <1>2, <3>1
    <3> HIDE DEF h
    <3> QED
      BY <3>1, <3>2, <3>3, <1>6
  <2>6. CASE k = r - 1
    <3>1. /\ k \in p + (r - q) .. r - 1 /\ k - (r - q) = q - 1
          /\ k + 1 \in r .. n /\ k + 1 = r
      BY <1>1, <2>6
    <3>2. t[k] = s[k - (r - q)] /\ t[k + 1] = s[k + 1]
      BY <1>2, <3>1
    <3> QED
      BY <2>6, <3>1, <3>2, <1>7
  <2> QED
    BY <1>1, <2>1, <2>2, <2>3, <2>4, <2>5, <2>6
<1>9. Chain(n, t)'
  BY <1>1, <1>2, <1>3, <1>4, <1>8 DEF Chain
<1> QED
  BY <1>9 DEF t

(* The chain with its part i .. j - 1 right before b.                      *)
Moved(n, s, b, i, j) ==
  IF i = j \/ b = j THEN s
  ELSE IF b < i THEN Exchanged(n, s, b, i, j) ELSE Exchanged(n, s, i, j, b)

(* list_splice(before, first, last) of list.c, all on one list: the        *)
(* elements from FIRST on that are before LAST go right before BEFORE, in  *)
(* their order, and all others keep theirs.                                *)
THEOREM SpliceChain ==
  ASSUME NEW n, NEW s, NEW b \in 1 .. n, NEW i \in 1 .. n, NEW j \in i .. n,
         b \notin i .. j - 1, IsLinked, Chain(n, s), splice(s[b], s[i], s[j])
  PROVE  Chain(n, Moved(n, s, b, i, j))'
<1>1. /\ n \in Nat /\ s \in [0 .. n -> Nodes]
      /\ i \in 0 .. n /\ j \in 0 .. n /\ b \in 0 .. n /\ i - 1 \in 0 .. n /\ j - 1 \in 0 .. n /\ b - 1 \in 0 .. n
      /\ prev[s[i]] = s[i - 1] /\ prev[s[j]] = s[j - 1] /\ prev[s[b]] = s[b - 1] /\ next[s[j - 1]] = s[j]
  BY DEF Chain
<1>2. \A h, k \in 0 .. n : s[h] = s[k] => h = k
  BY DEF Chain
<1>3. CASE i = j
  <2>1. UNCHANGED links
    BY <1>3 DEF splice
  <2>2. Chain(n, s)'
    BY <2>1 DEF links, Chain
  <2> QED
    BY <1>3, <2>2 DEF Moved
<1>4. CASE i # j
  <2>1. s[i] # s[j]
    BY <1>1, <1>2, <1>4
  <2> DEFINE nx == [next EXCEPT ![s[i - 1]] = s[j]]
             pv == [prev EXCEPT ![s[j]] = s[i - 1]]
  <2>2. /\ prev' = [pv EXCEPT ![s[i]] = pv[s[b]], ![s[b]] = s[j - 1]]
        /\ next' = [nx EXCEPT ![s[j - 1]] = s[b], ![pv[s[b]]] = s[i]]
    BY <1>1, <2>1 DEF splice
  <2>3. pv[s[b]] = IF b = j THEN s[i - 1] ELSE s[b - 1]
    BY <1>1, <1>2 DEF IsLinked
  <2>4. ASSUME NEW k \in 0 .. n
        PROVE  /\ nx[s[k]] = IF k = i - 1 THEN s[j] ELSE next[s[k]]
               /\ pv[s[k]] = IF k = j THEN s[i - 1] ELSE prev[s[k]]
    BY <1>1, <1>2 DEF IsLinked
  <2>5. DOMAIN nx = Nodes /\ DOMAIN pv = Nodes
    BY DEF IsLinked
  <2> HIDE DEF nx, pv
  <2>6. CASE b = j
    <3>1. ASSUME NEW k \in 0 .. n PROVE next'[s[k]] = next[s[k]] /\ prev'[s[k]] = prev[s[k]]
      <4>1. pv[s[b]] = s[i - 1]
        BY <2>3, <2>6
      <4>2. next'[s[k]] = IF k = i - 1 THEN s[i] ELSE IF k = j - 1 THEN s[j] ELSE next[s[k]]
        BY <1>1, <1>2, <2>2, <2>4, <2>5, <2>6, <4>1
      <4>3. prev'[s[k]] = IF k = j THEN s[j - 1] ELSE IF k = i THEN s[i - 1] ELSE prev[s[k]]
        BY <1>1, <1>2, <2>2, <2>4, <2>5, <2>6, <4>1
      <4>4. next[s[i - 1]] = s[i]
        BY <1>1 DEF Chain
      <4> QED
        BY <1>1, <4>2, <4>3, <4>4
    <3>2. Chain(n, s)'
      BY <1>1, <3>1 DEF Chain
    <3> QED
      BY <2>6, <3>2 DEF Moved
  <2>7. CASE b # j
    <3>1. ASSUME NEW k \in 0 .. n
          PROVE  /\ next'[s[k]] = IF k = b - 1 THEN s[i] ELSE IF k = j - 1 THEN s[b]
                                  ELSE IF k = i - 1 THEN s[j] ELSE next[s[k]]
                 /\ prev'[s[k]] = IF k = b THEN s[j - 1] ELSE IF k = i THEN s[b - 1]
                                  ELSE IF k = j THEN s[i - 1] ELSE prev[s[k]]
      BY <1>1, <1>2, <2>2, <2>3, <2>4, <2>5, <2>7
    <3>2. CASE b < i
      <4>1. i < j /\ b \in 1 .. n /\ j \in 1 .. n /\ b # i /\ b # j
        BY <1>1, <1>4, <3>2
      <4>2. Chain(n, Exchanged(n, s, b, i, j))'
        BY <1>1, <3>1, <3>2, <4>1, ExchangeChain
      <4> QED
        BY <1>4, <2>7, <3>2, <4>2 DEF Moved
    <3>3. CASE ~(b < i)
      <4>1. i < j /\ j < b /\ b \in 1 .. n /\ j \in 1 .. n
        BY <1>1, <1>4, <2>7, <3>3
      <4>2. i - 1 # b - 1 /\ i - 1 # j - 1 /\ b - 1 # j - 1 /\ i # j /\ i # b /\ j # b
        BY <1>1, <4>1
      <4>3. /\ \A k \in 0 .. n : next'[s[k]] = IF k = i - 1 THEN s[j] ELSE IF k = b - 1 THEN s[i]
                                               ELSE IF k = j - 1 THEN s[b] ELSE next[s[k]]
            /\ \A k \in 0 .. n : prev'[s[k]] = IF k = j THEN s[i - 1] ELSE IF k = i THEN s[b - 1]
                                               ELSE IF k = b THEN s[j - 1] ELSE prev[s[k]]
        BY <3>1, <4>2
      <4>4. Chain(n, Exchanged(n, s, i, j, b))'
        BY <4>1, <4>3, ExchangeChain
      <4> QED
        BY <1>4, <2>7, <3>3, <4>4 DEF Moved
    <3> QED
      BY <3>2, <3>3
  <2> QED
    BY <2>6, <2>7
<1> QED
  BY <1>3, <1>4

(* The chain without its part i .. j - 1, and u with that part before b.   *)
Cut(n, s, i, j) == [k \in 0 .. n - (j - i) |-> IF k < i THEN s[k] ELSE s[k + (j - i)]]

Pasted(m, u, b, s, i, j) ==
  [k \in 0 .. m + (j - i) |-> IF k < b THEN u[k]
                              ELSE IF k < b + (j - i) THEN s[i + (k - b)] ELSE u[k - (j - i)]]

(* What list_splice does to the links when it takes from another list.     *)
Taken(n, s, m, u, b, i, j) ==
  /\ \A k \in 0 .. n : /\ next'[s[k]] = IF k = i - 1 THEN s[j]
                                        ELSE IF k = j - 1 THEN u[b] ELSE next[s[k]]
                       /\ prev'[s[k]] = IF k = j THEN s[i - 1]
                                        ELSE IF k = i THEN u[b - 1] ELSE prev[s[k]]
  /\ \A k \in 0 .. m : /\ next'[u[k]] = IF k = b - 1 THEN s[i] ELSE next[u[k]]
                       /\ prev'[u[k]] = IF k = b THEN s[j - 1] ELSE prev[u[k]]

LEMMA SpliceTakes ==
  ASSUME NEW n, NEW s, NEW i \in 1 .. n, NEW j \in i .. n, i # j, IsLinked, Chain(n, s),
         NEW m, NEW u, NEW b \in 1 .. m, Chain(m, u),
         \A h \in 0 .. m, k \in 0 .. n : u[h] # s[k], splice(u[b], s[i], s[j])
  PROVE  Taken(n, s, m, u, b, i, j)
<1>1. /\ n \in Nat /\ s \in [0 .. n -> Nodes] /\ m \in Nat /\ u \in [0 .. m -> Nodes]
      /\ i \in 0 .. n /\ j \in 0 .. n /\ b \in 0 .. m /\ i - 1 \in 0 .. n /\ j - 1 \in 0 .. n /\ b - 1 \in 0 .. m
      /\ prev[s[i]] = s[i - 1] /\ prev[s[j]] = s[j - 1] /\ prev[u[b]] = u[b - 1] /\ next[s[j - 1]] = s[j]
  BY DEF Chain
<1>2. /\ \A h, k \in 0 .. n : s[h] = s[k] => h = k
      /\ \A h, k \in 0 .. m : u[h] = u[k] => h = k
  BY DEF Chain
<1>3. s[i] # s[j]
  BY <1>1, <1>2
<1> DEFINE nx == [next EXCEPT ![s[i - 1]] = s[j]]
           pv == [prev EXCEPT ![s[j]] = s[i - 1]]
<1>4. /\ prev' = [pv EXCEPT ![s[i]] = pv[u[b]], ![u[b]] = s[j - 1]]
      /\ next' = [nx EXCEPT ![s[j - 1]] = u[b], ![pv[u[b]]] = s[i]]
  BY <1>1, <1>3 DEF splice
<1>5. pv[u[b]] = u[b - 1]
  BY <1>1 DEF IsLinked
<1>6. DOMAIN nx = Nodes /\ DOMAIN pv = Nodes
  BY DEF IsLinked
<1>7. ASSUME NEW k \in 0 .. n
      PROVE  /\ nx[s[k]] = IF k = i - 1 THEN s[j] ELSE next[s[k]]
             /\ pv[s[k]] = IF k = j THEN s[i - 1] ELSE prev[s[k]]
  BY <1>1, <1>2 DEF IsLinked
<1>8. ASSUME NEW k \in 0 .. m PROVE nx[u[k]] = next[u[k]] /\ pv[u[k]] = prev[u[k]]
  BY <1>1 DEF IsLinked
<1> HIDE DEF nx, pv
<1>9. ASSUME NEW k \in 0 .. n
      PROVE  /\ next'[s[k]] = IF k = i - 1 THEN s[j] ELSE IF k = j - 1 THEN u[b] ELSE next[s[k]]
             /\ prev'[s[k]] = IF k = j THEN s[i - 1] ELSE IF k = i THEN u[b - 1] ELSE prev[s[k]]
  BY <1>1, <1>2, <1>4, <1>5, <1>6, <1>7
<1>10. ASSUME NEW k \in 0 .. m
       PROVE  /\ next'[u[k]] = IF k = b - 1 THEN s[i] ELSE next[u[k]]
              /\ prev'[u[k]] = IF k = b THEN s[j - 1] ELSE prev[u[k]]
  BY <1>1, <1>2, <1>4, <1>5, <1>6, <1>8
<1> QED
  BY <1>9, <1>10 DEF Taken

LEMMA CutChain ==
  ASSUME NEW n, NEW s, NEW i \in 1 .. n, NEW j \in i .. n, i # j, Chain(n, s),
         NEW m, NEW u, NEW b, Taken(n, s, m, u, b, i, j)
  PROVE  Chain(n - (j - i), Cut(n, s, i, j))'
<1> DEFINE d == j - i
           t == Cut(n, s, i, j)
<1>1. /\ n \in Nat /\ s \in [0 .. n -> Nodes] /\ \A h, k \in 0 .. n : s[h] = s[k] => h = k
      /\ prev[s[0]] = NULL /\ next[s[n]] = NULL
      /\ \A k \in 0 .. n - 1 : next[s[k]] = s[k + 1] /\ prev[s[k + 1]] = s[k]
  BY DEF Chain
<1>2. /\ i \in 1 .. n /\ j \in 2 .. n /\ d \in Nat /\ n - d \in Nat /\ n - d >= i /\ j = i + d /\ d > 0
  BY <1>1
<1>3. /\ t \in [0 .. n - d -> Nodes] /\ t = [k \in 0 .. n - d |-> IF k < i THEN s[k] ELSE s[k + d]]
  BY <1>1, <1>2 DEF Cut
<1> HIDE DEF d, t
<1>4. \A h, k \in 0 .. n - d : t[h] = t[k] => h = k
  <2> DEFINE f(k) == IF k < i THEN k ELSE k + d
  <2>1. \A k \in 0 .. n - d : t[k] = s[f(k)]
    BY <1>3
  <2>2. \A k \in 0 .. n - d : f(k) \in 0 .. n
    BY <1>1, <1>2
  <2>3. \A h, k \in 0 .. n - d : f(h) = f(k) => h = k
    BY <1>1, <1>2
  <2> HIDE DEF f
  <2> QED
    BY <1>1, <2>1, <2>2, <2>3
<1>5. \A k \in 0 .. n : /\ k # i - 1 /\ k # j - 1 => next'[s[k]] = next[s[k]]
                        /\ k # j /\ k # i => prev'[s[k]] = prev[s[k]]
  BY DEF Taken
<1>6. prev'[t[0]] = NULL /\ next'[t[n - d]] = NULL
  <2>1. /\ 0 \in 0 .. n - d /\ 0 < i
        /\ (n - d) + d = n /\ n - d \in 0 .. n - d /\ ~(n - d < i)
    BY <1>1, <1>2
  <2>2. t[0] = s[0] /\ t[n - d] = s[n]
    BY <2>1, <1>3
  <2>3. 0 \in 0 .. n /\ n \in 0 .. n /\ n # i - 1 /\ n # j - 1 /\ 0 # j /\ 0 # i
    BY <1>1, <1>2
  <2>4. prev'[s[0]] = prev[s[0]]
    BY <1>5, <2>3
  <2>5. next'[s[n]] = next[s[n]]
    BY <1>5, <2>3
  <2> QED
    BY <1>1, <2>2, <2>4, <2>5
<1>7. ASSUME NEW k \in 0 .. (n - d) - 1 PROVE next'[t[k]] = t[k + 1] /\ prev'[t[k + 1]] = t[k]
  <2>1. CASE k = i - 1
    <3>1. k \in 0 .. n - d /\ k + 1 \in 0 .. n - d /\ k < i /\ ~(k + 1 < i) /\ (k + 1) + d = j
      BY <1>1, <1>2, <2>1
    <3>2. t[k] = s[i - 1] /\ t[k + 1] = s[j]
      BY <1>3, <2>1, <3>1
    <3>3. i - 1 \in 0 .. n /\ j \in 0 .. n
      BY <1>1, <1>2
    <3> QED
      BY <3>2, <3>3 DEF Taken
  <2>2. CASE k # i - 1
    <3>1. PICK h \in 0 .. n - 1 : /\ t[k] = s[h] /\ t[k + 1] = s[h + 1] /\ h \in 0 .. n /\ h + 1 \in 0 .. n
                                  /\ h # i - 1 /\ h # j - 1 /\ h + 1 # j /\ h + 1 # i
      <4>1. CASE k < i
        <5>1. /\ k \in 0 .. n - d /\ k + 1 \in 0 .. n - d /\ k + 1 < i
              /\ k \in 0 .. n - 1 /\ k \in 0 .. n /\ k + 1 \in 0 .. n
              /\ k # i - 1 /\ k # j - 1 /\ k + 1 # j /\ k + 1 # i
          BY <1>1, <1>2, <2>2, <4>1
        <5>2. t[k] = s[k] /\ t[k + 1] = s[k + 1]
          BY <1>3, <5>1, <4>1
        <5> QED
          BY <5>1, <5>2
      <4>2. CASE ~(k < i)
        <5> DEFINE g == k + d
        <5>1. /\ k \in 0 .. n - d /\ k + 1 \in 0 .. n - d /\ ~(k + 1 < i) /\ (k + 1) + d = g + 1
              /\ g \in 0 .. n - 1 /\ g \in 0 .. n /\ g + 1 \in 0 .. n
              /\ g # i - 1 /\ g # j - 1 /\ g + 1 # j /\ g + 1 # i
          BY <1>1, <1>2, <2>2, <4>2
        <5>2. t[k] = s[g] /\ t[k + 1] = s[(k + 1) + d]
          BY <1>3, <5>1, <4>2
        <5> HIDE DEF g
        <5> QED
          BY <5>1, <5>2
      <4> QED
        BY <4>1, <4>2
    <3>2. next'[s[h]] = next[s[h]]
      BY <1>5, <3>1
    <3>3. prev'[s[h + 1]] = prev[s[h + 1]]
      BY <1>5, <3>1
    <3> QED
      BY <1>1, <3>1, <3>2, <3>3
  <2> QED
    BY <2>1, <2>2
<1>8. Chain(n - d, t)'
  BY <1>2, <1>3, <1>4, <1>6, <1>7 DEF Chain
<1> QED
  BY <1>8 DEF d, t

LEMMA PastedChain ==
  ASSUME NEW n, NEW s, NEW i \in 1 .. n, NEW j \in i .. n, i # j, Chain(n, s),
         NEW m, NEW u, NEW b \in 1 .. m, Chain(m, u),
         \A h \in 0 .. m, k \in 0 .. n : u[h] # s[k], Taken(n, s, m, u, b, i, j)
  PROVE  Chain(m + (j - i), Pasted(m, u, b, s, i, j))'
<1> DEFINE d == j - i
           t == Pasted(m, u, b, s, i, j)
<1>1. /\ n \in Nat /\ s \in [0 .. n -> Nodes] /\ \A h, k \in 0 .. n : s[h] = s[k] => h = k
      /\ m \in Nat /\ u \in [0 .. m -> Nodes] /\ \A h, k \in 0 .. m : u[h] = u[k] => h = k
      /\ prev[u[0]] = NULL /\ next[u[m]] = NULL
      /\ \A k \in 0 .. m - 1 : next[u[k]] = u[k + 1] /\ prev[u[k + 1]] = u[k]
      /\ \A k \in 0 .. n - 1 : next[s[k]] = s[k + 1] /\ prev[s[k + 1]] = s[k]
  BY DEF Chain
<1>2. /\ i \in 1 .. n /\ j \in 2 .. n /\ d \in Nat /\ j = i + d /\ d > 0 /\ b \in 1 .. m /\ m + d \in Nat
      /\ n \in Nat /\ m \in Nat
  BY <1>1
<1>3. t = [k \in 0 .. m + d |-> IF k < b THEN u[k] ELSE IF k < b + d THEN s[i + (k - b)] ELSE u[k - d]]
  BY DEF Pasted
<1> HIDE DEF d, t
<1>4. /\ \A k \in 0 .. b - 1 : t[k] = u[k]
      /\ \A k \in b .. b + d - 1 : i + (k - b) \in 0 .. n /\ t[k] = s[i + (k - b)]
      /\ \A k \in b + d .. m + d : k - d \in 0 .. m /\ t[k] = u[k - d]
  BY <1>1, <1>2, <1>3
<1>5. t \in [0 .. m + d -> Nodes]
  <2>1. ASSUME NEW k \in 0 .. m + d PROVE t[k] \in Nodes
    <3>1. CASE k \in 0 .. b - 1
      BY <1>1, <1>2, <1>4, <3>1
    <3>2. CASE k \in b .. b + d - 1
      BY <1>1, <1>4, <3>2
    <3>3. CASE k \in b + d .. m + d
      BY <1>1, <1>4, <3>3
    <3> QED
      BY <1>2, <3>1, <3>2, <3>3
  <2> QED
    BY <1>3, <2>1
<1>6. \A h, k \in 0 .. m + d : t[h] = t[k] => h = k
  <2> SUFFICES ASSUME NEW h \in 0 .. m + d, NEW k \in 0 .. m + d, t[h] = t[k] PROVE h = k
    OBVIOUS
  <2> DEFINE f(g) == IF g < b THEN g ELSE g - d
             inside(g) == g \in b .. b + d - 1
  <2>1. ASSUME NEW g \in 0 .. m + d, ~inside(g) PROVE t[g] = u[f(g)] /\ f(g) \in 0 .. m
    <3>1. CASE g < b
      <4>1. g \in 0 .. b - 1 /\ f(g) = g /\ g \in 0 .. m
        BY <1>2, <3>1
      <4> QED
        BY <1>4, <4>1
    <3>2. CASE ~(g < b)
      <4>1. g \in b + d .. m + d /\ f(g) = g - d
        BY <1>2, <2>1, <3>2
      <4> QED
        BY <1>4, <4>1
    <3> QED
      BY <3>1, <3>2
  <2>2. \A g \in 0 .. m + d : inside(g) => t[g] = s[i + (g - b)] /\ i + (g - b) \in 0 .. n
    BY <1>4
  <2>3. CASE inside(h) /\ inside(k)
    <3>1. i + (h - b) = i + (k - b)
      BY <1>1, <2>2, <2>3
    <3> QED
      BY <1>2, <3>1
  <2>4. CASE ~inside(h) /\ ~inside(k)
    <3>1. f(h) = f(k)
      BY <1>1, <2>1, <2>4
    <3> QED
      BY <1>2, <2>4, <3>1
  <2>5. inside(h) <=> inside(k)
    <3> HIDE DEF inside, f
    <3> QED
      BY <2>1, <2>2
  <2> QED
    BY <2>3, <2>4, <2>5
<1>7. /\ \A k \in 0 .. n : /\ k # i - 1 /\ k # j - 1 => next'[s[k]] = next[s[k]]
                           /\ k # j /\ k # i => prev'[s[k]] = prev[s[k]]
      /\ \A k \in 0 .. m : /\ k # b - 1 => next'[u[k]] = next[u[k]]
                           /\ k # b => prev'[u[k]] = prev[u[k]]
      /\ next'[u[b - 1]] = s[i] /\ prev'[s[i]] = u[b - 1]
      /\ next'[s[j - 1]] = u[b] /\ prev'[u[b]] = s[j - 1]
  <2>1. /\ i \in 0 .. n /\ j - 1 \in 0 .. n /\ b \in 0 .. m /\ b - 1 \in 0 .. m /\ i # j /\ i - 1 # j - 1
    BY <1>1, <1>2
  <2> QED
    BY <2>1 DEF Taken
<1>8. prev'[t[0]] = NULL /\ next'[t[m + d]] = NULL
  <2>1. /\ 0 \in 0 .. b - 1 /\ m + d \in b + d .. m + d /\ (m + d) - d = m
        /\ 0 \in 0 .. m /\ m \in 0 .. m /\ 0 # b /\ m # b - 1
    BY <1>1, <1>2
  <2>2. t[0] = u[0] /\ t[m + d] = u[m]
    BY <1>4, <2>1
  <2> QED
    BY <1>1, <1>7, <2>1, <2>2
<1>9. ASSUME NEW k \in 0 .. (m + d) - 1 PROVE next'[t[k]] = t[k + 1] /\ prev'[t[k + 1]] = t[k]
  <2>1. CASE k < b - 1
    <3>1. /\ k \in 0 .. b - 1 /\ k + 1 \in 0 .. b - 1 /\ k \in 0 .. m - 1 /\ k \in 0 .. m /\ k + 1 \in 0 .. m
          /\ k # b - 1 /\ k + 1 # b
      BY <1>2, <2>1
    <3>2. t[k] = u[k] /\ t[k + 1] = u[k + 1]
      BY <1>4, <3>1
    <3> QED
      BY <1>1, <1>7, <3>1, <3>2
  <2>2. CASE k = b - 1
    <3>1. k \in 0 .. b - 1 /\ k + 1 \in b .. b + d - 1 /\ i + ((k + 1) - b) = i
      BY <1>2, <2>2
    <3>2. t[k] = u[k] /\ t[k + 1] = s[i + ((k + 1) - b)]
      BY <1>4, <3>1
    <3> QED
      BY <1>7, <2>2, <3>1, <3>2
  <2>3. CASE k \in b .. b + d - 2
    <3> DEFINE h == i + (k - b)
    <3>1. /\ k \in b .. b + d - 1 /\ k + 1 \in b .. b + d - 1 /\ i + ((k + 1) - b) = h + 1
          /\ h \in 0 .. n - 1 /\ h \in 0 .. n /\ h + 1 \in 0 .. n
          /\ h # i - 1 /\ h # j - 1 /\ h + 1 # j /\ h + 1 # i
      BY <1>2, <2>3
    <3>2. t[k] = s[h] /\ t[k + 1] = s[i + ((k + 1) - b)]
      BY <1>4, <3>1
    <3> HIDE DEF h
    <3>3. next'[t[k]] = next[t[k]] /\ prev'[t[k + 1]] = prev[t[k + 1]]
      BY <1>7, <3>1, <3>2
    <3>4. next[s[h]] = s[h + 1] /\ prev[s[h + 1]] = s[h]
      BY <1>1, <3>1
    <3>5. t[k] = s[h] /\ t[k + 1] = s[h + 1]
      BY <3>1, <3>2
    <3> QED
      BY <3>3, <3>4, <3>5
  <2>4. CASE k = b + d - 1
    <3>1. i \in Int /\ j \in Int /\ b \in Int /\ d \in Int /\ b <= m
      BY <1>2
    <3>2. i + (k - b) = j - 1 /\ (k + 1) - d = b
      BY <1>2, <2>4, <3>1
    <3>3. k \in b .. b + d - 1 /\ k + 1 \in b + d .. m + d
      BY <1>2, <2>4, <3>1
    <3>4. t[k] = s[i + (k - b)] /\ t[k + 1] = u[(k + 1) - d]
      BY <1>4, <3>3
    <3> QED
      BY <1>7, <3>2, <3>4
  <2>5. CASE k >= b + d
    <3> DEFINE h == k - d
    <3>1. /\ k \in b + d .. m + d /\ k + 1 \in b + d .. m + d /\ (k + 1) - d = h + 1
          /\ h \in 0 .. m - 1 /\ h \in 0 .. m /\ h + 1 \in 0 .. m /\ h # b - 1 /\ h + 1 # b
      BY <1>2, <2>5
    <3>2. t[k] = u[h] /\ t[k + 1] = u[(k + 1) - d]
      BY <1>4, <3>1
    <3> HIDE DEF h
    <3>3. next'[t[k]] = next[t[k]] /\ prev'[t[k + 1]] = prev[t[k + 1]]
      BY <1>7, <3>1, <3>2
    <3> QED
      BY <1>1, <3>1, <3>2, <3>3
  <2> QED
    BY <1>2, <2>1, <2>2, <2>3, <2>4, <2>5
<1>10. Chain(m + d, t)'
  BY <1>2, <1>5, <1>6, <1>8, <1>9 DEF Chain
<1> QED
  BY <1>10 DEF d, t

(* list_splice(before, first, last) of list.c from one list into another:  *)
(* the elements from FIRST on that are before LAST are taken out of the    *)
(* one and go, in their order, right before BEFORE in the other.           *)
THEOREM SpliceBetween ==
  ASSUME NEW n, NEW s, NEW i \in 1 .. n, NEW j \in i .. n, IsLinked, Chain(n, s),
         NEW m, NEW u, NEW b \in 1 .. m, Chain(m, u),
         \A h \in 0 .. m, k \in 0 .. n : u[h] # s[k], splice(u[b], s[i], s[j])
  PROVE  /\ Chain(n - (j - i), Cut(n, s, i, j))'
         /\ Chain(m + (j - i), Pasted(m, u, b, s, i, j))'
<1>1. CASE i = j
  <2>1. UNCHANGED links
    BY <1>1 DEF splice
  <2>2. /\ n \in Nat /\ s \in [0 .. n -> Nodes] /\ m \in Nat /\ u \in [0 .. m -> Nodes]
        /\ j - i = 0 /\ n - 0 = n /\ m + 0 = m /\ b \in Int
        /\ \A k \in 0 .. n : k + 0 = k
        /\ \A k \in 0 .. m : k - 0 = k /\ ~(~(k < b) /\ k < b + 0)
    BY <1>1 DEF Chain
  <2>3. Cut(n, s, i, j) = s
    BY <2>2 DEF Cut
  <2>4. Pasted(m, u, b, s, i, j) = u
    BY <2>2 DEF Pasted
  <2>5. Chain(n, s)' /\ Chain(m, u)'
    BY <2>1 DEF links, Chain
  <2> QED
    BY <2>2, <2>3, <2>4, <2>5
<1>2. CASE i # j
  <2>1. Taken(n, s, m, u, b, i, j)
    BY <1>2, SpliceTakes
  <2> QED
    BY <1>2, <2>1, CutChain, PastedChain
<1> QED
  BY <1>1, <1>2

(* A list that list_splice neither takes from nor adds to stays as it is.  *)
LEMMA SpliceElsewhere ==
  ASSUME NEW first, NEW last, NEW before, IsLinked, NEW m, NEW u, Chain(m, u),
         \A k \in 0 .. m : u[k] \notin {first, before, last, prev[first], prev[before], prev[last]},
         next[prev[last]] = last, splice(before, first, last)
  PROVE  Chain(m, u)'
<1>1. m \in Nat /\ u \in [0 .. m -> Nodes]
  BY DEF Chain
<1>2. ASSUME NEW k \in 0 .. m PROVE next'[u[k]] = next[u[k]] /\ prev'[u[k]] = prev[u[k]]
  <2>1. CASE first = last
    BY <2>1 DEF splice, links
  <2>2. CASE first # last
    <3> DEFINE nx == [next EXCEPT ![prev[first]] = last]
               pv == [prev EXCEPT ![last] = prev[first]]
    <3>1. /\ prev' = [pv EXCEPT ![first] = pv[before], ![before] = prev[last]]
          /\ next' = [nx EXCEPT ![prev[last]] = before, ![pv[before]] = first]
      BY <2>2 DEF splice
    <3>2. /\ nx[u[k]] = next[u[k]] /\ pv[u[k]] = prev[u[k]] /\ DOMAIN nx = Nodes /\ DOMAIN pv = Nodes
          /\ pv[before] \in {prev[before], prev[first]}
      BY <1>1 DEF IsLinked
    <3> HIDE DEF nx, pv
    <3> QED
      BY <1>1, <3>1, <3>2
  <2> QED
    BY <2>1, <2>2
<1>3. 0 \in 0 .. m /\ m \in 0 .. m /\ \A q \in 0 .. m - 1 : q \in 0 .. m /\ q + 1 \in 0 .. m
  BY <1>1
<1> QED
  BY <1>2, <1>3 DEF Chain
-----------------------------------------------------------------------------
(* Induction over the numbers, for the set of those it is true of.         *)
LEMMA SetInduction ==
  ASSUME NEW S, 0 \in S, \A k \in Nat : k \in S => k + 1 \in S
  PROVE  \A k \in Nat : k \in S
<1> DEFINE T == Nat \ S
           R == OpToRel(<, Nat)
<1>1. IsWellFoundedOn(R, Nat)
  BY NatLessThanWellFounded, Zenon
<1>2. \A x, y \in Nat : <<x, y>> \in R <=> x < y
  BY DEF OpToRel
<1>3. ASSUME T # {} PROVE FALSE
  <2> HIDE DEF R
  <2>1. PICK x \in T : \A y \in T : ~(<<y, x>> \in R)
    BY <1>1, <1>3, WFMin
  <2>2. x # 0 /\ x - 1 \in Nat
    OBVIOUS
  <2>3. <<x - 1, x>> \in R
    BY <1>2, <2>2
  <2>4. x - 1 \notin T
    BY <2>1, <2>3
  <2> QED
    BY <2>2, <2>4
<1> QED
  BY <1>3

LEMMA Least ==
  ASSUME NEW S, S \subseteq Nat, S # {}
  PROVE  \E d \in S : \A e \in S : d <= e
<1>1. \E d \in S : \A e \in S : ~(<<e, d>> \in OpToRel(<, Nat))
  BY NatLessThanWellFounded, WFMin
<1>2. ASSUME NEW d \in Nat, NEW e \in Nat, ~(<<e, d>> \in OpToRel(<, Nat))
      PROVE  d <= e
  <2>1. ~(<<e, d>>[1] < <<e, d>>[2])
    BY <1>2, Zenon DEF OpToRel
  <2> QED
    BY <2>1
<1> QED
  BY <1>1, <1>2, Zenon

(* The i-th node of list k when s is on it, from head to tail.             *)
Node(k, s, i) == IF i = 0 THEN head(k) ELSE IF i > Len(s) THEN tail(k) ELSE s[i]

Whole(k, s) == [i \in 0 .. Len(s) + 1 |-> Node(k, s, i)]

(* List k has all its links, and s is on it.                               *)
Tied(nx, pv, k, s) ==
  /\ \A i, j \in 1 .. Len(s) : s[i] = s[j] => i = j
  /\ pv[head(k)] = NULL /\ nx[tail(k)] = NULL
  /\ \A i \in 0 .. Len(s) : /\ nx[Node(k, s, i)] = Node(k, s, i + 1)
                            /\ pv[Node(k, s, i + 1)] = Node(k, s, i)

Linked(k, s) == Tied(next, prev, k, s)

ChainOf(nx, pv, n, s) ==
  /\ n \in Nat /\ s \in [0 .. n -> Nodes]
  /\ \A i, j \in 0 .. n : s[i] = s[j] => i = j
  /\ pv[s[0]] = NULL /\ nx[s[n]] = NULL
  /\ \A i \in 0 .. n - 1 : nx[s[i]] = s[i + 1] /\ pv[s[i + 1]] = s[i]

LEMMA NodesDiffer ==
  /\ \A k \in Lists : /\ head(k) \in Nodes /\ tail(k) \in Nodes
                      /\ head(k) \notin Elems /\ tail(k) \notin Elems
                      /\ head(k) # NULL /\ tail(k) # NULL /\ k # NULL
  /\ \A x \in Elems : x \in Nodes /\ x # NULL
  /\ \A j, k \in Lists : /\ head(j) # tail(k) /\ (head(j) = head(k) => j = k)
                         /\ (tail(j) = tail(k) => j = k)
<1>1. \A j, k : head(j) # tail(k)
  BY DEF head, tail
<1>2. \A j, k : (head(j) = head(k) => j = k) /\ (tail(j) = tail(k) => j = k)
  BY DEF head, tail
<1>3. \A k \in Lists : head(k) \in Ends /\ tail(k) \in Ends
  BY Zenon DEF Ends
<1> QED
  BY <1>1, <1>2, <1>3, ElemsAssumption, NULLAssumption DEF Nodes

(* The nodes of a list in terms of its elements.                           *)
LEMMA NodeIs ==
  ASSUME NEW k \in Lists, NEW s \in Seq(Elems)
  PROVE  /\ Len(s) \in Nat /\ DOMAIN s = 1 .. Len(s)
         /\ Node(k, s, 0) = head(k) /\ Node(k, s, Len(s) + 1) = tail(k)
         /\ \A i \in 1 .. Len(s) : Node(k, s, i) = s[i] /\ s[i] \in Elems
         /\ \A i \in 0 .. Len(s) + 1 : Node(k, s, i) \in Nodes
<1>1. Len(s) \in Nat /\ DOMAIN s = 1 .. Len(s)
  OBVIOUS
<1>2. \A i \in 1 .. Len(s) : Node(k, s, i) = s[i] /\ s[i] \in Elems
  BY DEF Node
<1>3. Node(k, s, 0) = head(k) /\ Node(k, s, Len(s) + 1) = tail(k)
  BY DEF Node
<1>4. \A i \in 0 .. Len(s) + 1 : i = 0 \/ i = Len(s) + 1 \/ i \in 1 .. Len(s)
  BY <1>1
<1>5. \A i \in 0 .. Len(s) + 1 : Node(k, s, i) \in Nodes
  <2>1. head(k) \in Nodes /\ tail(k) \in Nodes /\ \A x \in Elems : x \in Nodes
    BY NodesDiffer, Zenon
  <2> QED
    BY <1>2, <1>3, <1>4, <2>1
<1> QED
  BY <1>1, <1>2, <1>3, <1>5

(* The same as a chain of nodes.                                           *)
LEMMA TiedChain ==
  ASSUME NEW nx, NEW pv, NEW k \in Lists, NEW s \in Seq(Elems)
  PROVE  Tied(nx, pv, k, s) <=> ChainOf(nx, pv, Len(s) + 1, Whole(k, s))
<1> DEFINE n == Len(s)
           w == Whole(k, s)
<1>1. n \in Nat
  OBVIOUS
<1>2. /\ Node(k, s, 0) = head(k) /\ Node(k, s, n + 1) = tail(k)
      /\ \A i \in 1 .. n : Node(k, s, i) = s[i] /\ s[i] \in Elems
      /\ \A i \in 0 .. n + 1 : Node(k, s, i) \in Nodes
  BY NodeIs
<1>3. \A i \in 0 .. n + 1 : w[i] = Node(k, s, i)
  BY DEF Whole
<1>4. w \in [0 .. n + 1 -> Nodes]
  BY <1>2 DEF Whole
<1>5. (\A i, j \in 0 .. n + 1 : w[i] = w[j] => i = j) <=> \A i, j \in 1 .. n : s[i] = s[j] => i = j
  <2>1. ASSUME \A i, j \in 0 .. n + 1 : w[i] = w[j] => i = j, NEW i \in 1 .. n, NEW j \in 1 .. n, s[i] = s[j]
        PROVE  i = j
    <3>1. i \in 0 .. n + 1 /\ j \in 0 .. n + 1
      BY <1>1
    <3>2. w[i] = w[j]
      BY <1>2, <1>3, <2>1, <3>1
    <3> QED
      BY <2>1, <3>1, <3>2
  <2>2. ASSUME \A i, j \in 1 .. n : s[i] = s[j] => i = j, NEW i \in 0 .. n + 1, NEW j \in 0 .. n + 1, w[i] = w[j]
        PROVE  i = j
    <3>1. (i = 0 \/ i = n + 1 \/ i \in 1 .. n) /\ (j = 0 \/ j = n + 1 \/ j \in 1 .. n)
      BY <1>1
    <3>2. head(k) # tail(k) /\ \A x \in Elems : x # head(k) /\ x # tail(k)
      BY NodesDiffer
    <3>3. Node(k, s, i) = Node(k, s, j)
      BY <1>3, <2>2
    <3> HIDE DEF n, w
    <3> QED
      BY <1>2, <2>2, <3>1, <3>2, <3>3
  <2> HIDE DEF n, w
  <2> QED
    BY <2>1, <2>2
<1>6. (n + 1) - 1 = n /\ n + 1 \in Nat /\ 0 \in 0 .. n + 1 /\ n + 1 \in 0 .. n + 1
      /\ \A i \in 0 .. n : i \in 0 .. n + 1 /\ i + 1 \in 0 .. n + 1
  BY <1>1
<1> HIDE DEF n, w
<1>7. ChainOf(nx, pv, n + 1, w) <=> /\ \A i, j \in 0 .. n + 1 : w[i] = w[j] => i = j
                                    /\ pv[w[0]] = NULL /\ nx[w[n + 1]] = NULL
                                    /\ \A i \in 0 .. n : nx[w[i]] = w[i + 1] /\ pv[w[i + 1]] = w[i]
  BY <1>4, <1>6 DEF ChainOf
<1>8. (\A i \in 0 .. n : nx[w[i]] = w[i + 1] /\ pv[w[i + 1]] = w[i]) <=>
        \A i \in 0 .. n : nx[Node(k, s, i)] = Node(k, s, i + 1) /\ pv[Node(k, s, i + 1)] = Node(k, s, i)
  BY <1>3, <1>6
<1>9. w[0] = head(k) /\ w[n + 1] = tail(k)
  BY <1>2, <1>3, <1>6
<1>10. Tied(nx, pv, k, s) <=> ChainOf(nx, pv, n + 1, w)
  BY <1>5, <1>7, <1>8, <1>9 DEF n, Tied
<1> QED
  BY <1>10 DEF n, w

LEMMA LinkedNow ==
  ASSUME NEW k \in Lists, NEW s \in Seq(Elems)
  PROVE  Linked(k, s) <=> Chain(Len(s) + 1, Whole(k, s))
<1>1. Chain(Len(s) + 1, Whole(k, s)) <=> ChainOf(next, prev, Len(s) + 1, Whole(k, s))
  BY Zenon DEF Chain, ChainOf
<1> QED
  BY <1>1, TiedChain DEF Linked

LEMMA LinkedThen ==
  ASSUME NEW k \in Lists, NEW s \in Seq(Elems)
  PROVE  Linked(k, s)' <=> Chain(Len(s) + 1, Whole(k, s))'
<1>1. Chain(Len(s) + 1, Whole(k, s))' <=> ChainOf(next', prev', Len(s) + 1, Whole(k, s))
  BY Zenon DEF Chain, ChainOf
<1> QED
  BY <1>1, TiedChain DEF Linked

(* f(m) gives, for each node, what is met from it, m nodes at most.        *)
From(f, nx, k, N) ==
  f = [n \in 0 .. N |->
         [x \in Nodes \cup {NULL} |->
            IF n = 0 \/ x \in {tail(k), NULL} THEN <<>> ELSE <<x>> \o f[n - 1][nx[x]]]]

LEMMA FromExists ==
  ASSUME NEW nx, NEW k, NEW N \in Nat
  PROVE  \E f : From(f, nx, k, N)
<1> DEFINE S == {m \in Nat : \E f : From(f, nx, k, m)}
           row(m, g) == [x \in Nodes \cup {NULL} |->
                           IF m = 0 \/ x \in {tail(k), NULL} THEN <<>> ELSE <<x>> \o g[m - 1][nx[x]]]
<1>1. 0 \in S
  <2> DEFINE g == [m \in 0 .. 0 |-> row(m, <<>>)]
  <2>1. \A m \in 0 .. 0 : m = 0
    OBVIOUS
  <2>2. row(0, <<>>) = row(0, g)
    OBVIOUS
  <2>3. g = [m \in 0 .. 0 |-> row(m, g)]
    BY <2>1, <2>2, Zenon
  <2>4. From(g, nx, k, 0)
    BY <2>3 DEF From
  <2> QED
    BY <2>4
<1>2. ASSUME NEW m \in Nat, m \in S PROVE m + 1 \in S
  <2>1. PICK f : From(f, nx, k, m)
    BY <1>2
  <2> DEFINE g == [h \in 0 .. m + 1 |-> IF h = m + 1 THEN row(m + 1, f) ELSE f[h]]
  <2>2. \A h \in 0 .. m : f[h] = row(h, f)
    BY <2>1 DEF From
  <2>3. \A h \in 0 .. m : g[h] = f[h]
    OBVIOUS
  <2>4. \A h \in 1 .. m + 1 : h - 1 \in 0 .. m
    OBVIOUS
  <2>5. \A h \in 0 .. m + 1 : h = 0 \/ h \in 1 .. m + 1
    OBVIOUS
  <2>6. \A h \in 0 .. m + 1 : row(h, f) = row(h, g)
    <3> HIDE DEF g
    <3> QED
      BY <2>3, <2>4, <2>5
  <2>7. \A h \in 0 .. m + 1 : g[h] = row(h, f)
    <3> HIDE DEF row
    <3> QED
      BY <2>2
  <2>8. g = [h \in 0 .. m + 1 |-> g[h]]
    OBVIOUS
  <2>9. g = [h \in 0 .. m + 1 |-> row(h, g)]
    <3> HIDE DEF g, row
    <3> QED
      BY <2>6, <2>7, <2>8
  <2>10. From(g, nx, k, m + 1)
    <3> HIDE DEF g
    <3> QED
      BY <2>9 DEF From
  <2> QED
    BY <2>10
<1>3. N \in S
  <2> HIDE DEF S
  <2> QED
    BY <1>1, <1>2, SetInduction
<1> QED
  BY <1>3

(* Contents, with the links named.                                         *)
ContentsOf(nx, k) ==
  LET from[n \in 0 .. Cardinality(Elems)] ==
        [x \in Nodes \cup {NULL} |->
           IF n = 0 \/ x \in {tail(k), NULL} THEN <<>> ELSE <<x>> \o from[n - 1][nx[x]]]
  IN from[Cardinality(Elems)][nx[head(k)]]

LEMMA ContentsFrom ==
  ASSUME NEW nx, NEW k
  PROVE  \E f : From(f, nx, k, Cardinality(Elems)) /\ ContentsOf(nx, k) = f[Cardinality(Elems)][nx[head(k)]]
<1>1. Cardinality(Elems) \in Nat
  BY ElemsAssumption, FS_CardinalityType
<1>2. \E f : From(f, nx, k, Cardinality(Elems))
  BY <1>1, FromExists
<1> DEFINE F == CHOOSE f : From(f, nx, k, Cardinality(Elems))
<1>3. From(F, nx, k, Cardinality(Elems))
  BY <1>2, Zenon
<1>4. ContentsOf(nx, k) = F[Cardinality(Elems)][nx[head(k)]]
  BY Zenon DEF ContentsOf, From
<1> QED
  BY <1>3, <1>4, Zenon

LEMMA FewElems ==
  ASSUME NEW s \in Seq(Elems), \A i, j \in 1 .. Len(s) : s[i] = s[j] => i = j
  PROVE  Len(s) <= Cardinality(Elems)
<1>1. IsFiniteSet(1 .. Len(s)) /\ Cardinality(1 .. Len(s)) = Len(s)
  <2>1. Len(s) \in Nat /\ (1 > Len(s) => Len(s) = 0) /\ Len(s) - 1 + 1 = Len(s)
    OBVIOUS
  <2> QED
    BY <2>1, FS_Interval
<1>2. s \in Injection(1 .. Len(s), Elems)
  BY DEF Injection, IsInjective
<1> QED
  BY <1>1, <1>2, ElemsAssumption, FS_Injection

(* Contents of a list that is linked as it should be.                      *)
LEMMA ContentsOfRow ==
  ASSUME NEW nx, NEW k \in Lists, NEW s \in Seq(Elems),
         \A i, j \in 1 .. Len(s) : s[i] = s[j] => i = j,
         \A i \in 0 .. Len(s) : nx[Node(k, s, i)] = Node(k, s, i + 1)
  PROVE  ContentsOf(nx, k) = s
<1> DEFINE n == Len(s)
           N == Cardinality(Elems)
<1>1. n \in Nat /\ N \in Nat /\ n <= N
  BY FewElems, ElemsAssumption, FS_CardinalityType
<1>2. PICK f : From(f, nx, k, N) /\ ContentsOf(nx, k) = f[N][nx[head(k)]]
  BY ContentsFrom
<1> HIDE DEF N
<1>3. ASSUME NEW m \in 0 .. N, NEW x \in Nodes
      PROVE  f[m][x] = IF m = 0 \/ x \in {tail(k), NULL} THEN <<>> ELSE <<x>> \o f[m - 1][nx[x]]
  <2>1. f[m] = [y \in Nodes \cup {NULL} |->
                  IF m = 0 \/ y \in {tail(k), NULL} THEN <<>> ELSE <<y>> \o f[m - 1][nx[y]]]
    BY <1>2 DEF From
  <2> QED
    BY <2>1
<1> DEFINE S == {m \in Nat : m <= N => \A i \in 1 .. n + 1 : n + 1 - i <= m => f[m][Node(k, s, i)] = SubSeq(s, i, n)}
<1>4. /\ \A i \in 1 .. n : /\ Node(k, s, i) \in Nodes /\ Node(k, s, i) = s[i] /\ s[i] # tail(k) /\ s[i] # NULL
                           /\ nx[s[i]] = Node(k, s, i + 1)
      /\ Node(k, s, n + 1) = tail(k) /\ tail(k) \in Nodes /\ Node(k, s, 0) = head(k)
  <2>1. \A i \in 1 .. n : i \in 0 .. n /\ i \in 0 .. n + 1
    BY <1>1
  <2>2. \A x \in Elems : x # tail(k) /\ x # NULL /\ x \in Nodes
    BY NodesDiffer
  <2> QED
    BY <2>1, <2>2, NodeIs, NodesDiffer
<1>5. SubSeq(s, n + 1, n) = <<>>
  BY <1>1, SubSeqEmpty
<1>6. 0 \in S
  <2> SUFFICES ASSUME NEW i \in 1 .. n + 1, n + 1 - i <= 0 PROVE f[0][Node(k, s, i)] = SubSeq(s, i, n)
    OBVIOUS
  <2>1. i = n + 1 /\ 0 \in 0 .. N
    BY <1>1
  <2> QED
    BY <1>3, <1>4, <1>5, <2>1
<1>7. ASSUME NEW m \in Nat, m \in S PROVE m + 1 \in S
  <2> SUFFICES ASSUME m + 1 <= N, NEW i \in 1 .. n + 1, n + 1 - i <= m + 1
               PROVE  f[m + 1][Node(k, s, i)] = SubSeq(s, i, n)
    <3>1. m + 1 \in Nat
      OBVIOUS
    <3> QED
      BY <3>1, Zenon
  <2>1. m + 1 \in 0 .. N /\ m + 1 # 0 /\ (m + 1) - 1 = m /\ m <= N
    BY <1>1
  <2>2. CASE i = n + 1
    <3>1. f[m + 1][tail(k)] = <<>>
      BY <1>3, <1>4, <2>1
    <3>2. Node(k, s, i) = tail(k) /\ SubSeq(s, i, n) = <<>>
      BY <1>4, <1>5, <2>2
    <3> QED
      BY <3>1, <3>2
  <2>3. CASE i # n + 1
    <3>1. i \in 1 .. n /\ i + 1 \in 1 .. n + 1 /\ n + 1 - (i + 1) <= m
      BY <1>1, <2>3
    <3>2. f[m][Node(k, s, i + 1)] = SubSeq(s, i + 1, n)
      BY <1>7, <2>1, <3>1
    <3>3. f[m + 1][s[i]] = <<s[i]>> \o f[m][Node(k, s, i + 1)]
      <4>1. f[m + 1][s[i]] = IF m + 1 = 0 \/ s[i] \in {tail(k), NULL} THEN <<>>
                             ELSE <<s[i]>> \o f[(m + 1) - 1][nx[s[i]]]
        BY <1>3, <1>4, <2>1, <3>1
      <4>2. s[i] \notin {tail(k), NULL} /\ nx[s[i]] = Node(k, s, i + 1)
        BY <1>4, <3>1
      <4> QED
        BY <2>1, <4>1, <4>2
    <3>4. SubSeq(s, i, n) = <<s[i]>> \o SubSeq(s, i + 1, n)
      <4>1. n \in i .. n /\ i \in 1 .. n
        BY <1>1, <3>1
      <4> QED
        BY <4>1, SubSeqRecursiveFirst, Zenon
    <3> QED
      BY <1>4, <3>1, <3>2, <3>3, <3>4
  <2> QED
    BY <2>2, <2>3
<1>8. N \in S
  <2> HIDE DEF S, N
  <2> QED
    BY <1>1, <1>6, <1>7, SetInduction
<1>9. f[N][Node(k, s, 1)] = SubSeq(s, 1, n)
  <2>1. 1 \in 1 .. n + 1 /\ n + 1 - 1 <= N
    BY <1>1
  <2> QED
    BY <1>8, <2>1
<1>10. nx[head(k)] = Node(k, s, 1)
  <2>1. 0 \in 0 .. n /\ 0 + 1 = 1
    BY <1>1
  <2> QED
    BY <1>4, <2>1
<1>11. SubSeq(s, 1, n) = s
  BY SubSeqFull
<1> QED
  BY <1>2, <1>9, <1>10, <1>11

LEMMA ContentsNow ==
  ASSUME NEW k \in Lists, NEW s \in Seq(Elems), Linked(k, s)
  PROVE  Contents(k) = s
<1>1. Contents(k) = ContentsOf(next, k)
  BY Zenon DEF Contents, ContentsOf, list_begin
<1> QED
  BY <1>1, ContentsOfRow DEF Linked, Tied

LEMMA ContentsThen ==
  ASSUME NEW k \in Lists, NEW s \in Seq(Elems), Linked(k, s)'
  PROVE  Contents(k)' = s
<1>1. Contents(k)' = ContentsOf(next', k)
  BY Zenon DEF Contents, ContentsOf, list_begin
<1> QED
  BY <1>1, ContentsOfRow DEF Linked, Tied
-----------------------------------------------------------------------------
(* The invariant of all operations.  c[k] is what is on list k; while      *)
(* list_reverse turns a list, what was on it.                              *)
Lay == [k \in Lists |-> IF pc = "reverse" THEN was[k] ELSE Contents(k)]

(* What list_reverse has made of the links when it looks at the i-th node. *)
HalfTurned(k, s, i) ==
  /\ i \in 1 .. Len(s) + 1 /\ Len(s) > 0
  /\ prev[head(k)] = NULL /\ next[head(k)] = s[1]
  /\ next[tail(k)] = NULL /\ prev[tail(k)] = s[Len(s)]
  /\ \A j \in 1 .. Len(s) :
       IF j < i THEN next[s[j]] = Node(k, s, j - 1) /\ prev[s[j]] = Node(k, s, j + 1)
                ELSE next[s[j]] = Node(k, s, j + 1) /\ prev[s[j]] = Node(k, s, j - 1)

(* No element is on two lists, nor twice on one.                           *)
Arranged(c) ==
  /\ c \in [Lists -> Seq(Elems)]
  /\ \A j, k \in Lists : \A m \in DOMAIN c[j], n \in DOMAIN c[k] :
       c[j][m] = c[k][n] => j = k /\ m = n

LaidOut(c) ==
  /\ Arranged(c)
  /\ \A k \in Lists : pc # "reverse" \/ k # l => Linked(k, c[k])

Called(c) ==
  /\ pc # "idle" => l \in Lists /\ was \in [Lists -> Seq(Elems)]
  /\ pc \in {"reverse", "search", "max", "min", "found_max", "found_min"} => c[l] = was[l]

(* s is in order from its i-th to its j-th element.                        *)
Rising(s, i, j) == \A h \in i + 1 .. j : ~less(s[h], s[h - 1])

(* What the pass has counted of the list as it was, up to the node r.      *)
Counted(n, r) ==
  /\ passed \in Seq(Elems) /\ Len(passed) = n /\ runs \in Nat
  /\ IF r > n THEN 2 * runs <= Cardinality(Drops(passed, n)) + 2
              ELSE 2 * runs <= Cardinality(Drops(passed, r))

InSort(c) ==
  pc \in {"pass", "locate", "merge", "end of pass", "sorted"} =>
    StableArrangement(was[l], c[l])

(* list_sort is about to look for the end of the run at p.                 *)
AtLocate(k, s, p) ==
  /\ a0 = Node(k, s, p)
  /\ Counted(Len(s), p) /\ 2 * runs <= p - 1
  /\ \A i \in p .. Len(s) : passed[i] = s[i]
  /\ p > 1 => Cardinality(Drops(s, p - 1)) < runs

InLocate(s) == pc = "locate" => \E p \in 1 .. Len(s) + 1 : AtLocate(l, s, p)

(* The runs p to q - 1 and q to r - 1 of s are still to be merged.  The    *)
(* merge began at st; from there to p - 1 its result is complete.          *)
Merging(s, st, p, q, r) ==
  /\ st > 1 => Cardinality(Drops(s, st - 1)) < runs - 1
  /\ Rising(s, st, p - 1) /\ Rising(s, p, q - 1) /\ Rising(s, q, r - 1)
  /\ st < p /\ p < q => ~less(s[p], s[p - 1])
  /\ st < p /\ q < r => ~less(s[q], s[p - 1])

AtMerge(k, s, st, p, q, r) ==
  /\ st <= p /\ p <= q /\ q <= r
  /\ a0 = Node(k, s, p) /\ a1b0 = Node(k, s, q) /\ b1 = Node(k, s, r)
  /\ Counted(Len(s), r) /\ 2 * runs <= r - 1 /\ runs > 0
  /\ \A i \in r .. Len(s) : passed[i] = s[i]
  /\ Merging(s, st, p, q, r)

InMerge(s) ==
  pc = "merge" => \E st, p, q, r \in 1 .. Len(s) + 1 : AtMerge(l, s, st, p, q, r)

InEndOfPass(s) ==
  pc = "end of pass" =>
    /\ Counted(Len(s), Len(s) + 1) /\ 2 * runs <= Len(s) + 1
    /\ Cardinality(Drops(s, Len(s))) < runs

InSearch(c) ==
  pc = "search" =>
    /\ best \in Elems /\ \A k \in Lists : \A i \in DOMAIN c[k] : c[k][i] # best
    /\ \E i \in 1 .. Len(c[l]) + 1 :
         /\ elem = Node(l, c[l], i)
         /\ \A j \in 1 .. i - 1 : ~less(best, c[l][j])

(* s is what list_unique has left of old when it looks at the i-th element *)
(* and has dealt with the first j of old; g tells where it took s from.    *)
Kept(s, old, i, j, g) ==
  /\ \A a \in DOMAIN old : (a > j \/ a \in Leaders(old)) <=> \E h \in DOMAIN s : g[h] = a
  /\ \A h, m \in DOMAIN s : h < m => g[h] < g[m]
  /\ \A h \in DOMAIN s : s[h] = old[g[h]]
  /\ \A h \in i + 1 .. Len(s) : g[h] = h + j - i
  /\ value[old[j]] = value[s[i]]

AtUnique(s, old, i, j) ==
  /\ Len(s) - i = Len(old) - j
  /\ \E g \in [DOMAIN s -> DOMAIN old] : Kept(s, old, i, j, g)

(* r is the list of duplicates, and first what it was.                     *)
SetAside(r, first, old, j) ==
  /\ Len(first) <= Len(r)
  /\ \A h \in DOMAIN first : r[h] = first[h]
  /\ Picks(r, Len(first), old, (1 .. j) \ Leaders(old))

InUnique(c) ==
  pc = "unique" =>
    \E i \in DOMAIN c[l], j \in DOMAIN was[l] :
      /\ elem = c[l][i] /\ AtUnique(c[l], was[l], i, j)
      /\ dups # NULL => dups \in Lists \ {l} /\ SetAside(c[dups], was[dups], was[l], j)

InExtreme(s) ==
  pc \in {"max", "min"} =>
    \E b \in DOMAIN s, i \in 1 .. Len(s) + 1 :
      /\ b < i /\ best = s[b] /\ elem = Node(l, s, i)
      /\ \A j \in 1 .. i - 1 :
           IF pc = "max" THEN ~less(s[b], s[j]) /\ (j < b => less(s[j], s[b]))
                         ELSE ~less(s[j], s[b]) /\ (j < b => less(s[b], s[j]))

InReverse(s) ==
  pc = "reverse" => \E i \in 1 .. Len(s) + 1 : elem = Node(l, s, i) /\ HalfTurned(l, s, i)

Facts(c) ==
  /\ Called(c) /\ InSort(c) /\ InReverse(c[l])
  /\ InLocate(c[l]) /\ InMerge(c[l]) /\ InEndOfPass(c[l])
  /\ InSearch(c) /\ InUnique(c) /\ InExtreme(c[l])
  /\ pc = "sorted" => Rising(c[l], 1, Len(c[l]))

IInv == TypeOK /\ LaidOut(Lay) /\ Facts(Lay) /\ ResultOK
-----------------------------------------------------------------------------
(* The lists before and after the pointer surgery.                         *)
Laid(c) == Arranged(c) /\ \A k \in Lists : Linked(k, c[k])

(* The sequences with x at i, and without i.                               *)
With(s, i, x) ==
  [j \in 1 .. Len(s) + 1 |-> IF j < i THEN s[j] ELSE IF j = i THEN x ELSE s[j - 1]]

Without(s, i) == [j \in 1 .. Len(s) - 1 |-> IF j < i THEN s[j] ELSE s[j + 1]]

LEMMA SeqIs ==
  ASSUME NEW S, NEW n \in Nat, NEW t \in [1 .. n -> S]
  PROVE  t \in Seq(S) /\ Len(t) = n /\ DOMAIN t = 1 .. n
OBVIOUS

LEMMA WithIs ==
  ASSUME NEW s \in Seq(Elems), NEW i \in 1 .. Len(s) + 1, NEW x \in Elems
  PROVE  /\ With(s, i, x) \in Seq(Elems) /\ Len(With(s, i, x)) = Len(s) + 1
         /\ DOMAIN With(s, i, x) = 1 .. Len(s) + 1
         /\ With(s, i, x)[i] = x
         /\ \A j \in 1 .. i - 1 : With(s, i, x)[j] = s[j]
         /\ \A j \in i + 1 .. Len(s) + 1 : With(s, i, x)[j] = s[j - 1]
<1> DEFINE t == With(s, i, x)
<1>1. Len(s) \in Nat /\ s \in [1 .. Len(s) -> Elems] /\ Len(s) + 1 \in Nat
  OBVIOUS
<1>2. t \in [1 .. Len(s) + 1 -> Elems]
  BY <1>1 DEF With
<1>3. t \in Seq(Elems) /\ Len(t) = Len(s) + 1
  BY <1>1, <1>2, SeqIs
<1>4. /\ t[i] = x
      /\ \A j \in 1 .. i - 1 : t[j] = s[j]
      /\ \A j \in i + 1 .. Len(s) + 1 : t[j] = s[j - 1]
  BY <1>1 DEF With
<1> QED
  BY <1>2, <1>3, <1>4

LEMMA WithoutIs ==
  ASSUME NEW s \in Seq(Elems), NEW i \in 1 .. Len(s)
  PROVE  /\ Without(s, i) \in Seq(Elems) /\ Len(Without(s, i)) = Len(s) - 1
         /\ DOMAIN Without(s, i) = 1 .. Len(s) - 1
         /\ \A j \in 1 .. i - 1 : Without(s, i)[j] = s[j]
         /\ \A j \in i .. Len(s) - 1 : Without(s, i)[j] = s[j + 1]
<1> DEFINE t == Without(s, i)
<1>1. Len(s) \in Nat /\ s \in [1 .. Len(s) -> Elems] /\ Len(s) - 1 \in Nat
  OBVIOUS
<1>2. t \in [1 .. Len(s) - 1 -> Elems]
  BY <1>1 DEF Without
<1>3. t \in Seq(Elems) /\ Len(t) = Len(s) - 1
  BY <1>1, <1>2, SeqIs, Zenon
<1>4. /\ \A j \in 1 .. i - 1 : t[j] = s[j]
      /\ \A j \in i .. Len(s) - 1 : t[j] = s[j + 1]
  BY <1>1 DEF Without
<1> QED
  BY <1>2, <1>3, <1>4

LEMMA WholeWith ==
  ASSUME NEW k \in Lists, NEW s \in Seq(Elems), NEW i \in 1 .. Len(s) + 1, NEW x \in Elems
  PROVE  Inserted(Len(s) + 1, Whole(k, s), i, x) = Whole(k, With(s, i, x))
<1> DEFINE n == Len(s)
           t == With(s, i, x)
<1>1. n \in Nat /\ i \in 1 .. n + 1
  OBVIOUS
<1>2. Len(t) = n + 1
  BY WithIs
<1>3. ASSUME NEW j \in 0 .. n + 2
      PROVE  (IF j < i THEN Whole(k, s)[j] ELSE IF j = i THEN x ELSE Whole(k, s)[j - 1]) = Node(k, t, j)
  <2>1. \A h \in 0 .. n + 1 : Whole(k, s)[h] = Node(k, s, h)
    BY DEF Whole
  <2>2. CASE j = 0
    BY <1>1, <2>1, <2>2 DEF Node
  <2>3. CASE j = n + 2
    <3>1. ~(j < i) /\ j # i /\ j - 1 \in 0 .. n + 1 /\ j - 1 # 0 /\ j - 1 > n /\ j # 0 /\ j > n + 1
      BY <1>1, <2>3
    <3> QED
      BY <1>2, <2>1, <3>1 DEF Node
  <2>4. CASE j \in 1 .. n + 1 /\ j < i
    <3>1. j \in 1 .. i - 1 /\ j \in 0 .. n + 1 /\ j # 0 /\ ~(j > n) /\ ~(j > n + 1)
      BY <1>1, <2>4
    <3>2. t[j] = s[j]
      BY <3>1, WithIs
    <3> QED
      BY <1>2, <2>1, <2>4, <3>1, <3>2 DEF Node
  <2>5. CASE j \in 1 .. n + 1 /\ j = i
    <3>1. t[i] = x
      BY WithIs
    <3> QED
      BY <1>1, <1>2, <2>5, <3>1 DEF Node
  <2>6. CASE j \in 1 .. n + 1 /\ j > i
    <3>1. /\ j \in i + 1 .. n + 1 /\ j - 1 \in 0 .. n + 1 /\ j - 1 # 0 /\ ~(j - 1 > n)
          /\ ~(j > n + 1) /\ j # 0 /\ ~(j < i) /\ j # i
      BY <1>1, <2>6
    <3>2. t[j] = s[j - 1]
      BY <3>1, WithIs
    <3> QED
      BY <1>2, <2>1, <3>1, <3>2 DEF Node
  <2> QED
    BY <1>1, <2>2, <2>3, <2>4, <2>5, <2>6
<1>4. (n + 1) + 1 = n + 2
  BY <1>1
<1> HIDE DEF n, t
<1>5. [j \in 0 .. n + 2 |-> IF j < i THEN Whole(k, s)[j] ELSE IF j = i THEN x ELSE Whole(k, s)[j - 1]]
        = [j \in 0 .. n + 2 |-> Node(k, t, j)]
  BY <1>3, Zenon
<1>6. Whole(k, t) = [j \in 0 .. n + 2 |-> Node(k, t, j)]
  BY <1>2, <1>4 DEF Whole
<1>7. Inserted(n + 1, Whole(k, s), i, x) =
        [j \in 0 .. n + 2 |-> IF j < i THEN Whole(k, s)[j] ELSE IF j = i THEN x ELSE Whole(k, s)[j - 1]]
  BY <1>4 DEF Inserted
<1>8. Inserted(n + 1, Whole(k, s), i, x) = Whole(k, t)
  BY <1>5, <1>6, <1>7, Zenon
<1> QED
  BY <1>8 DEF n, t

LEMMA WholeWithout ==
  ASSUME NEW k \in Lists, NEW s \in Seq(Elems), NEW i \in 1 .. Len(s)
  PROVE  Removed(Len(s) + 1, Whole(k, s), i) = Whole(k, Without(s, i))
<1> DEFINE n == Len(s)
           t == Without(s, i)
<1>1. n \in Nat /\ i \in 1 .. n
  OBVIOUS
<1>2. Len(t) = n - 1
  BY WithoutIs
<1>3. ASSUME NEW j \in 0 .. n
      PROVE  (IF j < i THEN Whole(k, s)[j] ELSE Whole(k, s)[j + 1]) = Node(k, t, j)
  <2>1. \A h \in 0 .. n + 1 : Whole(k, s)[h] = Node(k, s, h)
    BY DEF Whole
  <2>2. CASE j = 0
    BY <1>1, <2>1, <2>2 DEF Node
  <2>3. CASE j = n
    <3>1. ~(j < i) /\ j + 1 \in 0 .. n + 1 /\ j + 1 # 0 /\ j + 1 > n /\ j # 0 /\ j > n - 1
      BY <1>1, <2>3
    <3> QED
      BY <1>2, <2>1, <3>1 DEF Node
  <2>4. CASE j \in 1 .. n - 1 /\ j < i
    <3>1. j \in 1 .. i - 1 /\ j \in 0 .. n + 1 /\ j # 0 /\ ~(j > n) /\ ~(j > n - 1)
      BY <1>1, <2>4
    <3>2. t[j] = s[j]
      BY <3>1, WithoutIs
    <3> QED
      BY <1>2, <2>1, <2>4, <3>1, <3>2 DEF Node
  <2>5. CASE j \in 1 .. n - 1 /\ j >= i
    <3>1. /\ j \in i .. n - 1 /\ j + 1 \in 0 .. n + 1 /\ j + 1 # 0 /\ ~(j + 1 > n)
          /\ ~(j > n - 1) /\ j # 0 /\ ~(j < i)
      BY <1>1, <2>5
    <3>2. t[j] = s[j + 1]
      BY <3>1, WithoutIs
    <3> QED
      BY <1>2, <2>1, <3>1, <3>2 DEF Node
  <2> QED
    BY <1>1, <2>2, <2>3, <2>4, <2>5
<1>4. (n + 1) - 1 = n /\ (n - 1) + 1 = n
  BY <1>1
<1> HIDE DEF n, t
<1>5. [j \in 0 .. n |-> IF j < i THEN Whole(k, s)[j] ELSE Whole(k, s)[j + 1]]
        = [j \in 0 .. n |-> Node(k, t, j)]
  BY <1>3, Zenon
<1>6. Whole(k, t) = [j \in 0 .. n |-> Node(k, t, j)]
  BY <1>2, <1>4 DEF Whole
<1>7. Removed(n + 1, Whole(k, s), i) =
        [j \in 0 .. n |-> IF j < i THEN Whole(k, s)[j] ELSE Whole(k, s)[j + 1]]
  BY <1>4 DEF Removed
<1>8. Removed(n + 1, Whole(k, s), i) = Whole(k, t)
  BY <1>5, <1>6, <1>7, Zenon
<1> QED
  BY <1>8 DEF n, t

(* The nodes of different lists are different.                             *)
LEMMA Apart ==
  ASSUME NEW c, Arranged(c), NEW j \in Lists, NEW k \in Lists, j # k
  PROVE  \A m \in 0 .. Len(c[j]) + 1, n \in 0 .. Len(c[k]) + 1 : Node(j, c[j], m) # Node(k, c[k], n)
<1>1. c[j] \in Seq(Elems) /\ c[k] \in Seq(Elems)
  BY DEF Arranged
<1> DEFINE s == c[j]
           t == c[k]
<1>2. /\ Len(s) \in Nat /\ Len(t) \in Nat /\ DOMAIN s = 1 .. Len(s) /\ DOMAIN t = 1 .. Len(t)
      /\ Node(j, s, 0) = head(j) /\ Node(j, s, Len(s) + 1) = tail(j)
      /\ Node(k, t, 0) = head(k) /\ Node(k, t, Len(t) + 1) = tail(k)
      /\ \A i \in 1 .. Len(s) : Node(j, s, i) = s[i] /\ s[i] \in Elems
      /\ \A i \in 1 .. Len(t) : Node(k, t, i) = t[i] /\ t[i] \in Elems
  BY <1>1, NodeIs
<1>3. \A m \in DOMAIN s, n \in DOMAIN t : s[m] # t[n]
  BY DEF Arranged
<1>4. /\ head(j) # head(k) /\ tail(j) # tail(k) /\ head(j) # tail(k) /\ head(k) # tail(j)
      /\ \A x \in Elems : x \notin {head(j), head(k), tail(j), tail(k)}
  BY NodesDiffer
<1> HIDE DEF s, t
<1>5. ASSUME NEW m \in 0 .. Len(s) + 1, NEW n \in 0 .. Len(t) + 1
      PROVE  Node(j, s, m) # Node(k, t, n)
  <2>1. m = 0 \/ m = Len(s) + 1 \/ m \in 1 .. Len(s)
    BY <1>2
  <2>2. n = 0 \/ n = Len(t) + 1 \/ n \in 1 .. Len(t)
    BY <1>2
  <2> QED
    BY <1>2, <1>3, <1>4, <2>1, <2>2
<1> QED
  BY <1>5 DEF s, t

(* A list none of whose links is set keeps them.                           *)
LEMMA Untouched ==
  ASSUME NEW k \in Lists, NEW s \in Seq(Elems), Linked(k, s),
         \A i \in 0 .. Len(s) + 1 : /\ next'[Node(k, s, i)] = next[Node(k, s, i)]
                                    /\ prev'[Node(k, s, i)] = prev[Node(k, s, i)]
  PROVE  Linked(k, s)'
<1>1. /\ Len(s) \in Nat /\ Node(k, s, 0) = head(k) /\ Node(k, s, Len(s) + 1) = tail(k)
      /\ \A i \in 1 .. Len(s) : Node(k, s, i) = s[i]
  BY NodeIs
<1>2. /\ 0 \in 0 .. Len(s) + 1 /\ Len(s) + 1 \in 0 .. Len(s) + 1
      /\ \A i \in 0 .. Len(s) : i \in 0 .. Len(s) + 1 /\ i + 1 \in 0 .. Len(s) + 1
  BY <1>1
<1> QED
  BY <1>1, <1>2 DEF Linked, Tied

(* Once every list is linked, what is left is that they share nothing.     *)
LEMMA LaidNext ==
  ASSUME NEW d \in [Lists -> Seq(Elems)], \A k \in Lists : Linked(k, d[k])',
         \A j, k \in Lists : j # k => \A m \in DOMAIN d[j], n \in DOMAIN d[k] : d[j][m] # d[k][n]
  PROVE  Laid(d)'
<1>1. ASSUME NEW j \in Lists, NEW k \in Lists, NEW m \in DOMAIN d[j], NEW n \in DOMAIN d[k], d[j][m] = d[k][n]
      PROVE  j = k /\ m = n
  <2>1. j = k
    BY <1>1
  <2>2. \A i, h \in 1 .. Len(d[k]) : d[k][i] = d[k][h] => i = h
    BY Zenon DEF Linked, Tied
  <2>3. DOMAIN d[k] = 1 .. Len(d[k])
    OBVIOUS
  <2> QED
    BY <1>1, <2>1, <2>2, <2>3
<1>2. Arranged(d)
  BY <1>1 DEF Arranged
<1> QED
  BY <1>2 DEF Laid, Arranged

LEMMA LaidIs ==
  ASSUME NEW c, Laid(c), NEW k \in Lists
  PROVE  /\ c[k] \in Seq(Elems) /\ Len(c[k]) \in Nat /\ DOMAIN c[k] = 1 .. Len(c[k])
         /\ Linked(k, c[k]) /\ Chain(Len(c[k]) + 1, Whole(k, c[k]))
         /\ \A i \in 0 .. Len(c[k]) + 1 : Whole(k, c[k])[i] = Node(k, c[k], i)
<1>1. c[k] \in Seq(Elems) /\ Linked(k, c[k])
  BY DEF Laid, Arranged
<1>2. Chain(Len(c[k]) + 1, Whole(k, c[k]))
  BY <1>1, LinkedNow
<1>3. \A i \in 0 .. Len(c[k]) + 1 : Whole(k, c[k])[i] = Node(k, c[k], i)
  BY DEF Whole
<1>4. Len(c[k]) \in Nat /\ DOMAIN c[k] = 1 .. Len(c[k])
  BY <1>1
<1> QED
  BY <1>1, <1>2, <1>3, <1>4

(* list_insert, on the lists.                                              *)
LEMMA InsertLaid ==
  ASSUME NEW c, Laid(c), IsLinked, NEW k \in Lists, NEW i \in 1 .. Len(c[k]) + 1, NEW x \in Elems,
         \A j \in Lists : \A m \in DOMAIN c[j] : c[j][m] # x, insert(Node(k, c[k], i), x)
  PROVE  Laid([c EXCEPT ![k] = With(c[k], i, x)])'
<1> DEFINE t == With(c[k], i, x)
           d == [c EXCEPT ![k] = t]
<1>1. c \in [Lists -> Seq(Elems)] /\ Arranged(c)
  BY DEF Laid, Arranged
<1>2. t \in Seq(Elems) /\ Len(t) = Len(c[k]) + 1 /\ DOMAIN t = 1 .. Len(c[k]) + 1
  BY <1>1, WithIs
<1>3. d \in [Lists -> Seq(Elems)] /\ d[k] = t /\ \A j \in Lists \ {k} : d[j] = c[j]
  BY <1>1, <1>2
<1>4. x \in Nodes
  BY NodesDiffer
<1>5. ASSUME NEW j \in Lists, NEW m \in 0 .. Len(c[j]) + 1 PROVE Whole(j, c[j])[m] # x
  <2>1. c[j] \in Seq(Elems) /\ Whole(j, c[j])[m] = Node(j, c[j], m)
    BY LaidIs
  <2>2. m = 0 \/ m = Len(c[j]) + 1 \/ m \in 1 .. Len(c[j])
    BY <2>1
  <2>3. x # head(j) /\ x # tail(j)
    BY NodesDiffer
  <2> QED
    BY <2>1, <2>2, <2>3, NodeIs
<1>6. Whole(k, c[k])[i] = Node(k, c[k], i) /\ Chain(Len(c[k]) + 1, Whole(k, c[k]))
  BY LaidIs
<1>7. insert(Whole(k, c[k])[i], x)
  BY <1>6
<1>8. Linked(k, t)'
  <2>1. Chain((Len(c[k]) + 1) + 1, Inserted(Len(c[k]) + 1, Whole(k, c[k]), i, x))'
    BY <1>4, <1>5, <1>6, <1>7, InsertChain
  <2>2. Inserted(Len(c[k]) + 1, Whole(k, c[k]), i, x) = Whole(k, t)
    BY <1>1, WholeWith
  <2>3. Chain(Len(t) + 1, Whole(k, t))'
    BY <1>2, <2>1, <2>2
  <2> QED
    BY <1>2, <2>3, LinkedThen
<1>9. ASSUME NEW j \in Lists \ {k} PROVE Linked(j, d[j])'
  <2>1. Chain(Len(c[j]) + 1, Whole(j, c[j])) /\ c[j] \in Seq(Elems)
    BY LaidIs
  <2>2. \A m \in 0 .. Len(c[j]) + 1, n \in 0 .. Len(c[k]) + 1 : Node(j, c[j], m) # Node(k, c[k], n)
    BY <1>1, Apart
  <2>3. \A m \in 0 .. Len(c[j]) + 1, n \in 0 .. Len(c[k]) + 1 : Whole(j, c[j])[m] # Whole(k, c[k])[n]
    BY <2>2, LaidIs
  <2>4. Chain(Len(c[j]) + 1, Whole(j, c[j]))'
    BY <1>4, <1>5, <1>6, <1>7, <2>1, <2>3, InsertElsewhere
  <2> QED
    BY <1>3, <2>1, <2>4, LinkedThen
<1>10. \A n \in DOMAIN t : t[n] = x \/ \E h \in DOMAIN c[k] : t[n] = c[k][h]
  <2>1. c[k] \in Seq(Elems)
    BY <1>1
  <2> QED
    BY <2>1 DEF With
<1> HIDE DEF t, d
<1>11. ASSUME NEW m \in Lists, NEW j \in Lists, m # j, NEW h \in DOMAIN d[m], NEW n \in DOMAIN d[j]
       PROVE  d[m][h] # d[j][n]
  <2>1. CASE m = k
    BY <1>1, <1>3, <1>10, <1>11, <2>1 DEF Arranged
  <2>2. CASE j = k
    BY <1>1, <1>3, <1>10, <1>11, <2>2 DEF Arranged
  <2>3. CASE m # k /\ j # k
    BY <1>1, <1>3, <1>11, <2>3 DEF Arranged
  <2> QED
    BY <2>1, <2>2, <2>3
<1>12. Laid(d)'
  BY <1>3, <1>8, <1>9, <1>11, LaidNext
<1> QED
  BY <1>12 DEF d, t

(* list_remove, on the lists.                                              *)
LEMMA RemoveLaid ==
  ASSUME NEW c, Laid(c), IsLinked, NEW k \in Lists, NEW i \in 1 .. Len(c[k]), remove(c[k][i])
  PROVE  Laid([c EXCEPT ![k] = Without(c[k], i)])'
<1> DEFINE t == Without(c[k], i)
           d == [c EXCEPT ![k] = t]
<1>1. c \in [Lists -> Seq(Elems)] /\ Arranged(c)
  BY DEF Laid, Arranged
<1>2. t \in Seq(Elems) /\ Len(t) = Len(c[k]) - 1 /\ DOMAIN t = 1 .. Len(c[k]) - 1
  BY <1>1, WithoutIs
<1>3. d \in [Lists -> Seq(Elems)] /\ d[k] = t /\ \A j \in Lists \ {k} : d[j] = c[j]
  BY <1>1, <1>2
<1>4. Len(c[k]) \in Nat /\ i \in 1 .. (Len(c[k]) + 1) - 1 /\ i \in 0 .. Len(c[k]) + 1
      /\ (Len(c[k]) + 1) - 1 = (Len(c[k]) - 1) + 1
  BY <1>1
<1>6. Whole(k, c[k])[i] = Node(k, c[k], i) /\ Chain(Len(c[k]) + 1, Whole(k, c[k])) /\ Node(k, c[k], i) = c[k][i]
  BY <1>1, <1>4, LaidIs, NodeIs
<1>7. remove(Whole(k, c[k])[i])
  BY <1>6
<1>8. Linked(k, t)'
  <2>1. Chain((Len(c[k]) + 1) - 1, Removed(Len(c[k]) + 1, Whole(k, c[k]), i))'
    BY <1>4, <1>6, <1>7, RemoveChain
  <2>2. Removed(Len(c[k]) + 1, Whole(k, c[k]), i) = Whole(k, t)
    BY <1>1, WholeWithout
  <2>3. Chain(Len(t) + 1, Whole(k, t))'
    BY <1>2, <1>4, <2>1, <2>2
  <2> QED
    BY <1>2, <2>3, LinkedThen
<1>9. ASSUME NEW j \in Lists \ {k} PROVE Linked(j, d[j])'
  <2>1. Chain(Len(c[j]) + 1, Whole(j, c[j])) /\ c[j] \in Seq(Elems)
    BY LaidIs
  <2>2. \A m \in 0 .. Len(c[j]) + 1, n \in 0 .. Len(c[k]) + 1 : Node(j, c[j], m) # Node(k, c[k], n)
    BY <1>1, Apart
  <2>3. \A m \in 0 .. Len(c[j]) + 1, n \in 0 .. Len(c[k]) + 1 : Whole(j, c[j])[m] # Whole(k, c[k])[n]
    BY <2>2, LaidIs
  <2> DEFINE n == Len(c[k]) + 1
             m == Len(c[j]) + 1
             s == Whole(k, c[k])
             u == Whole(j, c[j])
  <2>4. Chain(n, s) /\ Chain(m, u) /\ i \in 1 .. n - 1 /\ remove(s[i])
        /\ \A h \in 0 .. m, q \in 0 .. n : u[h] # s[q]
    BY <1>4, <1>6, <1>7, <2>1, <2>3
  <2> HIDE DEF n, m, s, u
  <2>5. Chain(m, u)'
    BY <2>4, RemoveElsewhere
  <2> QED
    BY <1>3, <2>1, <2>5, LinkedThen DEF m, u
<1>10. \A n \in DOMAIN t : \E h \in DOMAIN c[k] : t[n] = c[k][h]
  <2>1. \A n \in DOMAIN t : (n < i => n \in DOMAIN c[k]) /\ (~(n < i) => n + 1 \in DOMAIN c[k])
    BY <1>1, <1>2
  <2>2. \A n \in DOMAIN t : t[n] = IF n < i THEN c[k][n] ELSE c[k][n + 1]
    BY DEF Without
  <2> HIDE DEF t
  <2> QED
    BY <2>1, <2>2
<1> HIDE DEF t, d
<1>11. ASSUME NEW m \in Lists, NEW j \in Lists, m # j, NEW h \in DOMAIN d[m], NEW n \in DOMAIN d[j]
       PROVE  d[m][h] # d[j][n]
  <2>1. CASE m = k
    BY <1>1, <1>3, <1>10, <1>11, <2>1 DEF Arranged
  <2>2. CASE j = k
    BY <1>1, <1>3, <1>10, <1>11, <2>2 DEF Arranged
  <2>3. CASE m # k /\ j # k
    BY <1>1, <1>3, <1>11, <2>3 DEF Arranged
  <2> QED
    BY <2>1, <2>2, <2>3
<1>12. Laid(d)'
  BY <1>3, <1>8, <1>9, <1>11, LaidNext
<1> QED
  BY <1>12 DEF d, t

(* The elements of a chain that is a whole list.                           *)
Inner(n, w) == [h \in 1 .. n |-> w[h]]

LEMMA InnerIs ==
  ASSUME NEW k \in Lists, NEW n \in Nat, NEW w \in [0 .. n + 1 -> Nodes],
         w[0] = head(k), w[n + 1] = tail(k), \A h \in 1 .. n : w[h] \in Elems
  PROVE  /\ Inner(n, w) \in Seq(Elems) /\ Len(Inner(n, w)) = n /\ DOMAIN Inner(n, w) = 1 .. n
         /\ \A h \in 1 .. n : Inner(n, w)[h] = w[h]
         /\ Whole(k, Inner(n, w)) = w
<1> DEFINE t == Inner(n, w)
<1>1. t \in [1 .. n -> Elems] /\ \A h \in 1 .. n : t[h] = w[h]
  BY DEF Inner
<1> HIDE DEF t
<1>2. t \in Seq(Elems) /\ Len(t) = n /\ DOMAIN t = 1 .. n
  BY <1>1, SeqIs
<1>3. ASSUME NEW h \in 0 .. n + 1 PROVE Node(k, t, h) = w[h]
  <2>1. h = 0 \/ h = n + 1 \/ h \in 1 .. n
    OBVIOUS
  <2> QED
    BY <1>1, <1>2, <2>1, NodeIs
<1>4. Whole(k, t) = [h \in 0 .. n + 1 |-> Node(k, t, h)]
  BY <1>2 DEF Whole
<1>5. [h \in 0 .. n + 1 |-> Node(k, t, h)] = [h \in 0 .. n + 1 |-> w[h]]
  BY <1>3, Zenon
<1>6. Whole(k, t) = w
  <2>1. w = [h \in 0 .. n + 1 |-> w[h]]
    BY Zenon
  <2> QED
    BY <1>4, <1>5, <2>1
<1> QED
  BY <1>1, <1>2, <1>6 DEF t

(* w is a whole list k with elements of s.                                 *)
Drawn(k, s, w) ==
  /\ w \in [0 .. Len(s) + 1 -> Nodes] /\ w[0] = head(k) /\ w[Len(s) + 1] = tail(k)
  /\ \A h \in 1 .. Len(s) : \E m \in 1 .. Len(s) : w[h] = s[m]

LEMMA InnerDrawn ==
  ASSUME NEW k \in Lists, NEW s \in Seq(Elems), NEW w, Drawn(k, s, w)
  PROVE  /\ Inner(Len(s), w) \in Seq(Elems) /\ Len(Inner(Len(s), w)) = Len(s)
         /\ DOMAIN Inner(Len(s), w) = 1 .. Len(s)
         /\ \A h \in 1 .. Len(s) : Inner(Len(s), w)[h] = w[h]
         /\ \A h \in 1 .. Len(s) : \E m \in 1 .. Len(s) : Inner(Len(s), w)[h] = s[m]
         /\ Whole(k, Inner(Len(s), w)) = w
<1>1. /\ Len(s) \in Nat /\ w \in [0 .. Len(s) + 1 -> Nodes] /\ w[0] = head(k) /\ w[Len(s) + 1] = tail(k)
      /\ \A h \in 1 .. Len(s) : w[h] \in Elems /\ \E m \in 1 .. Len(s) : w[h] = s[m]
  <2>1. Len(s) \in Nat /\ \A m \in 1 .. Len(s) : s[m] \in Elems
    OBVIOUS
  <2> QED
    BY <2>1 DEF Drawn
<1> DEFINE N == Len(s)
<1> HIDE DEF N
<1>2. N \in Nat /\ w \in [0 .. N + 1 -> Nodes] /\ w[0] = head(k) /\ w[N + 1] = tail(k)
      /\ \A h \in 1 .. N : w[h] \in Elems
  BY <1>1 DEF N
<1>3. /\ Inner(N, w) \in Seq(Elems) /\ Len(Inner(N, w)) = N /\ DOMAIN Inner(N, w) = 1 .. N
      /\ \A h \in 1 .. N : Inner(N, w)[h] = w[h]
      /\ Whole(k, Inner(N, w)) = w
  BY <1>2, InnerIs
<1> QED
  BY <1>1, <1>3 DEF N

LEMMA ExchangedIs ==
  ASSUME NEW k \in Lists, NEW s \in Seq(Elems), NEW p \in 1 .. Len(s) + 1, NEW q \in 1 .. Len(s) + 1,
         NEW r \in 1 .. Len(s) + 1, p < q, q < r
  PROVE  Drawn(k, s, Exchanged(Len(s) + 1, Whole(k, s), p, q, r))
<1> DEFINE n == Len(s)
           u == Whole(k, s)
           w == Exchanged(n + 1, u, p, q, r)
<1>1. n \in Nat /\ u[0] = head(k) /\ u[n + 1] = tail(k) /\ \A h \in 1 .. n : u[h] = s[h]
  BY NodeIs DEF Whole
<1>2. p \in Int /\ q \in Int /\ r \in Int /\ 1 <= p /\ r <= n + 1
  BY <1>1
<1> HIDE DEF n, u
<1>3. w = [h \in 0 .. n + 1 |-> w[h]]
  BY Zenon DEF Exchanged
<1>4. /\ \A h \in 0 .. n + 1 : h < p \/ h >= r => w[h] = u[h]
      /\ \A h \in 0 .. n + 1 : ~(h < p \/ h >= r) /\ h < p + (r - q) => w[h] = u[h + (q - p)]
      /\ \A h \in 0 .. n + 1 : ~(h < p \/ h >= r) /\ ~(h < p + (r - q)) => w[h] = u[h - (r - q)]
  BY DEF Exchanged
<1>5. w[0] = head(k) /\ w[n + 1] = tail(k)
  <2>1. 0 \in 0 .. n + 1 /\ n + 1 \in 0 .. n + 1 /\ 0 < p /\ n + 1 >= r
    BY <1>1, <1>2
  <2> QED
    BY <1>1, <1>4, <2>1
<1>6. ASSUME NEW h \in 1 .. n PROVE \E m \in 1 .. n : w[h] = s[m]
  <2>1. /\ h \in 0 .. n + 1
        /\ ~(h < p \/ h >= r) /\ h < p + (r - q) => h + (q - p) \in 1 .. n
        /\ ~(h < p \/ h >= r) /\ ~(h < p + (r - q)) => h - (r - q) \in 1 .. n
    BY <1>1, <1>2
  <2> HIDE DEF w
  <2>2. CASE h < p \/ h >= r
    BY <1>1, <1>4, <2>1, <2>2
  <2>3. CASE ~(h < p \/ h >= r) /\ h < p + (r - q)
    BY <1>1, <1>4, <2>1, <2>3
  <2>4. CASE ~(h < p \/ h >= r) /\ ~(h < p + (r - q))
    BY <1>1, <1>4, <2>1, <2>4
  <2> QED
    BY <2>2, <2>3, <2>4
<1>7. \A h \in 0 .. n + 1 : w[h] \in Nodes
  <2>1. \A h \in 0 .. n + 1 : h = 0 \/ h = n + 1 \/ h \in 1 .. n
    BY <1>1
  <2>2. \A m \in 1 .. n : s[m] \in Nodes
    BY NodesDiffer DEF n
  <2> HIDE DEF w
  <2> QED
    BY <1>5, <1>6, <2>1, <2>2, NodesDiffer
<1>8. w \in [0 .. n + 1 -> Nodes]
  <2> HIDE DEF w
  <2> QED
    BY <1>3, <1>7
<1> QED
  BY <1>5, <1>6, <1>8 DEF n, u, Drawn

LEMMA MovedIs ==
  ASSUME NEW k \in Lists, NEW s \in Seq(Elems), NEW b \in 1 .. Len(s) + 1, NEW i \in 1 .. Len(s) + 1,
         NEW j \in i .. Len(s) + 1, b \notin i .. j - 1
  PROVE  Drawn(k, s, Moved(Len(s) + 1, Whole(k, s), b, i, j))
<1>1. CASE i = j \/ b = j
  <2>1. Moved(Len(s) + 1, Whole(k, s), b, i, j) = Whole(k, s)
    BY <1>1 DEF Moved
  <2>2. Drawn(k, s, Whole(k, s))
    <3>1. /\ Len(s) \in Nat /\ 0 \in 0 .. Len(s) + 1 /\ Len(s) + 1 \in 0 .. Len(s) + 1
          /\ \A h \in 1 .. Len(s) : h \in 0 .. Len(s) + 1
      OBVIOUS
    <3>2. \A h \in 0 .. Len(s) + 1 : Whole(k, s)[h] = Node(k, s, h)
      BY DEF Whole
    <3>3. Whole(k, s) \in [0 .. Len(s) + 1 -> Nodes]
      BY NodeIs DEF Whole
    <3>4. \A h \in 1 .. Len(s) : Whole(k, s)[h] = s[h]
      BY <3>1, <3>2, NodeIs
    <3> QED
      BY <3>1, <3>2, <3>3, <3>4, NodeIs DEF Drawn
  <2> QED
    BY <2>1, <2>2
<1>2. CASE ~(i = j \/ b = j) /\ b < i
  <2>1. j \in 1 .. Len(s) + 1 /\ i < j
    BY <1>2
  <2>2. Moved(Len(s) + 1, Whole(k, s), b, i, j) = Exchanged(Len(s) + 1, Whole(k, s), b, i, j)
    BY <1>2 DEF Moved
  <2> QED
    BY <1>2, <2>1, <2>2, ExchangedIs
<1>3. CASE ~(i = j \/ b = j) /\ ~(b < i)
  <2>1. j \in 1 .. Len(s) + 1 /\ i < j /\ j < b
    BY <1>3
  <2>2. Moved(Len(s) + 1, Whole(k, s), b, i, j) = Exchanged(Len(s) + 1, Whole(k, s), i, j, b)
    BY <1>3 DEF Moved
  <2> QED
    BY <2>1, <2>2, ExchangedIs
<1> QED
  BY <1>1, <1>2, <1>3

(* list_splice within a list.                                              *)
Shifted(k, s, b, i, j) == Inner(Len(s), Moved(Len(s) + 1, Whole(k, s), b, i, j))

LEMMA SpliceLaid ==
  ASSUME NEW c, Laid(c), IsLinked, NEW k \in Lists, NEW b \in 1 .. Len(c[k]) + 1,
         NEW i \in 1 .. Len(c[k]) + 1, NEW j \in i .. Len(c[k]) + 1, b \notin i .. j - 1,
         splice(Node(k, c[k], b), Node(k, c[k], i), Node(k, c[k], j))
  PROVE  Laid([c EXCEPT ![k] = Shifted(k, c[k], b, i, j)])'
<1> DEFINE s == c[k]
           n == Len(s) + 1
           u == Whole(k, s)
           w == Moved(n, u, b, i, j)
           t == Shifted(k, s, b, i, j)
           d == [c EXCEPT ![k] = t]
<1>1. c \in [Lists -> Seq(Elems)] /\ Arranged(c) /\ s \in Seq(Elems) /\ Len(s) \in Nat
  BY DEF Laid, Arranged
<1>2. Drawn(k, s, w)
  BY <1>1, MovedIs
<1>3. t = Inner(Len(s), w)
  BY DEF Shifted
<1>4. /\ t \in Seq(Elems) /\ Len(t) = Len(s) /\ DOMAIN t = 1 .. Len(s)
      /\ \A h \in 1 .. Len(s) : \E m \in 1 .. Len(s) : t[h] = s[m]
      /\ Whole(k, t) = w
  <2> HIDE DEF t, w, s
  <2>1. /\ Inner(Len(s), w) \in Seq(Elems) /\ Len(Inner(Len(s), w)) = Len(s)
        /\ DOMAIN Inner(Len(s), w) = 1 .. Len(s)
        /\ \A h \in 1 .. Len(s) : \E m \in 1 .. Len(s) : Inner(Len(s), w)[h] = s[m]
        /\ Whole(k, Inner(Len(s), w)) = w
    BY <1>1, <1>2, InnerDrawn
  <2> QED
    BY <1>3, <2>1
<1>5. d \in [Lists -> Seq(Elems)] /\ d[k] = t /\ \A h \in Lists \ {k} : d[h] = c[h]
  BY <1>1, <1>4
<1>6. n \in Nat /\ b \in 1 .. n /\ i \in 1 .. n /\ j \in i .. n /\ i \in 0 .. n /\ b \in 0 .. n /\ j \in 0 .. n
      /\ i - 1 \in 0 .. n - 1 /\ b - 1 \in 0 .. n - 1 /\ j - 1 \in 0 .. n - 1
      /\ i - 1 \in 0 .. n /\ b - 1 \in 0 .. n /\ j - 1 \in 0 .. n
      /\ (i - 1) + 1 = i /\ (j - 1) + 1 = j /\ (b - 1) + 1 = b
  BY <1>1
<1>7. /\ Chain(n, u) /\ splice(u[b], u[i], u[j])
      /\ u[b] = Node(k, s, b) /\ u[i] = Node(k, s, i) /\ u[j] = Node(k, s, j)
  BY <1>6, LaidIs
<1>8. Linked(k, t)'
  <2>1. Chain(n, w)'
    <3> HIDE DEF n, u
    <3> QED
      BY <1>6, <1>7, SpliceChain
  <2>2. Chain(Len(t) + 1, Whole(k, t))'
    BY <1>4, <2>1
  <2> QED
    BY <1>4, <2>2, LinkedThen
<1>9. ASSUME NEW m \in Lists \ {k} PROVE Linked(m, d[m])'
  <2> DEFINE v == Whole(m, c[m])
  <2>1. Chain(Len(c[m]) + 1, v) /\ c[m] \in Seq(Elems)
    BY LaidIs
  <2>2. \A q \in 0 .. Len(c[m]) + 1, h \in 0 .. n : Node(m, c[m], q) # Node(k, s, h)
    BY <1>1, Apart
  <2>3. \A q \in 0 .. Len(c[m]) + 1, h \in 0 .. n : v[q] # u[h]
    BY <2>2, LaidIs
  <2> HIDE DEF n, u
  <2>4. prev[u[i]] = u[i - 1] /\ prev[u[b]] = u[b - 1] /\ prev[u[j]] = u[j - 1] /\ next[u[j - 1]] = u[j]
    BY <1>6, <1>7 DEF Chain
  <2>5. \A q \in 0 .. Len(c[m]) + 1 : v[q] \notin {u[i], u[b], u[j], prev[u[i]], prev[u[b]], prev[u[j]]}
    BY <1>6, <2>3, <2>4
  <2>6. next[prev[u[j]]] = u[j]
    BY <2>4
  <2> HIDE DEF v
  <2>7. Chain(Len(c[m]) + 1, v)'
    BY <1>7, <2>1, <2>5, <2>6, SpliceElsewhere
  <2> QED
    BY <1>5, <2>1, <2>7, LinkedThen DEF v
<1>10. \A h \in DOMAIN t : \E m \in DOMAIN s : t[h] = s[m]
  <2>1. DOMAIN s = 1 .. Len(s)
    BY <1>1
  <2> QED
    BY <1>4, <2>1, Zenon
<1> HIDE DEF t, d
<1>11. ASSUME NEW m \in Lists, NEW h \in Lists, m # h, NEW q \in DOMAIN d[m], NEW p \in DOMAIN d[h]
       PROVE  d[m][q] # d[h][p]
  <2>1. CASE m = k
    BY <1>1, <1>5, <1>10, <1>11, <2>1 DEF Arranged
  <2>2. CASE h = k
    BY <1>1, <1>5, <1>10, <1>11, <2>2 DEF Arranged
  <2>3. CASE m # k /\ h # k
    BY <1>1, <1>5, <1>11, <2>3 DEF Arranged
  <2> QED
    BY <2>1, <2>2, <2>3
<1>12. Laid(d)'
  BY <1>5, <1>8, <1>9, <1>11, LaidNext
<1> QED
  BY <1>12 DEF d, t

(* list_splice from one list to another.                                   *)
CutOut(k, s, i, j) == Inner(Len(s) - (j - i), Cut(Len(s) + 1, Whole(k, s), i, j))

PastedIn(m, t, b, k, s, i, j) ==
  Inner(Len(t) + (j - i), Pasted(Len(t) + 1, Whole(m, t), b, Whole(k, s), i, j))

IsCutOut(k, s, i, j, t) ==
  /\ t \in Seq(Elems) /\ Len(t) = Len(s) - (j - i)
  /\ DOMAIN t = 1 .. Len(s) - (j - i)
  /\ \A h \in 1 .. Len(s) - (j - i) : t[h] = IF h < i THEN s[h] ELSE s[h + (j - i)]
  /\ Whole(k, t) = Cut(Len(s) + 1, Whole(k, s), i, j)

IsPastedIn(m, r, b, k, s, i, j, t) ==
  /\ t \in Seq(Elems) /\ Len(t) = Len(r) + (j - i)
  /\ DOMAIN t = 1 .. Len(r) + (j - i)
  /\ \A h \in 1 .. Len(r) + (j - i) : t[h] = IF h < b THEN r[h] ELSE IF h < b + (j - i) THEN s[i + (h - b)]
                                            ELSE r[h - (j - i)]
  /\ Whole(m, t) = Pasted(Len(r) + 1, Whole(m, r), b, Whole(k, s), i, j)

LEMMA CutIs ==
  ASSUME NEW k \in Lists, NEW s \in Seq(Elems), NEW i \in 1 .. Len(s) + 1, NEW j \in i .. Len(s) + 1
  PROVE  IsCutOut(k, s, i, j, CutOut(k, s, i, j))
<1> DEFINE n == Len(s) - (j - i)
           u == Whole(k, s)
           w == Cut(Len(s) + 1, u, i, j)
<1>1. /\ Len(s) \in Nat /\ n \in Nat /\ (Len(s) + 1) - (j - i) = n + 1 /\ i \in Int /\ j \in Int
      /\ i <= j /\ j - i \in Nat /\ n + (j - i) = Len(s) /\ i <= n + 1
  OBVIOUS
<1>2. /\ u[0] = head(k) /\ u[Len(s) + 1] = tail(k) /\ \A h \in 1 .. Len(s) : u[h] = s[h] /\ s[h] \in Elems
      /\ \A h \in 0 .. Len(s) + 1 : u[h] \in Nodes
  BY <1>1, NodeIs DEF Whole
<1>3. w = [h \in 0 .. n + 1 |-> IF h < i THEN u[h] ELSE u[h + (j - i)]]
  BY <1>1 DEF Cut
<1> HIDE DEF n, w, u
<1>4. \A h \in 0 .. n + 1 : (h < i => h \in 0 .. Len(s) + 1) /\ (~(h < i) => h + (j - i) \in 0 .. Len(s) + 1)
  BY <1>1
<1>5. w \in [0 .. n + 1 -> Nodes]
  BY <1>2, <1>3, <1>4
<1>6. \A h \in 1 .. n : (h < i => h \in 1 .. Len(s)) /\ (~(h < i) => h + (j - i) \in 1 .. Len(s)) /\ h \in 0 .. n + 1
  BY <1>1
<1>7. \A h \in 1 .. n : w[h] = (IF h < i THEN s[h] ELSE s[h + (j - i)]) /\ w[h] \in Elems
  BY <1>2, <1>3, <1>6
<1>8. w[0] = head(k) /\ w[n + 1] = tail(k)
  <2>1. 0 \in 0 .. n + 1 /\ n + 1 \in 0 .. n + 1 /\ 0 < i /\ ~(n + 1 < i) /\ (n + 1) + (j - i) = Len(s) + 1
    BY <1>1
  <2> QED
    BY <1>2, <1>3, <2>1
<1>9. /\ Inner(n, w) \in Seq(Elems) /\ Len(Inner(n, w)) = n /\ DOMAIN Inner(n, w) = 1 .. n
      /\ \A h \in 1 .. n : Inner(n, w)[h] = w[h]
      /\ Whole(k, Inner(n, w)) = w
  BY <1>1, <1>5, <1>7, <1>8, InnerIs
<1>10. CutOut(k, s, i, j) = Inner(n, w)
  BY DEF CutOut, n, w, u
<1> QED
  BY <1>7, <1>9, <1>10 DEF n, w, u, IsCutOut

LEMMA PastedIs ==
  ASSUME NEW k \in Lists, NEW s \in Seq(Elems), NEW i \in 1 .. Len(s) + 1, NEW j \in i .. Len(s) + 1,
         NEW m \in Lists, NEW r \in Seq(Elems), NEW b \in 1 .. Len(r) + 1
  PROVE  IsPastedIn(m, r, b, k, s, i, j, PastedIn(m, r, b, k, s, i, j))
<1> DEFINE n == Len(r) + (j - i)
           u == Whole(k, s)
           v == Whole(m, r)
           w == Pasted(Len(r) + 1, v, b, u, i, j)
<1>1. /\ Len(s) \in Nat /\ Len(r) \in Nat /\ n \in Nat /\ (Len(r) + 1) + (j - i) = n + 1 /\ i \in Int /\ j \in Int
      /\ 1 <= i /\ i <= j /\ j <= Len(s) + 1 /\ j - i \in Nat /\ n = Len(r) + (j - i) /\ b \in 1 .. Len(r) + 1
  OBVIOUS
<1>2. /\ \A h \in 1 .. Len(s) : u[h] = s[h] /\ s[h] \in Elems
      /\ \A h \in 0 .. Len(s) + 1 : u[h] \in Nodes
      /\ v[0] = head(m) /\ v[Len(r) + 1] = tail(m) /\ \A h \in 1 .. Len(r) : v[h] = r[h] /\ r[h] \in Elems
      /\ \A h \in 0 .. Len(r) + 1 : v[h] \in Nodes
  BY <1>1, NodeIs DEF Whole
<1>3. w = [h \in 0 .. n + 1 |-> IF h < b THEN v[h] ELSE IF h < b + (j - i) THEN u[i + (h - b)] ELSE v[h - (j - i)]]
  BY <1>1 DEF Pasted
<1> HIDE DEF n, w, u, v
<1>4. \A h \in 0 .. n + 1 : /\ h < b => h \in 0 .. Len(r) + 1
                            /\ ~(h < b) /\ h < b + (j - i) => i + (h - b) \in 0 .. Len(s) + 1
                            /\ ~(h < b) /\ ~(h < b + (j - i)) => h - (j - i) \in 0 .. Len(r) + 1
  BY <1>1
<1>5. w \in [0 .. n + 1 -> Nodes]
  BY <1>2, <1>3, <1>4
<1>6. \A h \in 1 .. n : /\ h < b => h \in 1 .. Len(r)
                        /\ ~(h < b) /\ h < b + (j - i) => i + (h - b) \in 1 .. Len(s)
                        /\ ~(h < b) /\ ~(h < b + (j - i)) => h - (j - i) \in 1 .. Len(r)
                        /\ h \in 0 .. n + 1
  BY <1>1
<1>7. \A h \in 1 .. n : /\ w[h] = IF h < b THEN r[h] ELSE IF h < b + (j - i) THEN s[i + (h - b)] ELSE r[h - (j - i)]
                        /\ w[h] \in Elems
  BY <1>2, <1>3, <1>6
<1>8. w[0] = head(m) /\ w[n + 1] = tail(m)
  <2>1. /\ 0 \in 0 .. n + 1 /\ n + 1 \in 0 .. n + 1 /\ 0 < b /\ ~(n + 1 < b)
        /\ ~(n + 1 < b + (j - i)) /\ (n + 1) - (j - i) = Len(r) + 1
    BY <1>1
  <2> QED
    BY <1>2, <1>3, <2>1
<1>9. /\ Inner(n, w) \in Seq(Elems) /\ Len(Inner(n, w)) = n /\ DOMAIN Inner(n, w) = 1 .. n
      /\ \A h \in 1 .. n : Inner(n, w)[h] = w[h]
      /\ Whole(m, Inner(n, w)) = w
  <2>1. n \in Nat /\ \A h \in 1 .. n : w[h] \in Elems
    BY <1>1, <1>7
  <2> QED
    BY <1>5, <1>8, <2>1, InnerIs, Zenon
<1>10. PastedIn(m, r, b, k, s, i, j) = Inner(n, w)
  BY DEF PastedIn, n, w, u, v
<1> QED
  BY <1>7, <1>9, <1>10 DEF n, w, u, v, IsPastedIn

LEMMA SpliceBetweenLaid ==
  ASSUME NEW c, Laid(c), IsLinked, NEW k \in Lists, NEW m \in Lists, k # m,
         NEW i \in 1 .. Len(c[k]) + 1, NEW j \in i .. Len(c[k]) + 1, NEW b \in 1 .. Len(c[m]) + 1,
         splice(Node(m, c[m], b), Node(k, c[k], i), Node(k, c[k], j))
  PROVE  Laid([c EXCEPT ![k] = CutOut(k, c[k], i, j), ![m] = PastedIn(m, c[m], b, k, c[k], i, j)])'
<1> DEFINE s == c[k]
           r == c[m]
           N == Len(s) + 1
           M == Len(r) + 1
           u == Whole(k, s)
           v == Whole(m, r)
           t == CutOut(k, s, i, j)
           o == PastedIn(m, r, b, k, s, i, j)
           d == [c EXCEPT ![k] = t, ![m] = o]
<1>1. /\ c \in [Lists -> Seq(Elems)] /\ Arranged(c) /\ s \in Seq(Elems) /\ Len(s) \in Nat /\ DOMAIN s = 1 .. Len(s)
      /\ r \in Seq(Elems) /\ Len(r) \in Nat /\ DOMAIN r = 1 .. Len(r)
  BY DEF Laid, Arranged
<1>2. /\ t \in Seq(Elems) /\ Len(t) = Len(s) - (j - i) /\ DOMAIN t = 1 .. Len(s) - (j - i)
      /\ \A h \in 1 .. Len(s) - (j - i) : t[h] = IF h < i THEN s[h] ELSE s[h + (j - i)]
      /\ Whole(k, t) = Cut(N, u, i, j)
  <2>1. IsCutOut(k, s, i, j, t)
    BY <1>1, CutIs
  <2> QED
    BY <2>1, Zenon DEF IsCutOut
<1>3. /\ o \in Seq(Elems) /\ Len(o) = Len(r) + (j - i) /\ DOMAIN o = 1 .. Len(r) + (j - i)
      /\ \A h \in 1 .. Len(r) + (j - i) : o[h] = IF h < b THEN r[h] ELSE IF h < b + (j - i) THEN s[i + (h - b)]
                                                ELSE r[h - (j - i)]
      /\ Whole(m, o) = Pasted(M, v, b, u, i, j)
  <2>1. IsPastedIn(m, r, b, k, s, i, j, o)
    BY <1>1, PastedIs
  <2> QED
    BY <2>1, Zenon DEF IsPastedIn
<1>4. /\ i \in 1 .. N /\ j \in i .. N /\ b \in 1 .. M /\ N \in Nat /\ M \in Nat
      /\ i \in 0 .. N /\ j \in 0 .. N /\ i - 1 \in 0 .. N /\ j - 1 \in 0 .. N /\ b \in 0 .. M /\ b - 1 \in 0 .. M
      /\ i - 1 \in 0 .. N - 1 /\ j - 1 \in 0 .. N - 1 /\ b - 1 \in 0 .. M - 1
      /\ (i - 1) + 1 = i /\ (j - 1) + 1 = j /\ (b - 1) + 1 = b
      /\ N - (j - i) = (Len(s) - (j - i)) + 1 /\ M + (j - i) = (Len(r) + (j - i)) + 1
  BY <1>1
<1>5. d \in [Lists -> Seq(Elems)] /\ d[k] = t /\ d[m] = o /\ \A h \in Lists \ {k, m} : d[h] = c[h]
  <2> HIDE DEF t, o
  <2> QED
    BY <1>1, <1>2, <1>3
<1>6. /\ Chain(N, u) /\ Chain(M, v) /\ splice(v[b], u[i], u[j])
      /\ \A h \in 0 .. M, q \in 0 .. N : v[h] # u[q]
  <2>1. \A h \in 0 .. M, q \in 0 .. N : Node(m, r, h) # Node(k, s, q)
    BY <1>1, Apart
  <2> QED
    BY <1>4, <2>1, LaidIs
<1>7. Chain(N - (j - i), Cut(N, u, i, j))' /\ Chain(M + (j - i), Pasted(M, v, b, u, i, j))'
  <2> HIDE DEF N, M, u, v, s, r
  <2> QED
    BY <1>4, <1>6, SpliceBetween
<1>8. Linked(k, t)' /\ Linked(m, o)'
  <2>1. Chain(Len(t) + 1, Whole(k, t))' /\ Chain(Len(o) + 1, Whole(m, o))'
    BY <1>2, <1>3, <1>4, <1>7
  <2> HIDE DEF t, o
  <2> QED
    BY <1>2, <1>3, <2>1, LinkedThen
<1>9. ASSUME NEW h \in Lists \ {k, m} PROVE Linked(h, d[h])'
  <2> DEFINE y == Whole(h, c[h])
             Y == Len(c[h]) + 1
  <2>1. Chain(Y, y) /\ c[h] \in Seq(Elems)
    BY LaidIs
  <2>2. /\ \A q \in 0 .. Y, p \in 0 .. N : Node(h, c[h], q) # Node(k, s, p)
        /\ \A q \in 0 .. Y, p \in 0 .. M : Node(h, c[h], q) # Node(m, r, p)
    BY <1>1, Apart
  <2>3. (\A q \in 0 .. Y, p \in 0 .. N : y[q] # u[p]) /\ (\A q \in 0 .. Y, p \in 0 .. M : y[q] # v[p])
    BY <2>2, LaidIs
  <2> HIDE DEF N, M, u, v, s, r
  <2>4. prev[u[i]] = u[i - 1] /\ prev[v[b]] = v[b - 1] /\ prev[u[j]] = u[j - 1] /\ next[u[j - 1]] = u[j]
    BY <1>4, <1>6 DEF Chain
  <2>5. \A q \in 0 .. Y : y[q] \notin {u[i], v[b], u[j], prev[u[i]], prev[v[b]], prev[u[j]]}
    BY <1>4, <2>3, <2>4
  <2>6. next[prev[u[j]]] = u[j]
    BY <2>4
  <2> HIDE DEF y, Y
  <2>7. Chain(Y, y)'
    BY <1>6, <2>1, <2>5, <2>6, SpliceElsewhere
  <2> QED
    BY <1>5, <2>1, <2>7, LinkedThen DEF y, Y
<1>10. \A h \in DOMAIN t : \E q \in DOMAIN s : t[h] = s[q] /\ q \notin i .. j - 1
  <2>1. \A h \in 1 .. Len(s) - (j - i) : /\ h < i => h \in 1 .. Len(s) /\ h \notin i .. j - 1
                                         /\ ~(h < i) => h + (j - i) \in 1 .. Len(s) /\ h + (j - i) \notin i .. j - 1
    BY <1>1
  <2> HIDE DEF t, s
  <2> QED
    BY <1>1, <1>2, <2>1
<1>11. \A h \in DOMAIN o : (\E q \in DOMAIN r : o[h] = r[q]) \/ \E q \in DOMAIN s : o[h] = s[q] /\ q \in i .. j - 1
  <2>1. \A h \in 1 .. Len(r) + (j - i) :
          /\ h < b => h \in 1 .. Len(r)
          /\ ~(h < b) /\ h < b + (j - i) => i + (h - b) \in 1 .. Len(s) /\ i + (h - b) \in i .. j - 1
          /\ ~(h < b) /\ ~(h < b + (j - i)) => h - (j - i) \in 1 .. Len(r)
    BY <1>1
  <2> HIDE DEF o, r, s
  <2> QED
    BY <1>1, <1>3, <2>1
<1> HIDE DEF t, o, d
<1>12. ASSUME NEW h \in DOMAIN t, NEW q \in DOMAIN o, t[h] = o[q] PROVE FALSE
  <2>1. PICK p \in DOMAIN s : t[h] = s[p] /\ p \notin i .. j - 1
    BY <1>10
  <2>2. CASE \E x \in DOMAIN r : o[q] = r[x]
    BY <1>1, <1>12, <2>1, <2>2 DEF Arranged
  <2>3. CASE \E x \in DOMAIN s : o[q] = s[x] /\ x \in i .. j - 1
    <3>1. PICK x \in DOMAIN s : o[q] = s[x] /\ x \in i .. j - 1
      BY <2>3
    <3>2. \A y, z \in DOMAIN s : s[y] = s[z] => y = z
      BY <1>1, Zenon DEF Arranged
    <3> QED
      BY <1>12, <2>1, <3>1, <3>2
  <2> QED
    BY <1>11, <2>2, <2>3
<1>13. ASSUME NEW x \in Lists, NEW h \in DOMAIN c[x], x # k, x # m
       PROVE  (\A q \in DOMAIN t : c[x][h] # t[q]) /\ (\A q \in DOMAIN o : c[x][h] # o[q])
  BY <1>1, <1>10, <1>11, <1>13 DEF Arranged
<1>14. ASSUME NEW x \in Lists, NEW y \in Lists, x # y, NEW q \in DOMAIN d[x], NEW p \in DOMAIN d[y]
       PROVE  d[x][q] # d[y][p]
  <2>1. CASE {x, y} = {k, m}
    <3>1. (x = k /\ y = m) \/ (x = m /\ y = k)
      BY <1>14, <2>1
    <3> QED
      BY <1>5, <1>12, <3>1
  <2>2. CASE x \in {k, m} /\ y \notin {k, m}
    BY <1>5, <1>13, <1>14, <2>2
  <2>3. CASE y \in {k, m} /\ x \notin {k, m}
    BY <1>5, <1>13, <1>14, <2>3
  <2>4. CASE x \notin {k, m} /\ y \notin {k, m}
    BY <1>1, <1>5, <1>14, <2>4 DEF Arranged
  <2> QED
    BY <1>14, <2>1, <2>2, <2>3, <2>4
<1>15. Laid(d)'
  BY <1>5, <1>8, <1>9, <1>14, LaidNext
<1> QED
  BY <1>15 DEF d, t, o
-----------------------------------------------------------------------------
(* What the invariant says of the lists, and what makes it hold again.     *)
Known(c) ==
  /\ c = Lay /\ Arranged(c) /\ Facts(c)
  /\ pc # "reverse" => Laid(c) /\ \A k \in Lists : Contents(k) = c[k]

LEMMA Knowing ==
  ASSUME IInv
  PROVE  \E c : Known(c)
<1> DEFINE c == Lay
<1>1. Arranged(c) /\ Facts(c) /\ \A k \in Lists : pc # "reverse" \/ k # l => Linked(k, c[k])
  BY DEF IInv, LaidOut
<1> HIDE DEF c
<1>2. ASSUME pc # "reverse" PROVE Laid(c) /\ \A k \in Lists : Contents(k) = c[k]
  <2>1. Laid(c)
    BY <1>1, <1>2 DEF Laid
  <2> QED
    BY <2>1, ContentsNow DEF Laid, Arranged
<1>3. Known(c)
  BY <1>1, <1>2, Zenon DEF Known, c
<1> QED
  BY <1>3, Zenon

(* The results of the calls, in terms of c.                                *)
InOrdered(c) ==
  LET old == was[l]
      now == c[l]
  IN pc = "ordered" /\ Ordered(old) =>
       /\ Ordered(now)
       /\ \A i \in DOMAIN old : value[old[i]] = value[best] => Before(now, old[i], best)

InUniq(c) ==
  LET old == was[l]
  IN pc = "uniq" =>
       /\ Picks(c[l], 0, old, Leaders(old))
       /\ dups # NULL =>
            /\ Picks(c[dups], Len(was[dups]), old, DOMAIN old \ Leaders(old))
            /\ was[dups] = SubSeq(c[dups], 1, Len(was[dups]))

InFound ==
  LET old == was[l]
      beaten(x, y) == IF pc = "found_max" THEN less(y, x) ELSE less(x, y)
  IN pc \in {"found_max", "found_min"} =>
       IF old = <<>> THEN best = list_end(l)
       ELSE \E i \in DOMAIN old :
              /\ best = old[i]
              /\ \A j \in DOMAIN old :
                   ~beaten(old[j], old[i]) /\ (j < i => beaten(old[i], old[j]))

Result(c) ==
  /\ pc = "reversed" => c[l] = Reversed(was[l])
  /\ InOrdered(c) /\ InUniq(c) /\ InFound

(* What is not about a loop that runs holds.                               *)
LEMMA Elsewhere ==
  ASSUME NEW c
  PROVE  /\ pc' \notin {"pass", "locate", "merge", "end of pass", "sorted"} => InSort(c)'
         /\ pc' # "reverse" => InReverse(c[l])'
         /\ pc' # "locate" => InLocate(c[l])'
         /\ pc' # "merge" => InMerge(c[l])'
         /\ pc' # "end of pass" => InEndOfPass(c[l])'
         /\ pc' # "search" => InSearch(c)'
         /\ pc' # "unique" => InUnique(c)'
         /\ pc' \notin {"max", "min"} => InExtreme(c[l])'
         /\ pc' # "ordered" => InOrdered(c)'
         /\ pc' # "uniq" => InUniq(c)'
         /\ pc' \notin {"found_max", "found_min"} => InFound'
         /\ pc' \notin {"reversed", "ordered", "uniq", "found_max", "found_min"} => Result(c)'
         /\ pc' = "idle" => Called(c)'
<1>1. pc' \notin {"pass", "locate", "merge", "end of pass", "sorted"} => InSort(c)'
  BY Zenon DEF InSort
<1>2. pc' # "reverse" => InReverse(c[l])'
  BY Zenon DEF InReverse
<1>3. pc' # "locate" => InLocate(c[l])'
  BY Zenon DEF InLocate
<1>4. pc' # "merge" => InMerge(c[l])'
  BY Zenon DEF InMerge
<1>5. pc' # "end of pass" => InEndOfPass(c[l])'
  BY Zenon DEF InEndOfPass
<1>6. pc' # "search" => InSearch(c)'
  BY Zenon DEF InSearch
<1>7. pc' # "unique" => InUnique(c)'
  BY Zenon DEF InUnique
<1>8. pc' \notin {"max", "min"} => InExtreme(c[l])'
  BY Zenon DEF InExtreme
<1>9. pc' # "ordered" => InOrdered(c)'
  BY Zenon DEF InOrdered
<1>10. pc' # "uniq" => InUniq(c)'
  BY Zenon DEF InUniq
<1>11. pc' \notin {"found_max", "found_min"} => InFound'
  BY Zenon DEF InFound
<1>12. pc' \notin {"reversed", "ordered", "uniq", "found_max", "found_min"} => Result(c)'
  BY <1>9, <1>10, <1>11, Zenon DEF Result
<1>13. pc' = "idle" => Called(c)'
  BY DEF Called
<1> QED
  BY <1>1, <1>2, <1>3, <1>4, <1>5, <1>6, <1>7, <1>8, <1>9, <1>10, <1>11, <1>12, <1>13, Zenon

LEMMA Settled ==
  ASSUME NEW c, Laid(c)', pc' # "reverse", Facts(c)', TypeOK', Result(c)'
  PROVE  IInv'
<1>1. ASSUME NEW k \in Lists PROVE Contents(k)' = c[k] /\ Linked(k, c[k])'
  <2>1. c[k] \in Seq(Elems) /\ Linked(k, c[k])'
    BY DEF Laid, Arranged
  <2> QED
    BY <2>1, ContentsThen
<1>2. Lay' = c
  <2>1. c \in [Lists -> Seq(Elems)]
    BY DEF Laid, Arranged
  <2>2. Lay' = [k \in Lists |-> c[k]]
    BY <1>1 DEF Lay
  <2> QED
    BY <2>1, <2>2
<1>3. LaidOut(c)'
  BY Zenon DEF LaidOut, Laid
<1>4. ResultOK'
  <2>1. CASE pc' = "idle"
    BY <2>1 DEF ResultOK
  <2>2. CASE pc' # "idle"
    <3>1. l' \in Lists
      BY <2>2 DEF Facts, Called
    <3>2. dups' # NULL => dups' \in Lists
      BY DEF TypeOK
    <3>3. Contents(l)' = c[l'] /\ (dups' # NULL => Contents(dups)' = c[dups'])
      BY <1>2, <3>1, <3>2 DEF Lay
    <3> QED
      BY <3>3, Zenon DEF ResultOK, Result, InOrdered, InUniq, InFound
  <2> QED
    BY <2>1, <2>2
<1> QED
  BY <1>2, <1>3, <1>4 DEF IInv

(* The links stay links.                                                   *)
LEMMA StillLinked ==
  ASSUME TypeOK, NEW b \in Nodes, NEW x \in Nodes
  PROVE  /\ IsLinked
         /\ insert(b, x) \/ remove(x) =>
              /\ next' \in [Nodes -> Nodes \cup {NULL}] /\ prev' \in [Nodes -> Nodes \cup {NULL}]
<1>1. next \in [Nodes -> Nodes \cup {NULL}] /\ prev \in [Nodes -> Nodes \cup {NULL}]
  BY Zenon DEF TypeOK
<1>2. IsLinked
  BY <1>1 DEF IsLinked
<1>3. insert(b, x) => /\ next' \in [Nodes -> Nodes \cup {NULL}] /\ prev' \in [Nodes -> Nodes \cup {NULL}]
  BY <1>1 DEF insert
<1>4. remove(x) => /\ next' \in [Nodes -> Nodes \cup {NULL}] /\ prev' \in [Nodes -> Nodes \cup {NULL}]
  BY <1>1 DEF remove
<1> QED
  BY <1>2, <1>3, <1>4

LEMMA StillSpliced ==
  ASSUME TypeOK, NEW before \in Nodes, NEW first \in Nodes, NEW last \in Nodes, prev[last] \in Nodes,
         splice(before, first, last)
  PROVE  next' \in [Nodes -> Nodes \cup {NULL}] /\ prev' \in [Nodes -> Nodes \cup {NULL}]
<1>1. next \in [Nodes -> Nodes \cup {NULL}] /\ prev \in [Nodes -> Nodes \cup {NULL}]
  BY Zenon DEF TypeOK
<1>2. CASE first = last
  BY <1>1, <1>2 DEF splice, links
<1>3. CASE first # last
  <2> DEFINE z == prev[last]
             nx == [next EXCEPT ![prev[first]] = next[z]]
             pv == [prev EXCEPT ![next[z]] = prev[first]]
  <2>1. /\ prev' = [pv EXCEPT ![first] = pv[before], ![before] = z]
        /\ next' = [nx EXCEPT ![z] = before, ![pv[before]] = first]
    BY <1>3 DEF splice
  <2>2. nx \in [Nodes -> Nodes \cup {NULL}] /\ pv \in [Nodes -> Nodes \cup {NULL}] /\ z \in Nodes
    BY <1>1
  <2> HIDE DEF nx, pv, z
  <2> QED
    BY <2>1, <2>2
<1> QED
  BY <1>2, <1>3

(* The nodes of Row, and the nodes before which something may be put.      *)
LEMMA RowIs ==
  ASSUME NEW k \in Lists, NEW s \in Seq(Elems), Contents(k) = s
  PROVE  /\ Row(k) = Append(s, tail(k)) /\ Len(Row(k)) = Len(s) + 1 /\ DOMAIN Row(k) = 1 .. Len(s) + 1
         /\ \A i \in 1 .. Len(s) + 1 : Row(k)[i] = Node(k, s, i)
<1>1. Row(k) = Append(s, tail(k))
  BY DEF Row
<1>2. Len(s) \in Nat /\ s \in Seq(Nodes) /\ tail(k) \in Nodes
  BY NodesDiffer
<1>3. Len(Append(s, tail(k))) = Len(s) + 1 /\ DOMAIN Append(s, tail(k)) = 1 .. Len(s) + 1
      /\ \A i \in 1 .. Len(s) + 1 : Append(s, tail(k))[i] = IF i = Len(s) + 1 THEN tail(k) ELSE s[i]
  BY <1>2, AppendProperties
<1>4. \A i \in 1 .. Len(s) + 1 : Node(k, s, i) = IF i = Len(s) + 1 THEN tail(k) ELSE s[i]
  BY <1>2 DEF Node
<1> QED
  BY <1>1, <1>3, <1>4

LEMMA BeforeIs ==
  ASSUME NEW c, Laid(c), \A k \in Lists : Contents(k) = c[k],
         NEW before \in Nodes, before \notin Loose, prev[before] # NULL
  PROVE  \E k \in Lists : \E i \in 1 .. Len(c[k]) + 1 : before = Node(k, c[k], i)
<1>1. \A k \in Lists : /\ c[k] \in Seq(Elems) /\ Len(c[k]) \in Nat /\ DOMAIN c[k] = 1 .. Len(c[k])
                       /\ Linked(k, c[k]) /\ Len(c[k]) + 1 \in 1 .. Len(c[k]) + 1
  <2>1. \A k \in Lists : /\ c[k] \in Seq(Elems) /\ Len(c[k]) \in Nat /\ DOMAIN c[k] = 1 .. Len(c[k])
                         /\ Linked(k, c[k])
    BY LaidIs
  <2> QED
    BY <2>1
<1>2. CASE before \in Elems
  <2>1. \E k \in Lists : before \in OnList(k)
    BY <1>2 DEF Loose
  <2>2. PICK k \in Lists : \E i \in DOMAIN c[k] : before = c[k][i]
    BY <2>1 DEF OnList
  <2>3. PICK i \in 1 .. Len(c[k]) : before = c[k][i]
    BY <1>1, <2>2
  <2>4. i \in 1 .. Len(c[k]) + 1
    BY <1>1
  <2> QED
    BY <1>1, <2>3, <2>4, NodeIs
<1>3. CASE before \in Ends
  <2>1. \A k \in Lists : before # head(k)
    BY <1>1, Zenon DEF Linked, Tied
  <2>2. PICK k \in Lists : before = tail(k)
    BY <1>3, <2>1 DEF Ends
  <2> QED
    BY <1>1, <2>2, NodeIs
<1> QED
  BY <1>2, <1>3 DEF Nodes

LEMMA LooseIs ==
  ASSUME NEW c, \A k \in Lists : Contents(k) = c[k], NEW x \in Loose
  PROVE  x \in Elems /\ \A k \in Lists : \A i \in DOMAIN c[k] : c[k][i] # x
<1>1. x \in Elems /\ \A k \in Lists : x \notin OnList(k)
  BY DEF Loose
<1> QED
  BY <1>1 DEF OnList
-----------------------------------------------------------------------------
(* The steps, one by one.                                                  *)
LEMMA InsertStep ==
  ASSUME IInv, NEW before \in Nodes, NEW x \in Elems, list_insert(before, x)
  PROVE  IInv'
<1>1. PICK c : Known(c)
  BY Knowing
<1>2. /\ pc = "idle" /\ pc' = "idle" /\ UNCHANGED <<value, l, locals, was>>
      /\ x \in Loose /\ before \notin Loose /\ insert(before, x)
      /\ is_interior(before) \/ is_tail(before)
  BY DEF list_insert, Idle
<1>3. TypeOK /\ Laid(c) /\ \A k \in Lists : Contents(k) = c[k]
  BY <1>1, <1>2 DEF Known, IInv
<1>4. PICK k \in Lists : \E i \in 1 .. Len(c[k]) + 1 : before = Node(k, c[k], i)
  <2>1. prev[before] # NULL
    BY <1>2 DEF is_interior, is_tail
  <2> QED
    BY <1>2, <1>3, <2>1, BeforeIs
<1>5. PICK i \in 1 .. Len(c[k]) + 1 : before = Node(k, c[k], i)
  BY <1>4
<1>6. x \in Nodes /\ \A j \in Lists : \A m \in DOMAIN c[j] : c[j][m] # x
  BY <1>2, <1>3, LooseIs, NodesDiffer
<1> DEFINE d == [c EXCEPT ![k] = With(c[k], i, x)]
<1>7. IsLinked /\ next' \in [Nodes -> Nodes \cup {NULL}] /\ prev' \in [Nodes -> Nodes \cup {NULL}]
  BY <1>2, <1>3, <1>6, StillLinked
<1>8. Laid(d)'
  BY <1>2, <1>3, <1>5, <1>6, <1>7, InsertLaid
<1>9. TypeOK'
  BY <1>2, <1>3, <1>7 DEF TypeOK, locals, sorting
<1> HIDE DEF d
<1>10. Facts(d)' /\ Result(d)'
  BY <1>2, Elsewhere DEF Facts
<1> QED
  BY <1>2, <1>8, <1>9, <1>10, Settled

LEMMA RemoveStep ==
  ASSUME IInv, NEW x \in Elems, list_remove(x)
  PROVE  IInv'
<1>1. PICK c : Known(c)
  BY Knowing
<1>2. /\ pc = "idle" /\ pc' = "idle" /\ UNCHANGED <<value, l, locals, was>>
      /\ x \notin Loose /\ remove(x)
  BY DEF list_remove, Idle
<1>3. TypeOK /\ Laid(c) /\ \A k \in Lists : Contents(k) = c[k]
  BY <1>1, <1>2 DEF Known, IInv
<1>4. PICK k \in Lists : x \in OnList(k)
  BY <1>2 DEF Loose
<1>5. PICK i \in 1 .. Len(c[k]) : x = c[k][i]
  <2>1. DOMAIN c[k] = 1 .. Len(c[k])
    BY <1>3, LaidIs
  <2> QED
    BY <1>3, <1>4, <2>1 DEF OnList
<1>6. x \in Nodes
  BY NodesDiffer
<1> DEFINE d == [c EXCEPT ![k] = Without(c[k], i)]
<1>7. IsLinked /\ next' \in [Nodes -> Nodes \cup {NULL}] /\ prev' \in [Nodes -> Nodes \cup {NULL}]
  BY <1>2, <1>3, <1>6, StillLinked
<1>8. Laid(d)'
  BY <1>2, <1>3, <1>5, <1>7, RemoveLaid
<1>9. TypeOK'
  BY <1>2, <1>3, <1>7 DEF TypeOK, locals, sorting
<1> HIDE DEF d
<1>10. Facts(d)' /\ Result(d)'
  BY <1>2, Elsewhere DEF Facts
<1> QED
  BY <1>2, <1>8, <1>9, <1>10, Settled

(* The node before a node of a list.                                       *)
LEMMA PrevIs ==
  ASSUME NEW c, Laid(c), NEW k \in Lists, NEW i \in 1 .. Len(c[k]) + 1
  PROVE  prev[Node(k, c[k], i)] = Node(k, c[k], i - 1) /\ Node(k, c[k], i - 1) \in Nodes
         /\ Node(k, c[k], i) \in Nodes /\ next[Node(k, c[k], i - 1)] = Node(k, c[k], i)
<1>1. c[k] \in Seq(Elems) /\ Linked(k, c[k])
  BY LaidIs
<1>2. i - 1 \in 0 .. Len(c[k]) /\ i - 1 \in 0 .. Len(c[k]) + 1 /\ (i - 1) + 1 = i /\ i \in 0 .. Len(c[k]) + 1
  BY <1>1
<1>3. \A h \in 0 .. Len(c[k]) + 1 : Node(k, c[k], h) \in Nodes
  BY <1>1, NodeIs
<1>4. /\ next[Node(k, c[k], i - 1)] = Node(k, c[k], (i - 1) + 1)
      /\ prev[Node(k, c[k], (i - 1) + 1)] = Node(k, c[k], i - 1)
  BY <1>1, <1>2, Zenon DEF Linked, Tied
<1> QED
  BY <1>2, <1>3, <1>4

LEMMA SpliceStep ==
  ASSUME IInv, NEW before \in Nodes, NEW first \in Elems, NEW last \in Nodes,
         list_splice(before, first, last)
  PROVE  IInv'
<1>1. PICK c : Known(c)
  BY Knowing
<1>2. /\ pc = "idle" /\ pc' = "idle" /\ UNCHANGED <<value, l, locals, was>>
      /\ prev[before] # NULL /\ before \notin Loose /\ splice(before, first, last)
  BY DEF list_splice, Idle
<1>3. TypeOK /\ Laid(c) /\ \A k \in Lists : Contents(k) = c[k]
  BY <1>1, <1>2 DEF Known, IInv
<1>4. PICK k \in Lists : \E i, j \in DOMAIN Row(k) :
                           /\ first = Row(k)[i] /\ last = Row(k)[j] /\ i <= j
                           /\ \A m \in i .. j - 1 : before # Row(k)[m]
  BY Zenon DEF list_splice
<1>5. PICK i, j \in DOMAIN Row(k) : /\ first = Row(k)[i] /\ last = Row(k)[j] /\ i <= j
                                    /\ \A m \in i .. j - 1 : before # Row(k)[m]
  BY <1>4
<1>6. /\ c[k] \in Seq(Elems) /\ Len(c[k]) \in Nat
      /\ DOMAIN Row(k) = 1 .. Len(c[k]) + 1 /\ \A h \in 1 .. Len(c[k]) + 1 : Row(k)[h] = Node(k, c[k], h)
  BY <1>3, LaidIs, RowIs
<1>7. /\ i \in 1 .. Len(c[k]) + 1 /\ j \in i .. Len(c[k]) + 1 /\ j \in 1 .. Len(c[k]) + 1
      /\ \A m \in i .. j - 1 : m \in 1 .. Len(c[k]) + 1
  BY <1>5, <1>6
<1>8. first = Node(k, c[k], i) /\ last = Node(k, c[k], j) /\ \A m \in i .. j - 1 : before # Node(k, c[k], m)
  BY <1>5, <1>6, <1>7
<1>9. PICK m \in Lists : \E b \in 1 .. Len(c[m]) + 1 : before = Node(m, c[m], b)
  BY <1>2, <1>3, BeforeIs
<1>10. PICK b \in 1 .. Len(c[m]) + 1 : before = Node(m, c[m], b)
  BY <1>9
<1>11. IsLinked /\ next' \in [Nodes -> Nodes \cup {NULL}] /\ prev' \in [Nodes -> Nodes \cup {NULL}]
  <2>1. prev[last] \in Nodes /\ first \in Nodes
    BY <1>3, <1>7, <1>8, PrevIs
  <2> QED
    BY <1>2, <1>3, <2>1, StillLinked, StillSpliced
<1>12. TypeOK'
  BY <1>2, <1>3, <1>11 DEF TypeOK, locals, sorting
<1>13. \E d : Laid(d)'
  <2>1. CASE m = k
    <3>1. b \notin i .. j - 1 /\ b \in 1 .. Len(c[k]) + 1
      BY <1>8, <1>10, <2>1
    <3>2. splice(Node(k, c[k], b), Node(k, c[k], i), Node(k, c[k], j))
      BY <1>2, <1>8, <1>10, <2>1
    <3>3. Laid([c EXCEPT ![k] = Shifted(k, c[k], b, i, j)])'
      BY <1>3, <1>7, <1>11, <3>1, <3>2, SpliceLaid
    <3> QED
      BY <3>3, Zenon
  <2>2. CASE m # k
    <3>1. splice(Node(m, c[m], b), Node(k, c[k], i), Node(k, c[k], j))
      BY <1>2, <1>8, <1>10
    <3>2. Laid([c EXCEPT ![k] = CutOut(k, c[k], i, j), ![m] = PastedIn(m, c[m], b, k, c[k], i, j)])'
      BY <1>3, <1>7, <1>11, <2>2, <3>1, SpliceBetweenLaid
    <3> QED
      BY <3>2, Zenon
  <2> QED
    BY <2>1, <2>2
<1>14. PICK d : Laid(d)'
  BY <1>13
<1>15. Facts(d)' /\ Result(d)'
  BY <1>2, Elsewhere DEF Facts
<1> QED
  BY <1>2, <1>12, <1>14, <1>15, Settled

(* The steps that change no link.                                          *)
LEMMA LaidStill ==
  ASSUME IInv, NEW c, Known(c), pc # "reverse", UNCHANGED links
  PROVE  /\ Laid(c)'
         /\ next' \in [Nodes -> Nodes \cup {NULL}] /\ prev' \in [Nodes -> Nodes \cup {NULL}]
<1>1. Laid(c) /\ UNCHANGED <<next, prev>>
  BY Zenon DEF Known, links
<1>2. Laid(c)'
  BY <1>1 DEF Laid, Linked, Tied, Arranged
<1> QED
  BY <1>1, <1>2 DEF IInv, TypeOK

LEMMA ReturnStep ==
  ASSUME IInv, Return
  PROVE  IInv'
<1>1. PICK c : Known(c)
  BY Knowing
<1>2. pc # "reverse" /\ pc' = "idle" /\ UNCHANGED <<value, links>>
  BY DEF Return
<1>3. Laid(c)' /\ next' \in [Nodes -> Nodes \cup {NULL}] /\ prev' \in [Nodes -> Nodes \cup {NULL}]
  BY <1>1, <1>2, LaidStill
<1>4. TypeOK'
  <2>1. 0 \in 0 .. (Cardinality(Elems) + 1) \div 2
    <3>1. Cardinality(Elems) \in Nat
      BY ElemsAssumption, FS_CardinalityType
    <3> QED
      BY <3>1
  <2> QED
    BY <1>3, <2>1 DEF Return, IInv, TypeOK, PCs
<1>5. Facts(c)' /\ Result(c)'
  BY <1>2, Elsewhere DEF Facts
<1> QED
  BY <1>2, <1>3, <1>4, <1>5, Settled

(* A call: the lists are kept as they are.                                 *)
LEMMA Calling ==
  ASSUME IInv, NEW c, Known(c), NEW k \in Lists, NEW to, to # "idle", Call(k, to)
  PROVE  /\ pc = "idle" /\ pc' = to /\ l' = k /\ was' = c /\ UNCHANGED <<value, next, prev, sorting>>
         /\ Laid(c) /\ Laid(c)' /\ c[k] \in Seq(Elems) /\ Contents(k) = c[k]
         /\ Called(c)'
         /\ (to \in PCs /\ {elem', best'} \subseteq Nodes \cup {NULL} /\ dups' \in Lists \cup {NULL}
               /\ (to \in {"reverse", "search", "unique", "max", "min"} => elem' # NULL)) => TypeOK'
<1>1. /\ pc = "idle" /\ pc' = to /\ l' = k /\ was' = [m \in Lists |-> Contents(m)]
      /\ UNCHANGED <<value, links, sorting>>
  BY DEF Call
<1>2. Laid(c) /\ \A m \in Lists : Contents(m) = c[m]
  BY <1>1 DEF Known
<1>3. c \in [Lists -> Seq(Elems)]
  BY <1>2 DEF Laid, Arranged
<1>4. was' = c
  <2>1. [m \in Lists |-> Contents(m)] = [m \in Lists |-> c[m]]
    BY <1>2, Zenon
  <2> QED
    BY <1>1, <1>3, <2>1
<1>5. Laid(c)' /\ next' \in [Nodes -> Nodes \cup {NULL}] /\ prev' \in [Nodes -> Nodes \cup {NULL}]
  BY <1>1, LaidStill
<1>6. Called(c)'
  BY <1>1, <1>3, <1>4 DEF Called
<1>7. (to \in PCs /\ {elem', best'} \subseteq Nodes \cup {NULL} /\ dups' \in Lists \cup {NULL}
         /\ (to \in {"reverse", "search", "unique", "max", "min"} => elem' # NULL)) => TypeOK'
  BY <1>1, <1>5 DEF IInv, TypeOK, sorting
<1> QED
  BY <1>1, <1>2, <1>3, <1>4, <1>5, <1>6, <1>7 DEF links

(* The first node of a list.                                               *)
LEMMA BeginIs ==
  ASSUME NEW c, Laid(c), NEW k \in Lists
  PROVE  /\ list_begin(k) = Node(k, c[k], 1) /\ list_begin(k) \in Nodes /\ list_begin(k) # NULL
         /\ c[k] \in Seq(Elems) /\ Len(c[k]) \in Nat /\ 1 \in 1 .. Len(c[k]) + 1
         /\ list_empty(k) <=> Len(c[k]) = 0
<1>1. c[k] \in Seq(Elems) /\ Len(c[k]) \in Nat /\ Linked(k, c[k])
  BY LaidIs
<1>2. 1 \in 1 .. Len(c[k]) + 1 /\ 0 \in 0 .. Len(c[k]) /\ 1 - 1 = 0
  BY <1>1
<1>3. list_begin(k) = Node(k, c[k], 1) /\ list_begin(k) \in Nodes
  <2>1. Node(k, c[k], 0) = head(k)
    BY <1>1, NodeIs
  <2>2. next[Node(k, c[k], 1 - 1)] = Node(k, c[k], 1) /\ Node(k, c[k], 1) \in Nodes
    <3>1. \A i \in 1 .. Len(c[k]) + 1 : next[Node(k, c[k], i - 1)] = Node(k, c[k], i) /\ Node(k, c[k], i) \in Nodes
      BY PrevIs
    <3> QED
      BY <1>2, <3>1, Zenon
  <2> QED
    BY <1>2, <2>1, <2>2 DEF list_begin
<1>4. list_empty(k) <=> Len(c[k]) = 0
  <2>1. Len(c[k]) = 0 => Node(k, c[k], 1) = tail(k)
    BY DEF Node
  <2>2. Len(c[k]) # 0 => Node(k, c[k], 1) = c[k][1] /\ c[k][1] \in Elems
    BY <1>1 DEF Node
  <2>3. \A x \in Elems : x # tail(k)
    BY NodesDiffer
  <2> QED
    BY <1>3, <2>1, <2>2, <2>3 DEF list_empty, list_end
<1> QED
  BY <1>1, <1>2, <1>3, <1>4, NULLAssumption
-----------------------------------------------------------------------------
(* list_sort.  A run ends where an element is less than the one before it  *)
(* (Drops): a pass counts the runs it leaves, and merges those it found.   *)
LEMMA SortCallStep ==
  ASSUME IInv, NEW k \in Lists, list_sort(k)
  PROVE  IInv'
<1>1. PICK c : Known(c)
  BY Knowing
<1>2. Call(k, "pass") /\ UNCHANGED <<elem, best, dups>>
  BY DEF list_sort
<1>3. /\ pc' = "pass" /\ l' = k /\ was' = c /\ Laid(c)' /\ Called(c)' /\ c[k] \in Seq(Elems)
      /\ ("pass" \in PCs /\ {elem', best'} \subseteq Nodes \cup {NULL} /\ dups' \in Lists \cup {NULL}
           /\ ("pass" \in {"reverse", "search", "unique", "max", "min"} => elem' # NULL)) => TypeOK'
  <2>1. "pass" # "idle"
    OBVIOUS
  <2> QED
    BY <1>1, <1>2, <2>1, Calling
<1>4. TypeOK'
  <2>1. {elem', best'} \subseteq Nodes \cup {NULL} /\ dups' \in Lists \cup {NULL}
    BY <1>2 DEF IInv, TypeOK
  <2> QED
    BY <1>3, <2>1 DEF PCs
<1>5. StableArrangement(c[k], c[k])'
  BY DEF StableArrangement, Before
<1>6. InSort(c)'
  BY <1>3, <1>5 DEF InSort
<1>7. Facts(c)' /\ Result(c)'
  BY <1>3, <1>6, Elsewhere DEF Facts
<1> QED
  BY <1>3, <1>4, <1>7, Settled

(* What depends on the order of the elements alone.                        *)
LEMMA SameOrder ==
  ASSUME UNCHANGED value
  PROVE  /\ \A x, y : less(x, y)' <=> less(x, y)
         /\ \A s, m : Drops(s, m)' = Drops(s, m)
         /\ \A s, i, j : Rising(s, i, j)' <=> Rising(s, i, j)
         /\ \A s : Ordered(s)' <=> Ordered(s)
         /\ \A s : Leaders(s)' = Leaders(s)
         /\ \A s, t : StableArrangement(s, t)' <=> StableArrangement(s, t)
<1>1. \A x, y : less(x, y)' <=> less(x, y)
  BY DEF less
<1>2. \A s, m : Drops(s, m)' = Drops(s, m)
  BY DEF Drops, less
<1>3. \A s, i, j : Rising(s, i, j)' <=> Rising(s, i, j)
  BY DEF Rising, less
<1>4. \A s : Ordered(s)' <=> Ordered(s)
  BY DEF Ordered, less
<1>5. \A s : Leaders(s)' = Leaders(s)
  BY DEF Leaders
<1>6. \A s, t : StableArrangement(s, t)' <=> StableArrangement(s, t)
  BY DEF StableArrangement, Before
<1> QED
  BY <1>1, <1>2, <1>3, <1>4, <1>5, <1>6

LEMMA DropsFinite ==
  ASSUME NEW s, NEW m \in Int
  PROVE  IsFiniteSet(Drops(s, m)) /\ Cardinality(Drops(s, m)) \in Nat
<1>1. IsFiniteSet(1 .. m - 1)
  BY FS_Interval
<1> QED
  BY <1>1, FS_Subset, FS_CardinalityType DEF Drops

LEMMA DropsMore ==
  ASSUME NEW s, NEW m \in Int, NEW r \in Int, m <= r
  PROVE  Cardinality(Drops(s, m)) <= Cardinality(Drops(s, r))
<1>1. Drops(s, m) \subseteq Drops(s, r)
  BY DEF Drops
<1> QED
  BY <1>1, DropsFinite, FS_Subset

LEMMA DropHere ==
  ASSUME NEW s, NEW m \in Int, NEW r \in Int, 1 < r, m < r, less(s[r], s[r - 1])
  PROVE  Cardinality(Drops(s, m)) + 1 <= Cardinality(Drops(s, r))
<1>1. r - 1 \notin Drops(s, m)
  BY DEF Drops
<1>2. Drops(s, m) \cup {r - 1} \subseteq Drops(s, r)
  <2>1. r - 1 \in 1 .. r - 1 /\ (r - 1) + 1 = r
    OBVIOUS
  <2>2. r - 1 \in Drops(s, r)
    BY <2>1 DEF Drops
  <2>3. Drops(s, m) \subseteq Drops(s, r)
    BY DEF Drops
  <2> QED
    BY <2>2, <2>3
<1>3. Cardinality(Drops(s, m) \cup {r - 1}) = Cardinality(Drops(s, m)) + 1
  BY <1>1, DropsFinite, FS_AddElement
<1>4. Cardinality(Drops(s, m) \cup {r - 1}) <= Cardinality(Drops(s, r))
  BY <1>2, DropsFinite, FS_Subset
<1> QED
  BY <1>3, <1>4

LEMMA RisingDrops ==
  ASSUME NEW s, NEW i \in Nat \ {0}, NEW j \in Int, Rising(s, i, j)
  PROVE  /\ i = 1 => Drops(s, j) = {} /\ Cardinality(Drops(s, j)) = 0
         /\ i > 1 => Cardinality(Drops(s, j)) <= Cardinality(Drops(s, i - 1)) + 1
<1>1. ASSUME NEW x \in Drops(s, j) PROVE x \in 1 .. i - 1
  <2>1. x \in 1 .. j - 1 /\ less(s[x + 1], s[x])
    BY DEF Drops
  <2>2. ASSUME x >= i PROVE FALSE
    <3>1. x + 1 \in i + 1 .. j /\ (x + 1) - 1 = x
      BY <2>1, <2>2
    <3>2. ~less(s[x + 1], s[(x + 1) - 1])
      BY <3>1, Zenon DEF Rising
    <3> QED
      BY <2>1, <3>1, <3>2
  <2> QED
    BY <2>1, <2>2
<1>2. i = 1 => Drops(s, j) = {} /\ Cardinality(Drops(s, j)) = 0
  BY <1>1, FS_EmptySet
<1>3. ASSUME i > 1 PROVE Cardinality(Drops(s, j)) <= Cardinality(Drops(s, i - 1)) + 1
  <2>1. Drops(s, j) \subseteq Drops(s, i - 1) \cup {i - 1}
    <3>1. ASSUME NEW x \in Drops(s, j), x # i - 1 PROVE x \in Drops(s, i - 1)
      <4>1. x \in 1 .. (i - 1) - 1 /\ less(s[x + 1], s[x])
        <5>1. x \in 1 .. i - 1
          BY <1>1
        <5>2. less(s[x + 1], s[x])
          BY DEF Drops
        <5> QED
          BY <3>1, <5>1, <5>2
      <4> QED
        BY <4>1 DEF Drops
    <3> QED
      BY <3>1
  <2>2. i - 1 \notin Drops(s, i - 1) /\ i - 1 \in Int
    BY DEF Drops
  <2>3. /\ IsFiniteSet(Drops(s, i - 1) \cup {i - 1})
        /\ Cardinality(Drops(s, i - 1) \cup {i - 1}) = Cardinality(Drops(s, i - 1)) + 1
    BY <2>2, DropsFinite, FS_AddElement
  <2>4. Cardinality(Drops(s, j)) <= Cardinality(Drops(s, i - 1) \cup {i - 1})
    BY <2>1, <2>3, FS_Subset
  <2> QED
    BY <2>3, <2>4
<1> QED
  BY <1>2, <1>3

(* The nodes of a list are different ones.                                 *)
LEMMA NodeOnce ==
  ASSUME NEW c, Laid(c), NEW k \in Lists
  PROVE  /\ \A i, j \in 0 .. Len(c[k]) + 1 : Node(k, c[k], i) = Node(k, c[k], j) => i = j
         /\ \A i, j \in 1 .. Len(c[k]) + 1 : Node(k, c[k], i) = Node(k, c[k], j) => i = j
<1>1. Chain(Len(c[k]) + 1, Whole(k, c[k])) /\ Len(c[k]) \in Nat
  BY LaidIs
<1>2. \A i, j \in 0 .. Len(c[k]) + 1 : Whole(k, c[k])[i] = Whole(k, c[k])[j] => i = j
  BY <1>1, Zenon DEF Chain
<1>3. \A i, j \in 0 .. Len(c[k]) + 1 : Node(k, c[k], i) = Node(k, c[k], j) => i = j
  BY <1>2 DEF Whole
<1>4. \A i \in 1 .. Len(c[k]) + 1 : i \in 0 .. Len(c[k]) + 1
  BY <1>1
<1> QED
  BY <1>3, <1>4

LEMMA PlaceIs ==
  ASSUME NEW c, Laid(c), NEW k \in Lists, Contents(k) = c[k], NEW p \in 1 .. Len(c[k]) + 1
  PROVE  place(k, Node(k, c[k], p)) = p
<1> DEFINE row == Row(k)
           P(i) == i \in DOMAIN row /\ row[i] = Node(k, c[k], p)
<1>1. c[k] \in Seq(Elems)
  BY LaidIs
<1>2. DOMAIN row = 1 .. Len(c[k]) + 1 /\ \A i \in 1 .. Len(c[k]) + 1 : row[i] = Node(k, c[k], i)
  BY <1>1, RowIs
<1>3. \A i \in DOMAIN row : row[i] = Node(k, c[k], p) <=> i = p
  BY <1>2, NodeOnce
<1>4. p \in DOMAIN row
  BY <1>2
<1> HIDE DEF row
<1>5. (CHOOSE i \in DOMAIN row : row[i] = Node(k, c[k], p)) = p
  BY <1>3, <1>4
<1> QED
  BY <1>5 DEF place, row

(* find_end_of_run returns the end of the run.                             *)
LEMMA EndOfRun ==
  ASSUME NEW c, Laid(c), l \in Lists, Contents(l) = c[l], NEW p \in 1 .. Len(c[l])
  PROVE  \E q \in p + 1 .. Len(c[l]) + 1 :
           /\ find_end_of_run(Node(l, c[l], p)) = Node(l, c[l], q)
           /\ q = Len(c[l]) + 1 \/ less(c[l][q], c[l][q - 1])
           /\ Rising(c[l], p, q - 1)
<1> DEFINE s == c[l]
           n == Len(s)
           row == Row(l)
           ends == {i \in p + 1 .. Len(row) : i = Len(row) \/ less(row[i], row[i - 1])}
           q == CHOOSE i \in ends : \A j \in ends : i <= j
<1>1. s \in Seq(Elems) /\ n \in Nat /\ p \in 1 .. n + 1 /\ p \in Nat
  BY LaidIs
<1>2. /\ Len(row) = n + 1 /\ DOMAIN row = 1 .. n + 1 /\ \A i \in 1 .. n + 1 : row[i] = Node(l, s, i)
      /\ \A i \in 1 .. n : Node(l, s, i) = s[i]
  BY <1>1, RowIs, NodeIs
<1>3. place(l, Node(l, s, p)) = p
  BY <1>1, PlaceIs
<1> HIDE DEF s, n, row
<1>4. find_end_of_run(Node(l, s, p)) = row[q]
  BY <1>3 DEF find_end_of_run, row
<1>5. ends \subseteq Nat /\ n + 1 \in ends
  BY <1>1, <1>2 DEF n, s
<1>6. q \in ends /\ \A j \in ends : q <= j
  <2> HIDE DEF ends
  <2>1. \E i \in ends : \A j \in ends : i <= j
    BY <1>5, Least
  <2> QED
    BY <2>1
<1>7. \A i \in p + 1 .. n + 1 : i \in ends <=> i = n + 1 \/ less(s[i], s[i - 1])
  <2>1. \A i \in p + 1 .. n + 1 : i # n + 1 => i \in 1 .. n /\ i - 1 \in 1 .. n /\ i \in 1 .. n + 1 /\ i - 1 \in 1 .. n + 1
    BY <1>1
  <2>2. \A i \in p + 1 .. n + 1 : i # n + 1 => row[i] = s[i] /\ row[i - 1] = s[i - 1]
    BY <1>2, <2>1
  <2>3. \A i \in p + 1 .. n + 1 : i # n + 1 => (less(row[i], row[i - 1]) <=> less(s[i], s[i - 1]))
    BY <2>2 DEF less
  <2> QED
    BY <1>2, <2>3
<1>8. q \in p + 1 .. n + 1
  BY <1>2, <1>6
<1> HIDE DEF q, ends
<1>9. Rising(s, p, q - 1)
  <2> SUFFICES ASSUME NEW h \in p + 1 .. q - 1 PROVE ~less(s[h], s[h - 1])
    BY DEF Rising
  <2>1. h \in p + 1 .. n + 1 /\ ~(q <= h) /\ h # n + 1
    BY <1>1, <1>8
  <2> QED
    BY <1>6, <1>7, <2>1
<1>10. q \in 1 .. n + 1
  BY <1>1, <1>8
<1> QED
  BY <1>2, <1>4, <1>6, <1>7, <1>8, <1>9, <1>10 DEF n, s

LEMMA Running ==
  ASSUME IInv, NEW c, Known(c), pc # "idle"
  PROVE  /\ l \in Lists /\ was \in [Lists -> Seq(Elems)] /\ TypeOK /\ Facts(c)
         /\ c[l] \in Seq(Elems) /\ Len(c[l]) \in Nat /\ DOMAIN c[l] = 1 .. Len(c[l])
         /\ pc # "reverse" => Laid(c) /\ Contents(l) = c[l]
<1>1. l \in Lists /\ was \in [Lists -> Seq(Elems)] /\ TypeOK /\ Facts(c) /\ Arranged(c)
  BY DEF Known, Facts, Called, IInv
<1> QED
  BY <1>1 DEF Known, Arranged

LEMMA SortStill ==
  ASSUME NEW c, Facts(c), l \in Lists, pc \in {"pass", "locate", "merge", "end of pass", "sorted"},
         UNCHANGED <<value, l, was>>
  PROVE  InSort(c)'
<1>1. StableArrangement(was[l], c[l])
  BY DEF Facts, InSort
<1>2. PICK k, o : k = l /\ o = was[l]
  OBVIOUS
<1>3. StableArrangement(o, c[k])
  BY <1>1, <1>2
<1>4. StableArrangement(o, c[k])'
  BY <1>3, SameOrder
<1>5. l' = k /\ was'[l'] = o
  BY <1>2
<1> QED
  BY <1>4, <1>5 DEF InSort

LEMMA StartPassStep ==
  ASSUME IInv, StartPass
  PROVE  IInv'
<1>1. PICK c : Known(c)
  BY Knowing
<1>2. /\ pc = "pass" /\ runs' = 0 /\ a0' = list_begin(l) /\ passed' = Contents(l) /\ pc' = "locate"
      /\ UNCHANGED <<value, links, l, a1b0, b1, elem, best, dups, was>>
  BY DEF StartPass
<1>3. /\ l \in Lists /\ was \in [Lists -> Seq(Elems)] /\ TypeOK /\ Facts(c)
      /\ c[l] \in Seq(Elems) /\ Len(c[l]) \in Nat /\ Laid(c) /\ Contents(l) = c[l]
  BY <1>1, <1>2, Running
<1>4. PICK k \in Lists : k = l
  BY <1>3
<1>5. Laid(c)' /\ next' \in [Nodes -> Nodes \cup {NULL}] /\ prev' \in [Nodes -> Nodes \cup {NULL}]
  BY <1>1, <1>2, LaidStill
<1>6. l' = k /\ a0' = Node(k, c[k], 1) /\ a0' \in Nodes /\ passed' = c[k] /\ 1 \in 1 .. Len(c[k]) + 1
      /\ c[k] \in Seq(Elems) /\ Len(c[k]) \in Nat
  BY <1>2, <1>3, <1>4, BeginIs
<1>7. TypeOK'
  <2>1. 0 \in 0 .. (Cardinality(Elems) + 1) \div 2
    <3>1. Cardinality(Elems) \in Nat
      BY ElemsAssumption, FS_CardinalityType
    <3> QED
      BY <3>1
  <2> QED
    BY <1>2, <1>3, <1>5, <1>6, <2>1 DEF TypeOK, PCs
<1>8. InSort(c)'
  BY <1>2, <1>3, SortStill
<1>9. InLocate(c[l])'
  <2>1. Counted(Len(c[k]), 1)'
    <3>1. Cardinality(Drops(passed, Len(c[k])))' \in Nat /\ Cardinality(Drops(passed, 1))' \in Nat
      <4>1. \A s : Cardinality(Drops(s, Len(c[k])))' \in Nat /\ Cardinality(Drops(s, 1))' \in Nat
        <5>1. \A s : Drops(s, Len(c[k]))' = Drops(s, Len(c[k])) /\ Drops(s, 1)' = Drops(s, 1)
          BY <1>2, SameOrder
        <5> QED
          BY <1>6, <5>1, DropsFinite
      <4>2. PICK s : s = passed'
        OBVIOUS
      <4>3. Drops(passed, Len(c[k]))' = Drops(s, Len(c[k]))' /\ Drops(passed, 1)' = Drops(s, 1)'
        BY <4>2 DEF Drops, less
      <4> QED
        BY <4>1, <4>3
    <3> QED
      BY <1>2, <1>6, <3>1 DEF Counted
  <2>2. AtLocate(k, c[k], 1)'
    BY <1>2, <1>6, <2>1 DEF AtLocate
  <2> QED
    BY <1>6, <2>2 DEF InLocate
<1>10. Called(c)'
  BY <1>2, <1>3 DEF Called
<1>11. Facts(c)' /\ Result(c)'
  BY <1>2, <1>8, <1>9, <1>10, Elsewhere DEF Facts
<1> QED
  BY <1>2, <1>5, <1>7, <1>11, Settled

(* What locating the ends of two runs, or of the last one, counts.         *)
LEMMA CountOn ==
  ASSUME NEW n \in Nat, NEW p \in 1 .. n, NEW q \in p + 1 .. n + 1, Counted(n, p), 2 * runs <= p - 1,
         q = n + 1 \/ less(passed[q], passed[q - 1])
  PROVE  /\ q = n + 1 => 2 * (runs + 1) <= Cardinality(Drops(passed, n)) + 2
         /\ \A r \in q + 1 .. n + 1 :
              IF r = n + 1 THEN 2 * (runs + 1) <= Cardinality(Drops(passed, n)) + 2
              ELSE less(passed[r], passed[r - 1]) => 2 * (runs + 1) <= Cardinality(Drops(passed, r))
<1>1. 2 * runs <= Cardinality(Drops(passed, p)) /\ runs \in Nat
  BY DEF Counted
<1>2. Cardinality(Drops(passed, p)) \in Nat /\ Cardinality(Drops(passed, n)) \in Nat
  BY DropsFinite
<1>3. Cardinality(Drops(passed, p)) <= Cardinality(Drops(passed, n))
  BY DropsMore
<1>4. ASSUME NEW r \in q + 1 .. n + 1, r # n + 1, less(passed[r], passed[r - 1])
      PROVE  2 * (runs + 1) <= Cardinality(Drops(passed, r))
  <2>1. p \in Int /\ q \in Int /\ r \in Int /\ 1 < q /\ p < q /\ 1 < r /\ q < r /\ q # n + 1
    BY <1>4
  <2>2. Cardinality(Drops(passed, p)) + 1 <= Cardinality(Drops(passed, q))
    BY <2>1, DropHere
  <2>3. Cardinality(Drops(passed, q)) + 1 <= Cardinality(Drops(passed, r))
    BY <1>4, <2>1, DropHere
  <2>4. Cardinality(Drops(passed, q)) \in Nat /\ Cardinality(Drops(passed, r)) \in Nat
    BY <2>1, DropsFinite
  <2> QED
    BY <1>1, <1>2, <2>2, <2>3, <2>4
<1>5. 2 * (runs + 1) <= Cardinality(Drops(passed, n)) + 2
  BY <1>1, <1>2, <1>3
<1> QED
  BY <1>4, <1>5

LEMMA CountedThen ==
  ASSUME UNCHANGED value, UNCHANGED passed, NEW n, NEW r
  PROVE  Counted(n, r)' <=>
           /\ passed \in Seq(Elems) /\ Len(passed) = n /\ runs' \in Nat
           /\ IF r > n THEN 2 * runs' <= Cardinality(Drops(passed, n)) + 2
                       ELSE 2 * runs' <= Cardinality(Drops(passed, r))
<1>1. Drops(passed, n)' = Drops(passed, n) /\ Drops(passed, r)' = Drops(passed, r)
  BY DEF Drops, less
<1> QED
  BY <1>1 DEF Counted

LEMMA RunsFit ==
  ASSUME NEW c, Laid(c), NEW k \in Lists, NEW m \in Nat, 2 * m <= Len(c[k]) + 1
  PROVE  m \in 0 .. (Cardinality(Elems) + 1) \div 2
<1>1. Cardinality(Elems) \in Nat
  BY ElemsAssumption, FS_CardinalityType
<1>2. c[k] \in Seq(Elems) /\ Len(c[k]) \in Nat /\ Linked(k, c[k])
  BY LaidIs
<1>3. Len(c[k]) <= Cardinality(Elems)
  BY <1>2, FewElems DEF Linked, Tied
<1> QED
  BY <1>1, <1>2, <1>3

(* The drops of s up to j when s rises behind i.                           *)
LEMMA FewDrops ==
  ASSUME NEW s, NEW i \in Nat \ {0}, NEW j \in Int, Rising(s, i, j), NEW m \in Nat \ {0},
         i > 1 => Cardinality(Drops(s, i - 1)) < m - 1
  PROVE  Cardinality(Drops(s, j)) < m
<1>1. Cardinality(Drops(s, j)) \in Nat /\ Cardinality(Drops(s, i - 1)) \in Nat
  BY DropsFinite
<1> QED
  BY <1>1, RisingDrops

LEMMA LocateStep ==
  ASSUME IInv, Locate
  PROVE  IInv'
<1>1. PICK c : Known(c)
  BY Knowing
<1>2. /\ pc = "locate" /\ a0 # list_end(l) /\ runs' = runs + 1 /\ a1b0' = find_end_of_run(a0)
      /\ IF a1b0' = list_end(l)
         THEN pc' = "end of pass" /\ UNCHANGED b1
         ELSE pc' = "merge" /\ b1' = find_end_of_run(a1b0')
      /\ UNCHANGED <<value, links, l, a0, passed, elem, best, dups, was>>
  BY DEF Locate
<1>3. /\ l \in Lists /\ was \in [Lists -> Seq(Elems)] /\ TypeOK /\ Facts(c)
      /\ c[l] \in Seq(Elems) /\ Len(c[l]) \in Nat /\ Laid(c) /\ Contents(l) = c[l]
  BY <1>1, <1>2, Running
<1>4. PICK k \in Lists : k = l
  BY <1>3
<1> DEFINE s == c[k]
           n == Len(s)
<1>5. s \in Seq(Elems) /\ n \in Nat /\ Node(k, s, n + 1) = tail(k) /\ \A i \in 0 .. n + 1 : Node(k, s, i) \in Nodes
  BY <1>3, <1>4, NodeIs
<1>6. Laid(c)' /\ next' \in [Nodes -> Nodes \cup {NULL}] /\ prev' \in [Nodes -> Nodes \cup {NULL}]
  BY <1>1, <1>2, LaidStill
<1>7. PICK p \in 1 .. n + 1 : AtLocate(k, s, p)
  BY <1>2, <1>3, <1>4 DEF Facts, InLocate
<1>8. p \in 1 .. n
  <2>1. a0 = Node(k, s, p) /\ a0 # tail(k)
    BY <1>2, <1>4, <1>7 DEF AtLocate, list_end
  <2>2. p # n + 1
    BY <1>5, <2>1
  <2> QED
    BY <1>5, <2>2
<1>9. PICK q \in p + 1 .. n + 1 : /\ a1b0' = Node(k, s, q)
                                  /\ q = n + 1 \/ less(s[q], s[q - 1])
                                  /\ Rising(s, p, q - 1)
  <2>1. a0 = Node(l, c[l], p) /\ p \in 1 .. Len(c[l])
    BY <1>4, <1>7, <1>8 DEF AtLocate
  <2>2. \E q \in p + 1 .. Len(c[l]) + 1 : /\ find_end_of_run(Node(l, c[l], p)) = Node(l, c[l], q)
                                          /\ q = Len(c[l]) + 1 \/ less(c[l][q], c[l][q - 1])
                                          /\ Rising(c[l], p, q - 1)
    BY <1>3, <2>1, EndOfRun
  <2> QED
    BY <1>2, <1>4, <2>1, <2>2
<1>10. /\ Counted(n, p) /\ 2 * runs <= p - 1 /\ runs \in Nat
       /\ passed \in Seq(Elems) /\ Len(passed) = n
       /\ \A i \in p .. n : passed[i] = s[i]
       /\ p > 1 => Cardinality(Drops(s, p - 1)) < runs
  <2>1. /\ Counted(n, p) /\ 2 * runs <= p - 1
        /\ \A i \in p .. n : passed[i] = s[i]
        /\ p > 1 => Cardinality(Drops(s, p - 1)) < runs
    BY <1>7, Zenon DEF AtLocate
  <2> QED
    BY <2>1 DEF Counted
<1>11. /\ q = n + 1 => 2 * (runs + 1) <= Cardinality(Drops(passed, n)) + 2
       /\ \A r \in q + 1 .. n + 1 :
            IF r = n + 1 THEN 2 * (runs + 1) <= Cardinality(Drops(passed, n)) + 2
            ELSE less(passed[r], passed[r - 1]) => 2 * (runs + 1) <= Cardinality(Drops(passed, r))
  <2>1. q = n + 1 \/ less(passed[q], passed[q - 1])
    <3>1. q # n + 1 => q \in p .. n /\ q - 1 \in p .. n
      BY <1>5, <1>8
    <3>2. q # n + 1 => passed[q] = s[q] /\ passed[q - 1] = s[q - 1]
      BY <1>10, <3>1
    <3> QED
      BY <1>9, <3>2
  <2> HIDE DEF n, s
  <2> QED
    BY <1>5, <1>8, <1>9, <1>10, <2>1, CountOn
<1>12. InSort(c)'
  BY <1>2, <1>3, SortStill
<1>13. Called(c)'
  BY <1>2, <1>3 DEF Called
<1>14. a0 \in Nodes \cup {NULL} /\ {elem, best} \subseteq Nodes \cup {NULL} /\ l' = k
  BY <1>2, <1>3, <1>4 DEF TypeOK
<1>15. CASE q = n + 1
  <2>1. a1b0' = tail(k) /\ pc' = "end of pass" /\ b1' = b1 /\ tail(k) \in Nodes
    BY <1>2, <1>4, <1>5, <1>9, <1>15, NodesDiffer DEF list_end
  <2>2. 2 * (runs + 1) <= n + 1
    BY <1>5, <1>8, <1>10
  <2>3. runs' \in 0 .. (Cardinality(Elems) + 1) \div 2
    <3>1. runs + 1 \in Nat
      BY <1>10
    <3> QED
      BY <1>2, <1>3, <2>2, <3>1, RunsFit
  <2>4. TypeOK'
    BY <1>2, <1>3, <1>6, <1>14, <2>1, <2>3 DEF TypeOK, PCs
  <2>5. InEndOfPass(s)'
    <3>1. Counted(n, n + 1)'
      <4>1. n + 1 > n /\ runs + 1 \in Nat
        BY <1>5, <1>10
      <4> HIDE DEF n, s
      <4> QED
        BY <1>2, <1>10, <1>11, <1>15, <4>1, CountedThen
    <3>2. Cardinality(Drops(s, n)) < runs + 1
      <4>1. Rising(s, p, n)
        <5>1. q - 1 = n
          BY <1>5, <1>15
        <5> QED
          BY <1>9, <5>1
      <4>2. p \in Nat \ {0} /\ n \in Int /\ runs + 1 \in Nat \ {0} /\ (runs + 1) - 1 = runs
        BY <1>5, <1>8, <1>10
      <4>3. p > 1 => Cardinality(Drops(s, p - 1)) < (runs + 1) - 1
        BY <1>10, <4>2
      <4> HIDE DEF n, s
      <4> QED
        BY <4>1, <4>2, <4>3, FewDrops
    <3>3. Drops(s, n)' = Drops(s, n)
      BY <1>2, SameOrder
    <3> QED
      BY <1>2, <2>2, <3>1, <3>2, <3>3 DEF InEndOfPass
  <2>6. InEndOfPass(c[l])'
    BY <1>14, <2>5 DEF InEndOfPass
  <2>7. Facts(c)' /\ Result(c)'
    BY <1>12, <1>13, <2>1, <2>6, Elsewhere DEF Facts
  <2> QED
    BY <1>6, <2>1, <2>4, <2>7, Settled
<1>16. CASE q # n + 1
  <2>1. q \in 1 .. n /\ q \in 1 .. n + 1 /\ p <= q /\ less(s[q], s[q - 1])
    BY <1>5, <1>8, <1>9, <1>16
  <2>2. a1b0' = s[q] /\ a1b0' \in Nodes /\ pc' = "merge" /\ b1' = find_end_of_run(a1b0')
    <3>1. Node(k, s, q) = s[q] /\ s[q] # tail(k) /\ s[q] \in Nodes
      BY <1>5, <2>1, NodeIs, NodesDiffer
    <3> QED
      BY <1>2, <1>4, <1>9, <3>1 DEF list_end
  <2>3. PICK r \in q + 1 .. n + 1 : /\ b1' = Node(k, s, r)
                                    /\ r = n + 1 \/ less(s[r], s[r - 1])
                                    /\ Rising(s, q, r - 1)
    <3>1. a1b0' = Node(l, c[l], q) /\ q \in 1 .. Len(c[l])
      BY <1>4, <1>9, <2>1
    <3>2. \E r \in q + 1 .. Len(c[l]) + 1 : /\ find_end_of_run(Node(l, c[l], q)) = Node(l, c[l], r)
                                            /\ r = Len(c[l]) + 1 \/ less(c[l][r], c[l][r - 1])
                                            /\ Rising(c[l], q, r - 1)
      BY <1>3, <3>1, EndOfRun
    <3>3. b1' = find_end_of_run(Node(l, c[l], q))
      BY <2>2, <3>1
    <3> QED
      BY <1>4, <3>2, <3>3
  <2>4. r \in 0 .. n + 1 /\ r \in 1 .. n + 1 /\ q <= r /\ b1' \in Nodes
    <3>1. r \in 0 .. n + 1 /\ r \in 1 .. n + 1 /\ q <= r
      BY <1>5, <2>1
    <3> QED
      BY <1>5, <2>3, <3>1
  <2>5. 2 * (runs + 1) <= r - 1 /\ runs + 1 > 0 /\ runs + 1 \in Nat /\ (runs + 1) - 1 = runs
    BY <1>5, <1>8, <1>10
  <2>6. runs' \in 0 .. (Cardinality(Elems) + 1) \div 2
    <3>1. 2 * (runs + 1) <= n + 1
      BY <1>5, <2>4, <2>5
    <3> QED
      BY <1>2, <1>3, <2>5, <3>1, RunsFit
  <2>7. TypeOK'
    BY <1>2, <1>3, <1>6, <1>14, <2>2, <2>4, <2>6 DEF TypeOK, PCs
  <2>8. Counted(n, r)'
    <3>1. IF r > n THEN 2 * (runs + 1) <= Cardinality(Drops(passed, n)) + 2
                   ELSE 2 * (runs + 1) <= Cardinality(Drops(passed, r))
      <4>1. r > n <=> r = n + 1
        BY <1>5, <2>4
      <4>2. r # n + 1 => less(passed[r], passed[r - 1])
        <5>1. r # n + 1 => r \in p .. n /\ r - 1 \in p .. n
          BY <1>5, <1>8
        <5>2. r # n + 1 => passed[r] = s[r] /\ passed[r - 1] = s[r - 1]
          BY <1>10, <5>1
        <5> QED
          BY <2>3, <5>2
      <4> HIDE DEF n, s
      <4> QED
        BY <1>11, <4>1, <4>2
    <3> HIDE DEF n, s
    <3> QED
      BY <1>2, <1>10, <2>5, <3>1, CountedThen
  <2>9. AtMerge(k, s, p, p, q, r)'
    <3>1. \A i \in r .. n : passed[i] = s[i]
      <4>1. \A i \in r .. n : i \in p .. n
        BY <1>5, <1>8
      <4> QED
        BY <1>10, <4>1
    <3>2. Rising(s, p, p - 1)
      <4>1. p + 1 .. p - 1 = {}
        BY <1>8
      <4> QED
        BY <4>1 DEF Rising
    <3>3. Rising(s, p, p - 1)' /\ Rising(s, p, q - 1)' /\ Rising(s, q, r - 1)' /\ Drops(s, p - 1)' = Drops(s, p - 1)
      BY <1>2, <1>9, <2>3, <3>2, SameOrder
    <3>4. ~(p < p) /\ p <= p
      BY <1>8
    <3>5. a0' = Node(k, s, p)
      BY <1>2, <1>7 DEF AtLocate
    <3> HIDE DEF n, s
    <3>6. /\ p <= p /\ p <= q /\ q <= r
          /\ a0' = Node(k, s, p) /\ a1b0' = Node(k, s, q) /\ b1' = Node(k, s, r)
          /\ 2 * runs' <= r - 1 /\ runs' > 0
          /\ \A i \in r .. n : passed'[i] = s[i]
          /\ p > 1 => Cardinality(Drops(s, p - 1)') < runs' - 1
      BY <1>2, <1>9, <1>10, <2>1, <2>3, <2>4, <2>5, <3>1, <3>3, <3>4, <3>5
    <3> QED
      BY <2>8, <3>3, <3>4, <3>6 DEF AtMerge, Merging, n
  <2>10. InMerge(c[l])'
    <3>1. p \in 1 .. n + 1
      BY <1>8
    <3> QED
      BY <1>14, <2>1, <2>4, <2>9, <3>1 DEF InMerge
  <2>11. Facts(c)' /\ Result(c)'
    BY <1>12, <1>13, <2>2, <2>10, Elsewhere DEF Facts
  <2> QED
    BY <1>6, <2>2, <2>7, <2>11, Settled
<1> QED
  BY <1>15, <1>16

(* t is s with its q-th element moved before the p-th.                     *)
Brought(s, t, p, q) ==
  /\ t \in Seq(Elems) /\ Len(t) = Len(s) /\ DOMAIN t = 1 .. Len(s)
  /\ t[p] = s[q]
  /\ \A h \in 1 .. Len(s) : h < p \/ h > q => t[h] = s[h]
  /\ \A h \in p + 1 .. q : t[h] = s[h - 1]

LEMMA ShiftedIs ==
  ASSUME NEW k \in Lists, NEW s \in Seq(Elems), NEW p \in 1 .. Len(s), NEW q \in 1 .. Len(s), p < q
  PROVE  Brought(s, Shifted(k, s, p, q, q + 1), p, q)
<1> DEFINE n == Len(s)
           u == Whole(k, s)
           w == Exchanged(n + 1, u, p, q, q + 1)
           t == Shifted(k, s, p, q, q + 1)
<1>1. /\ n \in Nat /\ p \in 1 .. n + 1 /\ q \in 1 .. n + 1 /\ q + 1 \in 1 .. n + 1 /\ q < q + 1
      /\ p < q /\ ~(q = q + 1 \/ p = q + 1) /\ p \in Int /\ q \in Int
  OBVIOUS
<1>2. Drawn(k, s, w)
  BY <1>1, ExchangedIs
<1>3. t = Inner(n, w)
  BY <1>1 DEF Shifted, Moved
<1>4. /\ t \in Seq(Elems) /\ Len(t) = n /\ DOMAIN t = 1 .. n
      /\ \A h \in 1 .. n : t[h] = w[h]
  <2>1. /\ Inner(Len(s), w) \in Seq(Elems) /\ Len(Inner(Len(s), w)) = Len(s)
        /\ DOMAIN Inner(Len(s), w) = 1 .. Len(s)
        /\ \A h \in 1 .. Len(s) : Inner(Len(s), w)[h] = w[h]
    <3> HIDE DEF w
    <3> QED
      BY <1>2, InnerDrawn
  <2> HIDE DEF t, w
  <2> QED
    BY <1>3, <2>1
<1>5. \A h \in 1 .. n : u[h] = s[h]
  BY NodeIs DEF Whole
<1> HIDE DEF u
<1>6. \A h \in 0 .. n + 1 : w[h] = IF h < p \/ h >= q + 1 THEN u[h]
                                   ELSE IF h < p + ((q + 1) - q) THEN u[h + (q - p)] ELSE u[h - ((q + 1) - q)]
  BY DEF Exchanged
<1> HIDE DEF n, t, w
<1>7. \A h \in 1 .. n : h < p \/ h > q => t[h] = s[h]
  <2>1. \A h \in 1 .. n : h \in 0 .. n + 1 /\ (h > q => h >= q + 1)
    BY <1>1
  <2> QED
    BY <1>4, <1>5, <1>6, <2>1
<1>8. t[p] = s[q]
  <2>1. p \in 0 .. n + 1 /\ p \in 1 .. n /\ q \in 1 .. n /\ ~(p < p \/ p >= q + 1) /\ p < p + ((q + 1) - q) /\ p + (q - p) = q
    BY <1>1 DEF n
  <2> QED
    BY <1>4, <1>5, <1>6, <2>1
<1>9. \A h \in p + 1 .. q : t[h] = s[h - 1]
  <2>1. \A h \in p + 1 .. q : /\ h \in 0 .. n + 1 /\ h \in 1 .. n /\ h - 1 \in 1 .. n /\ ~(h < p \/ h >= q + 1)
                              /\ ~(h < p + ((q + 1) - q)) /\ h - ((q + 1) - q) = h - 1
    BY <1>1 DEF n
  <2> QED
    BY <1>4, <1>5, <1>6, <2>1
<1> QED
  BY <1>4, <1>7, <1>8, <1>9 DEF Brought, n, t

LEMMA Climbs ==
  ASSUME NEW s, NEW i \in Int, NEW j \in Int, Rising(s, i, j), \A h \in i .. j : value[s[h]] \in Int
  PROVE  \A h, m \in i .. j : h <= m => value[s[h]] <= value[s[m]]
<1> SUFFICES ASSUME NEW h \in i .. j PROVE \A m \in i .. j : h <= m => value[s[h]] <= value[s[m]]
  OBVIOUS
<1> DEFINE S == {d \in Nat : h + d <= j => value[s[h]] <= value[s[h + d]]}
<1>1. 0 \in S
  <2>1. h + 0 = h /\ value[s[h]] \in Int
    OBVIOUS
  <2> QED
    BY <2>1
<1>2. ASSUME NEW d \in Nat, d \in S PROVE d + 1 \in S
  <2> SUFFICES ASSUME h + (d + 1) <= j PROVE value[s[h]] <= value[s[h + (d + 1)]]
    <3>1. d + 1 \in Nat
      OBVIOUS
    <3> QED
      BY <3>1, Zenon
  <2>1. h + d <= j /\ h + (d + 1) \in i + 1 .. j /\ (h + (d + 1)) - 1 = h + d /\ h + d \in i .. j /\ h + (d + 1) \in i .. j
    OBVIOUS
  <2>2. ~less(s[h + (d + 1)], s[h + d])
    BY <2>1 DEF Rising
  <2>3. value[s[h]] <= value[s[h + d]]
    BY <1>2, <2>1
  <2>4. value[s[h]] \in Int /\ value[s[h + d]] \in Int /\ value[s[h + (d + 1)]] \in Int
    BY <2>1
  <2> QED
    BY <2>2, <2>3, <2>4 DEF less
<1>3. \A d \in Nat : d \in S
  <2> HIDE DEF S
  <2> QED
    BY <1>1, <1>2, SetInduction
<1> SUFFICES ASSUME NEW m \in i .. j, h <= m PROVE value[s[h]] <= value[s[m]]
  OBVIOUS
<1>4. m - h \in Nat /\ h + (m - h) = m /\ h + (m - h) <= j
  OBVIOUS
<1>5. m - h \in S
  BY <1>3, <1>4
<1> QED
  BY <1>4, <1>5

(* Moving an element before different ones does not change the order of    *)
(* equal ones.                                                             *)
LEMMA StableBrought ==
  ASSUME NEW o, NEW s \in Seq(Elems), NEW t, NEW p \in 1 .. Len(s), NEW q \in 1 .. Len(s), p < q,
         Brought(s, t, p, q), StableArrangement(o, s), \A h \in p .. q - 1 : value[s[h]] # value[s[q]]
  PROVE  StableArrangement(o, t)
<1> DEFINE n == Len(s)
           to(h) == IF h < p \/ h > q THEN h ELSE IF h = q THEN p ELSE h + 1
           of(h) == IF h < p \/ h > q THEN h ELSE IF h = p THEN q ELSE h - 1
<1>1. /\ n \in Nat /\ DOMAIN s = 1 .. n /\ DOMAIN t = 1 .. n /\ Len(t) = n /\ t[p] = s[q]
      /\ \A h \in 1 .. n : h < p \/ h > q => t[h] = s[h]
      /\ \A h \in p + 1 .. q : t[h] = s[h - 1]
      /\ p \in 1 .. n /\ q \in 1 .. n
  BY DEF Brought
<1> HIDE DEF n
<1>2. ASSUME NEW h \in 1 .. n PROVE to(h) \in 1 .. n /\ t[to(h)] = s[h]
  <2>1. to(h) \in 1 .. n
    BY <1>1
  <2>2. CASE h < p \/ h > q
    BY <1>1, <2>2
  <2>3. CASE h = q
    BY <1>1, <2>3
  <2>4. CASE ~(h < p \/ h > q) /\ h # q
    <3>1. to(h) = h + 1 /\ h + 1 \in p + 1 .. q /\ (h + 1) - 1 = h
      BY <1>1, <2>4
    <3> QED
      BY <1>1, <2>1, <3>1
  <2> QED
    BY <2>1, <2>2, <2>3, <2>4
<1>3. ASSUME NEW h \in 1 .. n PROVE of(h) \in 1 .. n /\ t[h] = s[of(h)]
  <2>1. of(h) \in 1 .. n
    BY <1>1
  <2>2. CASE h < p \/ h > q
    BY <1>1, <2>2
  <2>3. CASE h = p
    BY <1>1, <2>3
  <2>4. CASE ~(h < p \/ h > q) /\ h # p
    <3>1. of(h) = h - 1 /\ h \in p + 1 .. q
      BY <1>1, <2>4
    <3> QED
      BY <1>1, <2>1, <3>1
  <2> QED
    BY <2>1, <2>2, <2>3, <2>4
<1>4. ASSUME NEW i \in 1 .. n, NEW j \in 1 .. n, i < j
      PROVE  /\ to(i) < to(j) \/ (i \in p .. q - 1 /\ j = q)
             /\ of(i) < of(j) \/ (of(j) \in p .. q - 1 /\ of(i) = q)
  BY <1>1, <1>4
<1> HIDE DEF to, of
<1>5. ASSUME NEW x, NEW y, value[x] = value[y]
      PROVE  Before(s, x, y) <=> Before(t, x, y)
  <2>1. ASSUME Before(s, x, y) PROVE Before(t, x, y)
    <3>1. PICK i, j \in 1 .. n : i < j /\ s[i] = x /\ s[j] = y
      BY <1>1, <2>1 DEF Before
    <3>2. to(i) < to(j)
      BY <1>4, <1>5, <3>1
    <3>3. to(i) \in DOMAIN t /\ to(j) \in DOMAIN t /\ t[to(i)] = x /\ t[to(j)] = y
      BY <1>1, <1>2, <3>1
    <3> QED
      BY <3>2, <3>3, Zenon DEF Before
  <2>2. ASSUME Before(t, x, y) PROVE Before(s, x, y)
    <3>1. PICK i, j \in 1 .. n : i < j /\ t[i] = x /\ t[j] = y
      BY <1>1, <2>2 DEF Before
    <3>2. s[of(i)] = x /\ s[of(j)] = y
      BY <1>3, <3>1
    <3>3. of(i) < of(j)
      BY <1>4, <1>5, <3>1, <3>2
    <3> QED
      BY <1>1, <1>3, <3>2, <3>3 DEF Before
  <2> QED
    BY <2>1, <2>2
<1>6. \A x : (\E i \in DOMAIN s : s[i] = x) => \E i \in DOMAIN t : t[i] = x
  BY <1>1, <1>2
<1>7. Len(o) = Len(s) /\ Len(t) = Len(s)
  BY DEF StableArrangement, Brought
<1>8. ASSUME NEW x \in {o[i] : i \in DOMAIN o}, NEW y \in {o[i] : i \in DOMAIN o}
      PROVE  /\ \E i \in DOMAIN t : t[i] = x
             /\ value[x] = value[y] => (Before(o, x, y) <=> Before(t, x, y))
  <2>1. /\ \E i \in DOMAIN s : s[i] = x
        /\ value[x] = value[y] => (Before(o, x, y) <=> Before(s, x, y))
    BY Zenon DEF StableArrangement
  <2> QED
    BY <1>5, <1>6, <2>1
<1> QED
  BY <1>7, <1>8, Zenon DEF StableArrangement

LEMMA JoinRising ==
  ASSUME NEW s, NEW i \in Int, NEW j \in Int, NEW m \in Int, i <= j + 1, Rising(s, i, j), Rising(s, j + 1, m),
         i <= j /\ j + 1 <= m => ~less(s[j + 1], s[j])
  PROVE  Rising(s, i, m)
<1> SUFFICES ASSUME NEW h \in i + 1 .. m PROVE ~less(s[h], s[h - 1])
  BY DEF Rising
<1>1. CASE h <= j
  <2>1. h \in i + 1 .. j
    BY <1>1
  <2> QED
    BY <2>1 DEF Rising
<1>2. CASE h = j + 1
  <2>1. i <= j /\ j + 1 <= m /\ h - 1 = j
    BY <1>2
  <2> QED
    BY <1>2, <2>1
<1>3. CASE h > j + 1
  <2>1. h \in (j + 1) + 1 .. m
    BY <1>3
  <2> QED
    BY <2>1 DEF Rising
<1> QED
  BY <1>1, <1>2, <1>3

LEMMA PartRising ==
  ASSUME NEW s, NEW i \in Int, NEW j \in Int, NEW h \in Int, NEW m \in Int, i <= h, m <= j, Rising(s, i, j)
  PROVE  Rising(s, h, m)
<1>1. h + 1 .. m \subseteq i + 1 .. j
  OBVIOUS
<1> QED
  BY <1>1 DEF Rising

(* What the three steps of a merge do to s.                                *)
LEMMA MergeEnds ==
  ASSUME NEW s, NEW st \in Nat \ {0}, NEW p \in Nat, NEW q \in Nat, NEW r \in Nat, runs \in Nat \ {0},
         st <= p, p <= q, q <= r, Merging(s, st, p, q, r), p = q \/ q = r
  PROVE  Cardinality(Drops(s, r - 1)) < runs
<1>1. Rising(s, st, r - 1)
  <2>1. CASE p = q
    <3>1. Rising(s, st, p - 1) /\ Rising(s, (p - 1) + 1, r - 1) /\ st <= (p - 1) + 1
      <4>1. (p - 1) + 1 = q
        BY <2>1
      <4> QED
        BY <4>1 DEF Merging
    <3>2. st <= p - 1 /\ (p - 1) + 1 <= r - 1 => ~less(s[(p - 1) + 1], s[p - 1])
      <4>1. (p - 1) + 1 = q /\ (st <= p - 1 => st < p) /\ (q <= r - 1 => q < r)
        BY <2>1
      <4> QED
        BY <4>1 DEF Merging
    <3> QED
      BY <3>1, <3>2, JoinRising
  <2>2. CASE q = r
    <3>1. Rising(s, st, p - 1) /\ Rising(s, (p - 1) + 1, r - 1) /\ st <= (p - 1) + 1
      <4>1. (p - 1) + 1 = p
        OBVIOUS
      <4> QED
        BY <2>2, <4>1 DEF Merging
    <3>2. st <= p - 1 /\ (p - 1) + 1 <= r - 1 => ~less(s[(p - 1) + 1], s[p - 1])
      <4>1. (p - 1) + 1 = p /\ (st <= p - 1 => st < p) /\ (p <= r - 1 => p < q)
        BY <2>2
      <4> QED
        BY <4>1 DEF Merging
    <3> QED
      BY <3>1, <3>2, JoinRising
  <2> QED
    BY <2>1, <2>2
<1> QED
  BY <1>1, FewDrops DEF Merging

LEMMA MergeKeeps ==
  ASSUME NEW s, NEW st \in Nat \ {0}, NEW p \in Nat, NEW q \in Nat, NEW r \in Nat,
         st <= p, p < q, q < r, Merging(s, st, p, q, r), ~less(s[q], s[p])
  PROVE  Merging(s, st, p + 1, q, r)
<1>1. Rising(s, st, (p + 1) - 1)
  <2>1. (p - 1) + 1 = p /\ (p + 1) - 1 = p /\ (st <= p - 1 => st < p) /\ st <= (p - 1) + 1
    OBVIOUS
  <2>2. p + 1 .. p = {}
    OBVIOUS
  <2>3. Rising(s, p, p)
    BY <2>2 DEF Rising
  <2> QED
    BY <2>1, <2>3, JoinRising DEF Merging
<1>2. Rising(s, p + 1, q - 1)
  BY PartRising DEF Merging
<1>3. st < p + 1 /\ p + 1 < q => ~less(s[p + 1], s[(p + 1) - 1])
  <2>1. p + 1 < q => p + 1 \in p + 1 .. q - 1
    OBVIOUS
  <2> QED
    BY <2>1 DEF Merging, Rising
<1>4. st < p + 1 /\ q < r => ~less(s[q], s[(p + 1) - 1])
  <2>1. (p + 1) - 1 = p
    OBVIOUS
  <2> QED
    BY <2>1
<1> QED
  BY <1>1, <1>2, <1>3, <1>4 DEF Merging

LEMMA MergeBrings ==
  ASSUME NEW s \in Seq(Elems), NEW st \in Nat \ {0}, NEW p \in 1 .. Len(s), NEW q \in 1 .. Len(s),
         NEW r \in 1 .. Len(s) + 1, value \in [Elems -> Ranks],
         st <= p, p < q, q < r, Merging(s, st, p, q, r), less(s[q], s[p]), NEW t, Brought(s, t, p, q)
  PROVE  Merging(t, st, p + 1, q + 1, r)
<1> DEFINE n == Len(s)
<1>1. /\ n \in Nat /\ p \in 1 .. n /\ q \in 1 .. n /\ r \in 1 .. n + 1
      /\ t[p] = s[q]
      /\ \A h \in 1 .. n : h < p \/ h > q => t[h] = s[h]
      /\ \A h \in p + 1 .. q : t[h] = s[h - 1]
  <2>1. n \in Nat /\ p \in 1 .. n /\ q \in 1 .. n /\ r \in 1 .. n + 1
    OBVIOUS
  <2> QED
    BY <2>1, Zenon DEF Brought
<1>2. \A h \in 1 .. n : value[s[h]] \in Int
  BY DEF Ranks
<1> HIDE DEF n
<1>3. Drops(t, st - 1) = Drops(s, st - 1)
  <2>1. \A i \in 1 .. (st - 1) - 1 : i \in 1 .. n /\ i < p /\ i + 1 \in 1 .. n /\ i + 1 < p
    BY <1>1
  <2>2. \A i \in 1 .. (st - 1) - 1 : t[i] = s[i] /\ t[i + 1] = s[i + 1]
    BY <1>1, <2>1
  <2> QED
    BY <2>2 DEF Drops, less
<1>4. Rising(t, st, (p + 1) - 1)
  <2> SUFFICES ASSUME NEW h \in st + 1 .. (p + 1) - 1 PROVE ~less(t[h], t[h - 1])
    BY DEF Rising
  <2>1. h \in 1 .. n /\ h - 1 \in 1 .. n /\ h - 1 < p /\ (h = p \/ (h < p /\ h \in st + 1 .. p - 1)) /\ st < p
    BY <1>1
  <2>2. CASE h = p
    <3>1. ~less(s[q], s[p - 1])
      BY <2>1 DEF Merging
    <3> QED
      BY <1>1, <2>1, <2>2, <3>1
  <2>3. CASE h < p
    <3>1. ~less(s[h], s[h - 1])
      BY <2>1, <2>3 DEF Merging, Rising
    <3> QED
      BY <1>1, <2>1, <2>3, <3>1
  <2> QED
    BY <2>1, <2>2, <2>3
<1>5. Rising(t, p + 1, (q + 1) - 1)
  <2> SUFFICES ASSUME NEW h \in (p + 1) + 1 .. (q + 1) - 1 PROVE ~less(t[h], t[h - 1])
    BY DEF Rising
  <2>1. h \in p + 1 .. q /\ h - 1 \in p + 1 .. q /\ h - 1 \in p + 1 .. q - 1
    BY <1>1
  <2>2. ~less(s[h - 1], s[(h - 1) - 1])
    BY <2>1 DEF Merging, Rising
  <2> QED
    BY <1>1, <2>1, <2>2
<1>6. Rising(t, q + 1, r - 1)
  <2> SUFFICES ASSUME NEW h \in (q + 1) + 1 .. r - 1 PROVE ~less(t[h], t[h - 1])
    BY DEF Rising
  <2>1. h \in 1 .. n /\ h - 1 \in 1 .. n /\ h > q /\ h - 1 > q /\ h \in q + 1 .. r - 1
    BY <1>1
  <2>2. ~less(s[h], s[h - 1])
    BY <2>1 DEF Merging, Rising
  <2> QED
    BY <1>1, <2>1, <2>2
<1>7. ~less(t[p + 1], t[(p + 1) - 1])
  <2>1. p + 1 \in p + 1 .. q /\ (p + 1) - 1 = p
    BY <1>1
  <2>2. t[p + 1] = s[p] /\ t[p] = s[q]
    BY <1>1, <2>1
  <2>3. value[s[p]] \in Int /\ value[s[q]] \in Int
    BY <1>1, <1>2
  <2> QED
    BY <2>1, <2>2, <2>3 DEF less
<1>8. q + 1 < r => ~less(t[q + 1], t[(p + 1) - 1])
  <2>1. q + 1 < r => q + 1 \in 1 .. n /\ q + 1 > q /\ q + 1 \in q + 1 .. r - 1 /\ (q + 1) - 1 = q /\ (p + 1) - 1 = p
    BY <1>1
  <2>2. q + 1 < r => ~less(s[q + 1], s[q])
    BY <2>1 DEF Merging, Rising
  <2> QED
    BY <1>1, <2>1, <2>2
<1>9. st > 1 => Cardinality(Drops(t, st - 1)) < runs - 1
  BY <1>3 DEF Merging
<1> QED
  BY <1>4, <1>5, <1>6, <1>7, <1>8, <1>9 DEF Merging

LEMMA MergingThen ==
  ASSUME UNCHANGED <<value, runs>>, NEW s, NEW st, NEW p, NEW q, NEW r
  PROVE  Merging(s, st, p, q, r)' <=> Merging(s, st, p, q, r)
<1>1. /\ \A x, y : less(x, y)' <=> less(x, y)
      /\ \A u, m : Drops(u, m)' = Drops(u, m)
      /\ \A u, i, j : Rising(u, i, j)' <=> Rising(u, i, j)
  BY SameOrder
<1> QED
  BY <1>1, Zenon DEF Merging

LEMMA MergeStep ==
  ASSUME IInv, inplace_merge
  PROVE  IInv'
<1>1. PICK c : Known(c)
  BY Knowing
<1>2. /\ pc = "merge"
      /\ IF a0 # a1b0 /\ a1b0 # b1
         THEN IF ~less(a1b0, a0)
              THEN a0' = next[a0] /\ UNCHANGED <<links, pc, a1b0>>
              ELSE /\ a1b0' = next[a1b0]
                   /\ splice(a0, prev[next[a1b0]], next[a1b0])
                   /\ UNCHANGED <<pc, a0>>
         ELSE pc' = "locate" /\ a0' = b1 /\ UNCHANGED <<links, a1b0>>
      /\ UNCHANGED <<value, l, b1, runs, passed, elem, best, dups, was>>
  BY DEF inplace_merge
<1>3. /\ l \in Lists /\ was \in [Lists -> Seq(Elems)] /\ TypeOK /\ Facts(c)
      /\ c[l] \in Seq(Elems) /\ Len(c[l]) \in Nat /\ Laid(c) /\ Contents(l) = c[l]
  BY <1>1, <1>2, Running
<1>4. PICK k \in Lists : k = l
  BY <1>3
<1> DEFINE s == c[k]
           n == Len(s)
<1>5. /\ s \in Seq(Elems) /\ n \in Nat /\ Node(k, s, n + 1) = tail(k) /\ \A i \in 0 .. n + 1 : Node(k, s, i) \in Nodes
      /\ \A i \in 1 .. n : Node(k, s, i) = s[i] /\ s[i] \in Elems
      /\ \A i, j \in 1 .. n + 1 : Node(k, s, i) = Node(k, s, j) => i = j
  BY <1>3, <1>4, NodeIs, NodeOnce
<1>6. PICK st, p, q, r \in 1 .. n + 1 : AtMerge(k, s, st, p, q, r)
  BY <1>2, <1>3, <1>4 DEF Facts, InMerge
<1>7. /\ st <= p /\ p <= q /\ q <= r
      /\ a0 = Node(k, s, p) /\ a1b0 = Node(k, s, q) /\ b1 = Node(k, s, r)
      /\ Counted(n, r) /\ 2 * runs <= r - 1 /\ runs > 0 /\ runs \in Nat
      /\ \A i \in r .. n : passed[i] = s[i]
      /\ Merging(s, st, p, q, r)
  BY <1>6 DEF AtMerge, Counted
<1>8. /\ Counted(n, r)'
      /\ l' = k /\ runs' = runs /\ passed' = passed /\ value' = value /\ b1' = b1
  <2>1. /\ passed \in Seq(Elems) /\ Len(passed) = n /\ runs' \in Nat
        /\ IF r > n THEN 2 * runs' <= Cardinality(Drops(passed, n)) + 2
                    ELSE 2 * runs' <= Cardinality(Drops(passed, r))
    BY <1>2, <1>7, Zenon DEF Counted
  <2> HIDE DEF n, s
  <2> QED
    BY <1>2, <1>4, <2>1, CountedThen
<1>9. Called(c)'
  BY <1>2, <1>3 DEF Called
<1>10. /\ {elem, best} \subseteq Nodes \cup {NULL} /\ dups \in Lists \cup {NULL} /\ value \in [Elems -> Ranks]
       /\ runs \in 0 .. (Cardinality(Elems) + 1) \div 2
       /\ {Node(k, s, p), Node(k, s, q), Node(k, s, r)} \subseteq Nodes
       /\ st \in Nat \ {0} /\ p \in Nat /\ q \in Nat /\ r \in Nat /\ runs \in Nat \ {0}
  <2>1. p \in 0 .. n + 1 /\ q \in 0 .. n + 1 /\ r \in 0 .. n + 1 /\ runs \in Nat \ {0}
    BY <1>7
  <2>2. {Node(k, s, p), Node(k, s, q), Node(k, s, r)} \subseteq Nodes
    BY <1>5, <2>1
  <2>3. st \in Nat \ {0} /\ p \in Nat /\ q \in Nat /\ r \in Nat
    BY <1>5
  <2>4. /\ {elem, best} \subseteq Nodes \cup {NULL} /\ dups \in Lists \cup {NULL} /\ value \in [Elems -> Ranks]
        /\ runs \in 0 .. (Cardinality(Elems) + 1) \div 2
    BY <1>3 DEF TypeOK
  <2> QED
    BY <2>1, <2>2, <2>3, <2>4
<1>11. CASE p = q \/ q = r
  <2>1. pc' = "locate" /\ a0' = b1 /\ UNCHANGED links /\ a1b0' = a1b0
    BY <1>2, <1>7, <1>11
  <2>2. Laid(c)' /\ next' \in [Nodes -> Nodes \cup {NULL}] /\ prev' \in [Nodes -> Nodes \cup {NULL}]
    BY <1>1, <1>2, <2>1, LaidStill
  <2>3. TypeOK'
    BY <1>2, <1>3, <1>7, <1>10, <2>1, <2>2 DEF TypeOK, PCs
  <2>4. Cardinality(Drops(s, r - 1)) < runs
    <3> HIDE DEF n, s
    <3> QED
      BY <1>7, <1>10, <1>11, MergeEnds
  <2>5. AtLocate(k, s, r)'
    <3>1. Drops(s, r - 1)' = Drops(s, r - 1)
      BY <1>8, SameOrder
    <3> QED
      BY <1>7, <1>8, <2>1, <2>4, <3>1 DEF AtLocate
  <2>6. InLocate(c[l])'
    BY <1>8, <2>5 DEF InLocate
  <2>7. InSort(c)'
    BY <1>2, <1>3, SortStill
  <2>8. Facts(c)' /\ Result(c)'
    BY <1>9, <2>1, <2>6, <2>7, Elsewhere DEF Facts
  <2> QED
    BY <2>1, <2>2, <2>3, <2>8, Settled
<1>12. CASE p # q /\ q # r
  <2>1. /\ p < q /\ q < r /\ p \in 1 .. n /\ q \in 1 .. n /\ q + 1 \in 1 .. n + 1 /\ p + 1 \in 1 .. n + 1
        /\ p + 1 <= q /\ q + 1 <= r /\ p \in 1 .. Len(c[k]) /\ (p + 1) - 1 = p /\ (q + 1) - 1 = q
        /\ p + 1 \in 0 .. n + 1 /\ q + 1 \in 0 .. n + 1 /\ st <= p + 1 /\ p + 1 <= q + 1
    BY <1>5, <1>7, <1>12
  <2>2. a0 = s[p] /\ a1b0 = s[q] /\ a0 # a1b0 /\ a1b0 # b1
    BY <1>5, <1>7, <1>12, <2>1
  <2>3. /\ next[Node(k, s, p)] = Node(k, s, p + 1) /\ next[Node(k, s, q)] = Node(k, s, q + 1)
        /\ prev[Node(k, s, q + 1)] = Node(k, s, q)
    <3>1. p + 1 \in 1 .. Len(c[k]) + 1 /\ q + 1 \in 1 .. Len(c[k]) + 1
      BY <2>1
    <3>2. /\ next[Node(k, c[k], (p + 1) - 1)] = Node(k, c[k], p + 1)
          /\ next[Node(k, c[k], (q + 1) - 1)] = Node(k, c[k], q + 1)
          /\ prev[Node(k, c[k], q + 1)] = Node(k, c[k], (q + 1) - 1)
      BY <1>3, <3>1, PrevIs
    <3> QED
      BY <2>1, <3>2
  <2>4. CASE ~less(a1b0, a0)
    <3>1. a0' = Node(k, s, p + 1) /\ UNCHANGED links /\ pc' = "merge" /\ a1b0' = a1b0
      BY <1>2, <1>7, <2>2, <2>3, <2>4
    <3>2. Laid(c)' /\ next' \in [Nodes -> Nodes \cup {NULL}] /\ prev' \in [Nodes -> Nodes \cup {NULL}]
      BY <1>1, <1>2, <3>1, LaidStill
    <3>3. TypeOK'
      BY <1>2, <1>3, <1>5, <1>7, <1>10, <2>1, <3>1, <3>2 DEF TypeOK, PCs
    <3>4. Merging(s, st, p + 1, q, r)'
      <4>1. ~less(s[q], s[p])
        BY <2>2, <2>4
      <4> HIDE DEF n, s
      <4>2. Merging(s, st, p + 1, q, r)
        BY <1>7, <1>10, <2>1, <4>1, MergeKeeps
      <4> QED
        BY <1>8, <4>2, MergingThen
    <3>5. AtMerge(k, s, st, p + 1, q, r)'
      BY <1>7, <1>8, <2>1, <3>1, <3>4 DEF AtMerge
    <3>6. InMerge(c[l])'
      BY <1>8, <2>1, <3>5 DEF InMerge
    <3>7. InSort(c)'
      BY <1>2, <1>3, SortStill
    <3>8. Facts(c)' /\ Result(c)'
      BY <1>9, <3>1, <3>6, <3>7, Elsewhere DEF Facts
    <3> QED
      BY <3>1, <3>2, <3>3, <3>8, Settled
  <2>5. CASE less(a1b0, a0)
    <3> DEFINE t == Shifted(k, s, p, q, q + 1)
               d == [c EXCEPT ![k] = t]
    <3>1. /\ a1b0' = Node(k, s, q + 1) /\ splice(Node(k, s, p), Node(k, s, q), Node(k, s, q + 1))
          /\ pc' = "merge" /\ a0' = a0
      BY <1>2, <1>7, <2>2, <2>3, <2>5
    <3>2. IsLinked /\ next' \in [Nodes -> Nodes \cup {NULL}] /\ prev' \in [Nodes -> Nodes \cup {NULL}]
      <4>1. prev[Node(k, s, q + 1)] \in Nodes /\ Node(k, s, q + 1) \in Nodes
        BY <1>5, <1>10, <2>1, <2>3
      <4> QED
        BY <1>3, <1>10, <3>1, <4>1, StillLinked, StillSpliced
    <3>3. Laid(d)'
      <4>1. q + 1 \in q .. n + 1 /\ p \notin q .. (q + 1) - 1
        BY <1>5, <2>1
      <4> QED
        BY <1>3, <2>1, <3>1, <3>2, <4>1, SpliceLaid
    <3>4. Brought(s, t, p, q)
      BY <1>5, <2>1, ShiftedIs
    <3>5. /\ t \in Seq(Elems) /\ Len(t) = n /\ t[p + 1] = s[p]
          /\ \A h \in 1 .. n : h > q => t[h] = s[h]
      <4>1. p + 1 \in p + 1 .. q
        BY <2>1
      <4> QED
        BY <2>1, <3>4, <4>1 DEF Brought
    <3>6. \A h \in 1 .. n + 1 : h > q => Node(k, t, h) = Node(k, s, h)
      BY <1>5, <3>5 DEF Node
    <3>7. d[k] = t /\ d \in [Lists -> Seq(Elems)]
      <4>1. c \in [Lists -> Seq(Elems)]
        BY <1>3 DEF Laid, Arranged
      <4> HIDE DEF t
      <4> QED
        BY <3>5, <4>1
    <3> HIDE DEF t, d
    <3>8. TypeOK'
      <4>1. a0' \in Nodes /\ a1b0' \in Nodes /\ b1' \in Nodes
        BY <1>5, <1>7, <1>8, <1>10, <2>1, <3>1
      <4> QED
        BY <1>2, <1>3, <1>10, <3>1, <3>2, <4>1 DEF TypeOK, PCs
    <3>9. less(s[q], s[p])
      BY <2>2, <2>5
    <3>10. AtMerge(k, t, st, p + 1, q + 1, r)'
      <4>1. a0' = Node(k, t, p + 1)
        <5>1. p + 1 \in 1 .. n
          BY <2>1
        <5>2. Node(k, t, p + 1) = t[p + 1]
          BY <3>5, <5>1, NodeIs
        <5> QED
          BY <2>2, <3>1, <3>5, <5>2
      <4>2. a1b0' = Node(k, t, q + 1) /\ b1' = Node(k, t, r)
        BY <1>7, <1>8, <2>1, <3>1, <3>6
      <4>3. Merging(t, st, p + 1, q + 1, r)'
        <5>1. Merging(t, st, p + 1, q + 1, r)
          BY <1>5, <1>7, <1>10, <2>1, <3>4, <3>9, MergeBrings
        <5> QED
          BY <1>8, <5>1, MergingThen
      <4>4. \A i \in r .. n : passed[i] = t[i]
        <5>1. \A i \in r .. n : i \in 1 .. n /\ i > q
          BY <1>5, <2>1
        <5> QED
          BY <1>7, <3>5, <5>1
      <4> QED
        BY <1>7, <1>8, <2>1, <3>5, <4>1, <4>2, <4>3, <4>4 DEF AtMerge
    <3>11. InMerge(d[l])'
      BY <1>8, <2>1, <3>5, <3>7, <3>10 DEF InMerge
    <3>12. InSort(d)'
      <4>1. PICK o : o = was[k]
        OBVIOUS
      <4>2. StableArrangement(o, s)
        BY <1>2, <1>3, <1>4, <4>1 DEF Facts, InSort
      <4>3. \A h \in p .. q - 1 : value[s[h]] # value[s[q]]
        <5>1. \A h \in 1 .. n : value[s[h]] \in Int
          BY <1>5, <1>10 DEF Ranks
        <5>2. \A h \in p .. q - 1 : h \in 1 .. n
          BY <2>1
        <5>3. Rising(s, p, q - 1) /\ p \in p .. q - 1 /\ q - 1 \in Int /\ p \in Int
          BY <1>7, <2>1 DEF Merging
        <5> HIDE DEF n, s
        <5>6. \A h \in p .. q - 1 : value[s[h]] \in Int
          BY <5>1, <5>2
        <5>7. \A h, m \in p .. q - 1 : h <= m => value[s[h]] <= value[s[m]]
          BY <5>3, <5>6, Climbs
        <5>4. \A h \in p .. q - 1 : value[s[p]] <= value[s[h]]
          BY <5>3, <5>7
        <5>5. value[s[q]] < value[s[p]]
          BY <3>9 DEF less
        <5> QED
          BY <2>1, <5>1, <5>2, <5>4, <5>5
      <4>4. StableArrangement(o, t)
        BY <1>5, <2>1, <3>4, <4>2, <4>3, StableBrought
      <4>5. StableArrangement(o, t)'
        BY <1>8, <4>4, SameOrder
      <4>6. was'[l'] = o /\ d[l'] = t
        BY <1>2, <1>8, <3>7, <4>1
      <4> QED
        BY <4>5, <4>6 DEF InSort
    <3>13. Called(d)'
      BY <1>2, <1>3, <1>4, <3>1 DEF Called
    <3>14. Facts(d)' /\ Result(d)'
      BY <3>1, <3>11, <3>12, <3>13, Elsewhere DEF Facts
    <3> QED
      BY <3>1, <3>3, <3>8, <3>14, Settled
  <2> QED
    BY <2>4, <2>5
<1> QED
  BY <1>11, <1>12

LEMMA EndPassStep ==
  ASSUME IInv, EndPass
  PROVE  IInv'
<1>1. PICK c : Known(c)
  BY Knowing
<1>2. /\ pc = "end of pass" \/ (pc = "locate" /\ a0 = list_end(l))
      /\ pc' = IF runs > 1 THEN "pass" ELSE "sorted"
      /\ UNCHANGED <<value, links, l, locals, was>>
  BY DEF EndPass
<1>3. /\ l \in Lists /\ was \in [Lists -> Seq(Elems)] /\ TypeOK /\ Facts(c) /\ pc # "reverse"
      /\ c[l] \in Seq(Elems) /\ Len(c[l]) \in Nat /\ Laid(c) /\ Contents(l) = c[l]
  BY <1>1, <1>2, Running
<1>4. PICK k \in Lists : k = l
  BY <1>3
<1> DEFINE s == c[k]
           n == Len(s)
<1>5. Laid(c)' /\ next' \in [Nodes -> Nodes \cup {NULL}] /\ prev' \in [Nodes -> Nodes \cup {NULL}]
  BY <1>1, <1>2, <1>3, LaidStill
<1>6. TypeOK'
  BY <1>2, <1>3, <1>5 DEF TypeOK, PCs, locals, sorting
<1>7. InSort(c)' /\ Called(c)' /\ l' = k
  BY <1>2, <1>3, <1>4, SortStill DEF Called
<1>8. pc' = "sorted" => Rising(c[l], 1, Len(c[l]))'
  <2> SUFFICES ASSUME ~(runs > 1) PROVE Rising(s, 1, n)
    <3>1. Rising(s, 1, n) => Rising(s, 1, n)'
      BY <1>2, SameOrder
    <3> QED
      BY <1>2, <1>7, <3>1
  <2>1. n \in Nat /\ runs \in Nat /\ s \in Seq(Elems)
    BY <1>3, <1>4 DEF TypeOK
  <2>2. n = 0 \/ Cardinality(Drops(s, n)) < runs
    <3>1. CASE pc = "end of pass"
      BY <1>3, <1>4, <3>1 DEF Facts, InEndOfPass
    <3>2. CASE pc = "locate" /\ a0 = tail(k)
      <4>1. PICK p \in 1 .. n + 1 : AtLocate(k, s, p)
        BY <1>3, <1>4, <3>2 DEF Facts, InLocate
      <4>2. Node(k, s, p) = Node(k, s, n + 1) /\ n + 1 \in 1 .. n + 1
        <5>1. a0 = Node(k, s, p)
          BY <4>1, Zenon DEF AtLocate
        <5>2. Node(k, s, n + 1) = tail(k)
          BY <2>1, NodeIs
        <5> QED
          BY <2>1, <3>2, <5>1, <5>2
      <4>3. p = n + 1
        BY <1>3, <4>2, NodeOnce
      <4>4. n # 0 => p > 1 /\ p - 1 = n
        BY <2>1, <4>3
      <4> QED
        BY <4>1, <4>4 DEF AtLocate
    <3> QED
      BY <1>2, <1>4, <3>1, <3>2 DEF list_end
  <2>3. CASE n = 0
    <3>1. 1 + 1 .. n = {}
      BY <2>3
    <3> QED
      BY <3>1 DEF Rising
  <2>4. CASE Cardinality(Drops(s, n)) < runs
    <3>1. IsFiniteSet(Drops(s, n)) /\ Cardinality(Drops(s, n)) \in Nat
      BY <2>1, DropsFinite
    <3>2. Cardinality(Drops(s, n)) = 0
      BY <2>1, <2>4, <3>1
    <3>3. Drops(s, n) = {}
      BY <3>1, <3>2, FS_EmptySet
    <3> HIDE DEF s, n
    <3> SUFFICES ASSUME NEW h \in 1 + 1 .. n PROVE ~less(s[h], s[h - 1])
      BY DEF Rising
    <3>4. h - 1 \in 1 .. n - 1 /\ (h - 1) + 1 = h
      BY <2>1
    <3> QED
      BY <3>3, <3>4 DEF Drops
  <2> QED
    BY <2>2, <2>3, <2>4
<1>9. Facts(c)' /\ Result(c)'
  BY <1>2, <1>7, <1>8, Elsewhere DEF Facts
<1>10. pc' # "reverse"
  BY <1>2
<1> QED
  BY <1>5, <1>6, <1>9, <1>10, Settled
-----------------------------------------------------------------------------
(* list_reverse.  Until it returns its list is HalfTurned, and LaidOut     *)
(* speaks of the others.                                                   *)
LEMMA Turning ==
  ASSUME NEW c, pc' = "reverse", was' = c, Arranged(c), \A m \in Lists : m # l' => Linked(m, c[m])',
         Facts(c)', TypeOK'
  PROVE  IInv'
<1>1. Lay' = c
  <2>1. Lay' = [m \in Lists |-> c[m]]
    BY DEF Lay
  <2> QED
    BY <2>1 DEF Arranged
<1>2. LaidOut(c)'
  BY DEF LaidOut, Arranged
<1>3. ResultOK'
  BY DEF ResultOK
<1> QED
  BY <1>1, <1>2, <1>3 DEF IInv

LEMMA ReverseCallStep ==
  ASSUME IInv, NEW k \in Lists, list_reverse(k)
  PROVE  IInv'
<1>1. PICK c : Known(c)
  BY Knowing
<1> DEFINE s == c[k]
           n == Len(s)
           to == IF list_empty(k) THEN "reversed" ELSE "reverse"
<1>2. Call(k, to) /\ elem' = list_begin(k) /\ UNCHANGED <<best, dups>> /\ to # "idle"
  BY DEF list_reverse
<1>3. /\ pc' = to /\ l' = k /\ was' = c /\ Laid(c) /\ Laid(c)' /\ Called(c)' /\ s \in Seq(Elems)
      /\ UNCHANGED <<next, prev>>
      /\ (to \in PCs /\ {elem', best'} \subseteq Nodes \cup {NULL} /\ dups' \in Lists \cup {NULL}
           /\ (to \in {"reverse", "search", "unique", "max", "min"} => elem' # NULL)) => TypeOK'
  <2> HIDE DEF to
  <2> QED
    BY <1>1, <1>2, Calling
<1>4. elem' = Node(k, s, 1) /\ elem' \in Nodes /\ elem' # NULL /\ n \in Nat /\ (list_empty(k) <=> n = 0)
      /\ 1 \in 1 .. n + 1
  BY <1>2, <1>3, BeginIs
<1>5. TypeOK'
  <2>1. {elem', best'} \subseteq Nodes \cup {NULL} /\ dups' \in Lists \cup {NULL} /\ to \in PCs
    BY <1>2, <1>4 DEF IInv, TypeOK, PCs
  <2> QED
    BY <1>3, <1>4, <2>1
<1>6. CASE n = 0
  <2>1. pc' = "reversed"
    BY <1>3, <1>4, <1>6
  <2>2. s = Reversed(s)
    <3>1. s = [i \in 1 .. 0 |-> s[i]] /\ DOMAIN s = 1 .. 0
      BY <1>3, <1>6
    <3>2. \A i \in 1 .. 0 : FALSE
      OBVIOUS
    <3>3. [i \in 1 .. 0 |-> s[i]] = [i \in 1 .. 0 |-> s[Len(s) + 1 - i]]
      BY <3>2, Zenon
    <3> QED
      BY <3>1, <3>3 DEF Reversed
  <2>3. c[l'] = Reversed(was'[l'])
    BY <1>3, <2>2
  <2>4. Result(c)'
    BY <2>1, <2>3, Elsewhere DEF Result
  <2>5. Facts(c)'
    BY <1>3, <2>1, Elsewhere DEF Facts
  <2> QED
    BY <1>3, <1>5, <2>1, <2>4, <2>5, Settled
<1>7. CASE n # 0
  <2>1. pc' = "reverse"
    BY <1>3, <1>4, <1>7
  <2>2. Linked(k, s)
    BY <1>3, LaidIs
  <2>3. HalfTurned(k, s, 1)
    <3>1. n > 0 /\ 1 \in 1 .. n + 1 /\ 0 \in 0 .. n /\ 0 + 1 = 1 /\ n \in 0 .. n
          /\ \A j \in 1 .. n : ~(j < 1) /\ j \in 0 .. n /\ j - 1 \in 0 .. n /\ (j - 1) + 1 = j
      BY <1>4, <1>7
    <3>2. /\ Node(k, s, 0) = head(k) /\ Node(k, s, n + 1) = tail(k)
          /\ \A j \in 1 .. n : Node(k, s, j) = s[j]
      BY <1>3, NodeIs
    <3>3. /\ prev[head(k)] = NULL /\ next[tail(k)] = NULL
          /\ \A i \in 0 .. n : /\ next[Node(k, s, i)] = Node(k, s, i + 1)
                               /\ prev[Node(k, s, i + 1)] = Node(k, s, i)
      BY <2>2, Zenon DEF Linked, Tied
    <3>4. 1 \in 1 .. n /\ n \in 1 .. n
      BY <3>1, <1>4
    <3>5. next[head(k)] = s[1] /\ prev[tail(k)] = s[n]
      BY <3>1, <3>2, <3>3, <3>4
    <3>6. \A j \in 1 .. n : next[s[j]] = Node(k, s, j + 1) /\ prev[s[j]] = Node(k, s, j - 1)
      <4> HIDE DEF n, s
      <4> SUFFICES ASSUME NEW j \in 1 .. n PROVE next[s[j]] = Node(k, s, j + 1) /\ prev[s[j]] = Node(k, s, j - 1)
        OBVIOUS
      <4>1. j \in 0 .. n /\ j - 1 \in 0 .. n /\ (j - 1) + 1 = j /\ Node(k, s, j) = s[j]
        BY <3>1, <3>2
      <4>2. prev[Node(k, s, (j - 1) + 1)] = Node(k, s, j - 1)
        BY <3>3, <4>1
      <4> QED
        BY <3>3, <4>1, <4>2
    <3> QED
      BY <3>1, <3>3, <3>5, <3>6 DEF HalfTurned
  <2>4. HalfTurned(k, s, 1)'
    BY <1>3, <2>3 DEF HalfTurned
  <2>5. InReverse(c[l])'
    BY <1>3, <1>4, <2>4 DEF InReverse
  <2>6. Facts(c)'
    BY <1>3, <2>1, <2>5, Elsewhere DEF Facts
  <2>7. Arranged(c) /\ \A m \in Lists : Linked(m, c[m])'
    BY <1>3 DEF Laid
  <2> QED
    BY <1>3, <1>5, <2>1, <2>6, <2>7, Turning
<1> QED
  BY <1>6, <1>7

(* The list that is turned, as the others cannot tell.                     *)
LEMMA TurningNow ==
  ASSUME IInv, NEW c, Known(c), pc = "reverse"
  PROVE  /\ was = c /\ Arranged(c) /\ l \in Lists /\ TypeOK /\ c[l] \in Seq(Elems)
         /\ \A m \in Lists : m # l => Linked(m, c[m])
         /\ \E i \in 1 .. Len(c[l]) + 1 : elem = Node(l, c[l], i) /\ HalfTurned(l, c[l], i)
<1>1. l \in Lists /\ was \in [Lists -> Seq(Elems)] /\ TypeOK /\ Facts(c) /\ c[l] \in Seq(Elems)
  BY Running
<1>2. c = [k \in Lists |-> was[k]]
  BY DEF Known, Lay
<1>3. was = c
  BY <1>1, <1>2
<1>4. \A m \in Lists : m # l => Linked(m, c[m])
  BY DEF IInv, LaidOut, Known
<1>5. \E i \in 1 .. Len(c[l]) + 1 : elem = Node(l, c[l], i) /\ HalfTurned(l, c[l], i)
  BY <1>1, Zenon DEF Facts, InReverse
<1> QED
  BY <1>1, <1>3, <1>4, <1>5 DEF Known

LEMMA SwapElemStep ==
  ASSUME IInv, SwapElem
  PROVE  IInv'
<1>1. PICK c : Known(c)
  BY Knowing
<1>2. /\ pc = "reverse" /\ elem # list_end(l)
      /\ next' = [next EXCEPT ![elem] = prev[elem]]
      /\ prev' = [prev EXCEPT ![elem] = next[elem]]
      /\ elem' = prev'[elem]
      /\ UNCHANGED <<value, pc, l, sorting, best, dups, was>>
  BY DEF SwapElem
<1>3. /\ was = c /\ Arranged(c) /\ l \in Lists /\ TypeOK /\ c[l] \in Seq(Elems)
      /\ \A m \in Lists : m # l => Linked(m, c[m])
      /\ \E i \in 1 .. Len(c[l]) + 1 : elem = Node(l, c[l], i) /\ HalfTurned(l, c[l], i)
  BY <1>1, <1>2, TurningNow
<1>4. PICK k \in Lists : k = l
  BY <1>3
<1> DEFINE s == c[k]
           n == Len(s)
<1>5. PICK i \in 1 .. n + 1 : elem = Node(k, s, i) /\ HalfTurned(k, s, i)
  BY <1>3, <1>4
<1>6. /\ s \in Seq(Elems) /\ n \in Nat /\ DOMAIN s = 1 .. n
      /\ Node(k, s, 0) = head(k) /\ Node(k, s, n + 1) = tail(k)
      /\ \A j \in 1 .. n : Node(k, s, j) = s[j] /\ s[j] \in Elems
      /\ \A j \in 0 .. n + 1 : Node(k, s, j) \in Nodes
      /\ \A j, m \in 1 .. n : s[j] = s[m] => j = m
      /\ \A j \in 1 .. n : s[j] # head(k) /\ s[j] # tail(k)
  <2>1. s \in Seq(Elems) /\ DOMAIN s = 1 .. n
    BY <1>3, <1>4
  <2>2. \A j, m \in 1 .. n : s[j] = s[m] => j = m
    BY <1>3, <2>1 DEF Arranged
  <2>3. \A j \in 1 .. n : s[j] \in Elems
    BY <2>1
  <2>4. \A x \in Elems : x # head(k) /\ x # tail(k)
    BY NodesDiffer
  <2> QED
    BY <2>1, <2>2, <2>3, <2>4, NodeIs
<1>7. i \in 1 .. n /\ elem = s[i] /\ elem \in Nodes /\ i - 1 \in 0 .. n + 1 /\ i + 1 \in 0 .. n + 1 /\ i + 1 \in 1 .. n + 1
  <2>1. i # n + 1
    BY <1>2, <1>4, <1>5, <1>6 DEF list_end
  <2>2. i \in 1 .. n /\ i - 1 \in 0 .. n + 1 /\ i + 1 \in 0 .. n + 1 /\ i + 1 \in 1 .. n + 1 /\ i \in 0 .. n + 1
    BY <1>6, <2>1
  <2> QED
    BY <1>5, <1>6, <2>2
<1>8. /\ next \in [Nodes -> Nodes \cup {NULL}] /\ prev \in [Nodes -> Nodes \cup {NULL}]
      /\ n > 0
      /\ prev[head(k)] = NULL /\ next[head(k)] = s[1]
      /\ next[tail(k)] = NULL /\ prev[tail(k)] = s[n]
      /\ \A j \in 1 .. n :
           IF j < i THEN next[s[j]] = Node(k, s, j - 1) /\ prev[s[j]] = Node(k, s, j + 1)
                    ELSE next[s[j]] = Node(k, s, j + 1) /\ prev[s[j]] = Node(k, s, j - 1)
  BY <1>3, <1>5, Zenon DEF HalfTurned, TypeOK
<1>9. /\ next' \in [Nodes -> Nodes \cup {NULL}] /\ prev' \in [Nodes -> Nodes \cup {NULL}]
      /\ \A x \in Nodes : x # s[i] => next'[x] = next[x] /\ prev'[x] = prev[x]
      /\ next'[s[i]] = Node(k, s, i - 1) /\ prev'[s[i]] = Node(k, s, i + 1)
  <2>1. next[s[i]] = Node(k, s, i + 1) /\ prev[s[i]] = Node(k, s, i - 1)
    <3>1. ~(i < i)
      BY <1>7
    <3> QED
      BY <1>7, <1>8, <3>1
  <2> HIDE DEF n, s
  <2> QED
    BY <1>2, <1>6, <1>7, <1>8, <2>1
<1>10. HalfTurned(k, s, i + 1)'
  <2>1. head(k) \in Nodes /\ tail(k) \in Nodes /\ head(k) # s[i] /\ tail(k) # s[i]
    BY <1>6, <1>7, NodesDiffer
  <2>2. ASSUME NEW j \in 1 .. n
        PROVE  IF j < i + 1 THEN next'[s[j]] = Node(k, s, j - 1) /\ prev'[s[j]] = Node(k, s, j + 1)
                            ELSE next'[s[j]] = Node(k, s, j + 1) /\ prev'[s[j]] = Node(k, s, j - 1)
    <3>1. CASE j = i
      <4>1. i < i + 1
        BY <1>7
      <4> QED
        BY <1>9, <3>1, <4>1
    <3>2. CASE j # i
      <4>1. s[j] \in Nodes /\ s[j] # s[i]
        BY <1>6, <1>7, <3>2, NodesDiffer
      <4>2. j < i + 1 <=> j < i
        BY <1>7, <3>2
      <4>3. next'[s[j]] = next[s[j]] /\ prev'[s[j]] = prev[s[j]]
        BY <1>9, <4>1
      <4> QED
        BY <1>8, <4>2, <4>3
    <3> QED
      BY <3>1, <3>2
  <2>3. /\ prev'[head(k)] = NULL /\ next'[head(k)] = s[1]
        /\ next'[tail(k)] = NULL /\ prev'[tail(k)] = s[n]
    BY <1>8, <1>9, <2>1
  <2> QED
    BY <1>7, <1>8, <2>2, <2>3 DEF HalfTurned
<1>11. /\ pc' = "reverse" /\ was' = c /\ l' = k /\ elem' = Node(k, s, i + 1) /\ elem' \in Nodes /\ elem' # NULL
  BY <1>2, <1>3, <1>4, <1>6, <1>7, <1>9, NULLAssumption
<1>12. TypeOK'
  BY <1>2, <1>3, <1>9, <1>11 DEF TypeOK, sorting
<1>13. ASSUME NEW m \in Lists, m # k PROVE Linked(m, c[m])'
  <2>1. c[m] \in Seq(Elems) /\ Linked(m, c[m])
    BY <1>3, <1>4, <1>13 DEF Arranged
  <2>2. \A h \in 0 .. Len(c[m]) + 1, j \in 0 .. n + 1 : Node(m, c[m], h) # Node(k, c[k], j)
    BY <1>3, <1>13, Apart
  <2>3. \A h \in 0 .. Len(c[m]) + 1 : Node(m, c[m], h) \in Nodes
    BY <2>1, NodeIs
  <2>4. \A h \in 0 .. Len(c[m]) + 1 : Node(m, c[m], h) # s[i]
    <3>1. i \in 0 .. n + 1 /\ Node(k, s, i) = s[i]
      BY <1>6, <1>7
    <3> QED
      BY <2>2, <3>1
  <2>5. \A h \in 0 .. Len(c[m]) + 1 : /\ next'[Node(m, c[m], h)] = next[Node(m, c[m], h)]
                                      /\ prev'[Node(m, c[m], h)] = prev[Node(m, c[m], h)]
    BY <1>9, <2>3, <2>4
  <2> QED
    BY <2>1, <2>5, Untouched
<1>14. InReverse(c[l])'
  BY <1>7, <1>10, <1>11 DEF InReverse
<1>15. Called(c)'
  BY <1>3, <1>11 DEF Called, Arranged
<1>16. Facts(c)'
  BY <1>11, <1>14, <1>15, Elsewhere DEF Facts
<1> QED
  BY <1>3, <1>11, <1>12, <1>13, <1>16, Turning

LEMMA SwapEndsStep ==
  ASSUME IInv, SwapEnds
  PROVE  IInv'
<1>1. PICK c : Known(c)
  BY Knowing
<1>2. /\ pc = "reverse" /\ elem = list_end(l) /\ pc' = "reversed"
      /\ next' = [next EXCEPT ![head(l)] = prev[tail(l)], ![next[head(l)]] = prev[prev[tail(l)]]]
      /\ prev' = [prev EXCEPT ![tail(l)] = next[head(l)], ![prev[tail(l)]] = next[next[head(l)]]]
      /\ UNCHANGED <<value, l, locals, was>>
  BY DEF SwapEnds
<1>3. /\ was = c /\ Arranged(c) /\ l \in Lists /\ TypeOK /\ c[l] \in Seq(Elems)
      /\ \A m \in Lists : m # l => Linked(m, c[m])
      /\ \E i \in 1 .. Len(c[l]) + 1 : elem = Node(l, c[l], i) /\ HalfTurned(l, c[l], i)
  BY <1>1, <1>2, TurningNow
<1>4. PICK k \in Lists : k = l
  BY <1>3
<1> DEFINE s == c[k]
           n == Len(s)
           t == Reversed(s)
           d == [c EXCEPT ![k] = t]
<1>5. PICK i \in 1 .. n + 1 : elem = Node(k, s, i) /\ HalfTurned(k, s, i)
  BY <1>3, <1>4
<1>6. /\ s \in Seq(Elems) /\ n \in Nat /\ DOMAIN s = 1 .. n
      /\ Node(k, s, 0) = head(k) /\ Node(k, s, n + 1) = tail(k)
      /\ \A j \in 1 .. n : Node(k, s, j) = s[j] /\ s[j] \in Elems /\ s[j] \in Nodes
      /\ \A j, m \in 1 .. n : s[j] = s[m] => j = m
      /\ \A j \in 1 .. n : s[j] # head(k) /\ s[j] # tail(k)
      /\ head(k) \in Nodes /\ tail(k) \in Nodes /\ head(k) # tail(k)
  <2>1. s \in Seq(Elems) /\ DOMAIN s = 1 .. n
    BY <1>3, <1>4
  <2>2. \A j, m \in 1 .. n : s[j] = s[m] => j = m
    BY <1>3, <2>1 DEF Arranged
  <2>3. \A j \in 1 .. n : s[j] \in Elems
    BY <2>1
  <2>4. (\A x \in Elems : x # head(k) /\ x # tail(k) /\ x \in Nodes)
        /\ head(k) \in Nodes /\ tail(k) \in Nodes /\ head(k) # tail(k)
    BY NodesDiffer
  <2> QED
    BY <2>1, <2>2, <2>3, <2>4, NodeIs
<1>7. i = n + 1
  <2>1. i \in 1 .. n => Node(k, s, i) # tail(k)
    BY <1>6
  <2> QED
    BY <1>2, <1>4, <1>5, <1>6, <2>1 DEF list_end
<1>8. /\ next \in [Nodes -> Nodes \cup {NULL}] /\ prev \in [Nodes -> Nodes \cup {NULL}]
      /\ n > 0 /\ 1 \in 1 .. n /\ n \in 1 .. n
      /\ prev[head(k)] = NULL /\ next[head(k)] = s[1]
      /\ next[tail(k)] = NULL /\ prev[tail(k)] = s[n]
      /\ \A j \in 1 .. n : next[s[j]] = Node(k, s, j - 1) /\ prev[s[j]] = Node(k, s, j + 1)
  <2>1. /\ next \in [Nodes -> Nodes \cup {NULL}] /\ prev \in [Nodes -> Nodes \cup {NULL}]
        /\ n > 0
        /\ prev[head(k)] = NULL /\ next[head(k)] = s[1]
        /\ next[tail(k)] = NULL /\ prev[tail(k)] = s[n]
        /\ \A j \in 1 .. n :
             IF j < i THEN next[s[j]] = Node(k, s, j - 1) /\ prev[s[j]] = Node(k, s, j + 1)
                      ELSE next[s[j]] = Node(k, s, j + 1) /\ prev[s[j]] = Node(k, s, j - 1)
    BY <1>3, <1>5, Zenon DEF HalfTurned, TypeOK
  <2>2. 1 \in 1 .. n /\ n \in 1 .. n /\ \A j \in 1 .. n : j < i
    BY <1>6, <1>7, <2>1
  <2> QED
    BY <2>1, <2>2
<1>9. /\ next' = [next EXCEPT ![head(k)] = s[n], ![s[1]] = tail(k)]
      /\ prev' = [prev EXCEPT ![tail(k)] = s[1], ![s[n]] = head(k)]
  <2>1. next[s[1]] = head(k) /\ prev[s[n]] = tail(k)
    <3>1. next[s[1]] = Node(k, s, 1 - 1) /\ prev[s[n]] = Node(k, s, n + 1) /\ 1 - 1 = 0
      BY <1>8
    <3> QED
      BY <1>6, <3>1
  <2> QED
    BY <1>2, <1>4, <1>8, <2>1
<1>10. /\ next' \in [Nodes -> Nodes \cup {NULL}] /\ prev' \in [Nodes -> Nodes \cup {NULL}]
       /\ next'[head(k)] = s[n] /\ next'[s[1]] = tail(k)
       /\ prev'[tail(k)] = s[1] /\ prev'[s[n]] = head(k)
       /\ \A x \in Nodes : x # head(k) /\ x # s[1] => next'[x] = next[x]
       /\ \A x \in Nodes : x # tail(k) /\ x # s[n] => prev'[x] = prev[x]
  <2>1. s[1] \in Nodes /\ s[n] \in Nodes /\ head(k) \in Nodes /\ tail(k) \in Nodes /\ s[1] # head(k) /\ s[n] # tail(k)
    BY <1>6, <1>8
  <2> HIDE DEF n, s
  <2> QED
    BY <1>8, <1>9, <2>1
<1>11. /\ t \in Seq(Elems) /\ Len(t) = n /\ DOMAIN t = 1 .. n
       /\ \A j \in 1 .. n : t[j] = s[n + 1 - j]
  <2>1. t = [j \in 1 .. n |-> s[n + 1 - j]]
    BY <1>6 DEF Reversed
  <2>2. \A j \in 1 .. n : n + 1 - j \in 1 .. n
    BY <1>6
  <2> HIDE DEF t, n, s
  <2>3. t \in [1 .. n -> Elems]
    BY <1>6, <2>1, <2>2
  <2> QED
    BY <1>6, <2>1, <2>3, SeqIs
<1>12. /\ Node(k, t, 0) = head(k) /\ Node(k, t, n + 1) = tail(k)
       /\ \A j \in 1 .. n : Node(k, t, j) = t[j]
  BY <1>11, NodeIs
<1>13. d \in [Lists -> Seq(Elems)] /\ d[k] = t /\ \A m \in Lists \ {k} : d[m] = c[m]
  <2> HIDE DEF t
  <2> QED
    BY <1>3, <1>11 DEF Arranged
<1>14. Linked(k, t)'
  <2> HIDE DEF s, n, t, d
  <2>1. ASSUME NEW j \in 1 .. n, NEW m \in 1 .. n, t[j] = t[m] PROVE j = m
    <3>1. n + 1 - j \in 1 .. n /\ n + 1 - m \in 1 .. n
      BY <1>6
    <3>2. n + 1 - j = n + 1 - m
      BY <1>6, <1>11, <2>1, <3>1
    <3> QED
      BY <1>6, <3>2
  <2>2. prev'[head(k)] = NULL /\ next'[tail(k)] = NULL
    BY <1>6, <1>8, <1>10
  <2>3. ASSUME NEW j \in 0 .. n
        PROVE  next'[Node(k, t, j)] = Node(k, t, j + 1) /\ prev'[Node(k, t, j + 1)] = Node(k, t, j)
    <3>1. t[1] = s[n] /\ t[n] = s[1]
      <4>1. n + 1 - 1 = n /\ n + 1 - n = 1
        BY <1>6
      <4> QED
        BY <1>8, <1>11, <4>1
    <3>2. CASE j = 0
      <4>1. 0 + 1 = 1
        OBVIOUS
      <4> QED
        BY <1>8, <1>10, <1>12, <3>1, <3>2, <4>1
    <3>3. CASE j = n
      BY <1>8, <1>10, <1>12, <3>1, <3>3
    <3>4. CASE j # 0 /\ j # n
      <4> DEFINE a == n + 1 - j
                 b == n - j
      <4>1. /\ j \in 1 .. n /\ j + 1 \in 1 .. n /\ a \in 1 .. n /\ b \in 1 .. n
            /\ a # 1 /\ b # n /\ a - 1 = b /\ b + 1 = a /\ n + 1 - (j + 1) = b
        BY <1>6, <3>4
      <4>2. t[j] = s[a] /\ t[j + 1] = s[b]
        BY <1>11, <4>1
      <4> HIDE DEF a, b
      <4>3. next[s[a]] = s[b] /\ prev[s[b]] = s[a]
        <5>1. next[s[a]] = Node(k, s, a - 1) /\ prev[s[b]] = Node(k, s, b + 1)
          BY <1>8, <4>1
        <5> QED
          BY <1>6, <4>1, <5>1
      <4>4. s[a] # s[1] /\ s[b] # s[n]
        BY <1>6, <1>8, <4>1
      <4>5. next'[s[a]] = next[s[a]] /\ prev'[s[b]] = prev[s[b]]
        BY <1>6, <1>10, <4>1, <4>4
      <4> QED
        BY <1>12, <4>1, <4>2, <4>3, <4>5
    <3> QED
      BY <3>2, <3>3, <3>4
  <2> QED
    BY <1>11, <2>1, <2>2, <2>3 DEF Linked, Tied
<1>15. ASSUME NEW m \in Lists \ {k} PROVE Linked(m, d[m])'
  <2>1. c[m] \in Seq(Elems) /\ Linked(m, c[m])
    BY <1>3, <1>4 DEF Arranged
  <2>2. \A h \in 0 .. Len(c[m]) + 1, j \in 0 .. n + 1 : Node(m, c[m], h) # Node(k, c[k], j)
    BY <1>3, Apart
  <2>3. \A h \in 0 .. Len(c[m]) + 1 : Node(m, c[m], h) \in Nodes
    BY <2>1, NodeIs
  <2>4. \A h \in 0 .. Len(c[m]) + 1 : Node(m, c[m], h) \notin {head(k), tail(k), s[1], s[n]}
    <3>1. 0 \in 0 .. n + 1 /\ 1 \in 0 .. n + 1 /\ n \in 0 .. n + 1 /\ n + 1 \in 0 .. n + 1
      BY <1>6
    <3>2. Node(k, s, 1) = s[1] /\ Node(k, s, n) = s[n]
      BY <1>6, <1>8
    <3> QED
      BY <1>6, <2>2, <3>1, <3>2
  <2>5. \A h \in 0 .. Len(c[m]) + 1 : /\ next'[Node(m, c[m], h)] = next[Node(m, c[m], h)]
                                      /\ prev'[Node(m, c[m], h)] = prev[Node(m, c[m], h)]
    BY <1>10, <2>3, <2>4
  <2> QED
    BY <1>13, <2>1, <2>5, Untouched
<1>16. \A h \in DOMAIN t : \E j \in DOMAIN s : t[h] = s[j]
  <2>1. \A h \in 1 .. n : n + 1 - h \in 1 .. n
    BY <1>6
  <2> HIDE DEF t, n, s
  <2> QED
    BY <1>6, <1>11, <2>1
<1> HIDE DEF t, d
<1>17. ASSUME NEW m \in Lists, NEW j \in Lists, m # j, NEW h \in DOMAIN d[m], NEW q \in DOMAIN d[j]
       PROVE  d[m][h] # d[j][q]
  <2>1. CASE m = k
    BY <1>3, <1>13, <1>16, <1>17, <2>1 DEF Arranged
  <2>2. CASE j = k
    BY <1>3, <1>13, <1>16, <1>17, <2>2 DEF Arranged
  <2>3. CASE m # k /\ j # k
    BY <1>3, <1>13, <1>17, <2>3 DEF Arranged
  <2> QED
    BY <2>1, <2>2, <2>3
<1>18. Laid(d)'
  <2>1. \A m \in Lists : Linked(m, d[m])'
    BY <1>13, <1>14, <1>15
  <2> QED
    BY <1>13, <1>17, <2>1, LaidNext
<1>19. TypeOK'
  BY <1>2, <1>3, <1>10 DEF TypeOK, PCs, locals, sorting
<1>20. Called(d)'
  BY <1>2, <1>3 DEF Called, Arranged
<1>21. d[l'] = Reversed(was'[l'])
  BY <1>2, <1>3, <1>4, <1>13 DEF t
<1>22. Facts(d)' /\ Result(d)'
  BY <1>2, <1>20, <1>21, Elsewhere DEF Facts, Result
<1> QED
  BY <1>2, <1>18, <1>19, <1>22, Settled
-----------------------------------------------------------------------------
(* list_insert_ordered.                                                    *)
(* The new element goes behind those it is not less than, and a sorted     *)
(* list stays sorted.                                                      *)
LEMMA OrderedRises ==
  ASSUME NEW s, Len(s) \in Nat
  PROVE  Ordered(s) <=> Rising(s, 1, Len(s))
<1> DEFINE n == Len(s)
<1>1. ASSUME Ordered(s) PROVE Rising(s, 1, n)
  <2>1. ASSUME NEW h \in 2 .. n PROVE ~less(s[h], s[h - 1])
    <3>1. h - 1 \in 1 .. n - 1 /\ (h - 1) + 1 = h
      OBVIOUS
    <3>2. ~less(s[(h - 1) + 1], s[h - 1])
      BY <1>1, <3>1, Zenon DEF Ordered
    <3> QED
      BY <3>1, <3>2
  <2> QED
    BY <2>1 DEF Rising
<1>2. ASSUME Rising(s, 1, n) PROVE Ordered(s)
  <2>1. ASSUME NEW h \in 1 .. n - 1 PROVE ~less(s[h + 1], s[h])
    <3>1. h + 1 \in 1 + 1 .. n /\ (h + 1) - 1 = h
      OBVIOUS
    <3>2. ~less(s[h + 1], s[(h + 1) - 1])
      BY <1>2, <3>1, Zenon DEF Rising
    <3> QED
      BY <3>1, <3>2
  <2> QED
    BY <2>1 DEF Ordered
<1> QED
  BY <1>1, <1>2

LEMMA OrderedWith ==
  ASSUME NEW s \in Seq(Elems), NEW i \in 1 .. Len(s) + 1, NEW x \in Elems, value \in [Elems -> Ranks],
         Ordered(s), i <= Len(s) => less(x, s[i]), \A j \in 1 .. i - 1 : ~less(x, s[j])
  PROVE  /\ Ordered(With(s, i, x))
         /\ \A j \in DOMAIN s : value[s[j]] = value[x] => Before(With(s, i, x), s[j], x)
<1> DEFINE n == Len(s)
           t == With(s, i, x)
<1>1. /\ n \in Nat /\ DOMAIN s = 1 .. n /\ i \in 1 .. n + 1
      /\ Len(t) = n + 1 /\ DOMAIN t = 1 .. n + 1 /\ t[i] = x
      /\ \A j \in 1 .. i - 1 : t[j] = s[j]
      /\ \A j \in i + 1 .. n + 1 : t[j] = s[j - 1]
  BY WithIs
<1>2. value[x] \in Int /\ \A j \in 1 .. n : value[s[j]] \in Int
  <2>1. Cardinality(Elems) \in Nat
    BY ElemsAssumption, FS_CardinalityType
  <2>2. Ranks \subseteq Int
    BY <2>1 DEF Ranks
  <2>3. \A j \in 1 .. n : s[j] \in Elems
    OBVIOUS
  <2> QED
    BY <2>2, <2>3
<1> HIDE DEF n, t
<1>3. ASSUME NEW j \in 1 .. n PROVE ~less(t[j + 1], t[j])
  <2>1. CASE j + 1 < i
    <3>1. j \in 1 .. i - 1 /\ j + 1 \in 1 .. i - 1 /\ j \in 1 .. n - 1
      BY <1>1, <2>1
    <3>2. t[j + 1] = s[j + 1] /\ t[j] = s[j]
      BY <1>1, <3>1
    <3>3. ~less(s[j + 1], s[j])
      BY <3>1 DEF Ordered, n
    <3> QED
      BY <3>2, <3>3
  <2>2. CASE j + 1 = i
    <3>1. j \in 1 .. i - 1 /\ t[j + 1] = x
      BY <1>1, <2>2
    <3>2. t[j] = s[j]
      BY <1>1, <3>1
    <3> QED
      BY <3>1, <3>2
  <2>3. CASE j = i
    <3>1. j + 1 \in i + 1 .. n + 1 /\ (j + 1) - 1 = i /\ t[j] = x /\ i \in 1 .. n
      BY <1>1, <2>3
    <3>2. t[j + 1] = s[i] /\ less(x, s[i])
      BY <1>1, <3>1 DEF n
    <3>3. ~less(s[i], x)
      BY <1>2, <3>1, <3>2 DEF less
    <3> QED
      BY <3>1, <3>2, <3>3
  <2>4. CASE j > i
    <3>1. /\ j + 1 \in i + 1 .. n + 1 /\ (j + 1) - 1 = j /\ j \in i + 1 .. n + 1
          /\ j - 1 \in 1 .. n - 1 /\ (j - 1) + 1 = j
      BY <1>1, <2>4
    <3>2. t[j + 1] = s[j] /\ t[j] = s[j - 1]
      BY <1>1, <3>1
    <3>3. ~less(s[(j - 1) + 1], s[j - 1])
      BY <3>1 DEF Ordered, n
    <3> QED
      BY <3>1, <3>2, <3>3
  <2> QED
    BY <1>1, <2>1, <2>2, <2>3, <2>4
<1>4. Ordered(t)
  <2>1. (n + 1) - 1 = n
    BY <1>1
  <2> QED
    BY <1>1, <1>3, <2>1 DEF Ordered
<1>5. ASSUME NEW j \in 1 .. n, value[s[j]] = value[x] PROVE Before(t, s[j], x)
  <2>1. ASSUME j >= i PROVE FALSE
    <3>1. i \in 1 .. n /\ less(x, s[i])
      BY <1>1, <2>1 DEF n
    <3>2. Rising(s, 1, n)
      BY <1>1, OrderedRises DEF n
    <3>3. value[s[i]] <= value[s[j]]
      <4>1. n \in Int /\ 1 \in Int /\ i \in 1 .. n /\ i <= j
        BY <1>1, <2>1, <3>1
      <4> QED
        BY <1>2, <3>2, <4>1, Climbs
    <3> QED
      BY <1>2, <1>5, <3>1, <3>3 DEF less
  <2>2. j < i /\ j \in 1 .. i - 1 /\ j \in 1 .. n + 1
    BY <1>1, <2>1
  <2>3. t[j] = s[j]
    BY <1>1, <2>2
  <2> QED
    BY <1>1, <2>2, <2>3 DEF Before
<1> QED
  BY <1>1, <1>4, <1>5 DEF t

LEMMA InsertOrderedCallStep ==
  ASSUME IInv, NEW k \in Lists, NEW x \in Elems, list_insert_ordered(k, x)
  PROVE  IInv'
<1>1. PICK c : Known(c)
  BY Knowing
<1> DEFINE s == c[k]
           n == Len(s)
<1>2. Call(k, "search") /\ x \in Loose /\ best' = x /\ elem' = list_begin(k) /\ dups' = dups /\ "search" # "idle"
  BY DEF list_insert_ordered
<1>3. /\ pc = "idle" /\ pc' = "search" /\ l' = k /\ was' = c /\ Laid(c) /\ Laid(c)' /\ Called(c)' /\ s \in Seq(Elems)
      /\ ("search" \in PCs /\ {elem', best'} \subseteq Nodes \cup {NULL} /\ dups' \in Lists \cup {NULL}
           /\ ("search" \in {"reverse", "search", "unique", "max", "min"} => elem' # NULL)) => TypeOK'
  BY <1>1, <1>2, Calling
<1>4. elem' = Node(k, s, 1) /\ elem' \in Nodes /\ elem' # NULL /\ n \in Nat /\ 1 \in 1 .. n + 1
  BY <1>2, <1>3, BeginIs
<1>5. x \in Nodes /\ \A m \in Lists : \A i \in DOMAIN c[m] : c[m][i] # x
  <2>1. \A m \in Lists : Contents(m) = c[m]
    BY <1>1, <1>3 DEF Known
  <2> QED
    BY <1>2, <2>1, LooseIs, NodesDiffer
<1>6. TypeOK'
  <2>1. {elem', best'} \subseteq Nodes \cup {NULL} /\ dups' \in Lists \cup {NULL} /\ "search" \in PCs
    BY <1>2, <1>4, <1>5 DEF IInv, TypeOK, PCs
  <2> QED
    BY <1>3, <1>4, <2>1
<1>7. InSearch(c)'
  <2>1. \A j \in 1 .. 1 - 1 : ~less(best, c[l][j])'
    OBVIOUS
  <2> QED
    BY <1>2, <1>3, <1>4, <1>5, <2>1 DEF InSearch
<1>8. Facts(c)' /\ Result(c)'
  BY <1>3, <1>7, Elsewhere DEF Facts
<1> QED
  BY <1>3, <1>6, <1>8, Settled

LEMMA SearchStep ==
  ASSUME IInv, search
  PROVE  IInv'
<1>1. PICK c : Known(c)
  BY Knowing
<1>2. /\ pc = "search"
      /\ IF elem # list_end(l) /\ ~less(best, elem)
         THEN elem' = next[elem] /\ UNCHANGED <<links, pc>>
         ELSE insert(elem, best) /\ pc' = "ordered" /\ UNCHANGED elem
      /\ UNCHANGED <<value, l, sorting, best, dups, was>>
  BY DEF search
<1>3. /\ l \in Lists /\ was \in [Lists -> Seq(Elems)] /\ TypeOK /\ Facts(c)
      /\ c[l] \in Seq(Elems) /\ Len(c[l]) \in Nat /\ Laid(c)
  BY <1>1, <1>2, Running
<1>4. PICK k \in Lists : k = l
  BY <1>3
<1> DEFINE s == c[k]
           n == Len(s)
<1>5. /\ s \in Seq(Elems) /\ n \in Nat /\ Node(k, s, n + 1) = tail(k) /\ \A i \in 0 .. n + 1 : Node(k, s, i) \in Nodes
      /\ \A i \in 1 .. n : Node(k, s, i) = s[i] /\ s[i] \in Elems /\ s[i] # tail(k)
  BY <1>3, <1>4, NodeIs, NodesDiffer
<1>6. /\ best \in Elems /\ \A m \in Lists : \A i \in DOMAIN c[m] : c[m][i] # best
      /\ \E i \in 1 .. n + 1 : elem = Node(k, s, i) /\ \A j \in 1 .. i - 1 : ~less(best, s[j])
  BY <1>2, <1>3, <1>4 DEF Facts, InSearch
<1>7. PICK i \in 1 .. n + 1 : elem = Node(k, s, i) /\ \A j \in 1 .. i - 1 : ~less(best, s[j])
  BY <1>6
<1>8. /\ l' = k /\ was' = was /\ best' = best /\ value' = value
      /\ was[k] = s
  <2>1. c[l] = was[l]
    BY <1>2, <1>3 DEF Facts, Called
  <2> QED
    BY <1>2, <1>4, <2>1
<1>9. value \in [Elems -> Ranks] /\ \A x, y : less(x, y)' <=> less(x, y)
  BY <1>3, <1>8, SameOrder DEF TypeOK
<1>10. CASE elem # list_end(l) /\ ~less(best, elem)
  <2>1. elem' = next[elem] /\ UNCHANGED links /\ pc' = "search"
    BY <1>2, <1>10
  <2>2. i \in 1 .. n /\ i + 1 \in 1 .. n + 1 /\ i + 1 \in 0 .. n + 1 /\ (i + 1) - 1 = i
    <3>1. i # n + 1
      BY <1>4, <1>5, <1>7, <1>10 DEF list_end
    <3> QED
      BY <1>5, <3>1
  <2>3. elem' = Node(k, s, i + 1) /\ elem' \in Nodes /\ elem' # NULL
    <3>1. next[Node(k, c[k], (i + 1) - 1)] = Node(k, c[k], i + 1)
      BY <1>3, <2>2, PrevIs
    <3>2. elem' = Node(k, s, i + 1)
      BY <1>7, <2>1, <2>2, <3>1
    <3> QED
      BY <1>5, <2>2, <3>2, NULLAssumption
  <2>4. Laid(c)' /\ next' \in [Nodes -> Nodes \cup {NULL}] /\ prev' \in [Nodes -> Nodes \cup {NULL}]
    BY <1>1, <1>2, <2>1, LaidStill
  <2>5. TypeOK'
    BY <1>2, <1>3, <2>1, <2>3, <2>4 DEF TypeOK, PCs, sorting
  <2>6. \A j \in 1 .. (i + 1) - 1 : ~less(best, s[j])
    <3>1. ~less(best, s[i])
      BY <1>5, <1>7, <1>10, <2>2
    <3>2. \A j \in 1 .. (i + 1) - 1 : j = i \/ j \in 1 .. i - 1
      BY <2>2
    <3> QED
      BY <1>7, <3>1, <3>2
  <2>7. InSearch(c)'
    <3>1. \A j \in 1 .. (i + 1) - 1 : ~less(best, s[j])'
      BY <1>8, <2>6 DEF less
    <3> QED
      BY <1>6, <1>8, <2>2, <2>3, <3>1 DEF InSearch
  <2>8. Called(c)'
    BY <1>3, <1>4, <1>8 DEF Called
  <2>9. Facts(c)' /\ Result(c)'
    BY <2>1, <2>7, <2>8, Elsewhere DEF Facts
  <2> QED
    BY <2>1, <2>4, <2>5, <2>9, Settled
<1>11. CASE ~(elem # list_end(l) /\ ~less(best, elem))
  <2>0. PICK x \in Elems : x = best
    BY <1>6
  <2> DEFINE t == With(s, i, x)
             d == [c EXCEPT ![k] = t]
  <2>1. insert(Node(k, c[k], i), x) /\ pc' = "ordered" /\ elem' = elem
    BY <1>2, <1>7, <1>11, <2>0
  <2>2. IsLinked /\ next' \in [Nodes -> Nodes \cup {NULL}] /\ prev' \in [Nodes -> Nodes \cup {NULL}]
    <3>1. Node(k, c[k], i) \in Nodes /\ x \in Nodes
      <4>1. i \in 0 .. n + 1
        OBVIOUS
      <4> QED
        BY <1>5, <4>1, NodesDiffer
    <3> QED
      BY <1>3, <2>1, <3>1, StillLinked
  <2>3. Laid(d)'
    <3>1. \A m \in Lists : \A h \in DOMAIN c[m] : c[m][h] # x
      BY <1>6, <2>0
    <3> QED
      BY <1>3, <2>1, <2>2, <3>1, InsertLaid
  <2>4. TypeOK'
    BY <1>2, <1>3, <2>1, <2>2 DEF TypeOK, PCs, sorting
  <2>5. d[k] = t
    BY <1>3 DEF Laid, Arranged
  <2>6. Called(d)'
    BY <1>3, <1>4, <1>8, <2>1 DEF Called
  <2>7. Ordered(s) => /\ Ordered(t)
                      /\ \A j \in DOMAIN s : value[s[j]] = value[x] => Before(t, s[j], x)
    <3>1. (i <= Len(s) => less(x, s[i])) /\ \A j \in 1 .. i - 1 : ~less(x, s[j])
      BY <1>4, <1>5, <1>7, <1>11, <2>0 DEF list_end
    <3> HIDE DEF s
    <3> QED
      BY <1>5, <1>9, <3>1, OrderedWith DEF n
  <2>8. InOrdered(d)'
    <3>1. was'[l'] = s /\ d[l'] = t /\ best' = x
      BY <1>8, <2>0, <2>5
    <3> HIDE DEF s, t, d
    <3>2. Ordered(s)' <=> Ordered(s)
      BY <1>8, SameOrder
    <3>3. Ordered(t)' <=> Ordered(t)
      BY <1>8, SameOrder
    <3> QED
      BY <1>8, <2>7, <3>1, <3>2, <3>3 DEF InOrdered, Before, Ordered
  <2> HIDE DEF d
  <2>9. Facts(d)' /\ Result(d)'
    BY <2>1, <2>6, <2>8, Elsewhere DEF Facts, Result
  <2> QED
    BY <2>1, <2>3, <2>4, <2>9, Settled
<1> QED
  BY <1>10, <1>11
-----------------------------------------------------------------------------
(* list_max and list_min.                                                  *)
(* The b-th element of s is the earliest extreme one of the first i - 1.   *)
Leads(w, s, b, i) ==
  \A j \in 1 .. i - 1 :
    IF w = "max" THEN ~less(s[b], s[j]) /\ (j < b => less(s[j], s[b]))
                 ELSE ~less(s[j], s[b]) /\ (j < b => less(s[b], s[j]))

LEMMA LeadsOn ==
  ASSUME NEW w, NEW s, NEW i \in Nat \ {0}, NEW b \in 1 .. i - 1, Leads(w, s, b, i),
         \A j \in 1 .. i : value[s[j]] \in Int
  PROVE  IF (IF w = "max" THEN less(s[b], s[i]) ELSE less(s[i], s[b]))
         THEN Leads(w, s, i, i + 1) ELSE Leads(w, s, b, i + 1)
<1>1. /\ \A j \in 1 .. (i + 1) - 1 : j \in 1 .. i - 1 \/ j = i
      /\ \A j \in 1 .. i - 1 : j \in 1 .. i /\ j < i /\ j # i
      /\ b \in 1 .. i /\ i \in 1 .. i /\ ~(i < b) /\ ~(i < i)
  OBVIOUS
<1>2. CASE w = "max"
  BY <1>1, <1>2 DEF Leads, less
<1>3. CASE w # "max"
  BY <1>1, <1>3 DEF Leads, less
<1> QED
  BY <1>2, <1>3

LEMMA ValuesAre ==
  ASSUME value \in [Elems -> Ranks]
  PROVE  \A x \in Elems : value[x] \in Int
<1>1. Cardinality(Elems) \in Nat
  BY ElemsAssumption, FS_CardinalityType
<1>2. Ranks \subseteq Int
  BY <1>1 DEF Ranks
<1> QED
  BY <1>2

LEMMA ExtremeCallStep ==
  ASSUME IInv, NEW k \in Lists, NEW which \in {"max", "min"}, list_extreme(k, which)
  PROVE  IInv'
<1>1. PICK c : Known(c)
  BY Knowing
<1> DEFINE s == c[k]
           n == Len(s)
           to == IF list_empty(k) THEN Found[which] ELSE which
<1>2. /\ Call(k, to) /\ best' = list_begin(k) /\ dups' = dups
      /\ elem' = IF list_empty(k) THEN NULL ELSE next[list_begin(k)]
  BY DEF list_extreme
<1>3. /\ to \in {"max", "min", "found_max", "found_min"} /\ to # "idle" /\ to \in PCs
      /\ list_empty(k) => to \in {"found_max", "found_min"}
      /\ ~list_empty(k) => to \in {"max", "min"}
  <2>1. Found[which] \in {"found_max", "found_min"}
    BY DEF Found
  <2>2. which \in {"max", "min"}
    OBVIOUS
  <2>3. CASE list_empty(k)
    BY <2>1, <2>3 DEF PCs
  <2>4. CASE ~list_empty(k)
    BY <2>2, <2>4 DEF PCs
  <2> QED
    BY <2>3, <2>4
<1>4. /\ pc' = to /\ l' = k /\ was' = c /\ Laid(c) /\ Laid(c)' /\ Called(c)' /\ s \in Seq(Elems)
      /\ value' = value
      /\ (to \in PCs /\ {elem', best'} \subseteq Nodes \cup {NULL} /\ dups' \in Lists \cup {NULL}
           /\ (to \in {"reverse", "search", "unique", "max", "min"} => elem' # NULL)) => TypeOK'
  <2> HIDE DEF to
  <2> QED
    BY <1>1, <1>2, <1>3, Calling
<1>5. /\ best' = Node(k, s, 1) /\ best' \in Nodes /\ n \in Nat /\ (list_empty(k) <=> n = 0)
      /\ list_begin(k) = Node(k, s, 1)
  BY <1>2, <1>4, BeginIs
<1>6. CASE n = 0
  <2>1. elem' = NULL /\ pc' \in {"found_max", "found_min"} /\ best' = tail(k) /\ s = <<>>
    <3>1. best' = tail(k)
      BY <1>5, <1>6 DEF Node
    <3> QED
      BY <1>2, <1>3, <1>4, <1>5, <1>6, <3>1
  <2>2. TypeOK'
    <3>1. {elem', best'} \subseteq Nodes \cup {NULL} /\ dups' \in Lists \cup {NULL}
          /\ to \notin {"reverse", "search", "unique", "max", "min"}
      BY <1>2, <1>4, <1>5, <2>1 DEF IInv, TypeOK
    <3> HIDE DEF to
    <3> QED
      BY <1>3, <1>4, <3>1
  <2>3. InFound'
    BY <1>4, <2>1 DEF InFound, list_end
  <2>4. Facts(c)' /\ Result(c)'
    BY <1>4, <2>1, <2>3, Elsewhere DEF Facts, Result
  <2> QED
    BY <1>4, <2>1, <2>2, <2>4, Settled
<1>7. CASE n # 0
  <2>1. pc' \in {"max", "min"} /\ elem' = next[Node(k, s, 1)]
    BY <1>2, <1>3, <1>4, <1>5, <1>7
  <2>2. 1 \in 1 .. n /\ 2 \in 1 .. n + 1 /\ 2 - 1 = 1 /\ 1 \in DOMAIN s /\ 1 < 2 /\ DOMAIN s = 1 .. n
    BY <1>4, <1>5, <1>7
  <2>3. elem' = Node(k, s, 2) /\ elem' \in Nodes /\ elem' # NULL /\ best' = s[1] /\ s[1] \in Elems
    <3>1. next[Node(k, c[k], 2 - 1)] = Node(k, c[k], 2) /\ Node(k, c[k], 2) \in Nodes
      BY <1>4, <2>2, PrevIs
    <3>2. Node(k, s, 1) = s[1] /\ s[1] \in Elems
      BY <1>4, <2>2, NodeIs
    <3> QED
      BY <1>5, <2>1, <2>2, <3>1, <3>2, NULLAssumption
  <2>4. TypeOK'
    <3>1. {elem', best'} \subseteq Nodes \cup {NULL} /\ dups' \in Lists \cup {NULL}
      BY <1>2, <1>5, <2>3 DEF IInv, TypeOK
    <3> HIDE DEF to
    <3> QED
      BY <1>3, <1>4, <2>3, <3>1
  <2>5. ~less(s[1], s[1])
    <3>1. value[s[1]] \in Int
      BY <2>3, ValuesAre DEF IInv, TypeOK
    <3> QED
      BY <3>1 DEF less
  <2>6. \A j \in 1 .. 2 - 1 : j = 1 /\ ~(j < 1)
    OBVIOUS
  <2>7. Leads(pc', s, 1, 2)
    <3> HIDE DEF s
    <3> QED
      BY <2>5, <2>6 DEF Leads
  <2>8. InExtreme(c[l])'
    <3>1. Leads(pc, s, 1, 2)'
      BY <1>4, <2>7 DEF Leads, less
    <3> QED
      BY <1>4, <2>1, <2>2, <2>3, <3>1 DEF InExtreme, Leads
  <2>9. Facts(c)' /\ Result(c)'
    BY <1>4, <2>1, <2>8, Elsewhere DEF Facts
  <2> QED
    BY <1>4, <2>1, <2>4, <2>9, Settled
<1> QED
  BY <1>6, <1>7

LEMMA ExtremeStep ==
  ASSUME IInv, extreme
  PROVE  IInv'
<1>1. PICK c : Known(c)
  BY Knowing
<1>2. /\ pc \in {"max", "min"}
      /\ IF elem = list_end(l)
         THEN pc' = Found[pc] /\ UNCHANGED <<elem, best>>
         ELSE /\ elem' = next[elem]
              /\ best' = IF better(pc, elem) THEN elem ELSE best
              /\ UNCHANGED pc
      /\ UNCHANGED <<value, links, l, sorting, dups, was>>
  BY DEF extreme
<1>3. /\ l \in Lists /\ was \in [Lists -> Seq(Elems)] /\ TypeOK /\ Facts(c)
      /\ c[l] \in Seq(Elems) /\ Len(c[l]) \in Nat /\ Laid(c)
  BY <1>1, <1>2, Running
<1>4. PICK k \in Lists : k = l
  BY <1>3
<1> DEFINE s == c[k]
           n == Len(s)
<1>5. /\ s \in Seq(Elems) /\ n \in Nat /\ DOMAIN s = 1 .. n
      /\ Node(k, s, n + 1) = tail(k) /\ \A i \in 0 .. n + 1 : Node(k, s, i) \in Nodes
      /\ \A i \in 1 .. n : Node(k, s, i) = s[i] /\ s[i] \in Elems /\ s[i] # tail(k) /\ s[i] \in Nodes
  BY <1>3, <1>4, NodeIs, NodesDiffer
<1>6. PICK w : w = pc
  OBVIOUS
<1>7. \E b \in 1 .. n, i \in 1 .. n + 1 : b < i /\ best = s[b] /\ elem = Node(k, s, i) /\ Leads(w, s, b, i)
  <2>1. InExtreme(s)
    BY <1>3, <1>4 DEF Facts
  <2> QED
    BY <1>2, <1>4, <1>5, <1>6, <2>1, Zenon DEF InExtreme, Leads
<1>8. PICK b \in 1 .. n, i \in 1 .. n + 1 : b < i /\ best = s[b] /\ elem = Node(k, s, i) /\ Leads(w, s, b, i)
  BY <1>7
<1>9. was[k] = s /\ w \in {"max", "min"}
  <2>1. c[l] = was[l]
    BY <1>2, <1>3 DEF Facts, Called
  <2> QED
    BY <1>2, <1>4, <1>6, <2>1
<1>10. /\ l' = k /\ was' = was /\ value' = value
       /\ Laid(c)' /\ next' \in [Nodes -> Nodes \cup {NULL}] /\ prev' \in [Nodes -> Nodes \cup {NULL}]
  BY <1>1, <1>2, <1>4, LaidStill
<1>11. CASE elem = list_end(l)
  <2>1. pc' = Found[w] /\ elem' = elem /\ best' = best
    BY <1>2, <1>6, <1>11
  <2>2. pc' = (IF w = "max" THEN "found_max" ELSE "found_min")
    BY <1>9, <2>1 DEF Found
  <2>3. TypeOK'
    BY <1>2, <1>3, <1>10, <2>1, <2>2 DEF TypeOK, PCs, sorting
  <2>4. i = n + 1 /\ i - 1 = n
    <3>1. i \notin 1 .. n
      BY <1>4, <1>5, <1>8, <1>11 DEF list_end
    <3> QED
      BY <1>5, <3>1
  <2>5. /\ was'[l'] = s /\ s # <<>> /\ best' = s[b] /\ b \in DOMAIN s
        /\ \A j \in DOMAIN s : IF w = "max" THEN ~less(s[b], s[j]) /\ (j < b => less(s[j], s[b]))
                                            ELSE ~less(s[j], s[b]) /\ (j < b => less(s[b], s[j]))
    <3>1. s # <<>>
      BY <1>8
    <3> HIDE DEF s
    <3> QED
      BY <1>5, <1>8, <1>9, <1>10, <2>1, <2>4, <3>1 DEF Leads, n
  <2>6. InFound'
    <3>1. \A x, y : less(x, y)' <=> less(x, y)
      BY <1>10, SameOrder
    <3> HIDE DEF s
    <3>2. CASE w = "max"
      BY <2>2, <2>5, <3>1, <3>2 DEF InFound
    <3>3. CASE w # "max"
      BY <2>2, <2>5, <3>1, <3>3 DEF InFound
    <3> QED
      BY <3>2, <3>3
  <2>7. Called(c)'
    BY <1>3, <1>4, <1>9, <1>10 DEF Called
  <2>8. Facts(c)' /\ Result(c)'
    BY <2>2, <2>6, <2>7, Elsewhere DEF Facts, Result
  <2> QED
    BY <1>10, <2>2, <2>3, <2>8, Settled
<1>12. CASE elem # list_end(l)
  <2>1. /\ pc' = w /\ elem' = next[elem]
        /\ best' = IF (IF w = "max" THEN less(best, elem) ELSE less(elem, best)) THEN elem ELSE best
    BY <1>2, <1>6, <1>12 DEF better
  <2>2. i \in 1 .. n /\ i + 1 \in 1 .. n + 1 /\ i + 1 \in 0 .. n + 1 /\ (i + 1) - 1 = i /\ b \in 1 .. i - 1 /\ i \in Nat \ {0}
    <3>1. i # n + 1
      BY <1>4, <1>5, <1>8, <1>12 DEF list_end
    <3> QED
      BY <1>5, <1>8, <3>1
  <2>3. elem = s[i] /\ elem \in Nodes /\ best \in Nodes
    BY <1>5, <1>8, <2>2
  <2>4. elem' = Node(k, s, i + 1) /\ elem' \in Nodes /\ elem' # NULL
    <3>1. next[Node(k, c[k], (i + 1) - 1)] = Node(k, c[k], i + 1)
      BY <1>3, <2>2, PrevIs
    <3>2. elem' = Node(k, s, i + 1)
      BY <1>8, <2>1, <2>2, <3>1
    <3> QED
      BY <1>5, <2>2, <3>2, NULLAssumption
  <2>5. best' \in Nodes
    BY <2>1, <2>3
  <2>6. TypeOK'
    BY <1>2, <1>3, <1>9, <1>10, <2>1, <2>4, <2>5 DEF TypeOK, PCs, sorting
  <2>7. \E h \in 1 .. n : h < i + 1 /\ best' = s[h] /\ Leads(w, s, h, i + 1)
    <3>1. \A j \in 1 .. i : value[s[j]] \in Int
      <4>1. \A j \in 1 .. i : s[j] \in Elems
        BY <1>5, <2>2
      <4> HIDE DEF s
      <4> QED
        BY <1>3, <4>1, ValuesAre DEF TypeOK
    <3> HIDE DEF s
    <3>2. IF (IF w = "max" THEN less(s[b], s[i]) ELSE less(s[i], s[b]))
          THEN Leads(w, s, i, i + 1) ELSE Leads(w, s, b, i + 1)
      BY <1>8, <2>2, <3>1, LeadsOn
    <3>3. i < i + 1 /\ b < i + 1
      BY <1>8, <2>2
    <3>4. IF (IF w = "max" THEN less(s[b], s[i]) ELSE less(s[i], s[b]))
          THEN best' = s[i] ELSE best' = s[b]
      BY <1>8, <2>1, <2>3
    <3> QED
      BY <1>8, <2>2, <3>2, <3>3, <3>4, Zenon
  <2>8. InExtreme(c[l])'
    <3>1. PICK h \in 1 .. n : h < i + 1 /\ best' = s[h] /\ Leads(w, s, h, i + 1)
      BY <2>7
    <3>2. Leads(pc, s, h, i + 1)'
      BY <1>10, <2>1, <3>1 DEF Leads, less
    <3> QED
      BY <1>5, <1>10, <2>2, <2>4, <3>1, <3>2 DEF InExtreme, Leads
  <2>9. Called(c)'
    BY <1>3, <1>4, <1>9, <1>10 DEF Called
  <2>10. Facts(c)' /\ Result(c)'
    BY <1>9, <2>1, <2>8, <2>9, Elsewhere DEF Facts
  <2> QED
    BY <1>9, <1>10, <2>1, <2>6, <2>10, Settled
<1> QED
  BY <1>11, <1>12
-----------------------------------------------------------------------------
(* list_unique.                                                            *)
(* What list_unique keeps, and what it sets aside.                         *)
LEMMA UniqueThen ==
  ASSUME UNCHANGED value
  PROVE  /\ \A s, old, i, j : AtUnique(s, old, i, j)' <=> AtUnique(s, old, i, j)
         /\ \A r, first, old, j : SetAside(r, first, old, j)' <=> SetAside(r, first, old, j)
<1>1. \A old : Leaders(old)' = Leaders(old)
  BY SameOrder
<1>2. ASSUME NEW s, NEW old, NEW i, NEW j
      PROVE  AtUnique(s, old, i, j)' <=> AtUnique(s, old, i, j)
  BY <1>1 DEF AtUnique, Kept
<1>3. ASSUME NEW r, NEW first, NEW old, NEW j
      PROVE  SetAside(r, first, old, j)' <=> SetAside(r, first, old, j)
  BY <1>1 DEF SetAside, Picks
<1> QED
  BY <1>2, <1>3

LEMMA PicksNone ==
  ASSUME NEW t, NEW s, Len(t) \in Nat
  PROVE  Picks(t, Len(t), s, {})
<1> DEFINE g == [h \in {} |-> h]
<1>1. Len(t) + 1 .. Len(t) = {}
  OBVIOUS
<1>2. g \in [{} -> {}] /\ DOMAIN g = {}
  OBVIOUS
<1> HIDE DEF g
<1> QED
  BY <1>1, <1>2 DEF Picks

LEMMA UniqueBegins ==
  ASSUME NEW s \in Seq(Elems), Len(s) # 0
  PROVE  AtUnique(s, s, 1, 1) /\ 1 \in DOMAIN s
<1> DEFINE n == Len(s)
           g == [h \in 1 .. n |-> h]
<1>1. n \in Nat /\ DOMAIN s = 1 .. n /\ 1 \in 1 .. n
  OBVIOUS
<1>2. g \in [1 .. n -> 1 .. n] /\ \A h \in 1 .. n : g[h] = h
  OBVIOUS
<1> HIDE DEF g, n
<1>3. \A a \in 1 .. n : a > 1 \/ a \in Leaders(s)
  BY <1>1 DEF Leaders
<1>4. \A h \in 1 + 1 .. n : h \in 1 .. n /\ h + 1 - 1 = h
  BY <1>1
<1>5. Kept(s, s, 1, 1, g)
  BY <1>1, <1>2, <1>3, <1>4 DEF Kept, n
<1> QED
  BY <1>1, <1>2, <1>5 DEF AtUnique, n

LEMMA AsideBegins ==
  ASSUME NEW r \in Seq(Elems), NEW old, Len(old) \in Nat \ {0}, DOMAIN old = 1 .. Len(old)
  PROVE  SetAside(r, r, old, 1)
<1>1. 1 \in Leaders(old)
  BY DEF Leaders
<1>2. (1 .. 1) \ Leaders(old) = {}
  BY <1>1
<1>3. Len(r) \in Nat
  OBVIOUS
<1>4. Picks(r, Len(r), old, {})
  BY <1>3, PicksNone
<1>5. Picks(r, Len(r), old, (1 .. 1) \ Leaders(old))
  BY <1>2, <1>4
<1>6. Len(r) <= Len(r) /\ \A h \in DOMAIN r : r[h] = r[h]
  BY <1>3
<1> QED
  BY <1>5, <1>6, Zenon DEF SetAside

(* t is s without its i-th element.                                        *)
Dropped(s, t, i) ==
  /\ t \in Seq(Elems) /\ Len(t) = Len(s) - 1 /\ DOMAIN t = 1 .. Len(s) - 1
  /\ \A h \in 1 .. Len(s) - 1 : t[h] = IF h < i THEN s[h] ELSE s[h + 1]

(* What is next to the i-th element, when there is one.                    *)
LEMMA UniqueNext ==
  ASSUME NEW s \in Seq(Elems), NEW old \in Seq(Elems), NEW i \in 1 .. Len(s), NEW j \in 1 .. Len(old),
         NEW g \in [DOMAIN s -> DOMAIN old], Kept(s, old, i, j, g), Len(s) - i = Len(old) - j, i # Len(s)
  PROVE  /\ i + 1 \in 1 .. Len(s) /\ j + 1 \in 1 .. Len(old)
         /\ g[i + 1] = j + 1 /\ s[i + 1] = old[j + 1]
         /\ j + 1 \in Leaders(old) <=> value[s[i]] # value[s[i + 1]]
<1> DEFINE n == Len(s)
           N == Len(old)
<1>1. /\ n \in Nat /\ N \in Nat /\ DOMAIN s = 1 .. n /\ DOMAIN old = 1 .. N
      /\ i + 1 \in 1 .. n /\ j + 1 \in 1 .. N /\ i + 1 \in i + 1 .. n /\ (i + 1) + j - i = j + 1
      /\ j + 1 # 1 /\ (j + 1) - 1 = j
  OBVIOUS
<1> HIDE DEF n, N
<1>2. g[i + 1] = j + 1
  <2>1. \A h \in i + 1 .. n : g[h] = h + j - i
    BY Zenon DEF Kept, n
  <2> QED
    BY <1>1, <2>1
<1>3. s[i + 1] = old[j + 1] /\ value[old[j]] = value[s[i]]
  <2>1. (\A h \in 1 .. n : s[h] = old[g[h]]) /\ value[old[j]] = value[s[i]]
    BY <1>1, Zenon DEF Kept
  <2> QED
    BY <1>1, <1>2, <2>1
<1>4. j + 1 \in Leaders(old) <=> value[old[j]] # value[old[j + 1]]
  <2>1. j + 1 \in Leaders(old) <=> value[old[(j + 1) - 1]] # value[old[j + 1]]
    BY <1>1 DEF Leaders
  <2> QED
    BY <1>1, <2>1
<1> QED
  BY <1>1, <1>2, <1>3, <1>4 DEF n, N

LEMMA UniqueKeeps ==
  ASSUME NEW s \in Seq(Elems), NEW old \in Seq(Elems), NEW i \in 1 .. Len(s), NEW j \in 1 .. Len(old),
         AtUnique(s, old, i, j), i # Len(s), value[s[i]] # value[s[i + 1]]
  PROVE  /\ AtUnique(s, old, i + 1, j + 1)
         /\ i + 1 \in 1 .. Len(s) /\ j + 1 \in 1 .. Len(old) /\ j + 1 \in Leaders(old)
<1>1. Len(s) - i = Len(old) - j /\ Len(s) \in Nat /\ Len(old) \in Nat
  BY DEF AtUnique
<1>2. PICK g \in [DOMAIN s -> DOMAIN old] : Kept(s, old, i, j, g)
  BY DEF AtUnique
<1>3. /\ i + 1 \in 1 .. Len(s) /\ j + 1 \in 1 .. Len(old)
      /\ g[i + 1] = j + 1 /\ s[i + 1] = old[j + 1] /\ j + 1 \in Leaders(old)
  BY <1>1, <1>2, UniqueNext
<1>4. Kept(s, old, i + 1, j + 1, g)
  <2>1. \A a \in DOMAIN old : (a > j + 1 \/ a \in Leaders(old)) <=> (a > j \/ a \in Leaders(old))
    <3>1. \A a \in 1 .. Len(old) : a > j => a > j + 1 \/ a = j + 1
      BY <1>1
    <3>2. \A a \in 1 .. Len(old) : a > j + 1 => a > j
      BY <1>1
    <3>3. DOMAIN old = 1 .. Len(old)
      OBVIOUS
    <3> QED
      BY <1>3, <3>1, <3>2, <3>3
  <2>2. \A h \in (i + 1) + 1 .. Len(s) : h \in i + 1 .. Len(s) /\ h + (j + 1) - (i + 1) = h + j - i
    BY <1>1
  <2>3. \A h \in (i + 1) + 1 .. Len(s) : g[h] = h + (j + 1) - (i + 1)
    <3>1. \A h \in i + 1 .. Len(s) : g[h] = h + j - i
      BY <1>2, Zenon DEF Kept
    <3> QED
      BY <2>2, <3>1
  <2>4. /\ \A a \in DOMAIN old : (a > j \/ a \in Leaders(old)) <=> \E h \in DOMAIN s : g[h] = a
        /\ \A h, m \in DOMAIN s : h < m => g[h] < g[m]
        /\ \A h \in DOMAIN s : s[h] = old[g[h]]
    BY <1>2, Zenon DEF Kept
  <2>5. value[old[j + 1]] = value[s[i + 1]]
    BY <1>3
  <2> QED
    BY <2>1, <2>3, <2>4, <2>5, Zenon DEF Kept
<1>5. Len(s) - (i + 1) = Len(old) - (j + 1)
  BY <1>1
<1> QED
  BY <1>3, <1>4, <1>5, Zenon DEF AtUnique

LEMMA UniqueDrops ==
  ASSUME NEW s \in Seq(Elems), NEW old \in Seq(Elems), NEW i \in 1 .. Len(s), NEW j \in 1 .. Len(old),
         AtUnique(s, old, i, j), i # Len(s), value[s[i]] = value[s[i + 1]], NEW t, Dropped(s, t, i + 1)
  PROVE  /\ AtUnique(t, old, i, j + 1)
         /\ i \in 1 .. Len(t) /\ j + 1 \in 1 .. Len(old) /\ j + 1 \notin Leaders(old)
<1> DEFINE n == Len(s)
           N == Len(old)
<1>1. n - i = N - j /\ n \in Nat /\ N \in Nat /\ DOMAIN s = 1 .. n /\ DOMAIN old = 1 .. N
  BY DEF AtUnique
<1>2. PICK g \in [DOMAIN s -> DOMAIN old] : Kept(s, old, i, j, g)
  BY Zenon DEF AtUnique
<1>3. /\ i + 1 \in 1 .. n /\ j + 1 \in 1 .. N
      /\ g[i + 1] = j + 1 /\ s[i + 1] = old[j + 1] /\ j + 1 \notin Leaders(old)
  <2>1. Len(s) - i = Len(old) - j
    BY <1>1
  <2>2. /\ i + 1 \in 1 .. Len(s) /\ j + 1 \in 1 .. Len(old)
        /\ g[i + 1] = j + 1 /\ s[i + 1] = old[j + 1]
        /\ j + 1 \in Leaders(old) <=> value[s[i]] # value[s[i + 1]]
    BY <1>2, <2>1, UniqueNext
  <2> QED
    BY <2>2
<1>4. /\ Len(t) = n - 1 /\ DOMAIN t = 1 .. n - 1
      /\ \A h \in 1 .. n - 1 : t[h] = IF h < i + 1 THEN s[h] ELSE s[h + 1]
  BY DEF Dropped
<1> DEFINE at(h) == IF h < i + 1 THEN h ELSE h + 1
           f == [h \in 1 .. n - 1 |-> g[at(h)]]
<1>5. /\ \A a \in 1 .. N : (a > j \/ a \in Leaders(old)) <=> \E h \in 1 .. n : g[h] = a
      /\ \A h, m \in 1 .. n : h < m => g[h] < g[m]
      /\ \A h \in 1 .. n : s[h] = old[g[h]]
      /\ \A h \in i + 1 .. n : g[h] = h + j - i
      /\ value[old[j]] = value[s[i]]
  BY <1>1, <1>2, Zenon DEF Kept
<1> HIDE DEF n, N
<1>6. /\ \A h \in 1 .. n - 1 : at(h) \in 1 .. n /\ at(h) # i + 1
      /\ \A h, m \in 1 .. n - 1 : h < m => at(h) < at(m)
      /\ \A h \in 1 .. n : h # i + 1 => \E m \in 1 .. n - 1 : at(m) = h
  <2>1. \A h \in 1 .. n : h # i + 1 => \E m \in 1 .. n - 1 : at(m) = h
    <3>1. ASSUME NEW h \in 1 .. n, h < i + 1 PROVE h \in 1 .. n - 1 /\ at(h) = h
      BY <1>1, <1>3, <3>1
    <3>2. ASSUME NEW h \in 1 .. n, h > i + 1 PROVE h - 1 \in 1 .. n - 1 /\ at(h - 1) = h
      BY <1>1, <1>3, <3>2
    <3>3. \A h \in 1 .. n : h # i + 1 => h < i + 1 \/ h > i + 1
      BY <1>3
    <3> HIDE DEF at
    <3> QED
      BY <3>1, <3>2, <3>3
  <2>2. \A h \in 1 .. n - 1 : at(h) \in 1 .. n /\ at(h) # i + 1
    BY <1>1, <1>3
  <2>3. \A h, m \in 1 .. n - 1 : h < m => at(h) < at(m)
    BY <1>1, <1>3
  <2> HIDE DEF at
  <2> QED
    BY <2>1, <2>2, <2>3, Zenon
<1>7. \A h \in i + 1 .. n - 1 : at(h) = h + 1 /\ h \in 1 .. n - 1 /\ h + 1 \in i + 1 .. n
                                /\ (h + 1) + j - i = h + (j + 1) - i
  BY <1>1, <1>3
<1>8. at(i) = i /\ i \in 1 .. n - 1 /\ i \in 1 .. n
  BY <1>1, <1>3
<1>9. \A h \in 1 .. n - 1 : t[h] = s[at(h)]
  BY <1>4
<1> HIDE DEF at
<1>10. f \in [1 .. n - 1 -> 1 .. N] /\ \A h \in 1 .. n - 1 : f[h] = g[at(h)]
  <2>1. g \in [1 .. n -> 1 .. N]
    BY <1>1, <1>2
  <2> QED
    BY <1>6, <2>1
<1> HIDE DEF f
<1>11. Kept(t, old, i, j + 1, f)
  <2>1. ASSUME NEW a \in 1 .. N
        PROVE  (a > j + 1 \/ a \in Leaders(old)) <=> \E h \in 1 .. n - 1 : f[h] = a
    <3>1. (a > j + 1 \/ a \in Leaders(old)) <=> (a > j \/ a \in Leaders(old)) /\ a # j + 1
      BY <1>1, <1>3
    <3>2. ASSUME NEW h \in 1 .. n, g[h] = a, a # j + 1 PROVE \E m \in 1 .. n - 1 : f[m] = a
      <4>1. h # i + 1
        BY <1>3, <3>2
      <4>2. PICK m \in 1 .. n - 1 : at(m) = h
        BY <1>6, <4>1
      <4> QED
        BY <1>10, <3>2, <4>2
    <3>3. ASSUME NEW h \in 1 .. n - 1, f[h] = a PROVE a # j + 1 /\ g[at(h)] = a /\ at(h) \in 1 .. n
      <4>1. g[at(h)] = a /\ at(h) \in 1 .. n /\ at(h) # i + 1
        BY <1>6, <1>10, <3>3
      <4>2. g[at(h)] # g[i + 1]
        <5>1. at(h) < i + 1 \/ i + 1 < at(h)
          BY <1>3, <4>1
        <5>2. g[at(h)] < g[i + 1] \/ g[i + 1] < g[at(h)]
          BY <1>3, <1>5, <4>1, <5>1
        <5>3. g[at(h)] \in Int /\ g[i + 1] \in Int
          <6>1. g \in [1 .. n -> 1 .. N]
            BY <1>1, <1>2
          <6> QED
            BY <1>3, <4>1, <6>1
        <5> QED
          BY <5>2, <5>3
      <4> QED
        BY <1>3, <4>1, <4>2
    <3> QED
      BY <1>5, <3>1, <3>2, <3>3
  <2>2. \A h, m \in 1 .. n - 1 : h < m => f[h] < f[m]
    <3>1. \A a, b \in 1 .. n : a < b => g[a] < g[b]
      BY <1>5, Zenon
    <3> QED
      BY <1>6, <1>10, <3>1
  <2>3. \A h \in 1 .. n - 1 : t[h] = old[f[h]]
    <3>1. ASSUME NEW h \in 1 .. n - 1 PROVE t[h] = old[f[h]]
      <4>1. at(h) \in 1 .. n /\ t[h] = s[at(h)] /\ f[h] = g[at(h)]
        BY <1>6, <1>9, <1>10, Zenon
      <4>2. s[at(h)] = old[g[at(h)]]
        BY <1>5, <4>1, Zenon
      <4> QED
        BY <4>1, <4>2
    <3> QED
      BY <3>1
  <2>4. \A h \in i + 1 .. n - 1 : f[h] = h + (j + 1) - i
    BY <1>5, <1>7, <1>10
  <2>5. value[old[j + 1]] = value[t[i]]
    BY <1>3, <1>8, <1>9
  <2> QED
    BY <1>1, <1>4, <2>1, <2>2, <2>3, <2>4, <2>5 DEF Kept
<1>12. Len(t) - i = Len(old) - (j + 1)
  BY <1>1, <1>4 DEF N
<1>13. AtUnique(t, old, i, j + 1)
  <2>1. f \in [DOMAIN t -> DOMAIN old]
    BY <1>1, <1>4, <1>10
  <2> QED
    BY <1>11, <1>12, <2>1, Zenon DEF AtUnique
<1> QED
  BY <1>3, <1>4, <1>8, <1>13 DEF n, N

LEMMA AsideStays ==
  ASSUME NEW r, NEW first, NEW old, NEW j \in Nat, SetAside(r, first, old, j), j + 1 \in Leaders(old)
  PROVE  SetAside(r, first, old, j + 1)
<1>1. (1 .. j + 1) \ Leaders(old) = (1 .. j) \ Leaders(old)
  <2>1. \A a \in 1 .. j + 1 : a \in 1 .. j \/ a = j + 1
    OBVIOUS
  <2>2. 1 .. j \subseteq 1 .. j + 1
    OBVIOUS
  <2> QED
    BY <2>1, <2>2
<1> QED
  BY <1>1 DEF SetAside

(* u is r with x behind it.                                                *)
Followed(r, u, x) ==
  /\ u \in Seq(Elems) /\ Len(u) = Len(r) + 1 /\ DOMAIN u = 1 .. Len(r) + 1
  /\ u[Len(r) + 1] = x /\ \A h \in 1 .. Len(r) : u[h] = r[h]

LEMMA AsideGrows ==
  ASSUME NEW r \in Seq(Elems), NEW first \in Seq(Elems), NEW old, NEW j \in Nat, SetAside(r, first, old, j),
         j + 1 \notin Leaders(old), NEW u, Followed(r, u, old[j + 1])
  PROVE  SetAside(u, first, old, j + 1)
<1> DEFINE n == Len(r)
           d == Len(first)
           A == (1 .. j) \ Leaders(old)
           B == (1 .. j + 1) \ Leaders(old)
<1>1. /\ n \in Nat /\ d \in Nat /\ d <= n /\ DOMAIN first = 1 .. d
      /\ \A h \in 1 .. d : r[h] = first[h]
      /\ Picks(r, d, old, A)
  BY DEF SetAside
<1>2. Len(u) = n + 1 /\ u[n + 1] = old[j + 1] /\ \A h \in 1 .. n : u[h] = r[h]
  BY DEF Followed
<1>3. B = A \cup {j + 1} /\ \A a \in A : a \in Int /\ a < j + 1
  <2>1. 1 .. j + 1 = (1 .. j) \cup {j + 1} /\ \A a \in 1 .. j : a \in Int /\ a < j + 1
    OBVIOUS
  <2> QED
    BY <2>1
<1> HIDE DEF n, d, A, B
<1>4. PICK g \in [d + 1 .. n -> A] :
        /\ \A a \in A : \E i \in d + 1 .. n : g[i] = a
        /\ \A i, m \in d + 1 .. n : i < m => g[i] < g[m]
        /\ \A i \in d + 1 .. n : r[i] = old[g[i]]
  BY <1>1 DEF Picks, n
<1> DEFINE f == [i \in d + 1 .. n + 1 |-> IF i = n + 1 THEN j + 1 ELSE g[i]]
<1>5. /\ \A i \in d + 1 .. n + 1 : i = n + 1 \/ i \in d + 1 .. n
      /\ n + 1 \in d + 1 .. n + 1 /\ \A i \in d + 1 .. n : i \in d + 1 .. n + 1 /\ i # n + 1 /\ i < n + 1 /\ i \in 1 .. n
      /\ \A i \in d + 1 .. n + 1 : ~(n + 1 < i)
  BY <1>1
<1>6. /\ f \in [d + 1 .. n + 1 -> B] /\ DOMAIN f = d + 1 .. n + 1 /\ f[n + 1] = j + 1
      /\ \A i \in d + 1 .. n : f[i] = g[i] /\ f[i] \in A
  BY <1>3, <1>4, <1>5
<1> HIDE DEF f
<1>7. \A a \in B : \E i \in d + 1 .. n + 1 : f[i] = a
  BY <1>3, <1>4, <1>5, <1>6
<1>8. \A i, m \in d + 1 .. n + 1 : i < m => f[i] < f[m]
  <2>1. ASSUME NEW i \in d + 1 .. n + 1, NEW m \in d + 1 .. n + 1, i < m PROVE f[i] < f[m]
    <3>1. i \in d + 1 .. n
      BY <1>5, <2>1
    <3>2. CASE m = n + 1
      BY <1>3, <1>6, <3>1, <3>2
    <3>3. CASE m # n + 1
      BY <1>4, <1>5, <1>6, <2>1, <3>1, <3>3
    <3> QED
      BY <3>2, <3>3
  <2> QED
    BY <2>1
<1>9. \A i \in d + 1 .. n + 1 : u[i] = old[f[i]]
  <2>1. ASSUME NEW i \in d + 1 .. n + 1 PROVE u[i] = old[f[i]]
    <3>1. CASE i = n + 1
      BY <1>2, <1>6, <3>1
    <3>2. CASE i # n + 1
      BY <1>2, <1>4, <1>5, <1>6, <3>2
    <3> QED
      BY <3>1, <3>2
  <2> QED
    BY <2>1
<1>10. Picks(u, d, old, B)
  <2>1. f \in [d + 1 .. Len(u) -> B]
    BY <1>2, <1>6
  <2>2. /\ \A a \in B : \E i \in DOMAIN f : f[i] = a
        /\ \A i, m \in DOMAIN f : i < m => f[i] < f[m]
        /\ \A i \in DOMAIN f : u[i] = old[f[i]]
    BY <1>6, <1>7, <1>8, <1>9, Zenon
  <2> QED
    BY <2>1, <2>2, Zenon DEF Picks
<1>11. d <= Len(u) /\ \A h \in DOMAIN first : u[h] = first[h]
  <2>1. \A h \in 1 .. d : h \in 1 .. n
    BY <1>1
  <2>2. d <= n + 1
    BY <1>1
  <2> QED
    BY <1>1, <1>2, <2>1, <2>2
<1> QED
  BY <1>10, <1>11 DEF SetAside, d, B

(* At the tail every element has been dealt with.                          *)
LEMMA UniqueEnds ==
  ASSUME NEW s \in Seq(Elems), NEW old \in Seq(Elems), NEW j \in 1 .. Len(old), AtUnique(s, old, Len(s), j)
  PROVE  Picks(s, 0, old, Leaders(old)) /\ j = Len(old) /\ DOMAIN old = 1 .. j
<1> DEFINE n == Len(s)
<1>1. n \in Nat /\ Len(old) \in Nat /\ j = Len(old) /\ DOMAIN s = 1 .. n /\ DOMAIN old = 1 .. j /\ 0 + 1 = 1
  BY DEF AtUnique
<1>2. PICK g \in [1 .. n -> 1 .. j] :
        /\ \A a \in 1 .. j : (a > j \/ a \in Leaders(old)) <=> \E h \in 1 .. n : g[h] = a
        /\ \A h, m \in 1 .. n : h < m => g[h] < g[m]
        /\ \A h \in 1 .. n : s[h] = old[g[h]]
  <2>1. PICK g \in [DOMAIN s -> DOMAIN old] : Kept(s, old, Len(s), j, g)
    BY DEF AtUnique
  <2>2. /\ \A a \in DOMAIN old : (a > j \/ a \in Leaders(old)) <=> \E h \in DOMAIN s : g[h] = a
        /\ \A h, m \in DOMAIN s : h < m => g[h] < g[m]
        /\ \A h \in DOMAIN s : s[h] = old[g[h]]
    BY <2>1, Zenon DEF Kept
  <2> QED
    <3>1. g \in [1 .. n -> 1 .. j]
      BY <1>1, <2>1
    <3>2. /\ \A a \in 1 .. j : (a > j \/ a \in Leaders(old)) <=> \E h \in 1 .. n : g[h] = a
          /\ \A h, m \in 1 .. n : h < m => g[h] < g[m]
          /\ \A h \in 1 .. n : s[h] = old[g[h]]
      BY <1>1, <2>2, Zenon
    <3> QED
      BY <3>1, <3>2, Zenon
<1> HIDE DEF n
<1>3. \A a \in 1 .. j : ~(a > j)
  OBVIOUS
<1>4. Leaders(old) \subseteq 1 .. j
  BY <1>1 DEF Leaders
<1>5. g \in [1 .. n -> Leaders(old)] /\ DOMAIN g = 1 .. n
  BY <1>2, <1>3
<1>6. \A a \in Leaders(old) : \E h \in 1 .. n : g[h] = a
  BY <1>2, <1>4
<1>7. Picks(s, 0, old, Leaders(old))
  <2>1. g \in [0 + 1 .. Len(s) -> Leaders(old)]
    BY <1>1, <1>5 DEF n
  <2>2. /\ \A a \in Leaders(old) : \E i \in DOMAIN g : g[i] = a
        /\ \A i, m \in DOMAIN g : i < m => g[i] < g[m]
        /\ \A i \in DOMAIN g : s[i] = old[g[i]]
    BY <1>2, <1>5, <1>6, Zenon
  <2> QED
    BY <2>1, <2>2, Zenon DEF Picks
<1> QED
  BY <1>1, <1>7

LEMMA AsideEnds ==
  ASSUME NEW r \in Seq(Elems), NEW first \in Seq(Elems), NEW old, NEW j, DOMAIN old = 1 .. j,
         SetAside(r, first, old, j)
  PROVE  Picks(r, Len(first), old, DOMAIN old \ Leaders(old)) /\ first = SubSeq(r, 1, Len(first))
<1>1. Len(first) \in Nat /\ Len(r) \in Nat /\ Len(first) <= Len(r) /\ DOMAIN first = 1 .. Len(first)
      /\ \A h \in 1 .. Len(first) : r[h] = first[h]
  BY DEF SetAside
<1>2. Picks(r, Len(first), old, DOMAIN old \ Leaders(old))
  BY DEF SetAside
<1>3. first = SubSeq(r, 1, Len(first))
  BY <1>1
<1> QED
  BY <1>2, <1>3

LEMMA UniqueCallStep ==
  ASSUME IInv, NEW k \in Lists, NEW d \in Lists \cup {NULL}, list_unique(k, d)
  PROVE  IInv'
<1>1. PICK c : Known(c)
  BY Knowing
<1> DEFINE s == c[k]
           n == Len(s)
           to == IF list_empty(k) THEN "uniq" ELSE "unique"
<1>2. Call(k, to) /\ elem' = list_begin(k) /\ dups' = d /\ best' = best /\ d # k /\ to # "idle"
  BY DEF list_unique
<1>3. /\ pc' = to /\ l' = k /\ was' = c /\ Laid(c) /\ Laid(c)' /\ Called(c)' /\ s \in Seq(Elems)
      /\ value' = value
      /\ (to \in PCs /\ {elem', best'} \subseteq Nodes \cup {NULL} /\ dups' \in Lists \cup {NULL}
           /\ (to \in {"reverse", "search", "unique", "max", "min"} => elem' # NULL)) => TypeOK'
  <2> HIDE DEF to
  <2> QED
    BY <1>1, <1>2, Calling
<1>4. elem' = Node(k, s, 1) /\ elem' \in Nodes /\ elem' # NULL /\ n \in Nat /\ (list_empty(k) <=> n = 0)
      /\ DOMAIN s = 1 .. n
  BY <1>2, <1>3, BeginIs
<1>5. TypeOK'
  <2>1. {elem', best'} \subseteq Nodes \cup {NULL} /\ dups' \in Lists \cup {NULL} /\ to \in PCs
    BY <1>2, <1>4 DEF IInv, TypeOK, PCs
  <2> HIDE DEF to
  <2> QED
    BY <1>3, <1>4, <2>1
<1>6. d # NULL => d \in Lists /\ d # k /\ c[d] \in Seq(Elems) /\ Len(c[d]) \in Nat
  BY <1>2, <1>3, LaidIs
<1>7. CASE n = 0
  <2>1. pc' = "uniq" /\ s = <<>>
    BY <1>3, <1>4, <1>7
  <2>2. Leaders(s) = {} /\ DOMAIN s \ Leaders(s) = {} /\ Len(s) = 0
    BY <1>4, <1>7 DEF Leaders
  <2>3. Picks(s, 0, s, Leaders(s))
    <3>1. Picks(s, Len(s), s, {})
      BY <2>2, PicksNone
    <3> HIDE DEF s
    <3> QED
      BY <2>2, <3>1
  <2>4. d # NULL => Picks(c[d], Len(c[d]), s, DOMAIN s \ Leaders(s)) /\ c[d] = SubSeq(c[d], 1, Len(c[d]))
    <3>1. ASSUME d # NULL PROVE Picks(c[d], Len(c[d]), s, {}) /\ c[d] = SubSeq(c[d], 1, Len(c[d]))
      BY <1>6, <3>1, PicksNone
    <3> HIDE DEF s
    <3> QED
      BY <2>2, <3>1
  <2>5. InUniq(c)'
    <3> HIDE DEF s
    <3>1. Leaders(s)' = Leaders(s) /\ s' = s
      BY <1>3, SameOrder DEF s
    <3>2. Picks(s, 0, s, Leaders(s))'
      BY <2>3, <3>1 DEF Picks
    <3>3. d # NULL => Picks(c[d], Len(c[d]), s, DOMAIN s \ Leaders(s))'
      BY <2>4, <3>1 DEF Picks
    <3>4. was'[l'] = s /\ c[l'] = s /\ was' = c /\ dups' = d
      BY <1>2, <1>3 DEF s
    <3> QED
      BY <2>4, <3>1, <3>2, <3>3, <3>4, Zenon DEF InUniq
  <2>6. Facts(c)' /\ Result(c)'
    BY <1>3, <2>1, <2>5, Elsewhere DEF Facts, Result
  <2> QED
    BY <1>3, <1>5, <2>1, <2>6, Settled
<1>8. CASE n # 0
  <2>1. pc' = "unique"
    BY <1>3, <1>4, <1>8
  <2>2. AtUnique(s, s, 1, 1) /\ 1 \in DOMAIN s
    BY <1>3, <1>8, UniqueBegins
  <2>3. elem' = s[1]
    BY <1>3, <1>4, <2>2, NodeIs
  <2>4. d # NULL => d \in Lists \ {k} /\ SetAside(c[d], c[d], s, 1)
    BY <1>4, <1>6, <1>8, AsideBegins
  <2>5. InUnique(c)'
    <3>1. AtUnique(s, s, 1, 1)' /\ (d # NULL => SetAside(c[d], c[d], s, 1)')
      BY <1>3, <2>2, <2>4, UniqueThen
    <3> QED
      BY <1>2, <1>3, <2>2, <2>3, <2>4, <3>1 DEF InUnique
  <2>6. Facts(c)' /\ Result(c)'
    BY <1>3, <2>1, <2>5, Elsewhere DEF Facts
  <2> QED
    BY <1>3, <1>5, <2>1, <2>6, Settled
<1> QED
  BY <1>7, <1>8

(* The three things unique may do with the i-th element of list k, when    *)
(* the one next to it is not the tail, are to pass it, and to take out the *)
(* next one or to move that to list m.                                     *)
LEMMA WithoutDrops ==
  ASSUME NEW s \in Seq(Elems), NEW i \in 1 .. Len(s)
  PROVE  Dropped(s, Without(s, i), i)
<1>1. /\ Without(s, i) \in Seq(Elems) /\ Len(Without(s, i)) = Len(s) - 1
      /\ DOMAIN Without(s, i) = 1 .. Len(s) - 1
  BY WithoutIs
<1>2. \A h \in 1 .. Len(s) - 1 : Without(s, i)[h] = IF h < i THEN s[h] ELSE s[h + 1]
  BY DEF Without
<1> QED
  BY <1>1, <1>2 DEF Dropped

LEMMA CutDrops ==
  ASSUME NEW k \in Lists, NEW s \in Seq(Elems), NEW i \in 1 .. Len(s)
  PROVE  Dropped(s, CutOut(k, s, i, i + 1), i)
<1> DEFINE t == CutOut(k, s, i, i + 1)
<1>1. IsCutOut(k, s, i, i + 1, t)
  <2>1. i \in 1 .. Len(s) + 1 /\ i + 1 \in i .. Len(s) + 1
    OBVIOUS
  <2> QED
    BY <2>1, CutIs
<1>2. (i + 1) - i = 1
  OBVIOUS
<1> HIDE DEF t
<1>3. Dropped(s, t, i)
  BY <1>1, <1>2 DEF IsCutOut, Dropped
<1> QED
  BY <1>3 DEF t

LEMMA PastedFollows ==
  ASSUME NEW k \in Lists, NEW s \in Seq(Elems), NEW i \in 1 .. Len(s), NEW m \in Lists, NEW r \in Seq(Elems)
  PROVE  Followed(r, PastedIn(m, r, Len(r) + 1, k, s, i, i + 1), s[i])
<1> DEFINE t == PastedIn(m, r, Len(r) + 1, k, s, i, i + 1)
<1>1. IsPastedIn(m, r, Len(r) + 1, k, s, i, i + 1, t)
  <2>1. i \in 1 .. Len(s) + 1 /\ i + 1 \in i .. Len(s) + 1 /\ Len(r) + 1 \in 1 .. Len(r) + 1
    OBVIOUS
  <2> QED
    BY <2>1, PastedIs
<1> DEFINE n == Len(r)
<1>2. /\ (i + 1) - i = 1 /\ n \in Nat /\ n + 1 \in 1 .. n + 1 /\ ~(n + 1 < n + 1)
      /\ n + 1 < (n + 1) + 1 /\ i + ((n + 1) - (n + 1)) = i
      /\ \A h \in 1 .. n : h \in 1 .. n + 1 /\ h < n + 1
  OBVIOUS
<1> HIDE DEF t
<1>3. /\ t \in Seq(Elems) /\ Len(t) = n + 1 /\ DOMAIN t = 1 .. n + 1
      /\ \A h \in 1 .. n + 1 : t[h] = IF h < n + 1 THEN r[h] ELSE IF h < (n + 1) + 1 THEN s[i + (h - (n + 1))]
                                      ELSE r[h - 1]
  BY <1>1, <1>2 DEF IsPastedIn
<1> HIDE DEF n
<1>4. t[n + 1] = s[i] /\ \A h \in 1 .. n : t[h] = r[h]
  BY <1>2, <1>3
<1> QED
  BY <1>3, <1>4 DEF Followed, t, n

LEMMA UniqueStep ==
  ASSUME IInv, unique
  PROVE  IInv'
<1>1. PICK c : Known(c)
  BY Knowing
<1> DEFINE x == next[elem]
           same == x # list_end(l) /\ ~less(elem, x) /\ ~less(x, elem)
<1>2. /\ pc = "unique"
      /\ IF same THEN RemoveTo(x, dups) ELSE UNCHANGED links
      /\ IF x = list_end(l) THEN pc' = "uniq" ELSE UNCHANGED pc
      /\ IF same \/ x = list_end(l) THEN UNCHANGED elem ELSE elem' = x
      /\ UNCHANGED <<value, l, sorting, best, dups, was>>
  BY DEF unique
<1>3. /\ l \in Lists /\ was \in [Lists -> Seq(Elems)] /\ TypeOK /\ Facts(c)
      /\ c[l] \in Seq(Elems) /\ Len(c[l]) \in Nat /\ Laid(c)
  BY <1>1, <1>2, Running
<1>4. PICK k \in Lists : k = l
  BY <1>3
<1>4m. PICK m : m = dups
  OBVIOUS
<1> DEFINE s == c[k]
           n == Len(s)
<1>5. PICK o : o = was
  OBVIOUS
<1> DEFINE old == o[k]
<1>6. /\ s \in Seq(Elems) /\ n \in Nat /\ DOMAIN s = 1 .. n
      /\ Node(k, s, n + 1) = tail(k) /\ \A i \in 0 .. n + 1 : Node(k, s, i) \in Nodes
      /\ \A i \in 1 .. n : Node(k, s, i) = s[i] /\ s[i] \in Elems /\ s[i] # tail(k) /\ s[i] \in Nodes
      /\ old \in Seq(Elems) /\ DOMAIN old = 1 .. Len(old) /\ Len(old) \in Nat /\ o \in [Lists -> Seq(Elems)]
      /\ m \in Lists \cup {NULL}
  <2>1. m \in Lists \cup {NULL}
    BY <1>3, <1>4, <1>4m DEF TypeOK
  <2>2. s \in Seq(Elems) /\ n \in Nat /\ DOMAIN s = 1 .. n
    BY <1>3, <1>4, <1>4m
  <2>3. /\ Node(k, s, n + 1) = tail(k) /\ \A i \in 0 .. n + 1 : Node(k, s, i) \in Nodes
        /\ \A i \in 1 .. n : Node(k, s, i) = s[i] /\ s[i] \in Elems /\ s[i] # tail(k) /\ s[i] \in Nodes
    BY <2>2, NodeIs, NodesDiffer
  <2>4. /\ old \in Seq(Elems) /\ DOMAIN old = 1 .. Len(old) /\ Len(old) \in Nat /\ o \in [Lists -> Seq(Elems)]
    BY <1>3, <1>5
  <2> QED
    BY <2>1, <2>2, <2>3, <2>4
<1>7. PICK i \in 1 .. n, j \in 1 .. Len(old) :
        /\ elem = s[i] /\ AtUnique(s, old, i, j)
        /\ m # NULL => m \in Lists \ {k} /\ SetAside(c[m], o[m], old, j)
  <2>1. InUnique(c)
    BY <1>3 DEF Facts
  <2>2. \E i \in DOMAIN s, j \in DOMAIN old :
          /\ elem = s[i] /\ AtUnique(s, old, i, j)
          /\ m # NULL => m \in Lists \ {k} /\ SetAside(c[m], o[m], old, j)
    BY <1>2, <1>4, <1>4m, <1>5, <2>1 DEF InUnique
  <2> QED
    BY <1>6, <2>2
<1>8. /\ x = Node(k, s, i + 1) /\ i + 1 \in 1 .. n + 1 /\ i + 1 \in 0 .. n + 1
      /\ x \in Nodes /\ (x = list_end(l) <=> i = n)
      /\ i # n => x = s[i + 1] /\ i + 1 \in 1 .. n
  <2>1. i + 1 \in 1 .. n + 1 /\ i + 1 \in 0 .. n + 1 /\ (i + 1) - 1 = i /\ (i = n <=> i + 1 = n + 1)
        /\ (i # n => i + 1 \in 1 .. n)
    BY <1>6
  <2>2. next[Node(k, c[k], (i + 1) - 1)] = Node(k, c[k], i + 1)
    BY <1>3, <2>1, PrevIs
  <2>3. Node(k, s, i) = s[i]
    BY <1>6
  <2>4. x = Node(k, s, i + 1)
    BY <1>7, <2>1, <2>2, <2>3
  <2>5. x \in Nodes
    BY <1>6, <2>1, <2>4
  <2>6. x = list_end(l) <=> i = n
    BY <1>4, <1>4m, <1>6, <2>1, <2>4 DEF list_end
  <2>7. i # n => x = s[i + 1]
    BY <1>6, <2>1, <2>4
  <2> QED
    BY <2>1, <2>4, <2>5, <2>6, <2>7
<1>9. l' = k /\ was' = o /\ value' = value /\ dups' = m
  BY <1>2, <1>4, <1>4m, <1>5
<1> HIDE DEF x
<1>10. i # n => (same <=> value[s[i]] = value[s[i + 1]])
  <2>1. ASSUME i # n PROVE value[s[i]] \in Int /\ value[s[i + 1]] \in Int
    <3>1. s[i] \in Elems /\ s[i + 1] \in Elems
      BY <1>6, <1>8, <2>1
    <3> QED
      BY <1>3, <3>1, ValuesAre DEF TypeOK
  <2> QED
    BY <1>7, <1>8, <2>1 DEF less
<1>11. CASE i = n
  <2>1. UNCHANGED links /\ pc' = "uniq" /\ elem' = elem
    BY <1>2, <1>8, <1>11
  <2>2. Laid(c)' /\ next' \in [Nodes -> Nodes \cup {NULL}] /\ prev' \in [Nodes -> Nodes \cup {NULL}]
    BY <1>1, <1>2, <2>1, LaidStill
  <2>3. TypeOK'
    BY <1>2, <1>3, <2>1, <2>2 DEF TypeOK, PCs, sorting
  <2>4. Picks(s, 0, old, Leaders(old)) /\ DOMAIN old = 1 .. j
    <3>1. AtUnique(s, old, Len(s), j)
      BY <1>7, <1>11
    <3> HIDE DEF s, old
    <3> QED
      BY <1>6, <1>7, <3>1, UniqueEnds
  <2>5. m # NULL => /\ Picks(c[m], Len(o[m]), old, DOMAIN old \ Leaders(old))
                    /\ o[m] = SubSeq(c[m], 1, Len(o[m]))
    <3>1. m # NULL => c[m] \in Seq(Elems) /\ o[m] \in Seq(Elems)
      BY <1>3, <1>6, LaidIs
    <3> HIDE DEF old
    <3> QED
      BY <1>7, <2>4, <3>1, AsideEnds
  <2>6. InUniq(c)'
    <3> HIDE DEF s, old
    <3>1. Leaders(old)' = Leaders(old) /\ old' = old
      BY <1>9, SameOrder DEF old
    <3>2. Picks(s, 0, old, Leaders(old))'
      BY <2>4, <3>1 DEF Picks, s
    <3>3. m # NULL => Picks(c[m], Len(o[m]), old, DOMAIN old \ Leaders(old))'
      BY <2>5, <3>1 DEF Picks
    <3>4. was'[l'] = old /\ c[l'] = s /\ was' = o /\ dups' = m
      BY <1>9 DEF s, old
    <3>5. s' = s
      BY DEF s
    <3> QED
      BY <2>5, <3>1, <3>2, <3>3, <3>4, <3>5, Zenon DEF InUniq
  <2>7. Called(c)'
    BY <1>3, <1>4, <1>4m, <1>5, <1>9, <2>1 DEF Called
  <2>8. Facts(c)' /\ Result(c)'
    BY <2>1, <2>6, <2>7, Elsewhere DEF Facts, Result
  <2> QED
    BY <2>1, <2>2, <2>3, <2>8, Settled
<1>12. CASE i # n /\ ~same
  <2>1. UNCHANGED links /\ pc' = "unique" /\ elem' = s[i + 1] /\ elem' \in Nodes /\ elem' # NULL
    BY <1>2, <1>8, <1>12, NULLAssumption
  <2>2. Laid(c)' /\ next' \in [Nodes -> Nodes \cup {NULL}] /\ prev' \in [Nodes -> Nodes \cup {NULL}]
    BY <1>1, <1>2, <2>1, LaidStill
  <2>3. TypeOK'
    BY <1>2, <1>3, <2>1, <2>2 DEF TypeOK, PCs, sorting
  <2>4. /\ AtUnique(s, old, i + 1, j + 1)
        /\ i + 1 \in 1 .. n /\ j + 1 \in 1 .. Len(old) /\ j + 1 \in Leaders(old)
    <3>1. value[s[i]] # value[s[i + 1]] /\ i # Len(s)
      BY <1>10, <1>12
    <3> HIDE DEF s, old
    <3> QED
      BY <1>6, <1>7, <3>1, UniqueKeeps DEF n
  <2>5. m # NULL => m \in Lists \ {k} /\ SetAside(c[m], o[m], old, j + 1)
    <3> HIDE DEF old
    <3> QED
      BY <1>7, <2>4, AsideStays
  <2>6. InUnique(c)'
    <3>1. /\ AtUnique(s, old, i + 1, j + 1)'
          /\ m # NULL => SetAside(c[m], o[m], old, j + 1)'
      <4> HIDE DEF s, old
      <4>1. s' = s /\ old' = old
        BY DEF s, old
      <4> QED
        BY <1>9, <2>4, <2>5, <4>1, UniqueThen
    <3> QED
      BY <1>6, <1>9, <2>1, <2>4, <2>5, <3>1 DEF InUnique
  <2>7. Called(c)'
    BY <1>3, <1>4, <1>4m, <1>5, <1>9, <2>1 DEF Called
  <2>8. Facts(c)' /\ Result(c)'
    BY <2>1, <2>6, <2>7, Elsewhere DEF Facts
  <2> QED
    BY <2>1, <2>2, <2>3, <2>8, Settled
<1>13. CASE i # n /\ same
  <2>1. RemoveTo(s[i + 1], m) /\ pc' = "unique" /\ elem' = s[i] /\ elem' \in Nodes /\ elem' # NULL
    BY <1>2, <1>4, <1>4m, <1>6, <1>7, <1>8, <1>13, NULLAssumption
  <2>2. i + 1 \in 1 .. Len(c[k]) /\ i + 1 \in 1 .. n /\ s[i + 1] \in Nodes /\ (i + 1) + 1 \in 1 .. n + 1
        /\ i # Len(s) /\ value[s[i]] = value[s[i + 1]]
    BY <1>6, <1>8, <1>10, <1>13
  <2>3. \E d : /\ Laid(d)' /\ next' \in [Nodes -> Nodes \cup {NULL}] /\ prev' \in [Nodes -> Nodes \cup {NULL}]
               /\ Dropped(s, d[k], i + 1) /\ (m # NULL => Followed(c[m], d[m], s[i + 1]))
    <3>1. CASE m = NULL
      <4>1. remove(c[k][i + 1])
        BY <2>1, <3>1 DEF RemoveTo
      <4>2. IsLinked /\ next' \in [Nodes -> Nodes \cup {NULL}] /\ prev' \in [Nodes -> Nodes \cup {NULL}]
        BY <1>3, <2>2, <4>1, StillLinked
      <4> DEFINE d == [c EXCEPT ![k] = Without(c[k], i + 1)]
      <4>3. Laid(d)'
        BY <1>3, <2>2, <4>1, <4>2, RemoveLaid
      <4>4. d[k] = Without(s, i + 1)
        BY <1>3 DEF Laid, Arranged
      <4>5. Dropped(s, d[k], i + 1)
        BY <1>6, <2>2, <4>4, WithoutDrops
      <4> HIDE DEF d
      <4> QED
        BY <3>1, <4>2, <4>3, <4>5
    <3>2. CASE m # NULL
      <4>1. m \in Lists /\ m # k
        BY <1>7, <3>2
      <4> DEFINE r == c[m]
                 b == Len(r) + 1
      <4>2. r \in Seq(Elems) /\ Len(r) \in Nat /\ b \in 1 .. Len(c[m]) + 1 /\ Node(m, r, b) = tail(m) /\ tail(m) \in Nodes
        <5>1. r \in Seq(Elems) /\ Len(r) \in Nat
          BY <1>3, <4>1, LaidIs
        <5> QED
          BY <4>1, <5>1, NodeIs, NodesDiffer
      <4>3. Node(k, s, i + 1) = s[i + 1] /\ next[s[i + 1]] = Node(k, s, (i + 1) + 1)
            /\ prev[Node(k, s, (i + 1) + 1)] = s[i + 1] /\ Node(k, s, (i + 1) + 1) \in Nodes
        <5>1. ((i + 1) + 1) - 1 = i + 1 /\ (i + 1) + 1 \in 1 .. Len(c[k]) + 1
          BY <2>2
        <5>2. /\ next[Node(k, c[k], ((i + 1) + 1) - 1)] = Node(k, c[k], (i + 1) + 1)
              /\ prev[Node(k, c[k], (i + 1) + 1)] = Node(k, c[k], ((i + 1) + 1) - 1)
              /\ Node(k, c[k], (i + 1) + 1) \in Nodes
          BY <1>3, <5>1, PrevIs
        <5>3. Node(k, s, i + 1) = s[i + 1]
          BY <1>6, <2>2
        <5> QED
          BY <5>1, <5>2, <5>3
      <4>4. splice(tail(m), s[i + 1], Node(k, s, (i + 1) + 1))
        BY <2>1, <3>2, <4>3 DEF RemoveTo
      <4>5. splice(Node(m, c[m], b), Node(k, c[k], i + 1), Node(k, c[k], (i + 1) + 1))
        BY <4>2, <4>3, <4>4
      <4>6. IsLinked /\ next' \in [Nodes -> Nodes \cup {NULL}] /\ prev' \in [Nodes -> Nodes \cup {NULL}]
        <5>1. prev[Node(k, s, (i + 1) + 1)] \in Nodes
          BY <2>2, <4>3
        <5> HIDE DEF s, r, b
        <5> QED
          BY <1>3, <2>2, <4>2, <4>3, <4>4, <5>1, StillLinked, StillSpliced
      <4> DEFINE t == CutOut(k, c[k], i + 1, (i + 1) + 1)
                 u == PastedIn(m, c[m], b, k, c[k], i + 1, (i + 1) + 1)
                 d == [c EXCEPT ![k] = t, ![m] = u]
      <4>7. Laid(d)'
        <5>1. i + 1 \in 1 .. Len(c[k]) + 1 /\ (i + 1) + 1 \in i + 1 .. Len(c[k]) + 1
          BY <2>2
        <5> HIDE DEF b
        <5> QED
          BY <1>3, <4>1, <4>2, <4>5, <4>6, <5>1, SpliceBetweenLaid
      <4>8. Dropped(s, t, i + 1) /\ Followed(r, u, s[i + 1])
        BY <1>6, <2>2, <4>1, <4>2, CutDrops, PastedFollows
      <4>9. d[k] = t /\ d[m] = u
        <5> HIDE DEF t, u
        <5> QED
          BY <1>3, <4>1 DEF Laid, Arranged
      <4> HIDE DEF t, u, d
      <4>10. Dropped(s, d[k], i + 1) /\ Followed(c[m], d[m], s[i + 1])
        BY <4>8, <4>9
      <4> QED
        BY <4>6, <4>7, <4>10
    <3> QED
      BY <3>1, <3>2
  <2>4. PICK d : /\ Laid(d)' /\ next' \in [Nodes -> Nodes \cup {NULL}] /\ prev' \in [Nodes -> Nodes \cup {NULL}]
                 /\ Dropped(s, d[k], i + 1) /\ (m # NULL => Followed(c[m], d[m], s[i + 1]))
    BY <2>3
  <2> DEFINE t == d[k]
  <2>5. /\ AtUnique(t, old, i, j + 1) /\ t[i] = s[i]
        /\ i \in 1 .. Len(t) /\ j + 1 \in 1 .. Len(old) /\ j + 1 \notin Leaders(old)
        /\ s[i + 1] = old[j + 1]
    <3>1. Dropped(s, t, i + 1)
      BY <2>4
    <3>2. /\ s \in Seq(Elems) /\ old \in Seq(Elems) /\ i \in 1 .. Len(s) /\ j \in 1 .. Len(old)
          /\ AtUnique(s, old, i, j) /\ i # Len(s) /\ value[s[i]] = value[s[i + 1]]
      BY <1>6, <1>7, <2>2
    <3> HIDE DEF s, old, t, n
    <3> QED
      <4>1. t[i] = s[i]
        <5>1. i \in 1 .. Len(s) - 1 /\ i < i + 1
          BY <3>2
        <5> QED
          BY <3>1, <5>1 DEF Dropped
      <4>2. j + 1 \notin Leaders(old)
        BY <3>1, <3>2, UniqueDrops
      <4>3. i \in 1 .. Len(t) /\ j + 1 \in 1 .. Len(old)
        BY <3>1, <3>2, UniqueDrops
      <4>4. s[i + 1] = old[j + 1]
        <5>1. PICK g \in [DOMAIN s -> DOMAIN old] : Kept(s, old, i, j, g)
          BY <3>2, Zenon DEF AtUnique
        <5>2. i + 1 \in DOMAIN s /\ i + 1 \in i + 1 .. Len(s) /\ (i + 1) + j - i = j + 1
          BY <3>2
        <5>3. s[i + 1] = old[g[i + 1]] /\ g[i + 1] = (i + 1) + j - i
          BY <5>1, <5>2, Zenon DEF Kept
        <5> QED
          BY <5>2, <5>3
      <4>5. AtUnique(t, old, i, j + 1)
        BY <3>1, <3>2, UniqueDrops
      <4> QED
        BY <4>1, <4>2, <4>3, <4>4, <4>5
  <2>6. m # NULL => m \in Lists \ {k} /\ SetAside(d[m], o[m], old, j + 1)
    <3>1. ASSUME m # NULL PROVE m \in Lists \ {k} /\ SetAside(d[m], o[m], old, j + 1)
      <4>1. m \in Lists \ {k} /\ c[m] \in Seq(Elems) /\ o[m] \in Seq(Elems) /\ SetAside(c[m], o[m], old, j)
        BY <1>3, <1>6, <1>7, <3>1, LaidIs
      <4>2. Followed(c[m], d[m], old[j + 1]) /\ j \in Nat /\ j + 1 \notin Leaders(old)
        BY <2>4, <2>5, <3>1
      <4> HIDE DEF old
      <4> QED
        BY <4>1, <4>2, AsideGrows
    <3> QED
      BY <3>1
  <2>7. TypeOK'
    BY <1>2, <1>3, <2>1, <2>4 DEF TypeOK, PCs, sorting
  <2>8. InUnique(d)'
    <3>1. /\ AtUnique(t, old, i, j + 1)'
          /\ m # NULL => SetAside(d[m], o[m], old, j + 1)'
      <4> HIDE DEF t, old
      <4>1. t' = t /\ old' = old
        BY DEF t, old
      <4> QED
        BY <1>9, <2>5, <2>6, <4>1, UniqueThen
    <3>2. i \in DOMAIN t
      BY <2>4, <2>5 DEF Dropped
    <3> QED
      BY <1>6, <1>9, <2>1, <2>5, <2>6, <3>1, <3>2 DEF InUnique
  <2>9. Called(d)'
    BY <1>3, <1>4, <1>4m, <1>5, <1>9, <2>1 DEF Called
  <2>10. Facts(d)' /\ Result(d)'
    BY <2>1, <2>8, <2>9, Elsewhere DEF Facts
  <2> QED
    BY <2>1, <2>4, <2>7, <2>10, Settled
<1> QED
  BY <1>11, <1>12, <1>13
-----------------------------------------------------------------------------
(* The invariant holds throughout.                                         *)
LEMMA InitIInv ==
  Init => IInv
<1> SUFFICES ASSUME Init PROVE IInv
  OBVIOUS
<1> DEFINE c == [k \in Lists |-> <<>>]
<1>1. /\ pc = "idle" /\ l = NULL /\ value \in [Elems -> Ranks] /\ runs = 0 /\ dups = NULL
      /\ {a0, a1b0, b1, elem, best} \subseteq {NULL}
      /\ next = [x \in Nodes |-> IF \E k \in Lists : x = head(k)
                                 THEN tail(CHOOSE k \in Lists : x = head(k)) ELSE NULL]
      /\ prev = [x \in Nodes |-> IF \E k \in Lists : x = tail(k)
                                 THEN head(CHOOSE k \in Lists : x = tail(k)) ELSE NULL]
  BY DEF Init, Rankings
<1>2. \A k \in Lists : /\ next[head(k)] = tail(k) /\ next[tail(k)] = NULL
                       /\ prev[tail(k)] = head(k) /\ prev[head(k)] = NULL
  <2> SUFFICES ASSUME NEW k \in Lists
               PROVE  /\ next[head(k)] = tail(k) /\ next[tail(k)] = NULL
                      /\ prev[tail(k)] = head(k) /\ prev[head(k)] = NULL
    OBVIOUS
  <2>1. head(k) \in Nodes /\ tail(k) \in Nodes
    BY NodesDiffer
  <2>2. /\ \A j \in Lists : head(k) = head(j) => j = k
        /\ \A j \in Lists : tail(k) = tail(j) => j = k
        /\ \A j \in Lists : head(k) # tail(j) /\ tail(k) # head(j)
    BY NodesDiffer
  <2>3. (CHOOSE j \in Lists : head(k) = head(j)) = k /\ (CHOOSE j \in Lists : tail(k) = tail(j)) = k
    BY <2>2
  <2>4. next[head(k)] = tail(k) /\ prev[tail(k)] = head(k)
    BY <1>1, <2>1, <2>3
  <2>5. next[tail(k)] = NULL /\ prev[head(k)] = NULL
    BY <1>1, <2>1, <2>2
  <2> QED
    BY <2>4, <2>5
<1>3. next \in [Nodes -> Nodes \cup {NULL}] /\ prev \in [Nodes -> Nodes \cup {NULL}]
  <2>1. \A x \in Nodes : (\E k \in Lists : x = head(k)) => tail(CHOOSE k \in Lists : x = head(k)) \in Nodes
    BY NodesDiffer
  <2>2. \A x \in Nodes : (\E k \in Lists : x = tail(k)) => head(CHOOSE k \in Lists : x = tail(k)) \in Nodes
    BY NodesDiffer
  <2> QED
    BY <1>1, <2>1, <2>2
<1>4. TypeOK
  <2>1. 0 \in 0 .. (Cardinality(Elems) + 1) \div 2
    <3>1. Cardinality(Elems) \in Nat
      BY ElemsAssumption, FS_CardinalityType
    <3> QED
      BY <3>1
  <2> QED
    BY <1>1, <1>3, <2>1 DEF TypeOK, PCs
<1>5. ASSUME NEW k \in Lists PROVE <<>> \in Seq(Elems) /\ Linked(k, <<>>) /\ Contents(k) = <<>>
  <2>1. <<>> \in Seq(Elems) /\ Len(<<>>) = 0
    OBVIOUS
  <2>2. Node(k, <<>>, 0) = head(k) /\ Node(k, <<>>, 0 + 1) = tail(k)
    BY <2>1, NodeIs
  <2>3. Linked(k, <<>>)
    BY <1>2, <2>1, <2>2 DEF Linked, Tied
  <2> QED
    BY <2>1, <2>3, ContentsNow
<1>6. Lay = c
  BY <1>1, <1>5 DEF Lay
<1>7. LaidOut(Lay)
  <2>1. c \in [Lists -> Seq(Elems)] /\ \A k \in Lists : c[k] = <<>>
    BY <1>5
  <2> HIDE DEF c
  <2> QED
    BY <1>5, <1>6, <2>1 DEF LaidOut, Arranged
<1>8. Facts(Lay) /\ ResultOK
  BY <1>1 DEF Facts, Called, InSort, InReverse, InLocate, InMerge, InEndOfPass, InSearch, InUnique, InExtreme,
              ResultOK
<1> QED
  BY <1>4, <1>7, <1>8 DEF IInv

LEMMA StutterStep ==
  ASSUME IInv, UNCHANGED vars
  PROVE  IInv'
<1>1. UNCHANGED <<value, next, prev, pc, l, a0, a1b0, b1, runs, passed, elem, best, dups, was>>
  BY DEF vars, links, locals, sorting
<1>2. TypeOK'
  BY <1>1 DEF IInv, TypeOK
<1>3. \A k : Contents(k)' = Contents(k)
  BY <1>1 DEF Contents, list_begin
<1>4. PICK c : c = Lay
  OBVIOUS
<1>5. Lay' = c
  BY <1>1, <1>3, <1>4 DEF Lay
<1>6. LaidOut(c)'
  BY <1>1, <1>4 DEF IInv, LaidOut, Arranged, Linked, Tied
<1>7. Facts(c)'
  <2>0. /\ Called(c) /\ InSort(c) /\ InReverse(c[l])
        /\ InLocate(c[l]) /\ InMerge(c[l]) /\ InEndOfPass(c[l])
        /\ InSearch(c) /\ InUnique(c) /\ InExtreme(c[l])
        /\ pc = "sorted" => Rising(c[l], 1, Len(c[l]))
    BY <1>4, Zenon DEF IInv, Facts
  <2>1. Called(c)' /\ InSort(c)' /\ (pc' = "sorted" => Rising(c[l], 1, Len(c[l]))')
    <3>1. Called(c)'
      BY <1>1, <2>0 DEF Called
    <3>2. InSort(c)'
      <4>1. CASE pc \in {"pass", "locate", "merge", "end of pass", "sorted"}
        <5>1. StableArrangement(was[l], c[l])
          BY <2>0, <4>1 DEF InSort
        <5>2. PICK s, t : s = was[l] /\ t = c[l]
          OBVIOUS
        <5>3. StableArrangement(s, t)'
          BY <1>1, <5>1, <5>2, SameOrder
        <5> QED
          BY <1>1, <5>2, <5>3 DEF InSort
      <4>2. CASE pc \notin {"pass", "locate", "merge", "end of pass", "sorted"}
        BY <1>1, <4>2, Elsewhere
      <4> QED
        BY <4>1, <4>2
    <3>3. pc' = "sorted" => Rising(c[l], 1, Len(c[l]))'
      BY <1>1, <2>0 DEF Rising, less
    <3> QED
      BY <3>1, <3>2, <3>3
  <2>2. InReverse(c[l])'
    BY <1>1, <2>0 DEF InReverse, HalfTurned
  <2>3. InLocate(c[l])'
    BY <1>1, <2>0 DEF InLocate, AtLocate, Counted, Drops, less
  <2>4. InMerge(c[l])'
    <3>1. CASE pc = "merge"
      <4>1. PICK k, s : k = l /\ s = c[l]
        OBVIOUS
      <4>2. PICK st, p, q, r \in 1 .. Len(s) + 1 : AtMerge(k, s, st, p, q, r)
        BY <2>0, <3>1, <4>1 DEF InMerge
      <4>3. Merging(s, st, p, q, r)' /\ Counted(Len(s), r)'
        BY <1>1, <4>2, MergingThen, CountedThen DEF AtMerge, Counted
      <4>4. AtMerge(k, s, st, p, q, r)'
        BY <1>1, <4>2, <4>3 DEF AtMerge
      <4> QED
        BY <1>1, <4>1, <4>4 DEF InMerge
    <3>2. CASE pc # "merge"
      BY <1>1, <3>2, Elsewhere
    <3> QED
      BY <3>1, <3>2
  <2>5. InEndOfPass(c[l])'
    BY <1>1, <2>0 DEF InEndOfPass, Counted, Drops, less
  <2>6. InSearch(c)' /\ InExtreme(c[l])'
    BY <1>1, <2>0 DEF InSearch, InExtreme, less
  <2>7. InUnique(c)'
    <3>1. CASE pc = "unique"
      <4>1. PICK s, o, old : s = c[l] /\ o = was /\ old = was[l]
        OBVIOUS
      <4>2. PICK i \in DOMAIN s, j \in DOMAIN old :
              /\ elem = s[i] /\ AtUnique(s, old, i, j)
              /\ dups # NULL => dups \in Lists \ {l} /\ SetAside(c[dups], o[dups], old, j)
        BY <2>0, <3>1, <4>1, Zenon DEF InUnique
      <4>3. PICK m : m = dups
        OBVIOUS
      <4>4. AtUnique(s, old, i, j)' /\ (m # NULL => SetAside(c[m], o[m], old, j)')
        BY <1>1, <4>2, <4>3, UniqueThen
      <4> QED
        BY <1>1, <4>1, <4>2, <4>3, <4>4 DEF InUnique
    <3>2. CASE pc # "unique"
      BY <1>1, <3>2, Elsewhere
    <3> QED
      BY <3>1, <3>2
  <2> QED
    BY <2>1, <2>2, <2>3, <2>4, <2>5, <2>6, <2>7, Zenon DEF Facts
<1>8. ResultOK'
  <2>1. ResultOK
    BY DEF IInv
  <2>2. CASE pc = "reversed"
    BY <1>1, <1>3, <2>1, <2>2 DEF ResultOK, Reversed
  <2>3. CASE pc = "ordered"
    BY <1>1, <1>3, <2>1, <2>3 DEF ResultOK, Ordered, Before, less
  <2>4. CASE pc = "uniq"
    BY <1>1, <1>3, <2>1, <2>4 DEF ResultOK, Picks, Leaders
  <2>5. CASE pc \in {"found_max", "found_min"}
    BY <1>1, <1>3, <2>1, <2>5 DEF ResultOK, less, list_end
  <2>6. CASE pc \notin {"reversed", "ordered", "uniq", "found_max", "found_min"}
    BY <1>1, <2>6 DEF ResultOK
  <2> QED
    BY <2>2, <2>3, <2>4, <2>5, <2>6
<1> QED
  BY <1>2, <1>5, <1>6, <1>7, <1>8 DEF IInv

LEMMA NextIInv ==
  ASSUME IInv, Next
  PROVE  IInv'
<1>1. ASSUME NEW x \in Elems, list_remove(x) PROVE IInv'
  BY <1>1, RemoveStep
<1>2. ASSUME NEW x \in Elems, NEW y \in Nodes, list_insert(y, x) PROVE IInv'
  BY <1>2, InsertStep
<1>3. ASSUME NEW x \in Elems, NEW y \in Nodes, NEW z \in Nodes, list_splice(z, x, y) PROVE IInv'
  BY <1>3, SpliceStep
<1>4. ASSUME NEW x \in Elems, NEW k \in Lists, list_insert_ordered(k, x) PROVE IInv'
  BY <1>4, InsertOrderedCallStep
<1>5. ASSUME NEW k \in Lists, list_sort(k) PROVE IInv'
  BY <1>5, SortCallStep
<1>6. ASSUME NEW k \in Lists, list_reverse(k) PROVE IInv'
  BY <1>6, ReverseCallStep
<1>7. ASSUME NEW k \in Lists, list_extreme(k, "max") \/ list_extreme(k, "min") PROVE IInv'
  <2>1. "max" \in {"max", "min"} /\ "min" \in {"max", "min"}
    OBVIOUS
  <2> QED
    BY <1>7, <2>1, ExtremeCallStep
<1>8. ASSUME NEW k \in Lists, NEW d \in Lists \cup {NULL}, list_unique(k, d) PROVE IInv'
  BY <1>8, UniqueCallStep
<1>9. CASE StartPass
  BY <1>9, StartPassStep
<1>10. CASE Locate
  BY <1>10, LocateStep
<1>11. CASE inplace_merge
  BY <1>11, MergeStep
<1>12. CASE EndPass
  BY <1>12, EndPassStep
<1>13. CASE SwapElem
  BY <1>13, SwapElemStep
<1>14. CASE SwapEnds
  BY <1>14, SwapEndsStep
<1>15. CASE search
  BY <1>15, SearchStep
<1>16. CASE unique
  BY <1>16, UniqueStep
<1>17. CASE extreme
  BY <1>17, ExtremeStep
<1>18. CASE Return
  BY <1>18, ReturnStep
<1> QED
  BY <1>1, <1>2, <1>3, <1>4, <1>5, <1>6, <1>7, <1>8, <1>9, <1>10, <1>11, <1>12, <1>13, <1>14, <1>15, <1>16,
     <1>17, <1>18, Zenon DEF Next

LEMMA AlwaysIInv ==
  Spec => []IInv
<1>1. IInv /\ [Next]_vars => IInv'
  BY NextIInv, StutterStep
<1> QED
  BY InitIInv, <1>1, PTL DEF Spec

(* What LinksOK says of the lists in s.                                    *)
Symmetric(s) ==
  /\ \A k \in Lists :
       LET nodes == <<head(k)>> \o s[k] \o <<tail(k)>>
       IN /\ prev[head(k)] = NULL /\ next[tail(k)] = NULL
          /\ \A i \in 1 .. Len(s[k]) + 1 :
               next[nodes[i]] = nodes[i + 1] /\ prev[nodes[i + 1]] = nodes[i]
  /\ \A j, k \in Lists : \A m \in DOMAIN s[j], n \in DOMAIN s[k] :
       s[j][m] = s[k][n] => j = k /\ m = n

LEMMA LinksHold ==
  IInv => LinksOK
<1> SUFFICES ASSUME IInv PROVE LinksOK
  OBVIOUS
<1>1. PICK c : Known(c)
  BY Knowing
<1>2. TypeOK
  BY DEF IInv
<1>3. ASSUME pc # "reverse" PROVE Symmetric([k \in Lists |-> Contents(k)])
  <2> DEFINE s == [k \in Lists |-> Contents(k)]
  <2>1. Laid(c) /\ \A k \in Lists : Contents(k) = c[k]
    BY <1>1, <1>3 DEF Known
  <2>2. s = c
    BY <2>1 DEF Laid, Arranged
  <2> HIDE DEF s
  <2>3. ASSUME NEW k \in Lists
        PROVE  LET nodes == <<head(k)>> \o c[k] \o <<tail(k)>>
               IN /\ prev[head(k)] = NULL /\ next[tail(k)] = NULL
                  /\ \A i \in 1 .. Len(c[k]) + 1 :
                       next[nodes[i]] = nodes[i + 1] /\ prev[nodes[i + 1]] = nodes[i]
    <3> DEFINE t == c[k]
               n == Len(t)
               nodes == <<head(k)>> \o t \o <<tail(k)>>
    <3>1. t \in Seq(Elems) /\ n \in Nat /\ Linked(k, t)
      BY <2>1, LaidIs
    <3>2. head(k) \in Nodes /\ tail(k) \in Nodes /\ t \in Seq(Nodes)
      BY <3>1, NodesDiffer
    <3> HIDE DEF t
    <3>3. \A i \in 1 .. n + 2 : nodes[i] = IF i = 1 THEN head(k) ELSE IF i = n + 2 THEN tail(k) ELSE t[i - 1]
      BY <3>1, <3>2
    <3>4. \A i \in 1 .. n + 2 : nodes[i] = Node(k, t, i - 1)
      BY <3>1, <3>3 DEF Node
    <3> HIDE DEF nodes
    <3>5. prev[head(k)] = NULL /\ next[tail(k)] = NULL
      BY <3>1, Zenon DEF Linked, Tied
    <3>6. ASSUME NEW i \in 1 .. n + 1 PROVE next[nodes[i]] = nodes[i + 1] /\ prev[nodes[i + 1]] = nodes[i]
      <4>1. i - 1 \in 0 .. n /\ i \in 1 .. n + 2 /\ i + 1 \in 1 .. n + 2 /\ (i + 1) - 1 = i /\ (i - 1) + 1 = i
        BY <3>1
      <4>2. /\ next[Node(k, t, i - 1)] = Node(k, t, (i - 1) + 1)
            /\ prev[Node(k, t, (i - 1) + 1)] = Node(k, t, i - 1)
        BY <3>1, <4>1, Zenon DEF Linked, Tied
      <4>3. nodes[i] = Node(k, t, i - 1) /\ nodes[i + 1] = Node(k, t, i)
        BY <3>4, <4>1
      <4> QED
        BY <4>1, <4>2, <4>3
    <3> QED
      BY <3>5, <3>6 DEF t, nodes
  <2>4. \A j, k \in Lists : \A m \in DOMAIN c[j], n \in DOMAIN c[k] : c[j][m] = c[k][n] => j = k /\ m = n
    BY <2>1, Zenon DEF Laid, Arranged
  <2> QED
    <3>1. Symmetric(c)
      BY <2>3, <2>4, Zenon DEF Symmetric
    <3> QED
      BY <2>2, <3>1 DEF s
<1> QED
  BY <1>2, <1>3, Zenon DEF LinksOK, Symmetric

LEMMA SortHolds ==
  IInv => SortOK
<1> SUFFICES ASSUME IInv, pc \in {"pass", "locate", "merge", "end of pass", "sorted"}
             PROVE  StableArrangement(was[l], Contents(l)) /\ (pc = "sorted" => Ordered(Contents(l)))
  BY DEF SortOK
<1>1. PICK c : Known(c)
  BY Knowing
<1>2. c[l] = Contents(l) /\ Len(c[l]) \in Nat /\ Facts(c)
  BY <1>1, Running
<1>3. StableArrangement(was[l], c[l])
  BY <1>2 DEF Facts, InSort
<1>4. ASSUME pc = "sorted" PROVE Ordered(c[l])
  BY <1>2, <1>4, OrderedRises DEF Facts
<1> QED
  BY <1>2, <1>3, <1>4

(* A part of a list between two nodes of it.                               *)
LEMMA SegmentIs ==
  ASSUME NEW c, Laid(c), l \in Lists, Contents(l) = c[l],
         NEW p \in 1 .. Len(c[l]) + 1, NEW q \in p .. Len(c[l]) + 1, Rising(c[l], p, q - 1)
  PROVE  Ordered(Segment(Node(l, c[l], p), Node(l, c[l], q)))
<1> DEFINE s == c[l]
           n == Len(s)
           t == Segment(Node(l, s, p), Node(l, s, q))
<1>1. s \in Seq(Elems) /\ n \in Nat /\ q \in 1 .. n + 1 /\ p \in 1 .. n + 1 /\ p <= q /\ p \in Nat /\ q \in Nat
  BY LaidIs
<1>2. Row(l) = Append(s, tail(l)) /\ Len(Row(l)) = n + 1
      /\ \A i \in 1 .. n + 1 : Row(l)[i] = Node(l, s, i)
  BY <1>1, RowIs
<1>3. place(l, Node(l, s, p)) = p /\ place(l, Node(l, s, q)) = q
  BY <1>1, PlaceIs
<1>4. t = SubSeq(Row(l), p, q - 1)
  BY <1>3 DEF Segment
<1>5. Row(l) \in Seq(Nodes)
  <2>1. s \in Seq(Nodes) /\ tail(l) \in Nodes
    BY <1>1, NodesDiffer
  <2> QED
    BY <1>2, <2>1
<1>6. \A i \in 1 .. n : Row(l)[i] = s[i]
  BY <1>1, <1>2, NodeIs
<1> HIDE DEF s, n, t
<1>7. Len(t) = q - p /\ \A i \in 1 .. q - p : t[i] = Row(l)[p + i - 1]
  <2> DEFINE R == Row(l)
  <2>1. R \in Seq(Nodes) /\ Len(R) = n + 1 /\ t = SubSeq(R, p, q - 1) /\ p \in Int /\ q \in Int
        /\ 1 <= p /\ p <= q /\ q - 1 <= n + 1
    BY <1>1, <1>2, <1>4, <1>5
  <2> HIDE DEF R
  <2>2. Len(t) = q - p /\ \A i \in 1 .. q - p : t[i] = R[p + i - 1]
    BY <2>1
  <2> QED
    BY <2>2 DEF R
<1>8. ASSUME NEW i \in 1 .. Len(t) - 1 PROVE ~less(t[i + 1], t[i])
  <2>1. /\ i \in 1 .. q - p /\ i + 1 \in 1 .. q - p /\ p + i - 1 \in 1 .. n /\ p + (i + 1) - 1 \in 1 .. n
        /\ p + (i + 1) - 1 = p + i /\ p + i \in p + 1 .. q - 1 /\ (p + i) - 1 = p + i - 1
    BY <1>1, <1>7
  <2>2. t[i] = s[p + i - 1] /\ t[i + 1] = s[p + i]
    BY <1>6, <1>7, <2>1
  <2>3. ~less(s[p + i], s[(p + i) - 1])
    BY <2>1, Zenon DEF Rising, s
  <2> QED
    BY <2>1, <2>2, <2>3
<1> QED
  BY <1>8 DEF Ordered, s, t

LEMMA MergeHolds ==
  IInv => MergeOK
<1> SUFFICES ASSUME IInv PROVE MergeOK
  OBVIOUS
<1>1. PICK c : Known(c)
  BY Knowing
<1>2. ASSUME pc = "merge"
      PROVE  Ordered(Segment(a0, a1b0)) /\ Ordered(Segment(a1b0, b1))
  <2>1. l \in Lists /\ Laid(c) /\ Contents(l) = c[l] /\ Facts(c)
    BY <1>1, <1>2, Running
  <2>2. PICK st, p, q, r \in 1 .. Len(c[l]) + 1 : AtMerge(l, c[l], st, p, q, r)
    BY <1>2, <2>1 DEF Facts, InMerge
  <2>3. /\ p <= q /\ q <= r /\ a0 = Node(l, c[l], p) /\ a1b0 = Node(l, c[l], q) /\ b1 = Node(l, c[l], r)
        /\ Rising(c[l], p, q - 1) /\ Rising(c[l], q, r - 1)
    BY <2>2, Zenon DEF AtMerge, Merging
  <2>4. q \in p .. Len(c[l]) + 1 /\ r \in q .. Len(c[l]) + 1
    BY <2>3
  <2> QED
    BY <2>1, <2>3, <2>4, SegmentIs
<1>3. ASSUME pc = "end of pass" \/ (pc = "locate" /\ a0 = list_end(l))
      PROVE  RunCount(Contents(l)) <= runs /\ runs <= (RunCount(passed) + 1) \div 2
  <2>1. l \in Lists /\ Laid(c) /\ Contents(l) = c[l] /\ Facts(c)
    BY <1>1, <1>3, Running
  <2> DEFINE s == c[l]
             n == Len(s)
  <2>2. s \in Seq(Elems) /\ n \in Nat /\ Node(l, s, n + 1) = tail(l)
        /\ \A i \in 1 .. n : Node(l, s, i) # tail(l)
    <3>1. s \in Seq(Elems) /\ n \in Nat
      BY <2>1, LaidIs
    <3> QED
      BY <2>1, <3>1, NodeIs, NodesDiffer
  <2>3. /\ Counted(n, n + 1) /\ 2 * runs <= n + 1 /\ (n = 0 => 2 * runs <= 1)
        /\ n > 0 => Cardinality(Drops(s, n)) < runs
    <3>1. CASE pc = "end of pass"
      <4>1. Counted(n, n + 1) /\ 2 * runs <= n + 1 /\ Cardinality(Drops(s, n)) < runs
        BY <2>1, <3>1 DEF Facts, InEndOfPass
      <4> QED
        BY <4>1
    <3>2. CASE pc = "locate" /\ a0 = list_end(l)
      <4>1. PICK p \in 1 .. n + 1 : AtLocate(l, s, p)
        BY <2>1, <3>2 DEF Facts, InLocate
      <4>2. p = n + 1 /\ (n + 1) - 1 = n
        BY <2>2, <3>2, <4>1 DEF AtLocate, list_end
      <4>3. /\ Counted(n, n + 1) /\ 2 * runs <= (n + 1) - 1
            /\ n + 1 > 1 => Cardinality(Drops(s, (n + 1) - 1)) < runs
        BY <4>1, <4>2 DEF AtLocate
      <4>4. runs \in Nat
        BY <4>3 DEF Counted
      <4> QED
        BY <2>2, <4>2, <4>3, <4>4
    <3> QED
      BY <1>3, <3>1, <3>2
  <2>4. /\ passed \in Seq(Elems) /\ Len(passed) = n /\ runs \in Nat
        /\ 2 * runs <= Cardinality(Drops(passed, n)) + 2
    <3>1. n + 1 > n
      BY <2>2
    <3> QED
      BY <2>3, <3>1 DEF Counted
  <2>5. Cardinality(Drops(passed, n)) \in Nat /\ Cardinality(Drops(s, n)) \in Nat
    BY <2>2, DropsFinite
  <2>6. (s = <<>> <=> n = 0) /\ (passed = <<>> <=> n = 0)
    BY <2>2, <2>4
  <2>7. /\ RunCount(s) = IF n = 0 THEN 0 ELSE 1 + Cardinality(Drops(s, n))
        /\ RunCount(passed) = IF n = 0 THEN 0 ELSE 1 + Cardinality(Drops(passed, n))
    BY <2>4, <2>6 DEF RunCount
  <2> HIDE DEF s, n
  <2>8. RunCount(s) <= runs
    BY <2>2, <2>3, <2>4, <2>5, <2>7
  <2>9. runs <= (RunCount(passed) + 1) \div 2
    <3>1. CASE n = 0
      BY <2>3, <2>4, <2>7, <3>1
    <3>2. CASE n # 0
      BY <2>4, <2>5, <2>7, <3>2
    <3> QED
      BY <3>1, <3>2
  <2> QED
    BY <2>1, <2>8, <2>9 DEF s
<1> QED
  BY <1>2, <1>3, Zenon DEF MergeOK

(* list.c (lines 18 to 24) draws a list as a head and a tail with elements *)
(* linked both ways between them.  With any number of elements and lists,  *)
(* and whatever the operations, every list is so drawn between any two     *)
(* steps, even between the iterations of list_sort, list_insert_ordered    *)
(* and list_unique, no element is on two lists or twice on one, and no     *)
(* loop runs off a list; only list_reverse has its list in another shape   *)
(* until it returns, and the other lists keep theirs.                      *)
THEOREM LinksInvariant ==
  Spec => []LinksOK
BY AlwaysIInv, LinksHold, PTL

(* list_sort sorts lists of any length, and is stable: it moves an element *)
(* only before greater ones (inplace_merge), so that at any time the list  *)
(* holds the elements of the call, equal ones in the order of the call.    *)
THEOREM SortInvariant ==
  Spec => []SortOK
BY AlwaysIInv, SortHolds, PTL

(* What list.c asserts as inplace_merge is entered (lines 395 and 396),    *)
(* that the two ranges are in order, holds at every iteration of its loop; *)
(* and a pass of list_sort leaves at most half the runs it found, rounded  *)
(* up, as its output_run_cnt tells: why its passes come to an end.         *)
THEOREM MergeInvariant ==
  Spec => []MergeOK
BY AlwaysIInv, MergeHolds, PTL

(* What the other calls with loops return, for lists of any length:        *)
(* list_reverse, list_insert_ordered on a sorted list, list_unique with    *)
(* and without a list for the duplicates, list_max and list_min.           *)
THEOREM ResultInvariant ==
  Spec => []ResultOK
<1>1. IInv => ResultOK
  BY DEF IInv
<1> QED
  BY AlwaysIInv, <1>1, PTL
=============================================================================
