--------------------------- MODULE WordListProofs ---------------------------
(***************************************************************************)
(* What the functions of WordList do, for every text and every list: sums  *)
(* over finite sets; a loop over a sequence (FoldLeft), followed element   *)
(* by element; wordcount_sort puts the entries in order and loses none;    *)
(* what a list counts when an entry is added or taken away; find_word and  *)
(* add; get_words finds each stretch of letters of the text once.          *)
(***************************************************************************)
EXTENDS WordList, FiniteSetTheorems, SequenceTheorems, WellFoundedInduction, TLAPS
-----------------------------------------------------------------------------
(* Sums over a finite set.                                                 *)
LEMMA SubsetInduction ==
  ASSUME NEW S, IsFiniteSet(S), NEW P,
         \A T \in SUBSET S : (\A U \in SUBSET T : U # T => U \in P) => T \in P
  PROVE  \A T \in SUBSET S : T \in P
<1> DEFINE R == StrictSubsetOrdering(S)
           B == (SUBSET S) \ P
<1>1. IsWellFoundedOn(R, SUBSET S)
  BY FS_StrictSubsetOrderingWellFounded, FS_FiniteSubsetsOfFinite
<1>2. \A T, U \in SUBSET S : <<U, T>> \in R <=> U \subseteq T /\ U # T
  BY DEF StrictSubsetOrdering
<1>3. ASSUME B # {} PROVE FALSE
  <2>0. B \subseteq SUBSET S
    OBVIOUS
  <2>1. PICK T \in B : \A U \in B : ~(<<U, T>> \in R)
    <3> HIDE DEF R, B
    <3> QED
      BY <1>1, <1>3, <2>0, WFMin
  <2> HIDE DEF R
  <2>2. ASSUME NEW U \in SUBSET T, U # T PROVE U \in P
    <3>1. U \in SUBSET S /\ T \in SUBSET S
      BY <2>0, <2>1
    <3>2. <<U, T>> \in R
      BY <1>2, <2>2, <3>1, Zenon
    <3>3. U \notin B
      BY <2>1, <3>2, Zenon
    <3> QED
      BY <3>1, <3>3
  <2> QED
    BY <2>1, <2>2
<1>4. ASSUME NEW T \in SUBSET S, T \notin P PROVE FALSE
  <2>1. T \in B
    <3> HIDE DEF R
    <3> QED
      BY <1>4
  <2> HIDE DEF B
  <2> QED
    BY <1>3, <2>1
<1> HIDE DEF B, R
<1> QED
  BY <1>4

One(s) == CHOOSE x \in s : TRUE

(* g sums f over every part of S.                                          *)
Sums(g, f, S) ==
  /\ g = [s \in SUBSET S |-> g[s]]
  /\ g[{}] = 0
  /\ \A s \in SUBSET S : s # {} => g[s] = f[One(s)] + g[s \ {One(s)}]

LEMMA OneIn ==
  ASSUME NEW s, s # {}
  PROVE  One(s) \in s
BY Zenon DEF One

LEMMA SumsAgree ==
  ASSUME NEW S, IsFiniteSet(S), NEW T \in SUBSET S, NEW f, NEW g, NEW h,
         Sums(g, f, S), Sums(h, f, T)
  PROVE  \A s \in SUBSET T : g[s] = h[s]
<1> DEFINE P == {s \in SUBSET T : g[s] = h[s]}
<1>1. IsFiniteSet(T)
  BY FS_Subset
<1>2. ASSUME NEW s \in SUBSET T, \A u \in SUBSET s : u # s => u \in P
      PROVE  s \in P
  <2>1. CASE s = {}
    BY <2>1 DEF Sums
  <2>2. CASE s # {}
    <3>1. s \ {One(s)} \in SUBSET s /\ s \ {One(s)} # s
      BY <2>2, OneIn
    <3>2. g[s \ {One(s)}] = h[s \ {One(s)}]
      BY <1>2, <3>1
    <3> QED
      BY <2>2, <3>2 DEF Sums
  <2> QED
    BY <2>1, <2>2
<1>3. \A s \in SUBSET T : s \in P
  <2> HIDE DEF P
  <2> QED
    BY <1>1, <1>2, SubsetInduction
<1> QED
  BY <1>3

LEMMA SumsExists ==
  ASSUME NEW S, IsFiniteSet(S), NEW f
  PROVE  \E g : Sums(g, f, S)
<1> DEFINE P == {T \in SUBSET S : \E g : Sums(g, f, T)}
<1>1. ASSUME NEW T \in SUBSET S, \A U \in SUBSET T : U # T => U \in P
      PROVE  T \in P
  <2> DEFINE part(U) == CHOOSE g : Sums(g, f, U)
             h == [s \in SUBSET T |-> IF s = {} THEN 0
                                      ELSE f[One(s)] + part(s \ {One(s)})[s \ {One(s)}]]
  <2>1. ASSUME NEW U \in SUBSET T, U # T PROVE Sums(part(U), f, U)
    BY <1>1, <2>1
  <2>2. ASSUME NEW s \in SUBSET T, s # T
        PROVE  h[s] = part(s)[s]
    <3>1. CASE s = {}
      <4>1. Sums(part(s), f, s)
        BY <2>1, <2>2
      <4> QED
        BY <3>1, <4>1 DEF Sums
    <3>2. CASE s # {}
      <4> DEFINE r == s \ {One(s)}
      <4>1. r \in SUBSET s /\ r # T /\ r \in SUBSET T
        BY <2>2, <3>2, OneIn
      <4>2. Sums(part(s), f, s) /\ Sums(part(r), f, r)
        BY <2>1, <2>2, <4>1
      <4>3. IsFiniteSet(s)
        BY FS_Subset
      <4>4. part(s)[r] = part(r)[r]
        <5> HIDE DEF part, r
        <5> QED
          BY <4>1, <4>2, <4>3, SumsAgree
      <4>5. part(s)[s] = f[One(s)] + part(s)[r]
        <5> HIDE DEF part
        <5> QED
          BY <3>2, <4>2 DEF Sums
      <4>6. h[s] = f[One(s)] + part(r)[r]
        BY <3>2
      <4> HIDE DEF part, r, h
      <4> QED
        BY <4>4, <4>5, <4>6
    <3> QED
      BY <3>1, <3>2
  <2>3. ASSUME NEW s \in SUBSET T, s # {}
        PROVE  h[s] = f[One(s)] + h[s \ {One(s)}]
    <3> DEFINE r == s \ {One(s)}
    <3>1. r \in SUBSET T /\ r # T
      BY <2>3, OneIn
    <3>2. h[r] = part(r)[r]
      <4> HIDE DEF part, h, r
      <4> QED
        BY <2>2, <3>1
    <3>3. h[s] = f[One(s)] + part(r)[r]
      BY <2>3
    <3> HIDE DEF part, h
    <3> QED
      BY <3>2, <3>3
  <2>4. h[{}] = 0 /\ h = [s \in SUBSET T |-> h[s]]
    <3>1. {} \in SUBSET T
      OBVIOUS
    <3>2. h[{}] = 0
      BY <3>1, Zenon
    <3>3. h = [s \in SUBSET T |-> h[s]]
      <4>1. \A s \in SUBSET T : h[s] = IF s = {} THEN 0
                                       ELSE f[One(s)] + part(s \ {One(s)})[s \ {One(s)}]
        BY Zenon
      <4> HIDE DEF part
      <4> QED
        BY <4>1
    <3> QED
      BY <3>2, <3>3
  <2>5. Sums(h, f, T)
    <3> HIDE DEF h
    <3> QED
      BY <2>3, <2>4 DEF Sums
  <2> QED
    BY <2>5
<1>2. \A T \in SUBSET S : T \in P
  <2> HIDE DEF P
  <2> QED
    BY <1>1, SubsetInduction
<1> QED
  BY <1>2

LEMMA SumIs ==
  ASSUME NEW S, IsFiniteSet(S), NEW f
  PROVE  \E g : Sums(g, f, S) /\ SumFunctionOnSet(f, S) = g[S]
<1> DEFINE Is(g) == g = [s \in SUBSET S |-> IF s = {} THEN 0 ELSE f[One(s)] + g[s \ {One(s)}]]
           g == CHOOSE g : Is(g)
<1>1. PICK h : Sums(h, f, S)
  BY SumsExists
<1>2. Is(h)
  <2>1. \A s \in SUBSET S : h[s] = IF s = {} THEN 0 ELSE f[One(s)] + h[s \ {One(s)}]
    BY <1>1 DEF Sums
  <2> QED
    BY <1>1, <2>1, Zenon DEF Sums
<1>3. Is(g)
  BY <1>2, Zenon
<1>4. Sums(g, f, S)
  <2> HIDE DEF g
  <2>1. \A s \in SUBSET S : g[s] = IF s = {} THEN 0 ELSE f[One(s)] + g[s \ {One(s)}]
    BY <1>3
  <2>2. g = [s \in SUBSET S |-> g[s]]
    BY <1>3
  <2> QED
    BY <2>1, <2>2 DEF Sums
<1>5. SumFunctionOnSet(f, S) = g[S]
  BY DEF SumFunctionOnSet, FoldFunctionOnSet, MapThenFoldSet, One
<1> HIDE DEF g
<1> QED
  BY <1>4, <1>5

LEMMA SumEmpty ==
  ASSUME NEW f
  PROVE  SumFunctionOnSet(f, {}) = 0
<1>1. PICK g : Sums(g, f, {}) /\ SumFunctionOnSet(f, {}) = g[{}]
  BY SumIs, FS_EmptySet
<1> QED
  BY <1>1 DEF Sums

LEMMA SumRec ==
  ASSUME NEW S, IsFiniteSet(S), S # {}, NEW f
  PROVE  SumFunctionOnSet(f, S) = f[One(S)] + SumFunctionOnSet(f, S \ {One(S)})
<1> DEFINE T == S \ {One(S)}
<1>1. T \in SUBSET S /\ IsFiniteSet(T)
  BY FS_Subset
<1> HIDE DEF T
<1>2. PICK g : Sums(g, f, S) /\ SumFunctionOnSet(f, S) = g[S]
  BY SumIs
<1>3. PICK h : Sums(h, f, T) /\ SumFunctionOnSet(f, T) = h[T]
  BY <1>1, SumIs
<1>4. g[T] = h[T]
  BY <1>1, <1>2, <1>3, SumsAgree
<1>5. g[S] = f[One(S)] + g[T]
  BY <1>2 DEF Sums, T
<1> QED
  BY <1>2, <1>3, <1>4, <1>5 DEF T

LEMMA SumType ==
  ASSUME NEW S, IsFiniteSet(S), NEW f, \A x \in S : f[x] \in Nat
  PROVE  SumFunctionOnSet(f, S) \in Nat
<1> DEFINE P == {T \in SUBSET S : SumFunctionOnSet(f, T) \in Nat}
<1>1. ASSUME NEW T \in SUBSET S, \A U \in SUBSET T : U # T => U \in P
      PROVE  T \in P
  <2>1. CASE T = {}
    BY <2>1, SumEmpty
  <2>2. CASE T # {}
    <3>1. One(T) \in T /\ IsFiniteSet(T)
      BY <2>2, OneIn, FS_Subset
    <3>2. T \ {One(T)} \in SUBSET T /\ T \ {One(T)} # T
      BY <3>1
    <3>3. SumFunctionOnSet(f, T \ {One(T)}) \in Nat /\ f[One(T)] \in Nat
      BY <1>1, <3>1, <3>2
    <3>4. SumFunctionOnSet(f, T) = f[One(T)] + SumFunctionOnSet(f, T \ {One(T)})
      BY <2>2, <3>1, SumRec
    <3> QED
      BY <3>3, <3>4
  <2> QED
    BY <2>1, <2>2
<1>2. \A T \in SUBSET S : T \in P
  <2> HIDE DEF P
  <2> QED
    BY <1>1, SubsetInduction
<1> QED
  BY <1>2

LEMMA SumSame ==
  ASSUME NEW S, IsFiniteSet(S), NEW f, NEW h, \A x \in S : f[x] = h[x]
  PROVE  SumFunctionOnSet(f, S) = SumFunctionOnSet(h, S)
<1> DEFINE P == {T \in SUBSET S : SumFunctionOnSet(f, T) = SumFunctionOnSet(h, T)}
<1>1. ASSUME NEW T \in SUBSET S, \A U \in SUBSET T : U # T => U \in P
      PROVE  T \in P
  <2>1. CASE T = {}
    BY <2>1, SumEmpty
  <2>2. CASE T # {}
    <3>1. One(T) \in T /\ IsFiniteSet(T)
      BY <2>2, OneIn, FS_Subset
    <3>2. T \ {One(T)} \in SUBSET T /\ T \ {One(T)} # T
      BY <3>1
    <3>3. SumFunctionOnSet(f, T \ {One(T)}) = SumFunctionOnSet(h, T \ {One(T)})
      BY <1>1, <3>2
    <3>4. /\ SumFunctionOnSet(f, T) = f[One(T)] + SumFunctionOnSet(f, T \ {One(T)})
          /\ SumFunctionOnSet(h, T) = h[One(T)] + SumFunctionOnSet(h, T \ {One(T)})
      BY <2>2, <3>1, SumRec
    <3> QED
      BY <3>1, <3>3, <3>4
  <2> QED
    BY <2>1, <2>2
<1>2. \A T \in SUBSET S : T \in P
  <2> HIDE DEF P
  <2> QED
    BY <1>1, SubsetInduction
<1> QED
  BY <1>2

(* Any of the elements may be added first.                                 *)
LEMMA SumTake ==
  ASSUME NEW S, IsFiniteSet(S), NEW f, \A y \in S : f[y] \in Nat, NEW x \in S
  PROVE  SumFunctionOnSet(f, S) = f[x] + SumFunctionOnSet(f, S \ {x})
<1> DEFINE sum(T) == SumFunctionOnSet(f, T)
           P == {T \in SUBSET S : \A y \in T : sum(T) = f[y] + sum(T \ {y})}
<1> HIDE DEF sum
<1>0. ASSUME NEW T \in SUBSET S PROVE sum(T) \in Nat
  BY FS_Subset, SumType DEF sum
<1>1. ASSUME NEW T \in SUBSET S, \A U \in SUBSET T : U # T => U \in P
      PROVE  T \in P
  <2> SUFFICES ASSUME NEW y \in T PROVE sum(T) = f[y] + sum(T \ {y})
    OBVIOUS
  <2> DEFINE z == One(T)
             both == T \ {y, z}
  <2>1. z \in T /\ IsFiniteSet(T)
    BY OneIn, FS_Subset
  <2>2. sum(T) = f[z] + sum(T \ {z})
    BY <2>1, SumRec DEF sum
  <2> HIDE DEF z
  <2>3. CASE y = z
    BY <2>2, <2>3
  <2>4. CASE y # z
    <3>1. T \ {z} \in P /\ T \ {y} \in P
      <4>1. T \ {z} \in SUBSET T /\ T \ {y} \in SUBSET T /\ T \ {z} # T /\ T \ {y} # T
        BY <2>1
      <4> HIDE DEF P
      <4> QED
        BY <1>1, <4>1
    <3>2. (T \ {z}) \ {y} = both /\ (T \ {y}) \ {z} = both
      OBVIOUS
    <3>3. y \in T \ {z} /\ z \in T \ {y}
      BY <2>1, <2>4
    <3>4. sum(T \ {z}) = f[y] + sum(both)
      BY <3>1, <3>2, <3>3
    <3>5. sum(T \ {y}) = f[z] + sum(both)
      BY <3>1, <3>2, <3>3
    <3>6. f[y] \in Nat /\ f[z] \in Nat /\ sum(both) \in Nat
      BY <1>0, <2>1
    <3> QED
      BY <2>2, <3>4, <3>5, <3>6
  <2> QED
    BY <2>3, <2>4
<1>2. \A T \in SUBSET S : T \in P
  <2> HIDE DEF P
  <2> QED
    BY <1>1, SubsetInduction
<1> QED
  BY <1>2 DEF sum

LEMMA SumChange ==
  ASSUME NEW S, IsFiniteSet(S), NEW f, NEW h, NEW x \in S,
         \A y \in S : f[y] \in Nat, \A y \in S : h[y] \in Nat,
         \A y \in S \ {x} : f[y] = h[y]
  PROVE  SumFunctionOnSet(f, S) + h[x] = SumFunctionOnSet(h, S) + f[x]
<1>1. IsFiniteSet(S \ {x})
  BY FS_RemoveElement
<1>2. SumFunctionOnSet(f, S \ {x}) = SumFunctionOnSet(h, S \ {x})
  BY <1>1, SumSame
<1>3. SumFunctionOnSet(f, S \ {x}) \in Nat
  BY <1>1, SumType
<1>4. SumFunctionOnSet(f, S) = f[x] + SumFunctionOnSet(f, S \ {x})
  BY SumTake
<1>5. SumFunctionOnSet(h, S) = h[x] + SumFunctionOnSet(h, S \ {x})
  BY SumTake
<1> QED
  BY <1>2, <1>3, <1>4, <1>5

LEMMA SumCut ==
  ASSUME NEW S, IsFiniteSet(S), NEW f, \A y \in S : f[y] \in Nat, NEW A \in SUBSET S
  PROVE  SumFunctionOnSet(f, S) = SumFunctionOnSet(f, A) + SumFunctionOnSet(f, S \ A)
<1> DEFINE sum(T) == SumFunctionOnSet(f, T)
           P == {T \in SUBSET S : sum(S) = sum(T) + sum(S \ T)}
<1> HIDE DEF sum
<1>0. ASSUME NEW T \in SUBSET S PROVE sum(T) \in Nat /\ IsFiniteSet(T)
  BY FS_Subset, SumType DEF sum
<1>1. ASSUME NEW T \in SUBSET S, \A U \in SUBSET T : U # T => U \in P
      PROVE  T \in P
  <2>1. CASE T = {}
    <3>1. sum(T) = 0 /\ S \ T = S
      BY <2>1, SumEmpty DEF sum
    <3> QED
      BY <1>0, <3>1
  <2>2. CASE T # {}
    <3> PICK y \in T : TRUE
      BY <2>2
    <3> DEFINE U == T \ {y}
               V == S \ U
    <3>1. U \in SUBSET T /\ U # T /\ U \in SUBSET S /\ V \in SUBSET S /\ y \in V
      OBVIOUS
    <3>2. V \ {y} = S \ T
      OBVIOUS
    <3>3. sum(T) = f[y] + sum(U)
      BY <1>0, SumTake DEF sum
    <3>4. sum(V) = f[y] + sum(S \ T)
      <4> HIDE DEF V
      <4> QED
        BY <1>0, <3>1, <3>2, SumTake DEF sum
    <3>5. sum(S) = sum(U) + sum(V)
      BY <1>1, <3>1
    <3>6. sum(U) \in Nat /\ sum(V) \in Nat /\ sum(S \ T) \in Nat /\ f[y] \in Nat
      BY <1>0
    <3>7. sum(S) = sum(T) + sum(S \ T)
      BY <3>3, <3>4, <3>5, <3>6
    <3> QED
      BY <3>7
  <2> QED
    BY <2>1, <2>2
<1>2. \A T \in SUBSET S : T \in P
  <2> HIDE DEF P
  <2> QED
    BY <1>1, SubsetInduction
<1> QED
  BY <1>2 DEF sum

(* The elements may have other names.                                      *)
Renames(b, h, f, S) ==
  /\ \A x \in S : h[x] = f[b[x]] /\ f[b[x]] \in Nat
  /\ \A x, y \in S : b[x] = b[y] => x = y

Image(b, S) == {b[x] : x \in S}

LEMMA SumMap ==
  ASSUME NEW S, IsFiniteSet(S), NEW f, NEW h, NEW b, Renames(b, h, f, S)
  PROVE  SumFunctionOnSet(h, S) = SumFunctionOnSet(f, Image(b, S))
<1> USE DEF Renames
<1> DEFINE image(T) == {b[x] : x \in T}
           P == {T \in SUBSET S : SumFunctionOnSet(h, T) = SumFunctionOnSet(f, image(T))}
<1>1. ASSUME NEW T \in SUBSET S, \A U \in SUBSET T : U # T => U \in P
      PROVE  T \in P
  <2>1. CASE T = {}
    <3>1. image(T) = {}
      BY <2>1
    <3> QED
      BY <2>1, <3>1, SumEmpty
  <2>2. CASE T # {}
    <3> PICK y \in T : TRUE
      BY <2>2
    <3> DEFINE U == T \ {y}
    <3>1. IsFiniteSet(T) /\ IsFiniteSet(image(T))
      <4>1. IsFiniteSet(T)
        BY FS_Subset
      <4>2. [x \in T |-> b[x]] \in Surjection(T, image(T))
        BY DEF Surjection
      <4> QED
        BY <4>1, <4>2, FS_Surjection
    <3>2. U \in SUBSET T /\ U # T
      OBVIOUS
    <3>3. image(T) \ {b[y]} = image(U)
      OBVIOUS
    <3>4. b[y] \in image(T) /\ \A z \in image(T) : f[z] \in Nat
      OBVIOUS
    <3>5. \A z \in T : h[z] \in Nat
      OBVIOUS
    <3> HIDE DEF image
    <3>6. SumFunctionOnSet(h, T) = h[y] + SumFunctionOnSet(h, T \ {y})
      BY <3>1, <3>5, SumTake
    <3>7. SumFunctionOnSet(f, image(T)) = f[b[y]] + SumFunctionOnSet(f, image(T) \ {b[y]})
      BY <3>1, <3>4, SumTake
    <3>8. SumFunctionOnSet(h, U) = SumFunctionOnSet(f, image(U))
      BY <1>1, <3>2
    <3> QED
      BY <3>3, <3>6, <3>7, <3>8
  <2> QED
    BY <2>1, <2>2
<1>2. \A T \in SUBSET S : T \in P
  <2> HIDE DEF P
  <2> QED
    BY <1>1, SubsetInduction
<1> QED
  BY <1>2 DEF Image

LEMMA SumZero ==
  ASSUME NEW S, IsFiniteSet(S), NEW f, \A x \in S : f[x] = 0
  PROVE  SumFunctionOnSet(f, S) = 0
<1> DEFINE P == {T \in SUBSET S : SumFunctionOnSet(f, T) = 0}
<1>1. ASSUME NEW T \in SUBSET S, \A U \in SUBSET T : U # T => U \in P
      PROVE  T \in P
  <2>1. CASE T = {}
    BY <2>1, SumEmpty
  <2>2. CASE T # {}
    <3>1. One(T) \in T
      BY <2>2, OneIn
    <3>2. SumFunctionOnSet(f, T \ {One(T)}) = 0 /\ f[One(T)] = 0
      BY <1>1, <3>1
    <3>3. IsFiniteSet(T)
      BY FS_Subset
    <3>4. SumFunctionOnSet(f, T) = f[One(T)] + SumFunctionOnSet(f, T \ {One(T)})
      BY <2>2, <3>3, SumRec
    <3> QED
      BY <3>2, <3>4
  <2> QED
    BY <2>1, <2>2
<1> HIDE DEF P
<1>2. S \in P
  BY <1>1, SubsetInduction
<1> QED
  BY <1>2 DEF P

(* Induction over the numbers, for the set of those it is true of.         *)
LEMMA SetInduction ==
  ASSUME NEW S, 0 \in S, \A k \in Nat : k \in S => k + 1 \in S
  PROVE  \A k \in Nat : k \in S
<1> DEFINE T == Nat \ S
           R == OpToRel(<, Nat)
<1>1. IsWellFoundedOn(R, Nat)
  BY NatLessThanWellFounded, Zenon
<1>2. \A x, y \in Nat : <<x, y>> \in R <=> x < y
  BY DEF OpToRel
<1>3. ASSUME T # {} PROVE FALSE
  <2> HIDE DEF R
  <2>1. PICK x \in T : \A y \in T : ~(<<y, x>> \in R)
    BY <1>1, <1>3, WFMin
  <2>2. x # 0 /\ x - 1 \in Nat
    OBVIOUS
  <2>3. <<x - 1, x>> \in R
    BY <1>2, <2>2
  <2>4. x - 1 \notin T
    BY <2>1, <2>3
  <2> QED
    BY <2>2, <2>4
<1> QED
  BY <1>3
-----------------------------------------------------------------------------
(* The two loops over a sequence, told apart by their name: the characters *)
(* of a text, the entries of a list that is sorted.                        *)
step(loop, s, x) ==
  IF loop = "next_char" THEN next_char(s, x) ELSE wordcount_insert_ordered(s, x)

(* g runs the loop over every part of w that is left out.                  *)
Folds(g, loop, b, w, m) ==
  /\ g = [s \in SUBSET (1 .. m) |-> g[s]]
  /\ g[{}] = b
  /\ \A s \in SUBSET (1 .. m) : s # {} => g[s] = step(loop, g[s \ {Max(s)}], w[Max(s)])

LEMMA MaxLast ==
  ASSUME NEW m \in Nat, NEW s \in SUBSET (1 .. m + 1), m + 1 \in s
  PROVE  Max(s) = m + 1
<1>1. \A y \in s : m + 1 >= y /\ y \in Int
  OBVIOUS
<1>2. \A x \in s : (\A y \in s : x >= y) => x = m + 1
  BY <1>1
<1> QED
  BY <1>1, <1>2, Zenon DEF Max

LEMMA FoldsExists ==
  ASSUME NEW loop, NEW b, NEW w, NEW m \in Nat
  PROVE  \E g : Folds(g, loop, b, w, m)
<1> DEFINE S == {k \in Nat : \E g : Folds(g, loop, b, w, k)}
<1>1. 0 \in S
  <2>1. 1 .. 0 = {} /\ SUBSET {} = {{}}
    OBVIOUS
  <2>2. Folds([s \in {{}} |-> b], loop, b, w, 0)
    BY <2>1 DEF Folds
  <2> QED
    BY <2>2
<1>2. ASSUME NEW k \in Nat, k \in S PROVE k + 1 \in S
  <2>1. PICK g : Folds(g, loop, b, w, k)
    BY <1>2
  <2> DEFINE h == [s \in SUBSET (1 .. k + 1) |->
                     IF k + 1 \in s THEN step(loop, g[s \ {k + 1}], w[k + 1]) ELSE g[s]]
  <2>2. h[{}] = b
    BY <2>1 DEF Folds
  <2>3. ASSUME NEW s \in SUBSET (1 .. k + 1), s # {}
        PROVE  h[s] = step(loop, h[s \ {Max(s)}], w[Max(s)])
    <3>1. CASE k + 1 \in s
      <4>1. Max(s) = k + 1
        BY <3>1, MaxLast
      <4>2. s \ {k + 1} \in SUBSET (1 .. k + 1) /\ k + 1 \notin s \ {k + 1}
        OBVIOUS
      <4>3. h[s \ {k + 1}] = g[s \ {k + 1}]
        BY <4>2
      <4>4. h[s] = step(loop, g[s \ {k + 1}], w[k + 1])
        BY <3>1
      <4> HIDE DEF h
      <4> QED
        BY <4>1, <4>3, <4>4
    <3>2. CASE k + 1 \notin s
      <4>1. s \in SUBSET (1 .. k)
        BY <3>2
      <4>2. s \ {Max(s)} \in SUBSET (1 .. k + 1) /\ k + 1 \notin s \ {Max(s)}
        BY <3>2
      <4>3. h[s \ {Max(s)}] = g[s \ {Max(s)}] /\ h[s] = g[s]
        BY <3>2, <4>2
      <4> HIDE DEF h
      <4> QED
        BY <2>1, <2>3, <4>1, <4>3 DEF Folds
    <3> QED
      BY <3>1, <3>2
  <2>4. h = [s \in SUBSET (1 .. k + 1) |-> h[s]]
    OBVIOUS
  <2>5. Folds(h, loop, b, w, k + 1)
    <3> HIDE DEF h
    <3> QED
      BY <2>2, <2>3, <2>4 DEF Folds
  <2> QED
    BY <2>5
<1>3. \A k \in Nat : k \in S
  <2> HIDE DEF S
  <2> QED
    BY <1>1, <1>2, SetInduction
<1> QED
  BY <1>3

(* c lists the states of the loop before and after each of the m elements. *)
Turns(c, loop, b, w, m) ==
  c[0] = b /\ \A k \in 0 .. m - 1 : c[k + 1] = step(loop, c[k], w[k + 1])

LEMMA FoldTurns ==
  ASSUME NEW loop, NEW b, NEW w, NEW m \in Nat, NEW g, Folds(g, loop, b, w, m)
  PROVE  \E c : Turns(c, loop, b, w, m) /\ c[m] = g[1 .. m]
<1> DEFINE c == [k \in 0 .. m |-> g[1 .. k]]
<1>1. c[0] = b /\ c[m] = g[1 .. m]
  BY DEF Folds
<1>2. ASSUME NEW k \in 0 .. m - 1 PROVE c[k + 1] = step(loop, c[k], w[k + 1])
  <2> DEFINE s == 1 .. k + 1
  <2>1. s \in SUBSET (1 .. m) /\ s \in SUBSET (1 .. k + 1) /\ k + 1 \in s /\ k \in Nat
    OBVIOUS
  <2>a. Max(s) = k + 1
    <3> HIDE DEF s
    <3> QED
      BY <2>1, MaxLast
  <2>2. (1 .. k + 1) \ {k + 1} = 1 .. k
    OBVIOUS
  <2>3. g[1 .. k + 1] = step(loop, g[1 .. k], w[k + 1])
    BY <2>1, <2>a, <2>2 DEF Folds
  <2>4. c[k + 1] = g[1 .. k + 1] /\ c[k] = g[1 .. k]
    OBVIOUS
  <2> HIDE DEF c
  <2> QED
    BY <2>3, <2>4
<1> QED
  BY <1>1, <1>2 DEF Turns

(* The library's folds are such loops.                                     *)
LEMMA CharFold ==
  ASSUME NEW b, NEW m \in Nat, NEW w, DOMAIN w = 1 .. m
  PROVE  \E c : Turns(c, "next_char", b, w, m) /\ c[m] = FoldLeft(next_char, b, w)
<1> DEFINE Is(g) == g = [s \in SUBSET (1 .. m) |->
                          IF s = {} THEN b ELSE next_char(g[s \ {Max(s)}], w[Max(s)])]
           g == CHOOSE g : Is(g)
<1>1. PICK h : Folds(h, "next_char", b, w, m)
  BY FoldsExists
<1>2. Is(h)
  <2>1. \A s \in SUBSET (1 .. m) : h[s] = IF s = {} THEN b ELSE next_char(h[s \ {Max(s)}], w[Max(s)])
    BY <1>1 DEF Folds, step
  <2> QED
    BY <1>1, <2>1 DEF Folds
<1>3. Is(g)
  BY <1>2
<1>4. Folds(g, "next_char", b, w, m)
  BY <1>3 DEF Folds, step
<1>5. FoldLeft(next_char, b, w) = g[1 .. m]
  BY DEF FoldLeft, MapThenFoldSet
<1> HIDE DEF g
<1> QED
  BY <1>4, <1>5, FoldTurns
LEMMA InsertFold ==
  ASSUME NEW b, NEW m \in Nat, NEW w, DOMAIN w = 1 .. m
  PROVE  \E c : Turns(c, "wordcount_insert_ordered", b, w, m) /\ c[m] = FoldLeft(wordcount_insert_ordered, b, w)
<1> DEFINE Is(g) == g = [s \in SUBSET (1 .. m) |->
                          IF s = {} THEN b ELSE wordcount_insert_ordered(g[s \ {Max(s)}], w[Max(s)])]
           g == CHOOSE g : Is(g)
<1>1. PICK h : Folds(h, "wordcount_insert_ordered", b, w, m)
  BY FoldsExists
<1>2. Is(h)
  <2>1. \A s \in SUBSET (1 .. m) : h[s] = IF s = {} THEN b ELSE wordcount_insert_ordered(h[s \ {Max(s)}], w[Max(s)])
    BY <1>1 DEF Folds, step
  <2> QED
    BY <1>1, <2>1 DEF Folds
<1>3. Is(g)
  BY <1>2
<1>4. Folds(g, "wordcount_insert_ordered", b, w, m)
  BY <1>3 DEF Folds, step
<1>5. FoldLeft(wordcount_insert_ordered, b, w) = g[1 .. m]
  BY DEF FoldLeft, MapThenFoldSet
<1> HIDE DEF g
<1> QED
  BY <1>4, <1>5, FoldTurns
(* If every turn leads from one set of states into the next, the loop      *)
(* leads into the last.                                                    *)
Leads(P, loop, w, m) ==
  \A k \in 0 .. m - 1 : \A s \in P[k] : step(loop, s, w[k + 1]) \in P[k + 1]

LEMMA TurnsReach ==
  ASSUME NEW loop, NEW b, NEW m \in Nat, NEW w, NEW c, Turns(c, loop, b, w, m), NEW P, b \in P[0],
         Leads(P, loop, w, m)
  PROVE  c[m] \in P[m]
<1> DEFINE S == {k \in Nat : k <= m => c[k] \in P[k]}
<1>1. 0 \in S
  BY DEF Turns
<1>2. ASSUME NEW k \in Nat, k \in S PROVE k + 1 \in S
  <2> SUFFICES ASSUME k + 1 <= m PROVE c[k + 1] \in P[k + 1]
    OBVIOUS
  <2>1. k \in 0 .. m - 1 /\ c[k] \in P[k]
    BY <1>2
  <2>2. c[k + 1] = step(loop, c[k], w[k + 1])
    BY <2>1 DEF Turns
  <2> QED
    BY <2>1, <2>2 DEF Leads
<1>3. \A k \in Nat : k \in S
  <2> HIDE DEF S
  <2> QED
    BY <1>1, <1>2, SetInduction
<1> QED
  BY <1>3

LEMMA CharReach ==
  ASSUME NEW b, NEW m \in Nat, NEW w, DOMAIN w = 1 .. m, NEW P, b \in P[0],
         \A k \in 0 .. m - 1 : \A s \in P[k] : next_char(s, w[k + 1]) \in P[k + 1]
  PROVE  FoldLeft(next_char, b, w) \in P[m]
<1>1. PICK c : Turns(c, "next_char", b, w, m) /\ c[m] = FoldLeft(next_char, b, w)
  BY CharFold
<1>2. Leads(P, "next_char", w, m)
  BY DEF Leads, step
<1>3. c[m] \in P[m]
  BY <1>1, <1>2, TurnsReach, Zenon
<1> QED
  BY <1>1, <1>3, Zenon
LEMMA InsertReach ==
  ASSUME NEW b, NEW m \in Nat, NEW w, DOMAIN w = 1 .. m, NEW P, b \in P[0],
         \A k \in 0 .. m - 1 : \A s \in P[k] : wordcount_insert_ordered(s, w[k + 1]) \in P[k + 1]
  PROVE  FoldLeft(wordcount_insert_ordered, b, w) \in P[m]
<1>1. PICK c : Turns(c, "wordcount_insert_ordered", b, w, m) /\ c[m] = FoldLeft(wordcount_insert_ordered, b, w)
  BY InsertFold
<1>2. Leads(P, "wordcount_insert_ordered", w, m)
  BY DEF Leads, step
<1>3. c[m] \in P[m]
  BY <1>1, <1>2, TurnsReach, Zenon
<1> QED
  BY <1>1, <1>3, Zenon
-----------------------------------------------------------------------------
(* Sorting, by insertion (word_count.c) or by the library (list_sort).     *)
Arranged(r, list) ==
  \E p \in [DOMAIN list -> DOMAIN list] :
    IsInjective(p) /\ r = [i \in DOMAIN list |-> list[p[i]]]

LEMMA SamePart ==
  ASSUME NEW a \in Seq(Nat), NEW b \in Seq(Nat), NEW n \in Nat, n <= Len(a), n <= Len(b),
         SubSeq(a, 1, n) = SubSeq(b, 1, n)
  PROVE  \A k \in 1 .. n : a[k] = b[k]
<1>1. (\A k \in 1 .. n : a[k] \in Nat) /\ (\A k \in 1 .. n : b[k] \in Nat)
  OBVIOUS
<1>2. \A k \in 1 .. n - 1 + 1 : SubSeq(a, 1, n)[k] = a[1 + k - 1]
  BY <1>1, SubSeqProperties
<1>3. \A k \in 1 .. n - 1 + 1 : SubSeq(b, 1, n)[k] = b[1 + k - 1]
  BY <1>1, SubSeqProperties
<1>4. ASSUME NEW k \in 1 .. n PROVE k \in 1 .. n - 1 + 1 /\ 1 + k - 1 = k
  OBVIOUS
<1> QED
  BY <1>2, <1>3, <1>4

LEMMA StrcmpOneWay ==
  ASSUME NEW v \in Seq(Nat), NEW w \in Seq(Nat), strcmp(v, w), strcmp(w, v)
  PROVE  FALSE
<1>1. /\ Len(v) \in Nat /\ DOMAIN v = 1 .. Len(v) /\ \A i \in DOMAIN v : v[i] \in Nat
      /\ Len(w) \in Nat /\ DOMAIN w = 1 .. Len(w) /\ \A i \in DOMAIN w : w[i] \in Nat
  OBVIOUS
<1>2. ASSUME NEW a \in Seq(Nat), NEW b \in Seq(Nat), IsPrefix(a, b)
      PROVE  Len(a) <= Len(b) /\ \A i \in 1 .. Len(a) : a[i] = b[i]
  <2>1. Len(a) <= Len(b) /\ SubSeq(a, 1, Len(a)) = SubSeq(b, 1, Len(a))
    BY <1>2 DEF IsPrefix
  <2>2. Len(a) \in Nat /\ Len(b) \in Nat
    OBVIOUS
  <2> QED
    BY <2>1, <2>2, SamePart
<1>3. ASSUME NEW a \in Seq(Nat), NEW b \in Seq(Nat), NEW i \in DOMAIN a \cap DOMAIN b,
             SubSeq(a, 1, i - 1) = SubSeq(b, 1, i - 1)
      PROVE  \A k \in 1 .. i - 1 : a[k] = b[k]
  <2>1. i - 1 \in Nat /\ i - 1 <= Len(a) /\ i - 1 <= Len(b)
    OBVIOUS
  <2> QED
    BY <1>3, <2>1, SamePart
<1> DEFINE Smaller(a, b, i) == /\ i \in DOMAIN a \cap DOMAIN b /\ a[i] < b[i]
                               /\ \A k \in 1 .. i - 1 : a[k] = b[k]
<1>4. ASSUME NEW a \in Seq(Nat), NEW b \in Seq(Nat), strcmp(a, b)
      PROVE  (a # b /\ IsPrefix(a, b)) \/ \E i : Smaller(a, b, i)
  BY <1>3, <1>4 DEF strcmp
<1>5. CASE v # w /\ IsPrefix(v, w) /\ IsPrefix(w, v)
  <2>1. /\ Len(v) <= Len(w) /\ \A i \in 1 .. Len(v) : v[i] = w[i]
        /\ Len(w) <= Len(v)
    BY <1>2, <1>5
  <2>3. Len(v) = Len(w)
    <3>1. Len(v) \in Nat /\ Len(w) \in Nat
      BY <1>1
    <3>2. Len(v) <= Len(w) /\ Len(w) <= Len(v)
      BY <2>1
    <3> QED
      BY <3>1, <3>2
  <2>2. v = w
    BY <2>1, <2>3, SeqEqual
  <2> QED
    BY <1>5, <2>2
<1>6. ASSUME NEW a \in Seq(Nat), NEW b \in Seq(Nat), IsPrefix(a, b), NEW i, Smaller(b, a, i)
      PROVE  FALSE
  <2>1. i \in 1 .. Len(a) /\ b[i] < a[i] /\ a[i] \in Nat
    BY <1>6
  <2>2. a[i] = b[i]
    BY <1>2, <1>6, <2>1
  <2> QED
    BY <2>1, <2>2
<1>7. ASSUME NEW i, NEW j, Smaller(v, w, i), Smaller(w, v, j)
      PROVE  FALSE
  <2>1. /\ i \in Nat \ {0} /\ j \in Nat \ {0} /\ v[i] < w[i] /\ w[j] < v[j]
        /\ v[i] \in Nat /\ w[i] \in Nat /\ v[j] \in Nat /\ w[j] \in Nat
    BY <1>1, <1>7
  <2>2. CASE i < j
    <3>1. i \in 1 .. j - 1
      BY <2>1, <2>2
    <3>2. w[i] = v[i]
      BY <1>7, <3>1
    <3> QED
      BY <2>1, <3>2
  <2>3. CASE j < i
    <3>1. j \in 1 .. i - 1
      BY <2>1, <2>3
    <3>2. v[j] = w[j]
      BY <1>7, <3>1
    <3> QED
      BY <2>1, <3>2
  <2>4. CASE i = j
    BY <2>1, <2>4
  <2> HIDE DEF Smaller
  <2> QED
    BY <2>1, <2>2, <2>3, <2>4
<1> HIDE DEF Smaller
<1> QED
  BY <1>4, <1>5, <1>6, <1>7

LEMMA EntryFacts ==
  ASSUME NEW x \in Entry
  PROVE  x.count \in Nat \ {0} /\ x.word \in Seq(Nat \ {0}) /\ x.word \in Seq(Nat) /\ Len(x.word) > 1
<1>1. Seq(Nat \ {0}) \subseteq Seq(Nat)
  BY SeqMonotonic
<1> QED
  BY <1>1 DEF Entry

LEMMA LessOneWay ==
  ASSUME NEW x \in Entry, NEW y \in Entry, less_count(x, y)
  PROVE  ~less_count(y, x)
<1>1. x.count \in Nat /\ y.count \in Nat /\ x.word \in Seq(Nat) /\ y.word \in Seq(Nat)
  BY EntryFacts
<1>2. ~(strcmp(x.word, y.word) /\ strcmp(y.word, x.word))
  BY <1>1, StrcmpOneWay, Zenon
<1> QED
  BY <1>1, <1>2 DEF less_count

(* Where wordcount_insert_ordered puts x.                                  *)
LEMMA InsertPlace ==
  ASSUME NEW r \in Seq(Entry), NEW x \in Entry
  PROVE  \E n \in 0 .. Len(r) :
           /\ wordcount_insert_ordered(r, x) = SubSeq(r, 1, n) \o <<x>> \o SubSeq(r, n + 1, Len(r))
           /\ n > 0 => ~less_count(x, r[n])
           /\ n < Len(r) => ~less_count(r[n + 1], x)
<1> DEFINE stops == {i \in 2 .. Len(r) : ~less_count(r[i], x)}
           n == IF r = <<>> \/ less_count(x, r[1]) THEN 0
                ELSE IF stops = {} THEN Len(r)
                ELSE (CHOOSE i \in stops : \A j \in stops : i <= j) - 1
<1>1. wordcount_insert_ordered(r, x) = SubSeq(r, 1, n) \o <<x>> \o SubSeq(r, n + 1, Len(r))
  BY DEF wordcount_insert_ordered
<1>2. Len(r) \in Nat /\ \A i \in 1 .. Len(r) : r[i] \in Entry
  OBVIOUS
<1>3. \A i \in 1 .. Len(r) : less_count(x, r[i]) => ~less_count(r[i], x)
  BY <1>2, LessOneWay
<1>4. \A i \in 2 .. Len(r) : i \notin stops => ~less_count(x, r[i])
  BY <1>2, LessOneWay
<1> DEFINE Right(m) == /\ m \in 0 .. Len(r)
                       /\ m > 0 => ~less_count(x, r[m])
                       /\ m < Len(r) => ~less_count(r[m + 1], x)
<1>5. ASSUME r = <<>> PROVE Right(n)
  <2>1. n = 0 /\ Len(r) = 0
    BY <1>5
  <2> QED
    BY <2>1
<1>6. ASSUME r # <<>> /\ less_count(x, r[1]) PROVE Right(n)
  <2>1. n = 0 /\ 1 \in 1 .. Len(r)
    BY <1>6
  <2>2. ~less_count(r[1], x)
    BY <1>3, <1>6, <2>1
  <2> HIDE DEF n
  <2> QED
    BY <1>2, <2>1, <2>2
<1>7. ASSUME r # <<>> /\ ~less_count(x, r[1]) /\ stops = {} PROVE Right(n)
  <2>1. n = Len(r) /\ Len(r) > 0
    BY <1>7
  <2> HIDE DEF n
  <2>2. ~less_count(x, r[n])
    <3>1. CASE n = 1
      BY <1>7, <3>1
    <3>2. CASE n # 1
      <4>1. n \in 2 .. Len(r)
        BY <1>2, <2>1, <3>2
      <4>2. n \notin stops
        BY <1>7, Zenon
      <4> HIDE DEF stops
      <4> QED
        BY <1>4, <4>1, <4>2
    <3> QED
      BY <3>1, <3>2
  <2> QED
    BY <1>2, <2>1, <2>2
<1>8. ASSUME r # <<>> /\ ~less_count(x, r[1]) /\ stops # {} PROVE Right(n)
  <2>1. \E i \in stops : \A j \in stops : i <= j
    <3>1. stops \subseteq Nat
      OBVIOUS
    <3>2. PICK i \in stops : \A j \in stops : ~(<<j, i>> \in OpToRel(<, Nat))
      <4> HIDE DEF stops
      <4> QED
        BY <1>8, <3>1, NatLessThanWellFounded, WFMin
    <3>3. \A j \in Nat : \A k \in Nat : <<j, k>> \in OpToRel(<, Nat) <=> j < k
      BY DEF OpToRel
    <3> HIDE DEF stops
    <3>4. ASSUME NEW j \in stops PROVE i <= j
      <4>1. i \in Nat /\ j \in Nat
        BY <3>1
      <4>2. ~(j < i)
        BY <3>2, <3>3, <4>1, Zenon
      <4> QED
        BY <4>1, <4>2
    <3> QED
      BY <3>4
  <2> DEFINE i == CHOOSE i \in stops : \A j \in stops : i <= j
  <2>2. n = i - 1
    BY <1>8
  <2>3. i \in stops /\ \A j \in stops : i <= j
    BY <2>1, Zenon
  <2> HIDE DEF i, n
  <2>4. i \in 2 .. Len(r) /\ ~less_count(r[i], x)
    BY <2>3
  <2>5. ~less_count(x, r[i - 1])
    <3>1. CASE i = 2
      BY <1>8, <3>1
    <3>2. CASE i # 2
      <4>1. i - 1 \in 2 .. Len(r)
        BY <1>2, <2>4, <3>2
      <4>2. i - 1 \notin stops
        <5>1. ~(i <= i - 1)
          BY <2>4
        <5> QED
          BY <2>3, <5>1, Zenon
      <4> HIDE DEF stops
      <4> QED
        BY <1>4, <4>1, <4>2
    <3> QED
      BY <3>1, <3>2
  <2> HIDE DEF stops
  <2>6. n \in 0 .. Len(r) /\ n + 1 = i
    BY <1>2, <2>2, <2>4
  <2> QED
    BY <2>2, <2>4, <2>5, <2>6
<1>9. Right(n)
  <2> HIDE DEF stops, n, Right
  <2> QED
    BY <1>5, <1>6, <1>7, <1>8
<1> HIDE DEF stops, n
<1> QED
  BY <1>1, <1>9

(* q is r with x behind the first n entries.                               *)
Splice(q, R, r, x, n) ==
  /\ q \in Seq(R) /\ Len(q) = Len(r) + 1
  /\ \A i \in 1 .. n : q[i] = r[i]
  /\ q[n + 1] = x
  /\ \A i \in n + 1 .. Len(r) : q[i + 1] = r[i]

LEMMA Spliced ==
  ASSUME NEW R, NEW r \in Seq(R), NEW x \in R, NEW n \in 0 .. Len(r),
         NEW q, q = SubSeq(r, 1, n) \o <<x>> \o SubSeq(r, n + 1, Len(r))
  PROVE  Splice(q, R, r, x, n)
<1> DEFINE a == SubSeq(r, 1, n)
           b == SubSeq(r, n + 1, Len(r))
           c == a \o <<x>>
<1>0. Len(r) \in Nat /\ n \in Nat /\ n <= Len(r)
  OBVIOUS
<1>e. \A i \in 1 .. Len(r) : r[i] \in R
  OBVIOUS
<1>1. a \in Seq(R) /\ Len(a) = n /\ \A i \in 1 .. n : a[i] = r[i]
  <2>1. \A i \in 1 .. n : r[i] \in R
    BY <1>0, <1>e
  <2>2. /\ a \in Seq(R) /\ Len(a) = IF 1 <= n THEN n - 1 + 1 ELSE 0
        /\ \A i \in 1 .. n - 1 + 1 : a[i] = r[1 + i - 1]
    BY <1>0, <2>1, SubSeqProperties
  <2> HIDE DEF a
  <2>3. ASSUME NEW i \in 1 .. n PROVE i \in 1 .. n - 1 + 1 /\ 1 + i - 1 = i
    BY <1>0
  <2> QED
    BY <1>0, <2>2, <2>3
<1>2. b \in Seq(R) /\ Len(b) = Len(r) - n /\ \A i \in 1 .. Len(r) - n : b[i] = r[n + i]
  <2>1. \A i \in n + 1 .. Len(r) : r[i] \in R
    BY <1>0, <1>e
  <2>2. /\ b \in Seq(R) /\ Len(b) = IF n + 1 <= Len(r) THEN Len(r) - (n + 1) + 1 ELSE 0
        /\ \A i \in 1 .. Len(r) - (n + 1) + 1 : b[i] = r[n + 1 + i - 1]
    BY <1>0, <2>1, SubSeqProperties
  <2> HIDE DEF b
  <2>3. ASSUME NEW i \in 1 .. Len(r) - n
        PROVE  i \in 1 .. Len(r) - (n + 1) + 1 /\ n + 1 + i - 1 = n + i
    BY <1>0
  <2>5. Len(b) = Len(r) - n
    <3>1. Len(b) = IF n + 1 <= Len(r) THEN Len(r) - (n + 1) + 1 ELSE 0
      BY <2>2
    <3>2. CASE n + 1 <= Len(r)
      BY <1>0, <3>1, <3>2
    <3>3. CASE ~(n + 1 <= Len(r))
      BY <1>0, <3>1, <3>3
    <3> QED
      BY <3>2, <3>3
  <2>6. ASSUME NEW i \in 1 .. Len(r) - n PROVE b[i] = r[n + i]
    <3>1. b[i] = r[n + 1 + i - 1]
      BY <2>2, <2>3, Zenon
    <3> QED
      BY <2>3, <3>1, Zenon
  <2> QED
    BY <2>2, <2>5, <2>6, Zenon
<1>3. q = c \o b
  OBVIOUS
<1> HIDE DEF a, b
<1>4. c \in Seq(R) /\ Len(c) = n + 1 /\ (\A i \in 1 .. n : c[i] = a[i]) /\ c[n + 1] = x
  <2>1. c = Append(a, x)
    BY <1>1, AppendIsConcat
  <2> HIDE DEF c
  <2> QED
    BY <1>1, <2>1, AppendProperties
<1> HIDE DEF c
<1>5. /\ q \in Seq(R) /\ Len(q) = Len(c) + Len(b)
      /\ \A i \in 1 .. Len(c) + Len(b) : q[i] = IF i <= Len(c) THEN c[i] ELSE b[i - Len(c)]
  <2>1. /\ c \o b \in Seq(R) /\ Len(c \o b) = Len(c) + Len(b)
        /\ \A i \in 1 .. Len(c) + Len(b) :
             (c \o b)[i] = IF i <= Len(c) THEN c[i] ELSE b[i - Len(c)]
    BY <1>2, <1>4, ConcatProperties
  <2> QED
    BY <1>3, <2>1, Zenon
<1>6. /\ \A i \in 1 .. n + 1 : q[i] = c[i]
      /\ \A i \in 1 .. Len(r) - n : q[n + 1 + i] = b[i]
  <2>1. ASSUME NEW i \in 1 .. n + 1 PROVE i \in 1 .. Len(c) + Len(b) /\ i <= Len(c)
    BY <1>0, <1>2, <1>4
  <2>2. ASSUME NEW i \in 1 .. Len(r) - n
        PROVE  /\ n + 1 + i \in 1 .. Len(c) + Len(b) /\ ~(n + 1 + i <= Len(c))
               /\ (n + 1 + i) - Len(c) = i
    BY <1>0, <1>2, <1>4
  <2> QED
    BY <1>5, <2>1, <2>2
<1>7. ASSUME NEW i \in n + 1 .. Len(r) PROVE q[i + 1] = r[i]
  <2>1. i - n \in 1 .. Len(r) - n /\ n + 1 + (i - n) = i + 1 /\ n + (i - n) = i
    BY <1>0
  <2>2. q[n + 1 + (i - n)] = b[i - n] /\ b[i - n] = r[n + (i - n)]
    BY <1>2, <1>6, <2>1
  <2> QED
    BY <2>1, <2>2
<1>8. Len(q) = Len(r) + 1
  <2>1. Len(q) = Len(c) + Len(b)
    BY <1>5, Zenon
  <2>2. Len(c) = n + 1 /\ Len(b) = Len(r) - n
    BY <1>2, <1>4, Zenon
  <2>4. Len(q) = (n + 1) + (Len(r) - n)
    BY <2>1, <2>2, Zenon
  <2>5. (n + 1) + (Len(r) - n) = Len(r) + 1
    BY <1>0
  <2> QED
    BY <2>4, <2>5, Zenon
<1>9. (\A i \in 1 .. n : q[i] = r[i]) /\ q[n + 1] = x
  <2>1. (\A i \in 1 .. n : i \in 1 .. n + 1) /\ n + 1 \in 1 .. n + 1
    BY <1>0
  <2> QED
    BY <1>1, <1>4, <1>6, <2>1
<1> QED
  BY <1>5, <1>7, <1>8, <1>9, Zenon DEF Splice

(* The first k entries of a list in order.                                 *)
SortedPart(list, k) ==
  {r \in Seq(Entry) :
     /\ Len(r) = k /\ Ascending(r)
     /\ \E p \in [1 .. k -> 1 .. k] : IsInjective(p) /\ \A i \in 1 .. k : r[i] = list[p[i]]}

LEMMA InsertSorts ==
  ASSUME NEW list \in Seq(Entry), NEW k \in Nat, k + 1 <= Len(list), NEW r \in SortedPart(list, k)
  PROVE  wordcount_insert_ordered(r, list[k + 1]) \in SortedPart(list, k + 1)
<1> DEFINE x == list[k + 1]
           q == wordcount_insert_ordered(r, x)
<1>1. r \in Seq(Entry) /\ Len(r) = k /\ Ascending(r)
  BY DEF SortedPart
<1>2. PICK p \in [1 .. k -> 1 .. k] : IsInjective(p) /\ \A i \in 1 .. k : r[i] = list[p[i]]
  BY DEF SortedPart
<1>3. x \in Entry
  OBVIOUS
<1> HIDE DEF x
<1>4. PICK n \in 0 .. Len(r) :
        /\ q = SubSeq(r, 1, n) \o <<x>> \o SubSeq(r, n + 1, Len(r))
        /\ n > 0 => ~less_count(x, r[n])
        /\ n < Len(r) => ~less_count(r[n + 1], x)
  BY <1>1, <1>3, InsertPlace
<1> HIDE DEF q
<1>5. /\ q \in Seq(Entry) /\ Len(q) = Len(r) + 1
      /\ \A i \in 1 .. n : q[i] = r[i]
      /\ q[n + 1] = x
      /\ \A i \in n + 1 .. Len(r) : q[i + 1] = r[i]
  <2>1. q = SubSeq(r, 1, n) \o <<x>> \o SubSeq(r, n + 1, Len(r))
    BY <1>4, Zenon
  <2>2. r \in Seq(Entry)
    BY <1>1, Zenon
  <2>3. Splice(q, Entry, r, x, n)
    BY <1>3, <2>1, <2>2, Spliced, Zenon
  <2> QED
    BY <2>3, Zenon DEF Splice
<1>6. ASSUME NEW i \in 1 .. k PROVE i < n \/ i = n \/ i = n + 1 \/ i > n + 1
  BY <1>1
<1>7. Ascending(q)
  <2> SUFFICES ASSUME NEW i \in 1 .. k PROVE ~less_count(q[i + 1], q[i])
    BY <1>1, <1>5 DEF Ascending
  <2>0. \A j \in 1 .. k - 1 : ~less_count(r[j + 1], r[j])
    BY <1>1 DEF Ascending
  <2>1. CASE i < n
    <3>1. i \in 1 .. n /\ i + 1 \in 1 .. n /\ i \in 1 .. k - 1
      BY <1>1, <2>1
    <3>2. q[i] = r[i] /\ q[i + 1] = r[i + 1]
      BY <1>5, <3>1
    <3> QED
      BY <2>0, <3>1, <3>2
  <2>2. CASE i = n
    <3>1. i \in 1 .. n /\ n > 0
      BY <2>2
    <3>2. q[i] = r[n] /\ q[i + 1] = x
      BY <1>5, <2>2, <3>1
    <3> QED
      BY <1>4, <3>1, <3>2
  <2>3. CASE i = n + 1
    <3>1. n + 1 \in n + 1 .. Len(r) /\ n < Len(r)
      BY <1>1, <2>3
    <3>2. q[i] = x /\ q[i + 1] = r[n + 1]
      BY <1>5, <2>3, <3>1
    <3> QED
      BY <1>4, <3>1, <3>2
  <2>4. CASE i > n + 1
    <3> DEFINE j == i - 1
    <3>1. j \in n + 1 .. Len(r) /\ i \in n + 1 .. Len(r) /\ j \in 1 .. k - 1 /\ j + 1 = i
      BY <1>1, <2>4
    <3> HIDE DEF j
    <3>2. q[j + 1] = r[j] /\ q[i + 1] = r[i]
      BY <1>5, <3>1
    <3> QED
      BY <2>0, <3>1, <3>2
  <2> QED
    BY <1>6, <2>1, <2>2, <2>3, <2>4
<1>8. \E o \in [1 .. k + 1 -> 1 .. k + 1] : IsInjective(o) /\ \A i \in 1 .. k + 1 : q[i] = list[o[i]]
  <2> DEFINE o == [i \in 1 .. k + 1 |-> IF i <= n THEN p[i] ELSE IF i = n + 1 THEN k + 1 ELSE p[i - 1]]
  <2>1. ASSUME NEW i \in 1 .. k + 1
        PROVE  \/ i <= n /\ i \in 1 .. n /\ i \in 1 .. k
               \/ i = n + 1 /\ ~(i <= n)
               \/ i > n + 1 /\ i # n + 1 /\ ~(i <= n) /\ i - 1 \in n + 1 .. Len(r) /\ i - 1 \in 1 .. k
    BY <1>1
  <2>2. o \in [1 .. k + 1 -> 1 .. k + 1]
    <3>1. ASSUME NEW i \in 1 .. k + 1 PROVE o[i] \in 1 .. k + 1
      <4>1. k + 1 \in 1 .. k + 1 /\ \A j \in 1 .. k : p[j] \in 1 .. k + 1
        OBVIOUS
      <4>2. CASE i <= n
        BY <2>1, <4>1, <4>2
      <4>3. CASE i = n + 1
        BY <4>1, <4>3
      <4>4. CASE i > n + 1
        BY <2>1, <4>1, <4>4
      <4> QED
        BY <2>1, <4>2, <4>3, <4>4
    <3> QED
      BY <3>1
  <2>3. IsInjective(o)
    <3>1. ASSUME NEW i \in 1 .. k + 1, NEW j \in 1 .. k + 1, o[i] = o[j]
          PROVE  i = j
      <4>1. \A a \in 1 .. k : p[a] \in 1 .. k /\ p[a] # k + 1
        OBVIOUS
      <4>2. \A a, b \in 1 .. k : p[a] = p[b] => a = b
        BY <1>2 DEF IsInjective
      <4>3. /\ i <= n => o[i] = p[i] /\ i \in 1 .. k
            /\ i = n + 1 => o[i] = k + 1
            /\ i > n + 1 => o[i] = p[i - 1] /\ i - 1 \in 1 .. k
        BY <2>1
      <4>4. /\ j <= n => o[j] = p[j] /\ j \in 1 .. k
            /\ j = n + 1 => o[j] = k + 1
            /\ j > n + 1 => o[j] = p[j - 1] /\ j - 1 \in 1 .. k
        BY <2>1
      <4> HIDE DEF o
      <4>5. CASE i <= n
        BY <3>1, <4>1, <4>2, <4>3, <4>4, <4>5
      <4>6. CASE i = n + 1
        BY <3>1, <4>1, <4>3, <4>4, <4>6
      <4>7. CASE i > n + 1
        <5>1. j # n + 1
          BY <3>1, <4>1, <4>3, <4>4, <4>7
        <5>2. CASE j <= n
          BY <3>1, <4>2, <4>3, <4>4, <4>7, <5>2
        <5>3. CASE j > n + 1
          BY <3>1, <4>2, <4>3, <4>4, <4>7, <5>3
        <5> QED
          BY <5>1, <5>2, <5>3
      <4> QED
        BY <4>5, <4>6, <4>7
    <3> QED
      BY <3>1 DEF IsInjective
  <2>4. ASSUME NEW i \in 1 .. k + 1 PROVE q[i] = list[o[i]]
    <3>1. CASE i <= n
      BY <1>2, <1>5, <2>1, <3>1
    <3>2. CASE i = n + 1
      <4>1. o[i] = k + 1
        BY <3>2
      <4> QED
        BY <1>5, <3>2, <4>1 DEF x
    <3>3. CASE i > n + 1
      <4>1. o[i] = p[i - 1] /\ i - 1 \in n + 1 .. Len(r) /\ i - 1 \in 1 .. k /\ (i - 1) + 1 = i
        BY <2>1, <3>3
      <4>2. q[i] = r[i - 1]
        BY <1>5, <4>1
      <4>3. r[i - 1] = list[p[i - 1]]
        BY <1>2, <4>1
      <4> HIDE DEF o
      <4> QED
        BY <4>1, <4>2, <4>3
    <3> QED
      BY <2>1, <3>1, <3>2, <3>3
  <2> HIDE DEF o
  <2> QED
    BY <2>2, <2>3, <2>4
<1> QED
  BY <1>1, <1>5, <1>7, <1>8 DEF SortedPart, q, x

LEMMA SortedList ==
  ASSUME NEW list \in Seq(Entry)
  PROVE  LET r == FoldLeft(wordcount_insert_ordered, <<>>, list)
         IN  Arranged(r, list) /\ Ascending(r)
<1> DEFINE m == Len(list)
           P == [k \in Nat |-> SortedPart(list, k)]
           r == FoldLeft(wordcount_insert_ordered, <<>>, list)
<1>1. m \in Nat /\ DOMAIN list = 1 .. m
  OBVIOUS
<1>2. <<>> \in P[0]
  <2>1. <<>> \in Seq(Entry) /\ Len(<<>>) = 0 /\ Ascending(<<>>)
    BY DEF Ascending
  <2>2. 1 .. 0 = {}
    OBVIOUS
  <2>3. [i \in 1 .. 0 |-> i] \in [1 .. 0 -> 1 .. 0] /\ IsInjective([i \in 1 .. 0 |-> i])
    BY DEF IsInjective
  <2>4. \A i \in 1 .. 0 : <<>>[i] = list[[j \in 1 .. 0 |-> j][i]]
    BY <2>2
  <2>5. <<>> \in SortedPart(list, 0)
    BY <2>1, <2>3, <2>4 DEF SortedPart
  <2> QED
    BY <2>5
<1>3. \A k \in 0 .. m - 1 : \A s \in P[k] : wordcount_insert_ordered(s, list[k + 1]) \in P[k + 1]
  <2> SUFFICES ASSUME NEW k \in 0 .. m - 1, NEW s \in P[k]
               PROVE  wordcount_insert_ordered(s, list[k + 1]) \in P[k + 1]
    OBVIOUS
  <2>1. k \in Nat /\ k + 1 \in Nat /\ k + 1 <= Len(list)
    BY <1>1
  <2>2. s \in SortedPart(list, k)
    BY <2>1
  <2>3. wordcount_insert_ordered(s, list[k + 1]) \in SortedPart(list, k + 1)
    BY <2>1, <2>2, InsertSorts
  <2> QED
    BY <2>1, <2>3
<1>4. r \in P[m]
  <2> HIDE DEF P, m
  <2> QED
    BY <1>1, <1>2, <1>3, InsertReach
<1>5. r \in SortedPart(list, m)
  BY <1>1, <1>4
<1> HIDE DEF r
<1>6. r \in Seq(Entry) /\ Len(r) = m /\ Ascending(r)
  BY <1>5 DEF SortedPart
<1>7. PICK p \in [1 .. m -> 1 .. m] : IsInjective(p) /\ \A i \in 1 .. m : r[i] = list[p[i]]
  BY <1>5 DEF SortedPart
<1>8. r = [i \in DOMAIN list |-> list[p[i]]]
  BY <1>1, <1>6, <1>7
<1>9. Arranged(r, list)
  BY <1>1, <1>7, <1>8 DEF Arranged
<1> QED
  BY <1>6, <1>9 DEF r

(* Either way the entries stay, and end up in order.                       *)
LEMMA SortIs ==
  ASSUME NEW list \in Seq(Entry), NEW b
  PROVE  Arranged(wordcount_sort(list, b), list) /\ Ascending(wordcount_sort(list, b))
<1> DEFINE r == FoldLeft(wordcount_insert_ordered, <<>>, list)
<1>1. Arranged(r, list) /\ Ascending(r)
  BY SortedList
<1>2. CASE b = "words"
  <2>1. wordcount_sort(list, b) = r
    BY <1>2 DEF wordcount_sort
  <2> QED
    BY <1>1, <2>1
<1>3. CASE b # "words"
  <2> DEFINE arranged == {[i \in DOMAIN list |-> list[p[i]]] :
                            p \in {p \in [DOMAIN list -> DOMAIN list] : IsInjective(p)}}
  <2>1. wordcount_sort(list, b) = CHOOSE s \in arranged : Ascending(s)
    BY <1>3 DEF wordcount_sort
  <2>2. \A s : s \in arranged <=> Arranged(s, list)
    BY DEF Arranged
  <2> HIDE DEF r, arranged
  <2>3. \E s \in arranged : Ascending(s)
    BY <1>1, <2>2
  <2>4. wordcount_sort(list, b) \in arranged /\ Ascending(wordcount_sort(list, b))
    BY <2>1, <2>3, Zenon
  <2> QED
    BY <2>2, <2>4
<1> QED
  BY <1>2, <1>3
-----------------------------------------------------------------------------
(* What a list counts.                                                     *)
Word == {w \in Seq(Nat \ {0}) : Len(w) > 1}

Hit(x, w) == IF x.word = w THEN x.count ELSE 0

Hits(s, w) == [i \in DOMAIN s |-> Hit(s[i], w)]

LEMMA EntryIs == Entry = [word : Word, count : Nat \ {0}]
BY DEF Entry, Word

LEMMA CountIs ==
  ASSUME NEW s, NEW w
  PROVE  CountOf(s, w) = SumFunctionOnSet(Hits(s, w), DOMAIN s)
<1>1. DOMAIN Hits(s, w) = DOMAIN s
  BY DEF Hits
<1>2. Hits(s, w) = [i \in DOMAIN s |-> IF s[i].word = w THEN s[i].count ELSE 0]
  BY DEF Hits, Hit
<1>3. CountOf(s, w) = SumFunctionOnSet(Hits(s, w), DOMAIN Hits(s, w))
  BY <1>2, Zenon DEF CountOf, SumFunction
<1> QED
  BY <1>1, <1>3, Zenon

LEMMA HitsNat ==
  ASSUME NEW s \in Seq(Entry), NEW w
  PROVE  /\ IsFiniteSet(DOMAIN s) /\ DOMAIN s = 1 .. Len(s) /\ Len(s) \in Nat
         /\ \A i \in DOMAIN s : Hits(s, w)[i] = Hit(s[i], w) /\ Hits(s, w)[i] \in Nat
<1>1. DOMAIN s = 1 .. Len(s) /\ Len(s) \in Nat
  OBVIOUS
<1>2. IsFiniteSet(DOMAIN s)
  BY <1>1, FS_Interval
<1>3. ASSUME NEW i \in DOMAIN s PROVE Hits(s, w)[i] = Hit(s[i], w) /\ Hits(s, w)[i] \in Nat
  <2>1. Hits(s, w)[i] = Hit(s[i], w)
    BY DEF Hits
  <2>2. s[i] \in Entry
    BY <1>1, ElementOfSeq
  <2>3. s[i].count \in Nat
    BY <2>2, EntryFacts
  <2> QED
    BY <2>1, <2>3 DEF Hit
<1> QED
  BY <1>1, <1>2, <1>3

LEMMA CountNat ==
  ASSUME NEW s \in Seq(Entry), NEW w
  PROVE  CountOf(s, w) \in Nat
BY HitsNat, CountIs, SumType

LEMMA CountEmpty ==
  ASSUME NEW w
  PROVE  CountOf(<<>>, w) = 0
<1>1. DOMAIN <<>> = {}
  OBVIOUS
<1> QED
  BY <1>1, CountIs, SumEmpty

LEMMA CountAppend ==
  ASSUME NEW s \in Seq(Entry), NEW x \in Entry, NEW w
  PROVE  CountOf(Append(s, x), w) = CountOf(s, w) + Hit(x, w)
<1> DEFINE q == Append(s, x)
           n == Len(s)
<1>1. /\ q \in Seq(Entry) /\ Len(q) = n + 1 /\ q[n + 1] = x
      /\ \A i \in 1 .. n : q[i] = s[i]
  BY AppendProperties
<1> HIDE DEF q
<1>2. n \in Nat /\ DOMAIN s = 1 .. n /\ DOMAIN q = 1 .. n + 1
  BY <1>1, HitsNat
<1>3. /\ IsFiniteSet(1 .. n) /\ IsFiniteSet(1 .. n + 1)
      /\ \A i \in 1 .. n : Hits(s, w)[i] = Hit(s[i], w) /\ Hits(s, w)[i] \in Nat
      /\ \A i \in 1 .. n + 1 : Hits(q, w)[i] = Hit(q[i], w) /\ Hits(q, w)[i] \in Nat
  BY <1>1, <1>2, HitsNat
<1>4. n + 1 \in 1 .. n + 1 /\ (1 .. n + 1) \ {n + 1} = 1 .. n /\ \A i \in 1 .. n : i \in 1 .. n + 1
  BY <1>2
<1> HIDE DEF n
<1>5. SumFunctionOnSet(Hits(q, w), 1 .. n + 1)
        = Hits(q, w)[n + 1] + SumFunctionOnSet(Hits(q, w), (1 .. n + 1) \ {n + 1})
  BY <1>3, <1>4, SumTake
<1>6. \A i \in 1 .. n : Hits(q, w)[i] = Hits(s, w)[i]
  BY <1>1, <1>3, <1>4
<1>7. SumFunctionOnSet(Hits(q, w), 1 .. n) = SumFunctionOnSet(Hits(s, w), 1 .. n)
  BY <1>3, <1>6, SumSame
<1>8. Hits(q, w)[n + 1] = Hit(x, w) /\ Hit(x, w) \in Nat
  BY <1>1, <1>3, <1>4
<1>9. CountOf(q, w) = SumFunctionOnSet(Hits(q, w), 1 .. n + 1)
  BY <1>2, CountIs
<1>10. CountOf(s, w) = SumFunctionOnSet(Hits(s, w), 1 .. n) /\ CountOf(s, w) \in Nat
  BY <1>2, CountIs, CountNat
<1>11. CountOf(q, w) = Hit(x, w) + CountOf(s, w)
  BY <1>4, <1>5, <1>7, <1>8, <1>9, <1>10
<1> QED
  BY <1>8, <1>10, <1>11 DEF q

LEMMA CountTail ==
  ASSUME NEW s \in Seq(Entry), s # <<>>, NEW w
  PROVE  /\ Tail(s) \in Seq(Entry) /\ Head(s) \in Entry /\ Head(s) = s[1]
         /\ CountOf(s, w) = Hit(Head(s), w) + CountOf(Tail(s), w)
<1> DEFINE q == Tail(s)
           n == Len(s)
<1>1. /\ q \in Seq(Entry) /\ Len(q) = n - 1 /\ Head(s) = s[1] /\ Head(s) \in Entry
      /\ \A i \in 1 .. Len(q) : q[i] = s[i + 1]
  BY HeadTailProperties
<1> HIDE DEF q
<1>2. n \in Nat /\ n > 0 /\ DOMAIN s = 1 .. n /\ DOMAIN q = 1 .. n - 1 /\ Len(q) = n - 1
  <2>1. n \in Nat \ {0}
    BY EmptySeq
  <2> QED
    BY <1>1, <2>1, HitsNat
<1>3. /\ IsFiniteSet(1 .. n) /\ IsFiniteSet(1 .. n - 1)
      /\ \A i \in 1 .. n : Hits(s, w)[i] = Hit(s[i], w) /\ Hits(s, w)[i] \in Nat
      /\ \A i \in 1 .. n - 1 : Hits(q, w)[i] = Hit(q[i], w) /\ Hits(q, w)[i] \in Nat
  BY <1>1, <1>2, HitsNat
<1> DEFINE b == [i \in 1 .. n - 1 |-> i + 1]
<1>4. 1 \in 1 .. n /\ (1 .. n) \ {1} = {b[i] : i \in 1 .. n - 1}
  <2>1. ASSUME NEW j \in (1 .. n) \ {1} PROVE j - 1 \in 1 .. n - 1 /\ b[j - 1] = j
    BY <1>2
  <2>2. ASSUME NEW i \in 1 .. n - 1 PROVE b[i] \in (1 .. n) \ {1}
    BY <1>2
  <2>3. 1 \in 1 .. n
    BY <1>2
  <2> HIDE DEF b
  <2> QED
    BY <2>1, <2>2, <2>3
<1>5. ASSUME NEW i \in 1 .. n - 1
      PROVE  Hits(q, w)[i] = Hits(s, w)[b[i]] /\ Hits(s, w)[b[i]] \in Nat
  <2>1. b[i] = i + 1 /\ i + 1 \in 1 .. n /\ i \in 1 .. Len(q)
    BY <1>2
  <2> HIDE DEF b
  <2> QED
    BY <1>1, <1>3, <2>1
<1>6. \A i, j \in 1 .. n - 1 : b[i] = b[j] => i = j
  OBVIOUS
<1> HIDE DEF b, n
<1>7. SumFunctionOnSet(Hits(q, w), 1 .. n - 1) = SumFunctionOnSet(Hits(s, w), (1 .. n) \ {1})
  <2>1. \A i \in 1 .. n - 1 : Hits(q, w)[i] = Hits(s, w)[b[i]] /\ Hits(s, w)[b[i]] \in Nat
    BY <1>5
  <2>2. IsFiniteSet(1 .. n - 1)
    BY <1>3
  <2>3. Renames(b, Hits(q, w), Hits(s, w), 1 .. n - 1)
    BY <1>6, <2>1, Zenon DEF Renames
  <2>4. SumFunctionOnSet(Hits(q, w), 1 .. n - 1) = SumFunctionOnSet(Hits(s, w), Image(b, 1 .. n - 1))
    BY <2>2, <2>3, SumMap, Zenon
  <2> QED
    BY <1>4, <2>4 DEF Image
<1>8. SumFunctionOnSet(Hits(s, w), 1 .. n)
        = Hits(s, w)[1] + SumFunctionOnSet(Hits(s, w), (1 .. n) \ {1})
  BY <1>3, <1>4, SumTake
<1>9. Hits(s, w)[1] = Hit(Head(s), w)
  BY <1>1, <1>3, <1>4
<1>10. CountOf(s, w) = SumFunctionOnSet(Hits(s, w), 1 .. n)
  BY <1>2, CountIs
<1>11. CountOf(q, w) = SumFunctionOnSet(Hits(q, w), 1 .. n - 1)
  BY <1>2, CountIs
<1>12. CountOf(s, w) = Hit(Head(s), w) + CountOf(q, w)
  BY <1>7, <1>8, <1>9, <1>10, <1>11
<1> QED
  BY <1>1, <1>12 DEF q

LEMMA CountCons ==
  ASSUME NEW s \in Seq(Entry), NEW x \in Entry, NEW w
  PROVE  CountOf(<<x>> \o s, w) = CountOf(s, w) + Hit(x, w)
<1> DEFINE q == <<x>> \o s
<1>1. q \in Seq(Entry) /\ q # <<>> /\ Head(q) = x /\ Tail(q) = s
  OBVIOUS
<1> HIDE DEF q
<1>2. CountOf(q, w) = Hit(Head(q), w) + CountOf(Tail(q), w)
  BY <1>1, CountTail
<1>3. CountOf(s, w) \in Nat /\ Hit(x, w) \in Nat
  <2>1. x.count \in Nat
    BY EntryFacts
  <2> QED
    BY <2>1, CountNat DEF Hit
<1>4. CountOf(q, w) = Hit(x, w) + CountOf(s, w)
  BY <1>1, <1>2
<1> QED
  BY <1>3, <1>4 DEF q

LEMMA CountExcept ==
  ASSUME NEW s \in Seq(Entry), NEW i \in DOMAIN s, NEW c \in Nat \ {0}, NEW w
  PROVE  CountOf([s EXCEPT ![i].count = @ + c], w)
           = CountOf(s, w) + (IF s[i].word = w THEN c ELSE 0)
<1> DEFINE y == [s[i] EXCEPT !.count = @ + c]
           q == [s EXCEPT ![i] = y]
<1>1. [s EXCEPT ![i].count = @ + c] = q
  OBVIOUS
<1>2. s[i] \in Entry /\ DOMAIN s = 1 .. Len(s)
  BY HitsNat, ElementOfSeq
<1>3. y \in Entry /\ y.word = s[i].word /\ y.count = s[i].count + c /\ s[i].count \in Nat
  BY <1>2, EntryIs
<1> HIDE DEF y
<1>4. /\ q \in Seq(Entry) /\ Len(q) = Len(s)
      /\ \A j \in 1 .. Len(s) : q[j] = IF j = i THEN y ELSE s[j]
  BY <1>2, <1>3, ExceptSeq
<1> HIDE DEF q
<1> DEFINE D == 1 .. Len(s)
<1>5. /\ DOMAIN s = D /\ DOMAIN q = D /\ IsFiniteSet(D) /\ i \in D
      /\ \A j \in D : Hits(s, w)[j] = Hit(s[j], w) /\ Hits(s, w)[j] \in Nat
      /\ \A j \in D : Hits(q, w)[j] = Hit(q[j], w) /\ Hits(q, w)[j] \in Nat
  BY <1>2, <1>4, HitsNat
<1>6. \A j \in D \ {i} : Hits(s, w)[j] = Hits(q, w)[j]
  BY <1>4, <1>5
<1> HIDE DEF D
<1>7. SumFunctionOnSet(Hits(s, w), D) + Hits(q, w)[i] = SumFunctionOnSet(Hits(q, w), D) + Hits(s, w)[i]
  <2>1. (\A j \in D : Hits(s, w)[j] \in Nat) /\ (\A j \in D : Hits(q, w)[j] \in Nat)
    BY <1>5
  <2>2. IsFiniteSet(D) /\ i \in D
    BY <1>5
  <2> QED
    BY <1>6, <2>1, <2>2, SumChange
<1>8. Hits(s, w)[i] = Hit(s[i], w) /\ Hits(q, w)[i] = Hit(y, w)
  BY <1>4, <1>5 DEF D
<1>9. CountOf(s, w) + Hit(y, w) = CountOf(q, w) + Hit(s[i], w)
  BY <1>5, <1>7, <1>8, CountIs
<1>10. CountOf(s, w) \in Nat /\ CountOf(q, w) \in Nat
  BY <1>4, CountNat
<1>11. Hit(y, w) = Hit(s[i], w) + (IF s[i].word = w THEN c ELSE 0) /\ Hit(s[i], w) \in Nat
  BY <1>3 DEF Hit
<1>12. CountOf(q, w) = CountOf(s, w) + (IF s[i].word = w THEN c ELSE 0)
  BY <1>9, <1>10, <1>11
<1> QED
  BY <1>1, <1>12

IsList(s) == \E W, C : s \in Seq([word : W, count : C])

Single(s) == \A i, j \in DOMAIN s : s[i].word = s[j].word => i = j

LEMMA TypedIsList ==
  ASSUME NEW s \in Seq(Entry)
  PROVE  IsList(s)
<1>1. Entry = [word : Word, count : Nat \ {0}]
  BY EntryIs
<1> QED
  BY <1>1 DEF IsList

LEMMA FindWord ==
  ASSUME NEW s, IsList(s), NEW v
  PROVE  /\ find_word(s, v) = 0 => \A i \in DOMAIN s : s[i].word # v
         /\ find_word(s, v) # 0 => find_word(s, v) \in DOMAIN s /\ s[find_word(s, v)].word = v
<1>1. DOMAIN s \subseteq Nat \ {0}
  BY DEF IsList
<1>2. CASE \E i \in DOMAIN s : s[i].word = v
  <2>1. find_word(s, v) = CHOOSE i \in DOMAIN s : s[i].word = v
    BY <1>2, Zenon DEF find_word
  <2>2. find_word(s, v) \in DOMAIN s /\ s[find_word(s, v)].word = v
    BY <1>2, <2>1, Zenon
  <2> QED
    BY <1>1, <2>2
<1>3. CASE ~\E i \in DOMAIN s : s[i].word = v
  BY <1>3, Zenon DEF find_word
<1> QED
  BY <1>2, <1>3

LEMMA AddTyped ==
  ASSUME NEW s \in Seq(Entry), NEW i \in 0 .. Len(s), NEW v \in Word, NEW c \in Nat \ {0}, NEW b
  PROVE  add(s, i, v, c, b) \in Seq(Entry) /\ Len(add(s, i, v, c, b)) >= Len(s)
<1> DEFINE x == [word |-> v, count |-> c]
<1>1. x \in Entry
  BY EntryIs
<1>2. CASE i = 0
  <2>1. CASE b = "words"
    <3>1. add(s, i, v, c, b) = <<x>> \o s
      BY <1>2, <2>1 DEF add, insert
    <3> HIDE DEF x
    <3>2. <<x>> \o s \in Seq(Entry) /\ Len(<<x>> \o s) = Len(s) + 1
      BY <1>1
    <3>3. Len(<<x>> \o s) >= Len(s)
      BY <3>2
    <3> QED
      BY <3>1, <3>2, <3>3, Zenon
  <2>2. CASE b # "words"
    <3>1. add(s, i, v, c, b) = Append(s, x)
      BY <1>2, <2>2 DEF add, insert
    <3> HIDE DEF x
    <3>2. Append(s, x) \in Seq(Entry) /\ Len(Append(s, x)) = Len(s) + 1
      BY <1>1, AppendProperties
    <3>3. Len(Append(s, x)) >= Len(s)
      BY <3>2
    <3> QED
      BY <3>1, <3>2, <3>3, Zenon
  <2> QED
    BY <2>1, <2>2
<1>3. CASE i # 0
  <2> DEFINE y == [s[i] EXCEPT !.count = @ + c]
  <2>1. i \in 1 .. Len(s) /\ s[i] \in Entry
    BY <1>3, ElementOfSeq
  <2>2. add(s, i, v, c, b) = [s EXCEPT ![i] = y]
    BY <1>3 DEF add
  <2>3. y \in Entry
    BY <2>1, EntryIs
  <2> HIDE DEF y
  <2>4. [s EXCEPT ![i] = y] \in Seq(Entry) /\ Len([s EXCEPT ![i] = y]) = Len(s)
    BY <2>1, <2>3, ExceptSeq
  <2>5. Len([s EXCEPT ![i] = y]) >= Len(s)
    BY <2>4
  <2> QED
    BY <2>2, <2>4, <2>5, Zenon
<1> QED
  BY <1>2, <1>3

LEMMA FindRange ==
  ASSUME NEW s \in Seq(Entry), NEW v
  PROVE  find_word(s, v) \in 0 .. Len(s)
<1>1. find_word(s, v) = 0 \/ find_word(s, v) \in DOMAIN s
  BY FindWord, TypedIsList
<1>2. DOMAIN s = 1 .. Len(s) /\ Len(s) \in Nat
  OBVIOUS
<1> QED
  BY <1>1, <1>2

(* add_word_with_count adds to the count of the word, and of no other.     *)
LEMMA AddCounts ==
  ASSUME NEW s \in Seq(Entry), NEW v \in Word, NEW c \in Nat \ {0}, NEW b, NEW w
  PROVE  CountOf(add(s, find_word(s, v), v, c, b), w) = CountOf(s, w) + (IF v = w THEN c ELSE 0)
<1> DEFINE x == [word |-> v, count |-> c]
           i == find_word(s, v)
<1>1. x \in Entry /\ Hit(x, w) = IF v = w THEN c ELSE 0
  BY EntryIs DEF Hit
<1>2. CASE i = 0
  <2>1. CASE b = "words"
    <3>1. add(s, i, v, c, b) = <<x>> \o s
      BY <1>2, <2>1 DEF add, insert
    <3> HIDE DEF x
    <3> QED
      BY <1>1, <3>1, CountCons
  <2>2. CASE b # "words"
    <3>1. add(s, i, v, c, b) = Append(s, x)
      BY <1>2, <2>2 DEF add, insert
    <3> HIDE DEF x
    <3> QED
      BY <1>1, <3>1, CountAppend
  <2> QED
    BY <2>1, <2>2
<1>3. CASE i # 0
  <2>1. i \in DOMAIN s /\ s[i].word = v
    BY <1>3, FindWord, TypedIsList
  <2>2. add(s, i, v, c, b) = [s EXCEPT ![i].count = @ + c]
    BY <1>3 DEF add
  <2> HIDE DEF i
  <2>3. CountOf([s EXCEPT ![i].count = @ + c], w) = CountOf(s, w) + (IF s[i].word = w THEN c ELSE 0)
    BY <2>1, CountExcept
  <2> QED
    BY <2>1, <2>2, <2>3 DEF i
<1> QED
  BY <1>2, <1>3

(* A list in another order has the same words with the same counts.        *)
LEMMA ArrangedSame ==
  ASSUME NEW s \in Seq(Entry), NEW r, Arranged(r, s)
  PROVE  /\ r \in Seq(Entry) /\ Len(r) = Len(s)
         /\ Single(s) => Single(r)
         /\ \A w : CountOf(r, w) = CountOf(s, w)
<1> DEFINE D == DOMAIN s
<1>1. PICK p \in [D -> D] : IsInjective(p) /\ r = [i \in D |-> s[p[i]]]
  BY DEF Arranged
<1>2. D = 1 .. Len(s) /\ Len(s) \in Nat /\ IsFiniteSet(D) /\ \A i \in D : s[i] \in Entry
  BY HitsNat, ElementOfSeq
<1> HIDE DEF D
<1>3. r \in Seq(Entry) /\ Len(r) = Len(s) /\ DOMAIN r = D
  <2>1. r \in [1 .. Len(s) -> Entry]
    BY <1>1, <1>2
  <2> QED
    BY <1>2, <2>1
<1>4. \A i, j \in D : p[i] = p[j] => i = j
  BY <1>1 DEF IsInjective
<1>5. Image(p, D) = D
  <2>1. p \in Injection(D, D)
    BY <1>1 DEF Injection
  <2>2. p \in Surjection(D, D)
    BY <1>2, <2>1, FS_Injection
  <2> QED
    BY <1>1, <2>2 DEF Image, Surjection
<1>6. ASSUME Single(s) PROVE Single(r)
  <2>1. \A i, j \in D : s[p[i]].word = s[p[j]].word => p[i] = p[j]
    BY <1>1, <1>6 DEF Single, D
  <2>2. ASSUME NEW i \in D, NEW j \in D, r[i].word = r[j].word PROVE i = j
    <3>1. r[i] = s[p[i]] /\ r[j] = s[p[j]]
      BY <1>1
    <3>2. p[i] = p[j]
      BY <2>1, <2>2, <3>1
    <3> QED
      BY <1>4, <3>2
  <2> QED
    BY <1>3, <2>2 DEF Single
<1>7. ASSUME NEW w PROVE CountOf(r, w) = CountOf(s, w)
  <2>1. /\ \A i \in D : Hits(r, w)[i] = Hit(r[i], w)
        /\ \A i \in D : Hits(s, w)[i] = Hit(s[i], w) /\ Hits(s, w)[i] \in Nat
    BY <1>3, HitsNat DEF D
  <2>2. Renames(p, Hits(r, w), Hits(s, w), D)
    BY <1>1, <1>4, <2>1 DEF Renames
  <2>3. SumFunctionOnSet(Hits(r, w), D) = SumFunctionOnSet(Hits(s, w), Image(p, D))
    BY <1>2, <2>2, SumMap
  <2>4. SumFunctionOnSet(Hits(r, w), D) = SumFunctionOnSet(Hits(s, w), D)
    BY <1>5, <2>3, Zenon
  <2> QED
    BY <1>3, <2>4, CountIs DEF D
<1> QED
  BY <1>3, <1>6, <1>7
-----------------------------------------------------------------------------
(* What get_words finds: the longest stretches of letters, single ones too.*)
Run(s, p) ==
  /\ p \in (DOMAIN s) \X (DOMAIN s) /\ p[1] <= p[2]
  /\ \A i \in p[1] .. p[2] : isalpha(s[i])
  /\ \A i \in {p[1] - 1, p[2] + 1} \cap DOMAIN s : ~isalpha(s[i])

Runs(s, k) == {p \in (DOMAIN s) \X (DOMAIN s) : Run(s, p) /\ p[2] <= k}

Letters == Nat \ {0}

(* b has the place in s of each of the words that end at k or before.      *)
Places(b, words, s, k) ==
  /\ b \in [DOMAIN words -> Runs(s, k)]
  /\ \A i, j \in DOMAIN words : b[i] = b[j] => i = j
  /\ \A p \in Runs(s, k) : \E i \in DOMAIN words : b[i] = p
  /\ \A i \in DOMAIN words : words[i] = WordAt(s, b[i])

(* Where get_word is after k characters: the letters in the buffer are the *)
(* last ones, and there is none before them.                               *)
Lexing(s, k) ==
  {r \in [buffer : Seq(Letters), words : Seq(Seq(Letters))] :
     /\ Len(r.buffer) <= k
     /\ \A i \in 1 .. Len(r.buffer) :
          LET j == k - Len(r.buffer) + i IN isalpha(s[j]) /\ r.buffer[i] = tolower(s[j])
     /\ k - Len(r.buffer) \in DOMAIN s => ~isalpha(s[k - Len(r.buffer)])
     /\ \E b : Places(b, r.words, s, k - 1)}

LEMMA LowerLetter ==
  ASSUME NEW ch \in Int, isalpha(ch)
  PROVE  tolower(ch) \in Letters
BY DEF isalpha, tolower, Letters

LEMMA LexLetter ==
  ASSUME NEW s \in Seq(Int), NEW k \in Nat, k + 1 <= Len(s), NEW r \in Lexing(s, k),
         isalpha(s[k + 1])
  PROVE  next_char(r, s[k + 1]) \in Lexing(s, k + 1)
<1> DEFINE ch == s[k + 1]
           buffer == Append(r.buffer, tolower(ch))
           q == [r EXCEPT !.buffer = buffer]
           m == Len(r.buffer)
<1>1. next_char(r, ch) = q
  BY DEF next_char
<1>2. /\ r \in [buffer : Seq(Letters), words : Seq(Seq(Letters))] /\ m <= k /\ m \in Nat
      /\ \A i \in 1 .. m : isalpha(s[k - m + i]) /\ r.buffer[i] = tolower(s[k - m + i])
      /\ k - m \in DOMAIN s => ~isalpha(s[k - m])
      /\ \E b : Places(b, r.words, s, k - 1)
  BY DEF Lexing
<1>3. DOMAIN s = 1 .. Len(s) /\ Len(s) \in Nat /\ k + 1 \in DOMAIN s /\ ch \in Int
  OBVIOUS
<1>4. tolower(ch) \in Letters
  BY <1>3, LowerLetter
<1>5. r.buffer \in Seq(Letters)
  BY <1>2
<1>6. /\ buffer \in Seq(Letters) /\ Len(buffer) = m + 1
      /\ \A i \in 1 .. m : buffer[i] = r.buffer[i]
      /\ buffer[m + 1] = tolower(ch)
  BY <1>4, <1>5, AppendProperties
<1> HIDE DEF buffer, m
<1>7. q \in [buffer : Seq(Letters), words : Seq(Seq(Letters))] /\ q.buffer = buffer /\ q.words = r.words
  BY <1>2, <1>6
<1> HIDE DEF q
<1>8. Len(q.buffer) = m + 1 /\ m + 1 <= k + 1 /\ (k + 1) - (m + 1) = k - m
  BY <1>2, <1>6, <1>7
<1>9. ASSUME NEW i \in 1 .. m + 1
      PROVE  isalpha(s[k - m + i]) /\ buffer[i] = tolower(s[k - m + i])
  <2>1. CASE i = m + 1
    <3>1. k - m + i = k + 1
      BY <1>2, <2>1
    <3> QED
      BY <1>6, <2>1, <3>1
  <2>2. CASE i # m + 1
    <3>1. i \in 1 .. m
      BY <1>2, <2>2
    <3> QED
      BY <1>2, <1>6, <3>1
  <2> QED
    BY <2>1, <2>2
<1>10. Runs(s, k) = Runs(s, k - 1)
  <2>1. ASSUME NEW p \in (DOMAIN s) \X (DOMAIN s), Run(s, p), p[2] = k PROVE FALSE
    <3>1. p[2] + 1 \in {p[1] - 1, p[2] + 1} \cap DOMAIN s
      BY <1>3, <2>1
    <3>2. ~isalpha(s[p[2] + 1])
      BY <2>1, <3>1 DEF Run
    <3> QED
      BY <2>1, <3>2
  <2>2. ASSUME NEW p \in (DOMAIN s) \X (DOMAIN s), Run(s, p) PROVE p[2] <= k <=> p[2] <= k - 1
    <3>1. p[2] \in Nat /\ p[2] # k
      BY <1>3, <2>1, <2>2
    <3> QED
      BY <3>1
  <2> QED
    BY <2>2 DEF Runs
<1>11. \E b : Places(b, q.words, s, (k + 1) - 1)
  <2>1. (k + 1) - 1 = k
    OBVIOUS
  <2>2. PICK b : Places(b, r.words, s, k - 1)
    BY <1>2
  <2>3. Places(b, r.words, s, k)
    BY <1>10, <2>2, Zenon DEF Places
  <2> QED
    BY <1>7, <2>1, <2>3, Zenon
<1>12. q \in Lexing(s, k + 1)
  <2>1. \A i \in 1 .. Len(q.buffer) :
          LET j == (k + 1) - Len(q.buffer) + i IN isalpha(s[j]) /\ q.buffer[i] = tolower(s[j])
    BY <1>7, <1>8, <1>9
  <2>2. (k + 1) - Len(q.buffer) \in DOMAIN s => ~isalpha(s[(k + 1) - Len(q.buffer)])
    BY <1>2, <1>8
  <2> QED
    BY <1>7, <1>8, <1>11, <2>1, <2>2 DEF Lexing
<1> QED
  BY <1>1, <1>12

(* The word in the buffer is complete when no letter follows.              *)
LEMMA LexComplete ==
  ASSUME NEW s \in Seq(Int), NEW k \in 0 .. Len(s), NEW r \in Lexing(s, k),
         k + 1 \in DOMAIN s => ~isalpha(s[k + 1])
  PROVE  /\ complete(r) \in [buffer : Seq(Letters), words : Seq(Seq(Letters))]
         /\ complete(r).buffer = <<>>
         /\ \E b : Places(b, complete(r).words, s, k)
<1> DEFINE m == Len(r.buffer)
<1>1. /\ r \in [buffer : Seq(Letters), words : Seq(Seq(Letters))] /\ m <= k /\ m \in Nat
      /\ \A i \in 1 .. m : isalpha(s[k - m + i]) /\ r.buffer[i] = tolower(s[k - m + i])
      /\ k - m \in DOMAIN s => ~isalpha(s[k - m])
      /\ \E b : Places(b, r.words, s, k - 1)
  BY DEF Lexing
<1>2. DOMAIN s = 1 .. Len(s) /\ Len(s) \in Nat /\ k \in Nat /\ k <= Len(s)
  OBVIOUS
<1>3. PICK b : Places(b, r.words, s, k - 1)
  BY <1>1
<1>4. \A p \in (DOMAIN s) \X (DOMAIN s) : p[1] \in 1 .. Len(s) /\ p[2] \in 1 .. Len(s)
  BY <1>2
<1>5. CASE r.buffer = <<>>
  <2>1. complete(r) = r
    BY <1>5 DEF complete
  <2>2. m = 0 /\ k - m = k
    BY <1>5
  <2>3. ASSUME NEW p \in (DOMAIN s) \X (DOMAIN s), Run(s, p) PROVE p[2] # k
    <3> SUFFICES ASSUME p[2] = k PROVE FALSE
      OBVIOUS
    <3>1. k \in p[1] .. p[2] /\ k \in DOMAIN s
      BY <1>2, <1>4, <2>3 DEF Run
    <3>2. isalpha(s[k])
      BY <2>3, <3>1 DEF Run
    <3> QED
      BY <1>1, <2>2, <3>1, <3>2
  <2>4. ASSUME NEW p \in (DOMAIN s) \X (DOMAIN s), Run(s, p) PROVE p[2] <= k <=> p[2] <= k - 1
    <3>1. p[2] \in Nat /\ p[2] # k
      BY <1>4, <2>3, <2>4
    <3> QED
      BY <1>2, <3>1
  <2>5. Runs(s, k) = Runs(s, k - 1)
    BY <2>4 DEF Runs
  <2>6. Places(b, r.words, s, k)
    BY <1>3, <2>5, Zenon DEF Places
  <2> QED
    BY <1>1, <1>5, <2>1, <2>6, Zenon
<1>6. CASE r.buffer # <<>>
  <2> DEFINE l == k - m + 1
             p0 == <<l, k>>
             n == Len(r.words)
             words == Append(r.words, r.buffer)
             b1 == [i \in 1 .. n + 1 |-> IF i = n + 1 THEN p0 ELSE b[i]]
  <2>1. complete(r) = [buffer |-> <<>>, words |-> words]
    BY <1>6 DEF complete
  <2>2. r.words \in Seq(Seq(Letters)) /\ r.buffer \in Seq(Letters) /\ DOMAIN r.words = 1 .. n /\ n \in Nat
    BY <1>1
  <2>3. /\ words \in Seq(Seq(Letters)) /\ Len(words) = n + 1
        /\ \A i \in 1 .. n : words[i] = r.words[i]
        /\ words[n + 1] = r.buffer
    BY <2>2, AppendProperties
  <2> HIDE DEF words
  <2>4. DOMAIN words = 1 .. n + 1
    BY <2>3, LenProperties
  <2>5. m > 0
    BY <1>6, <2>2, EmptySeq
  <2>6. l \in 1 .. k /\ k - l + 1 = m /\ l \in DOMAIN s /\ k \in DOMAIN s
    BY <1>1, <1>2, <2>5
  <2>7. r.buffer = WordAt(s, p0)
    <3>1. WordAt(s, p0) = [i \in 1 .. m |-> tolower(s[l + i - 1])]
      BY <2>6 DEF WordAt
    <3>2. ASSUME NEW i \in 1 .. m PROVE r.buffer[i] = tolower(s[l + i - 1])
      <4>1. l + i - 1 = k - m + i
        BY <1>1, <1>2
      <4> QED
        BY <1>1, <4>1
    <3>3. r.buffer = [i \in 1 .. m |-> r.buffer[i]]
      BY <2>2
    <3> QED
      BY <3>1, <3>2, <3>3
  <2>8. Run(s, p0)
    <3>1. p0[1] = l /\ p0[2] = k /\ p0 \in (DOMAIN s) \X (DOMAIN s) /\ l <= k
      BY <2>6
    <3>2. ASSUME NEW i \in l .. k PROVE isalpha(s[i])
      <4>1. i - (k - m) \in 1 .. m /\ k - m + (i - (k - m)) = i
        BY <1>1, <1>2, <2>6
      <4> QED
        BY <1>1, <4>1
    <3>3. l - 1 \in DOMAIN s => ~isalpha(s[l - 1])
      <4>1. l - 1 = k - m
        BY <1>1, <1>2
      <4> QED
        BY <1>1, <4>1
    <3> HIDE DEF p0, l
    <3> QED
      BY <3>1, <3>2, <3>3 DEF Run
  <2>9. ASSUME NEW p \in (DOMAIN s) \X (DOMAIN s), Run(s, p), p[2] = k PROVE p = p0
    <3>1. p[1] \in 1 .. Len(s) /\ p[1] <= k /\ p = <<p[1], p[2]>> /\ l \in Nat /\ p[1] \in Nat
      BY <1>2, <2>6, <2>9 DEF Run
    <3>2. ~(p[1] < l)
      <4> SUFFICES ASSUME p[1] < l PROVE FALSE
        OBVIOUS
      <4>1. l - 1 \in p[1] .. k /\ l - 1 \in 1 .. Len(s) /\ l - 1 = k - m
        <5>1. l <= k /\ k <= Len(s) /\ p[1] >= 1 /\ l - 1 = k - m
          BY <1>1, <1>2, <2>6, <3>1
        <5> HIDE DEF l
        <5> QED
          BY <1>2, <3>1, <5>1
      <4>2. isalpha(s[l - 1])
        <5> HIDE DEF l
        <5> QED
          BY <2>9, <4>1 DEF Run
      <4> QED
        BY <1>1, <1>2, <4>1, <4>2
    <3>3. ~(p[1] > l)
      <4> SUFFICES ASSUME p[1] > l PROVE FALSE
        OBVIOUS
      <4>1. p[1] - 1 \in DOMAIN s /\ p[1] - 1 \in l .. k
        <5>2. ASSUME NEW x \in Nat, NEW y \in Nat, x > y, y >= 1, x <= k
              PROVE  x - 1 \in 1 .. Len(s) /\ x - 1 \in y .. k
          BY <1>2, <5>2
        <5> HIDE DEF l
        <5>a. l >= 1 /\ l \in Nat
          BY <1>2, <2>6
        <5>1. l >= 1 /\ l \in Nat /\ p[1] > l /\ p[1] \in Nat /\ p[1] <= k /\ k <= Len(s)
          BY <1>2, <3>1, <5>a
        <5> QED
          BY <1>2, <5>1, <5>2
      <4>2. ~isalpha(s[p[1] - 1])
        BY <2>9, <4>1 DEF Run
      <4>3. (p[1] - 1) - (k - m) \in 1 .. m /\ k - m + ((p[1] - 1) - (k - m)) = p[1] - 1
        <5>1. p[1] - 1 \in (k - m + 1) .. k /\ p[1] \in Nat
          BY <3>1, <4>1
        <5>2. ASSUME NEW x \in Nat, NEW y \in Nat, x - 1 \in (k - y + 1) .. k
              PROVE  (x - 1) - (k - y) \in 1 .. y /\ k - y + ((x - 1) - (k - y)) = x - 1
          BY <1>2, <5>2
        <5> HIDE DEF m
        <5> QED
          BY <1>1, <5>1, <5>2
      <4>4. isalpha(s[p[1] - 1])
        BY <1>1, <4>3
      <4> QED
        BY <4>2, <4>4
    <3>4. p[1] = l
      <4> HIDE DEF l
      <4> QED
        BY <3>1, <3>2, <3>3
    <3> QED
      BY <2>9, <3>1, <3>4
  <2>10. Runs(s, k) = Runs(s, k - 1) \cup {p0} /\ p0 \notin Runs(s, k - 1)
    <3>1. p0 \in Runs(s, k) /\ p0 \notin Runs(s, k - 1)
      <4>1. p0 \in (DOMAIN s) \X (DOMAIN s) /\ p0[2] = k
        BY <2>6
      <4>2. k <= k /\ ~(k <= k - 1)
        BY <1>2
      <4> HIDE DEF p0
      <4> QED
        BY <2>8, <4>1, <4>2 DEF Runs
    <3>2. Runs(s, k - 1) \subseteq Runs(s, k)
      BY <1>2, <1>4 DEF Runs
    <3>3. ASSUME NEW p \in Runs(s, k), p \notin Runs(s, k - 1) PROVE p = p0
      <4>1. p \in (DOMAIN s) \X (DOMAIN s) /\ Run(s, p) /\ p[2] <= k /\ ~(p[2] <= k - 1)
        BY <3>3 DEF Runs
      <4>2. p[2] = k
        BY <1>2, <1>4, <4>1
      <4> QED
        BY <2>9, <4>1, <4>2
    <3> HIDE DEF p0
    <3> QED
      BY <3>1, <3>2, <3>3
  <2> HIDE DEF p0, l, m, n
  <2>11. /\ b \in [1 .. n -> Runs(s, k - 1)]
         /\ \A i, j \in 1 .. n : b[i] = b[j] => i = j
         /\ \A p \in Runs(s, k - 1) : \E i \in 1 .. n : b[i] = p
         /\ \A i \in 1 .. n : r.words[i] = WordAt(s, b[i])
    BY <1>3, <2>2 DEF Places
  <2>12. /\ n + 1 \in 1 .. n + 1 /\ b1[n + 1] = p0
         /\ \A i \in 1 .. n : i \in 1 .. n + 1 /\ b1[i] = b[i] /\ i # n + 1
         /\ \A i \in 1 .. n + 1 : i = n + 1 \/ i \in 1 .. n
    BY <2>2
  <2>13. b1 \in [1 .. n + 1 -> Runs(s, k)]
    <3>1. \A i \in 1 .. n + 1 : b1[i] \in Runs(s, k)
      <4> HIDE DEF b1
      <4> QED
        BY <2>10, <2>11, <2>12
    <3> QED
      BY <3>1
  <2> HIDE DEF b1
  <2>14. \A i, j \in 1 .. n + 1 : b1[i] = b1[j] => i = j
    <3>1. \A i \in 1 .. n : b1[i] # p0
      BY <2>10, <2>11, <2>12
    <3> QED
      BY <2>11, <2>12, <3>1
  <2>15. \A p \in Runs(s, k) : \E i \in 1 .. n + 1 : b1[i] = p
    BY <2>10, <2>11, <2>12
  <2>16. \A i \in 1 .. n + 1 : words[i] = WordAt(s, b1[i])
    BY <2>3, <2>7, <2>11, <2>12
  <2>17. Places(b1, words, s, k)
    BY <2>4, <2>13, <2>14, <2>15, <2>16 DEF Places
  <2> QED
    BY <2>1, <2>3, <2>17
<1> QED
  BY <1>5, <1>6

LEMMA LexOther ==
  ASSUME NEW s \in Seq(Int), NEW k \in Nat, k + 1 <= Len(s), NEW r \in Lexing(s, k),
         ~isalpha(s[k + 1])
  PROVE  next_char(r, s[k + 1]) \in Lexing(s, k + 1)
<1> DEFINE q == complete(r)
<1>1. next_char(r, s[k + 1]) = q
  BY DEF next_char
<1>2. k \in 0 .. Len(s)
  OBVIOUS
<1>3. /\ q \in [buffer : Seq(Letters), words : Seq(Seq(Letters))] /\ q.buffer = <<>>
      /\ \E b : Places(b, q.words, s, k)
  BY <1>2, LexComplete
<1> HIDE DEF q
<1>4. Len(q.buffer) = 0
  BY <1>3
<1>5. (k + 1) - 1 = k /\ (k + 1) - 0 = k + 1 /\ 0 <= k + 1 /\ 1 .. 0 = {}
  OBVIOUS
<1>6. q \in Lexing(s, k + 1)
  BY <1>3, <1>4, <1>5 DEF Lexing
<1> QED
  BY <1>1, <1>6

LEMMA Lexed ==
  ASSUME NEW s \in Seq(Int)
  PROVE  get_words(s) \in Seq(Seq(Letters)) /\ \E b : Places(b, get_words(s), s, Len(s))
<1> DEFINE m == Len(s)
           P == [k \in Nat |-> Lexing(s, k)]
           first == [buffer |-> <<>>, words |-> <<>>]
           r == FoldLeft(next_char, first, s)
<1>1. m \in Nat /\ DOMAIN s = 1 .. m
  OBVIOUS
<1>2. first \in P[0]
  <2>1. first \in [buffer : Seq(Letters), words : Seq(Seq(Letters))]
    BY EmptySeq
  <2>2. first.buffer = <<>> /\ first.words = <<>> /\ Len(first.buffer) = 0
    OBVIOUS
  <2>3. Runs(s, 0 - 1) = {}
    <3>1. \A p \in (DOMAIN s) \X (DOMAIN s) : ~(p[2] <= 0 - 1)
      BY <1>1
    <3> QED
      BY <3>1 DEF Runs
  <2>4. Places(<<>>, <<>>, s, 0 - 1)
    BY <2>3 DEF Places
  <2>5. 0 <= 0 /\ 0 - 0 \notin DOMAIN s /\ 1 .. 0 = {}
    BY <1>1
  <2> HIDE DEF first
  <2>6. first \in Lexing(s, 0)
    BY <2>1, <2>2, <2>4, <2>5 DEF Lexing
  <2> QED
    BY <2>6
<1>3. \A k \in 0 .. m - 1 : \A x \in P[k] : next_char(x, s[k + 1]) \in P[k + 1]
  <2> SUFFICES ASSUME NEW k \in 0 .. m - 1, NEW x \in P[k]
               PROVE  next_char(x, s[k + 1]) \in P[k + 1]
    OBVIOUS
  <2>1. k \in Nat /\ k + 1 \in Nat /\ k + 1 <= Len(s)
    BY <1>1
  <2>2. x \in Lexing(s, k)
    BY <2>1
  <2>3. next_char(x, s[k + 1]) \in Lexing(s, k + 1)
    BY <2>1, <2>2, LexLetter, LexOther
  <2> QED
    BY <2>1, <2>3
<1>4. r \in P[m]
  <2> HIDE DEF P, m, first
  <2> QED
    BY <1>1, <1>2, <1>3, CharReach
<1>5. r \in Lexing(s, m)
  BY <1>1, <1>4
<1>6. get_words(s) = complete(r).words
  BY DEF get_words
<1> HIDE DEF r
<1>7. m \in 0 .. Len(s) /\ m + 1 \notin DOMAIN s
  BY <1>1
<1>8. /\ complete(r) \in [buffer : Seq(Letters), words : Seq(Seq(Letters))]
      /\ \E b : Places(b, complete(r).words, s, m)
  BY <1>5, <1>7, LexComplete
<1>9. complete(r).words \in Seq(Seq(Letters))
  BY <1>8
<1> QED
  BY <1>6, <1>8, <1>9

(* How often w is among the words.                                         *)
Copies(words, w) == Cardinality({i \in DOMAIN words : words[i] = w})

LEMMA CopiesNat ==
  ASSUME NEW words \in Seq(Seq(Letters)), NEW w
  PROVE  IsFiniteSet({i \in DOMAIN words : words[i] = w}) /\ Copies(words, w) \in Nat
<1>1. DOMAIN words = 1 .. Len(words) /\ Len(words) \in Nat
  BY LenProperties
<1>2. IsFiniteSet(DOMAIN words)
  BY <1>1, FS_Interval
<1>3. IsFiniteSet({i \in DOMAIN words : words[i] = w})
  BY <1>2, FS_Subset
<1> QED
  BY <1>3, FS_CardinalityType DEF Copies

(* A word of two or more letters is found as often as it is in the text.   *)
LEMMA WordsFound ==
  ASSUME NEW s \in Seq(Int), NEW w, Len(w) > 1
  PROVE  Copies(get_words(s), w) = Occurrences(s, w)
<1> DEFINE words == get_words(s)
           A == {i \in DOMAIN words : words[i] = w}
           B == {p \in Stretches(s) : WordAt(s, p) = w}
<1>1. words \in Seq(Seq(Letters))
  BY Lexed
<1>2. PICK b : Places(b, words, s, Len(s))
  BY Lexed
<1> HIDE DEF words
<1>3. DOMAIN s = 1 .. Len(s) /\ Len(s) \in Nat
  OBVIOUS
<1>4. ASSUME NEW p \in Stretches(s) PROVE p \in Runs(s, Len(s))
  <2>1. p \in (DOMAIN s) \X (DOMAIN s) /\ p[1] < p[2]
    BY DEF Stretches
  <2>2. p[1] \in 1 .. Len(s) /\ p[2] \in 1 .. Len(s)
    BY <1>3, <2>1
  <2>3. p[1] <= p[2] /\ p[2] <= Len(s)
    BY <1>3, <2>1, <2>2
  <2>4. Run(s, p)
    BY <2>1, <2>3 DEF Run, Stretches
  <2> QED
    BY <2>1, <2>3, <2>4 DEF Runs
<1>5. ASSUME NEW p \in Runs(s, Len(s)), WordAt(s, p) = w PROVE p \in Stretches(s)
  <2>1. p \in (DOMAIN s) \X (DOMAIN s) /\ Run(s, p)
    BY DEF Runs
  <2>2. p[1] \in 1 .. Len(s) /\ p[2] \in 1 .. Len(s) /\ p[1] <= p[2]
    BY <1>3, <2>1 DEF Run
  <2>3. Len(w) = p[2] - p[1] + 1
    <3>1. w = [i \in 1 .. p[2] - p[1] + 1 |-> tolower(s[p[1] + i - 1])]
      BY <1>5 DEF WordAt
    <3>2. p[2] - p[1] + 1 \in Nat
      BY <2>2
    <3> QED
      BY <3>1, <3>2
  <2>4. p[1] < p[2]
    BY <2>2, <2>3
  <2> QED
    BY <2>1, <2>4 DEF Stretches, Run
<1> DEFINE c == [i \in A |-> b[i]]
<1>6. c \in Bijection(A, B)
  <2>1. ASSUME NEW i \in A PROVE b[i] \in B
    <3>1. b[i] \in Runs(s, Len(s)) /\ WordAt(s, b[i]) = w
      BY <1>2 DEF Places
    <3> QED
      BY <1>5, <3>1
  <2>2. ASSUME NEW p \in B PROVE \E i \in A : b[i] = p
    <3>1. PICK i \in DOMAIN words : b[i] = p
      BY <1>2, <1>4 DEF Places
    <3>2. words[i] = w
      BY <1>2, <3>1 DEF Places
    <3> QED
      BY <3>1, <3>2
  <2>3. \A i, j \in A : b[i] = b[j] => i = j
    BY <1>2 DEF Places
  <2> HIDE DEF A, B
  <2>4. c \in [A -> B]
    BY <2>1
  <2> QED
    BY <2>2, <2>3, <2>4 DEF Bijection, Injection, Surjection, IsInjective
<1>7. IsFiniteSet(A)
  BY <1>1, CopiesNat
<1>8. Cardinality(B) = Cardinality(A)
  <2> HIDE DEF A, B, c
  <2> QED
    BY <1>6, <1>7, FS_Bijection DEF ExistsBijection
<1> QED
  BY <1>8 DEF Copies, Occurrences, words

LEMMA CopiesTail ==
  ASSUME NEW words \in Seq(Seq(Letters)), words # <<>>, NEW w
  PROVE  /\ Tail(words) \in Seq(Seq(Letters)) /\ Head(words) \in Seq(Letters)
         /\ Copies(words, w) = Copies(Tail(words), w) + (IF Head(words) = w THEN 1 ELSE 0)
<1> DEFINE q == Tail(words)
           n == Len(words)
           A == {i \in DOMAIN words : words[i] = w}
           B == {i \in DOMAIN q : q[i] = w}
           C == A \ {1}
<1>1. /\ q \in Seq(Seq(Letters)) /\ Len(q) = n - 1 /\ Head(words) \in Seq(Letters)
      /\ \A i \in 1 .. Len(q) : q[i] = words[i + 1]
      /\ Head(words) = words[1]
  BY HeadTailProperties
<1>2. n \in Nat /\ n > 0 /\ DOMAIN words = 1 .. n
  BY EmptySeq, LenProperties
<1> HIDE DEF q
<1>3. DOMAIN q = 1 .. n - 1 /\ \A i \in 1 .. n - 1 : q[i] = words[i + 1]
  BY <1>1, LenProperties
<1> DEFINE c == [i \in B |-> i + 1]
<1>4. c \in Bijection(B, C)
  <2>1. ASSUME NEW i \in B PROVE i + 1 \in C /\ i \in Nat
    BY <1>2, <1>3
  <2>2. ASSUME NEW j \in C PROVE j - 1 \in B /\ j = (j - 1) + 1
    BY <1>2, <1>3
  <2>3. \A i, j \in B : i + 1 = j + 1 => i = j
    BY <2>1
  <2> HIDE DEF B, C
  <2>4. c \in [B -> C]
    BY <2>1
  <2>5. \A j \in C : \E i \in B : c[i] = j
    BY <2>2
  <2>6. \A i, j \in B : c[i] = c[j] => i = j
    BY <2>3
  <2> HIDE DEF c
  <2> QED
    BY <2>4, <2>5, <2>6 DEF Bijection, Injection, Surjection, IsInjective
<1>5. IsFiniteSet(A) /\ IsFiniteSet(B) /\ Cardinality(A) \in Nat /\ Cardinality(B) \in Nat
  BY <1>1, CopiesNat DEF Copies
<1>6. Cardinality(C) = Cardinality(B)
  <2> HIDE DEF B, C, c
  <2> QED
    BY <1>4, <1>5, FS_Bijection DEF ExistsBijection
<1>7. Cardinality(C) = IF 1 \in A THEN Cardinality(A) - 1 ELSE Cardinality(A)
  BY <1>5, FS_RemoveElement
<1>8. 1 \in A <=> Head(words) = w
  BY <1>1, <1>2
<1> HIDE DEF A, B, C
<1>9. Cardinality(A) = Cardinality(B) + (IF Head(words) = w THEN 1 ELSE 0)
  BY <1>5, <1>6, <1>7, <1>8
<1> QED
  BY <1>1, <1>9 DEF Copies, A, B, q
=============================================================================
