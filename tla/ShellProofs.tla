----------------------------- MODULE ShellProofs -----------------------------
(***************************************************************************)
(* The shell, for any lines, any number of them, and any files.            *)
(***************************************************************************)
EXTENDS Shell, FiniteSetTheorems, SequenceTheorems, WellFoundedInduction, TLAPS

(* Induction over the numbers, for the set of those it is true of.         *)
LEMMA SetInduction ==
  ASSUME NEW S, 0 \in S, \A k \in Nat : k \in S => k + 1 \in S
  PROVE  \A k \in Nat : k \in S
<1> DEFINE T == Nat \ S
           R == OpToRel(<, Nat)
<1>1. IsWellFoundedOn(R, Nat)
  BY NatLessThanWellFounded, Zenon
<1>2. \A x, y \in Nat : <<x, y>> \in R <=> x < y
  BY DEF OpToRel
<1>3. ASSUME T # {} PROVE FALSE
  <2> HIDE DEF R
  <2>1. PICK x \in T : \A y \in T : ~(<<y, x>> \in R)
    BY <1>1, <1>3, WFMin
  <2>2. x # 0 /\ x - 1 \in Nat
    OBVIOUS
  <2>3. <<x - 1, x>> \in R
    BY <1>2, <2>2
  <2>4. x - 1 \notin T
    BY <2>1, <2>3
  <2> QED
    BY <2>2, <2>4
<1> QED
  BY <1>3

-----------------------------------------------------------------------------
(* The three loops over a sequence, told apart by their name: a line's     *)
(* characters, a line's words, a file's words.                             *)
step(loop, s, x) ==
  CASE loop = "turn" -> turn(s, x)
    [] loop = "scan" -> scan(s, x)
    [] OTHER         -> fscanf(s, x)

(* g runs the loop over every part of w that is left out.                  *)
Folds(g, loop, b, w, m) ==
  /\ g = [s \in SUBSET (1 .. m) |-> g[s]]
  /\ g[{}] = b
  /\ \A s \in SUBSET (1 .. m) : s # {} => g[s] = step(loop, g[s \ {Max(s)}], w[Max(s)])

LEMMA MaxLast ==
  ASSUME NEW m \in Nat, NEW s \in SUBSET (1 .. m + 1), m + 1 \in s
  PROVE  Max(s) = m + 1
<1>1. \A y \in s : m + 1 >= y /\ y \in Int
  OBVIOUS
<1>2. \A x \in s : (\A y \in s : x >= y) => x = m + 1
  BY <1>1
<1> QED
  BY <1>1, <1>2, Zenon DEF Max

LEMMA MaxIn ==
  ASSUME NEW m \in Nat
  PROVE  \A s \in SUBSET (1 .. m) : s # {} => Max(s) \in s
<1> DEFINE S == {k \in Nat : \A s \in SUBSET (1 .. k) : s # {} => Max(s) \in s}
<1>1. 0 \in S
  <2>1. 1 .. 0 = {}
    OBVIOUS
  <2> QED
    BY <2>1
<1>2. ASSUME NEW k \in Nat, k \in S PROVE k + 1 \in S
  <2>1. ASSUME NEW s \in SUBSET (1 .. k + 1), s # {} PROVE Max(s) \in s
    <3>1. CASE k + 1 \in s
      BY <3>1, MaxLast
    <3>2. CASE k + 1 \notin s
      <4>1. s \in SUBSET (1 .. k)
        BY <3>2
      <4> QED
        BY <1>2, <2>1, <4>1
    <3> QED
      BY <3>1, <3>2
  <2> QED
    BY <2>1
<1>3. \A k \in Nat : k \in S
  <2> HIDE DEF S
  <2> QED
    BY <1>1, <1>2, SetInduction
<1> QED
  BY <1>3

LEMMA FoldsExists ==
  ASSUME NEW loop, NEW b, NEW w, NEW m \in Nat
  PROVE  \E g : Folds(g, loop, b, w, m)
<1> DEFINE S == {k \in Nat : \E g : Folds(g, loop, b, w, k)}
<1>1. 0 \in S
  <2>1. 1 .. 0 = {} /\ SUBSET {} = {{}}
    OBVIOUS
  <2>2. Folds([s \in {{}} |-> b], loop, b, w, 0)
    BY <2>1 DEF Folds
  <2> QED
    BY <2>2
<1>2. ASSUME NEW k \in Nat, k \in S PROVE k + 1 \in S
  <2>1. PICK g : Folds(g, loop, b, w, k)
    BY <1>2
  <2> DEFINE h == [s \in SUBSET (1 .. k + 1) |->
                     IF k + 1 \in s THEN step(loop, g[s \ {k + 1}], w[k + 1]) ELSE g[s]]
  <2>2. h[{}] = b
    BY <2>1 DEF Folds
  <2>3. ASSUME NEW s \in SUBSET (1 .. k + 1), s # {}
        PROVE  h[s] = step(loop, h[s \ {Max(s)}], w[Max(s)])
    <3>1. CASE k + 1 \in s
      <4>1. Max(s) = k + 1
        BY <3>1, MaxLast
      <4>2. s \ {k + 1} \in SUBSET (1 .. k + 1) /\ k + 1 \notin s \ {k + 1}
        OBVIOUS
      <4>3. h[s \ {k + 1}] = g[s \ {k + 1}]
        BY <4>2
      <4>4. h[s] = step(loop, g[s \ {k + 1}], w[k + 1])
        BY <3>1
      <4> HIDE DEF h
      <4> QED
        BY <4>1, <4>3, <4>4
    <3>2. CASE k + 1 \notin s
      <4>1. s \in SUBSET (1 .. k)
        BY <3>2
      <4>2. s \ {Max(s)} \in SUBSET (1 .. k + 1) /\ k + 1 \notin s \ {Max(s)}
        BY <3>2
      <4>3. h[s \ {Max(s)}] = g[s \ {Max(s)}] /\ h[s] = g[s]
        BY <3>2, <4>2
      <4> HIDE DEF h
      <4> QED
        BY <2>1, <2>3, <4>1, <4>3 DEF Folds
    <3> QED
      BY <3>1, <3>2
  <2>4. h = [s \in SUBSET (1 .. k + 1) |-> h[s]]
    OBVIOUS
  <2>5. Folds(h, loop, b, w, k + 1)
    <3> HIDE DEF h
    <3> QED
      BY <2>2, <2>3, <2>4 DEF Folds
  <2> QED
    BY <2>5
<1>3. \A k \in Nat : k \in S
  <2> HIDE DEF S
  <2> QED
    BY <1>1, <1>2, SetInduction
<1> QED
  BY <1>3

(* c lists the states of the loop before and after each of the m elements. *)
Turns(c, loop, b, w, m) ==
  c[0] = b /\ \A k \in 0 .. m - 1 : c[k + 1] = step(loop, c[k], w[k + 1])

LEMMA FoldTurns ==
  ASSUME NEW loop, NEW b, NEW w, NEW m \in Nat, NEW g, Folds(g, loop, b, w, m)
  PROVE  \E c : Turns(c, loop, b, w, m) /\ c[m] = g[1 .. m]
<1> DEFINE c == [k \in 0 .. m |-> g[1 .. k]]
<1>1. c[0] = b /\ c[m] = g[1 .. m]
  BY DEF Folds
<1>2. ASSUME NEW k \in 0 .. m - 1 PROVE c[k + 1] = step(loop, c[k], w[k + 1])
  <2> DEFINE s == 1 .. k + 1
  <2>1. s \in SUBSET (1 .. m) /\ s \in SUBSET (1 .. k + 1) /\ k + 1 \in s /\ k \in Nat
    OBVIOUS
  <2>a. Max(s) = k + 1
    <3> HIDE DEF s
    <3> QED
      BY <2>1, MaxLast
  <2>2. (1 .. k + 1) \ {k + 1} = 1 .. k
    OBVIOUS
  <2>3. g[1 .. k + 1] = step(loop, g[1 .. k], w[k + 1])
    BY <2>1, <2>a, <2>2 DEF Folds
  <2>4. c[k + 1] = g[1 .. k + 1] /\ c[k] = g[1 .. k]
    OBVIOUS
  <2> HIDE DEF c
  <2> QED
    BY <2>3, <2>4
<1> QED
  BY <1>1, <1>2 DEF Turns

(* The library's folds are such loops.                                     *)
LEMMA TurnFold ==
  ASSUME NEW b, NEW m \in Nat, NEW w, DOMAIN w = 1 .. m
  PROVE  \E c : Turns(c, "turn", b, w, m) /\ c[m] = FoldLeft(turn, b, w)
<1> DEFINE Is(g) == g = [s \in SUBSET (1 .. m) |->
                          IF s = {} THEN b ELSE turn(g[s \ {Max(s)}], w[Max(s)])]
           g == CHOOSE g : Is(g)
<1>1. PICK h : Folds(h, "turn", b, w, m)
  BY FoldsExists
<1>2. Is(h)
  <2>1. \A s \in SUBSET (1 .. m) : h[s] = IF s = {} THEN b ELSE turn(h[s \ {Max(s)}], w[Max(s)])
    BY <1>1 DEF Folds, step
  <2> QED
    BY <1>1, <2>1 DEF Folds
<1>3. Is(g)
  BY <1>2
<1>4. Folds(g, "turn", b, w, m)
  BY <1>3 DEF Folds, step
<1>5. FoldLeft(turn, b, w) = g[1 .. m]
  BY DEF FoldLeft, MapThenFoldSet
<1> HIDE DEF g
<1> QED
  BY <1>4, <1>5, FoldTurns

LEMMA ScanFold ==
  ASSUME NEW b, NEW m \in Nat, NEW w, DOMAIN w = 1 .. m
  PROVE  \E c : Turns(c, "scan", b, w, m) /\ c[m] = FoldLeft(scan, b, w)
<1> DEFINE Is(g) == g = [s \in SUBSET (1 .. m) |->
                          IF s = {} THEN b ELSE scan(g[s \ {Max(s)}], w[Max(s)])]
           g == CHOOSE g : Is(g)
<1>1. PICK h : Folds(h, "scan", b, w, m)
  BY FoldsExists
<1>2. Is(h)
  <2>1. \A s \in SUBSET (1 .. m) : h[s] = IF s = {} THEN b ELSE scan(h[s \ {Max(s)}], w[Max(s)])
    BY <1>1 DEF Folds, step
  <2> QED
    BY <1>1, <2>1 DEF Folds
<1>3. Is(g)
  BY <1>2
<1>4. Folds(g, "scan", b, w, m)
  BY <1>3 DEF Folds, step
<1>5. FoldLeft(scan, b, w) = g[1 .. m]
  BY DEF FoldLeft, MapThenFoldSet
<1> HIDE DEF g
<1> QED
  BY <1>4, <1>5, FoldTurns

LEMMA ReadFold ==
  ASSUME NEW b, NEW m \in Nat, NEW w, DOMAIN w = 1 .. m
  PROVE  \E c : Turns(c, "fscanf", b, w, m) /\ c[m] = FoldLeft(fscanf, b, w)
<1> DEFINE Is(g) == g = [s \in SUBSET (1 .. m) |->
                          IF s = {} THEN b ELSE fscanf(g[s \ {Max(s)}], w[Max(s)])]
           g == CHOOSE g : Is(g)
<1>1. PICK h : Folds(h, "fscanf", b, w, m)
  BY FoldsExists
<1>2. Is(h)
  <2>1. \A s \in SUBSET (1 .. m) : h[s] = IF s = {} THEN b ELSE fscanf(h[s \ {Max(s)}], w[Max(s)])
    BY <1>1 DEF Folds, step
  <2> QED
    BY <1>1, <2>1 DEF Folds
<1>3. Is(g)
  BY <1>2
<1>4. Folds(g, "fscanf", b, w, m)
  BY <1>3 DEF Folds, step
<1>5. FoldLeft(fscanf, b, w) = g[1 .. m]
  BY DEF FoldLeft, MapThenFoldSet
<1> HIDE DEF g
<1> QED
  BY <1>4, <1>5, FoldTurns

(* If every turn leads from one set of states into the next, the loop      *)
(* leads into the last.                                                    *)
Leads(P, loop, w, m) ==
  \A k \in 0 .. m - 1 : \A s \in P[k] : step(loop, s, w[k + 1]) \in P[k + 1]

LEMMA TurnsReach ==
  ASSUME NEW loop, NEW b, NEW m \in Nat, NEW w, NEW c, Turns(c, loop, b, w, m), NEW P, b \in P[0],
         Leads(P, loop, w, m)
  PROVE  c[m] \in P[m]
<1> DEFINE S == {k \in Nat : k <= m => c[k] \in P[k]}
<1>1. 0 \in S
  BY DEF Turns
<1>2. ASSUME NEW k \in Nat, k \in S PROVE k + 1 \in S
  <2> SUFFICES ASSUME k + 1 <= m PROVE c[k + 1] \in P[k + 1]
    OBVIOUS
  <2>1. k \in 0 .. m - 1 /\ c[k] \in P[k]
    BY <1>2
  <2>2. c[k + 1] = step(loop, c[k], w[k + 1])
    BY <2>1 DEF Turns
  <2> QED
    BY <2>1, <2>2 DEF Leads
<1>3. \A k \in Nat : k \in S
  <2> HIDE DEF S
  <2> QED
    BY <1>1, <1>2, SetInduction
<1> QED
  BY <1>3

LEMMA TurnReach ==
  ASSUME NEW b, NEW m \in Nat, NEW w, DOMAIN w = 1 .. m, NEW P, b \in P[0],
         \A k \in 0 .. m - 1 : \A s \in P[k] : turn(s, w[k + 1]) \in P[k + 1]
  PROVE  FoldLeft(turn, b, w) \in P[m]
<1>1. PICK c : Turns(c, "turn", b, w, m) /\ c[m] = FoldLeft(turn, b, w)
  BY TurnFold
<1>2. Leads(P, "turn", w, m)
  BY DEF Leads, step
<1>3. c[m] \in P[m]
  BY <1>1, <1>2, TurnsReach, Zenon
<1> QED
  BY <1>1, <1>3, Zenon

LEMMA ScanReach ==
  ASSUME NEW b, NEW m \in Nat, NEW w, DOMAIN w = 1 .. m, NEW P, b \in P[0],
         \A k \in 0 .. m - 1 : \A s \in P[k] : scan(s, w[k + 1]) \in P[k + 1]
  PROVE  FoldLeft(scan, b, w) \in P[m]
<1>1. PICK c : Turns(c, "scan", b, w, m) /\ c[m] = FoldLeft(scan, b, w)
  BY ScanFold
<1>2. Leads(P, "scan", w, m)
  BY DEF Leads, step
<1>3. c[m] \in P[m]
  BY <1>1, <1>2, TurnsReach, Zenon
<1> QED
  BY <1>1, <1>3, Zenon

LEMMA ReadReach ==
  ASSUME NEW b, NEW m \in Nat, NEW w, DOMAIN w = 1 .. m, NEW P, b \in P[0],
         \A k \in 0 .. m - 1 : \A s \in P[k] : fscanf(s, w[k + 1]) \in P[k + 1]
  PROVE  FoldLeft(fscanf, b, w) \in P[m]
<1>1. PICK c : Turns(c, "fscanf", b, w, m) /\ c[m] = FoldLeft(fscanf, b, w)
  BY ReadFold
<1>2. Leads(P, "fscanf", w, m)
  BY DEF Leads, step
<1>3. c[m] \in P[m]
  BY <1>1, <1>2, TurnsReach, Zenon
<1> QED
  BY <1>1, <1>3, Zenon

-----------------------------------------------------------------------------
(* Words: tokenize returns no empty one.                                   *)
Word == Seq(STRING) \ {<<>>}

Turning == [mode : Quotes \cup {MODE_NORMAL}, escape : BOOLEAN, token : Seq(STRING), tokens : Seq(Word), abort : BOOLEAN]

LEMMA PushTyped ==
  ASSUME NEW s \in Turning
  PROVE  vector_push(s) \in Turning
<1>1. CASE s.token # <<>>
  <2>1. Append(s.tokens, s.token) \in Seq(Word)
    BY <1>1 DEF Turning, Word
  <2> QED
    BY <1>1, <2>1, EmptySeq DEF Turning, vector_push
<1> QED
  BY <1>1 DEF vector_push

LEMMA TurnTyped ==
  ASSUME NEW s \in Turning, NEW c \in STRING
  PROVE  turn(s, c) \in Turning
<1>1. take(s, c) \in Turning
  <2>1. Append(s.token, c) \in Seq(STRING)
    BY DEF Turning
  <2> QED
    BY <2>1 DEF Turning, take
<1>2. next_char(s, c) \in Turning
  BY <1>1, PushTyped DEF next_char, Turning
<1>3. \A t \in Turning : \A abort \in BOOLEAN : [t EXCEPT !.abort = abort] \in Turning
  BY DEF Turning
<1>4. (Len(next_char(s, c).token) + 1 >= NMax) \in BOOLEAN
  <2>1. Len(next_char(s, c).token) \in Nat
    BY <1>2 DEF Turning
  <2> HIDE DEF next_char
  <2> QED
    BY <2>1, NMaxAssumption
<1> QED
  BY <1>2, <1>3, <1>4, Zenon DEF turn

LEMMA Tokenized ==
  ASSUME NEW text \in Seq(STRING)
  PROVE  tokenize(text).tokens \in Seq(Word)
<1> DEFINE P == [k \in 0 .. Len(text) |-> Turning]
<1>1. Started \in Turning
  BY EmptySeq DEF Started, Turning
<1>2. \A k \in 0 .. Len(text) - 1 : \A s \in P[k] : turn(s, text[k + 1]) \in P[k + 1]
  BY TurnTyped
<1>3. FoldLeft(turn, Started, text) \in P[Len(text)]
  <2>1. Started \in P[0]
    BY <1>1
  <2> HIDE DEF P
  <2> QED
    BY <1>2, <2>1, LenProperties, TurnReach
<1> QED
  BY <1>3, PushTyped DEF tokenize, Turning
-----------------------------------------------------------------------------
(* Descriptors.  Above b all are free; so the lowest free one is at most   *)
(* the next.                                                               *)
Desc == [Fds -> Things \cup {FREE}]

Above(t, b) == \A d \in Fds : d > b => t[d] = FREE

LEMMA Bounds == MaxFd \in Nat /\ MaxFd >= 6 /\ MaxLines \in Nat \ {0}
BY ShellAssumption

LEMMA Least ==
  ASSUME NEW S \in SUBSET Nat, S # {}
  PROVE  \E x \in S : \A y \in S : x <= y
<1> DEFINE R == OpToRel(<, Nat)
<1>1. IsWellFoundedOn(R, Nat)
  BY NatLessThanWellFounded, Zenon
<1>2. \A x, y \in Nat : <<x, y>> \in R <=> x < y
  BY DEF OpToRel
<1> HIDE DEF R
<1>3. PICK x \in S : \A y \in S : ~(<<y, x>> \in R)
  BY <1>1, WFMin
<1>4. \A y \in S : ~(y < x)
  BY <1>2, <1>3
<1>5. \A y \in S : x <= y
  BY <1>4
<1> QED
  BY <1>5

LEMMA LowestFree ==
  ASSUME NEW t \in Desc, NEW b \in Nat, b < MaxFd, Above(t, b)
  PROVE  /\ lowest(t) \in Fds /\ t[lowest(t)] = FREE
         /\ lowest(t) <= b + 1
<1> DEFINE S == {d \in Fds : t[d] = FREE}
<1>1. b + 1 \in S /\ S \in SUBSET Nat
  <2>1. b + 1 \in Fds /\ b + 1 > b /\ Fds \in SUBSET Nat
    BY Bounds DEF Fds
  <2> QED
    BY <2>1 DEF Above
<1>2. PICK x \in S : \A y \in S : x <= y
  <2> HIDE DEF S
  <2> QED
    BY <1>1, Least
<1>3. \E d \in Fds : t[d] = FREE /\ \A e \in Fds : t[e] = FREE => d <= e
  BY <1>2
<1>4. /\ lowest(t) \in Fds /\ t[lowest(t)] = FREE
      /\ \A e \in Fds : t[e] = FREE => lowest(t) <= e
  BY <1>3, Zenon DEF lowest
<1> QED
  BY <1>1, <1>4

LEMMA Taken ==
  ASSUME NEW t \in Desc, NEW b \in Nat, b < MaxFd, Above(t, b), NEW x
  PROVE  Above([t EXCEPT ![lowest(t)] = x], b + 1)
<1>1. ASSUME NEW d \in Fds, d > b + 1 PROVE [t EXCEPT ![lowest(t)] = x][d] = FREE
  <2>1. d # lowest(t) /\ t[d] = FREE
    <3>1. d > b /\ d \in Int
      BY <1>1, Bounds DEF Fds
    <3>2. lowest(t) <= b + 1 /\ lowest(t) \in Int
      BY LowestFree, Bounds DEF Fds
    <3> QED
      BY <1>1, <3>1, <3>2 DEF Above
  <2> QED
    BY <2>1 DEF Desc
<1> QED
  BY <1>1 DEF Above
-----------------------------------------------------------------------------
(* The loop over the words of a line.                                      *)
Scanning == [after : Operators \cup {NULL}, fd : Fds \cup {-1}, desc : Desc, a : Seq(Word),
             l : Nat, valid : BOOLEAN, overrun : BOOLEAN]

LEMMA ReadTyped ==
  ASSUME NEW s \in Scanning, NEW word \in Word
  PROVE  /\ fscanf(s, word) \in Scanning
         /\ fscanf(s, word).after = s.after /\ fscanf(s, word).fd = s.fd
         /\ fscanf(s, word).desc = s.desc
<1>1. Append(s.a, word) \in Seq(Word) /\ s.l \in Nat /\ 2 * s.l \in Nat
  BY DEF Scanning
<1> QED
  BY <1>1 DEF Scanning, fscanf

LEMMA FileRead ==
  ASSUME NEW t \in Scanning, NEW words \in Seq(Word)
  PROVE  /\ FoldLeft(fscanf, t, words) \in Scanning
         /\ FoldLeft(fscanf, t, words).after = t.after
         /\ FoldLeft(fscanf, t, words).fd = t.fd
         /\ FoldLeft(fscanf, t, words).desc = t.desc
<1> DEFINE R == {r \in Scanning : r.after = t.after /\ r.fd = t.fd /\ r.desc = t.desc}
           P == [k \in 0 .. Len(words) |-> R]
<1>1. \A k \in 0 .. Len(words) - 1 : \A s \in P[k] : fscanf(s, words[k + 1]) \in P[k + 1]
  <2>1. \A word \in Word : \A s \in R : fscanf(s, word) \in R
    BY ReadTyped
  <2> HIDE DEF R
  <2> QED
    BY <2>1, LenProperties
<1>2. t \in P[0] /\ P[Len(words)] = R
  OBVIOUS
<1>3. FoldLeft(fscanf, t, words) \in R
  <2> HIDE DEF P, R
  <2> QED
    BY <1>1, <1>2, LenProperties, ReadReach
<1> QED
  BY <1>3

(* g marks the operators of w.                                             *)
Marks(g, w) ==
  /\ g[0] = FALSE
  /\ \A i \in 1 .. Len(w) : g[i] = (w[i] \in Operators /\ ~g[i - 1])

(* i is the last of the redirections of the first k words.                 *)
Outward(g, w, i) == g[i] /\ w[i] = <<">">>
LastOutward(g, w, k, i) ==
  /\ i \in 1 .. k /\ Outward(g, w, i)
  /\ \A j \in i + 1 .. k : ~Outward(g, w, j)

(* Nothing that was open is touched, and what is opened are files.         *)
Opened(s) ==
  /\ \A d \in Fds : desc[d] # FREE => s.desc[d] = desc[d]
  /\ \A d \in Fds : desc[d] = FREE => s.desc[d] \in Files \cup {FREE}
  /\ s.fd = fd \/ s.fd = -1 \/ desc[s.fd] = FREE

(* The result of opening what the redirection names.                       *)
Result(s, name) ==
  IF Named(name, Files) THEN s.fd \in Fds /\ s.desc[s.fd] = name[1] /\ desc[s.fd] = FREE
                        ELSE s.fd = -1

Scanned(s, g, w, k, b) ==
  /\ s.after = IF g[k] THEN w[k] ELSE NULL
  /\ \E o \in Nat : 2 * o + (IF g[k] THEN 1 ELSE 0) <= k /\ Above(s.desc, b + o)
  /\ Opened(s)
  /\ \A i : LastOutward(g, w, k - 1, i) => Result(s, w[i + 1])

LEMMA OpenFile ==
  ASSUME desc \in Desc, fd \in Fds \cup {-1},
         NEW t \in Scanning, Opened(t), NEW o \in Nat, NEW b \in Nat, b + o < MaxFd,
         Above(t.desc, b + o), NEW name
  PROVE  LET s == open(t, name)
         IN /\ s \in Scanning /\ s.after = t.after
            /\ Above(s.desc, b + (o + 1))
            /\ Opened(s) /\ Result(s, name)
<1>1. CASE Named(name, Files)
  <2> DEFINE f == lowest(t.desc)
  <2>1. t.desc \in Desc /\ b + o \in Nat
    BY DEF Scanning
  <2>2. f \in Fds /\ t.desc[f] = FREE /\ Above([t.desc EXCEPT ![f] = name[1]], (b + o) + 1)
    BY <2>1, LowestFree, Taken
  <2>3. name[1] \in Files /\ [t.desc EXCEPT ![f] = name[1]] \in Desc
    BY <1>1, <2>1 DEF Named, Desc, Things
  <2>4. open(t, name) = [t EXCEPT !.fd = f, !.desc = [t.desc EXCEPT ![f] = name[1]]]
    BY <1>1 DEF open
  <2>5. desc[f] = FREE
    BY <2>2, ShellAssumption DEF Opened, FREE
  <2> HIDE DEF f
  <2>6. /\ open(t, name) \in Scanning /\ open(t, name).after = t.after
        /\ open(t, name).fd = f /\ open(t, name).desc = [t.desc EXCEPT ![f] = name[1]]
    BY <2>2, <2>3, <2>4 DEF Scanning
  <2>7. Opened(open(t, name))
    BY <2>1, <2>2, <2>3, <2>5, <2>6 DEF Opened, Desc
  <2>8. Result(open(t, name), name)
    BY <1>1, <2>1, <2>2, <2>5, <2>6 DEF Result, Desc
  <2> QED
    BY <2>2, <2>6, <2>7, <2>8
<1>2. CASE ~Named(name, Files)
  <2>1. open(t, name) = [t EXCEPT !.fd = -1]
    BY <1>2 DEF open
  <2>2. /\ open(t, name) \in Scanning /\ open(t, name).after = t.after
        /\ open(t, name).fd = -1 /\ open(t, name).desc = t.desc
    BY <2>1 DEF Scanning
  <2>3. Opened(open(t, name)) /\ Result(open(t, name), name)
    <3> HIDE DEF open
    <3> QED
      BY <1>2, <2>2 DEF Opened, Result
  <2>4. Above(t.desc, b + (o + 1))
    BY Bounds DEF Above, Fds
  <2> HIDE DEF open
  <2> QED
    BY <2>2, <2>3, <2>4
<1> QED
  BY <1>1, <1>2

(* A word that is no operand.                                              *)
LEMMA StoreWord ==
  ASSUME NEW s \in Scanning, NEW word \in Word
  PROVE  /\ store(s, word) \in Scanning
         /\ store(s, word).after = s.after /\ store(s, word).fd = s.fd
         /\ store(s, word).desc = s.desc
<1>1. Append(s.a, word) \in Seq(Word)
  BY DEF Scanning
<1>2. (s.overrun \/ Len(s.a) >= s.l) \in BOOLEAN
  <2>1. Len(s.a) \in Nat /\ s.l \in Nat /\ s.overrun \in BOOLEAN
    BY DEF Scanning
  <2> QED
    BY <2>1
<1>3. \A a_ \in Seq(Word) : \A o_ \in BOOLEAN :
        LET r == [s EXCEPT !.a = a_, !.overrun = o_]
        IN r \in Scanning /\ r.after = s.after /\ r.fd = s.fd /\ r.desc = s.desc
  BY DEF Scanning
<1> QED
  BY <1>1, <1>2, <1>3, Zenon DEF store

(* What happens to s does not concern its descriptors.                     *)
LEMMA SameDescriptors ==
  ASSUME NEW s, NEW r, r.fd = s.fd, r.desc = s.desc
  PROVE  /\ Opened(s) => Opened(r)
         /\ \A name : Result(s, name) => Result(r, name)
BY DEF Opened, Result

LEMMA Distinct == <<">">> # <<"<">> /\ <<">">> # NULL /\ <<"<">> # NULL
<1>1. <<">">>[1] # <<"<">>[1] /\ <<">">>[1] = ">" /\ <<"<">>[1] = "<"
  OBVIOUS
<1>2. \A x : <<x>> # <<>>
  <2>1. \A x : Len(<<x>>) = 1 /\ Len(<<>>) = 0
    OBVIOUS
  <2> QED
    BY <2>1
<1> QED
  BY <1>1, <1>2 DEF NULL

(* One word: w[k + 1].                                                     *)
LEMMA ScanStep ==
  ASSUME desc \in Desc, fd \in Fds \cup {-1},
         NEW w \in Seq(Word), NEW g, Marks(g, w), NEW k \in 0 .. Len(w) - 1,
         NEW b \in Nat, \A o \in Nat : 2 * o <= Len(w) => b + o <= MaxFd,
         NEW s \in Scanning, Scanned(s, g, w, k, b)
  PROVE  scan(s, w[k + 1]) \in Scanning /\ Scanned(scan(s, w[k + 1]), g, w, k + 1, b)
<1> DEFINE token == w[k + 1]
           t == [s EXCEPT !.after = NULL]
           r == scan(s, token)
<1>1. token \in Word /\ k + 1 \in 1 .. Len(w) /\ k \in Nat
  BY LenProperties
<1>2. g[k + 1] = (token \in Operators /\ ~g[k])
  BY <1>1 DEF Marks
<1>3. t \in Scanning /\ t.after = NULL /\ t.fd = s.fd /\ t.desc = s.desc
  BY DEF Scanning
<1>4. Opened(s) /\ Opened(t)
  BY <1>3, SameDescriptors DEF Scanned
<1>5. PICK o \in Nat : 2 * o + (IF g[k] THEN 1 ELSE 0) <= k /\ Above(s.desc, b + o)
  BY DEF Scanned
<1>6. g[k] => k \in 1 .. Len(w) /\ w[k] \in Operators
  <2>1. k # 0 => k \in 1 .. Len(w)
    BY <1>1
  <2> QED
    BY <2>1 DEF Marks
<1>7. NULL \notin Operators
  BY DEF NULL, Operators
<1>8. s.after = (IF g[k] THEN w[k] ELSE NULL)
      /\ \A i : LastOutward(g, w, k - 1, i) => Result(s, w[i + 1])
  BY DEF Scanned
<1>9. g[k] \in BOOLEAN /\ g[k + 1] \in BOOLEAN
  <2>1. k = 0 \/ k \in 1 .. Len(w)
    BY <1>1
  <2> QED
    BY <1>1, <2>1 DEF Marks
<1> HIDE DEF t, token
<1>10. CASE s.after = <<">">>
  <2>1. g[k] /\ w[k] = <<">">> /\ ~g[k + 1]
    BY <1>2, <1>8, <1>9, <1>10, Distinct
  <2>2. r = open(t, token)
    BY <1>10 DEF scan, t, token
  <2>3. b + o < MaxFd
    <3>1. 2 * (o + 1) <= Len(w) /\ o + 1 \in Nat
      BY <1>5, <2>1
    <3>2. b + (o + 1) <= MaxFd
      BY <3>1
    <3> QED
      BY <3>2, Bounds
  <2>4. /\ r \in Scanning /\ r.after = NULL /\ Above(r.desc, b + (o + 1))
        /\ Opened(r) /\ Result(r, token)
    BY <1>3, <1>4, <1>5, <2>2, <2>3, OpenFile
  <2> HIDE DEF r
  <2>5. 2 * (o + 1) + (IF g[k + 1] THEN 1 ELSE 0) <= k + 1 /\ o + 1 \in Nat
    BY <1>5, <2>1
  <2>6. ASSUME NEW i, LastOutward(g, w, k, i) PROVE Result(r, w[i + 1])
    <3>1. i = k
      BY <1>1, <1>6, <2>1, <2>6 DEF LastOutward, Outward
    <3> QED
      BY <2>4, <3>1 DEF token
  <2>7. Scanned(r, g, w, k + 1, b)
    <3>1. r.after = IF g[k + 1] THEN w[k + 1] ELSE NULL
      BY <2>1, <2>4
    <3>2. \E p \in Nat : 2 * p + (IF g[k + 1] THEN 1 ELSE 0) <= k + 1 /\ Above(r.desc, b + p)
      BY <2>4, <2>5
    <3>3. (k + 1) - 1 = k
      BY <1>1
    <3> QED
      BY <2>4, <2>6, <3>1, <3>2, <3>3 DEF Scanned
  <2> QED
    BY <2>4, <2>7 DEF r, token
<1>11. ASSUME r \in Scanning, r.fd = s.fd, r.desc = s.desc, s.after # <<">">>,
              r.after = IF g[k + 1] THEN w[k + 1] ELSE NULL
       PROVE  r \in Scanning /\ Scanned(r, g, w, k + 1, b)
  <2> HIDE DEF r
  <2>1. 2 * o + (IF g[k + 1] THEN 1 ELSE 0) <= k + 1 /\ Above(r.desc, b + o)
    BY <1>1, <1>2, <1>5, <1>9, <1>11
  <2>2. Opened(r)
    BY <1>4, <1>11, SameDescriptors
  <2>3. ASSUME NEW i, LastOutward(g, w, k, i) PROVE Result(r, w[i + 1])
    <3>1. ~Outward(g, w, k)
      BY <1>8, <1>11 DEF Outward
    <3>2. LastOutward(g, w, k - 1, i)
      <4>1. i \in 1 .. k /\ Outward(g, w, i) /\ i # k
        BY <2>3, <3>1 DEF LastOutward
      <4>2. i \in 1 .. k - 1 /\ \A j \in i + 1 .. k - 1 : j \in i + 1 .. k
        BY <1>1, <4>1
      <4> QED
        BY <2>3, <4>1, <4>2 DEF LastOutward
    <3> QED
      BY <1>8, <1>11, <3>2, SameDescriptors
  <2>4. (k + 1) - 1 = k
    BY <1>1
  <2> QED
    BY <1>11, <2>1, <2>2, <2>3, <2>4 DEF Scanned
<1>12. CASE s.after = <<"<">>
  <2>1. g[k] /\ ~g[k + 1] /\ s.after # <<">">>
    BY <1>2, <1>8, <1>9, <1>12, Distinct
  <2>2. r = IF Named(token, DOMAIN Contents) THEN FoldLeft(fscanf, t, Contents[token[1]])
                                             ELSE [t EXCEPT !.valid = FALSE]
    BY <1>12, <2>1 DEF scan, t, token
  <2>3. CASE Named(token, DOMAIN Contents)
    <3>1. Contents[token[1]] \in Seq(Word)
      BY <2>3, ShellAssumption DEF Named, Word
    <3>2. r \in Scanning /\ r.after = NULL /\ r.fd = s.fd /\ r.desc = s.desc
      BY <1>3, <2>2, <2>3, <3>1, FileRead
    <3> QED
      BY <1>11, <2>1, <3>2 DEF token
  <2>4. CASE ~Named(token, DOMAIN Contents)
    <3>1. r \in Scanning /\ r.after = NULL /\ r.fd = s.fd /\ r.desc = s.desc
      <4>1. r = [t EXCEPT !.valid = FALSE]
        BY <2>2, <2>4
      <4> HIDE DEF r
      <4> QED
        BY <1>3, <4>1 DEF Scanning
    <3> QED
      BY <1>11, <2>1, <3>1 DEF token
  <2> QED
    BY <2>3, <2>4
<1>13. CASE s.after = NULL
  <2>1. ~g[k] /\ s.after # <<">">> /\ s.after # <<"<">>
    BY <1>6, <1>7, <1>8, <1>9, <1>13, Distinct
  <2>2. r = IF token \in Operators THEN [s EXCEPT !.after = token] ELSE store(s, token)
    BY <2>1, <1>13 DEF scan, t, token
  <2>3. CASE token \in Operators
    <3>1. r \in Scanning /\ r.after = token /\ r.fd = s.fd /\ r.desc = s.desc
      <4>1. r = [s EXCEPT !.after = token]
        BY <2>2, <2>3
      <4> HIDE DEF r
      <4> QED
        BY <2>3, <4>1 DEF Scanning
    <3> QED
      BY <1>2, <1>11, <2>1, <2>3, <3>1 DEF token
  <2>4. CASE token \notin Operators
    <3>1. r \in Scanning /\ r.after = NULL /\ r.fd = s.fd /\ r.desc = s.desc
      <4>1. r = store(s, token)
        BY <2>2, <2>4
      <4> HIDE DEF r
      <4> QED
        BY <1>1, <1>13, <4>1, StoreWord
    <3> QED
      BY <1>2, <1>11, <2>1, <2>4, <3>1 DEF token
  <2> QED
    BY <2>3, <2>4
<1> QED
  <2>1. s.after \in {<<">">>, <<"<">>, NULL}
    BY DEF Scanning, Operators
  <2> QED
    BY <1>10, <1>12, <1>13, <2>1 DEF token
-----------------------------------------------------------------------------
(* Which words are operators: the recursion defines something.             *)
Marking(g, w) == g = [i \in 0 .. Len(w) |-> i > 0 /\ w[i] \in Operators /\ ~g[i - 1]]

LEMMA MarkingExists ==
  ASSUME NEW w \in Seq(Word)
  PROVE  \E g : Marking(g, w)
<1> DEFINE Up(g, m) == \A i \in 0 .. m : g[i] = (i > 0 /\ w[i] \in Operators /\ ~g[i - 1])
           S == {m \in Nat : \E g : Up(g, m)}
<1>1. 0 \in S
  <2> DEFINE h == [i \in 0 .. 0 |-> FALSE]
  <2>2. ASSUME NEW i \in 0 .. 0 PROVE h[i] = (i > 0 /\ w[i] \in Operators /\ ~h[i - 1])
    <3>1. ~(i > 0) /\ h[i] = FALSE
      OBVIOUS
    <3> QED
      BY <3>1, Zenon
  <2>1. Up(h, 0)
    BY <2>2, Zenon
  <2> QED
    BY <2>1
<1>2. ASSUME NEW m \in Nat, m \in S PROVE m + 1 \in S
  <2>1. PICK g : Up(g, m)
    BY <1>2
  <2> DEFINE h == [i \in 0 .. m + 1 |->
                     IF i = m + 1 THEN w[m + 1] \in Operators /\ ~g[m] ELSE g[i]]
  <2>2. ASSUME NEW i \in 0 .. m + 1 PROVE h[i] = (i > 0 /\ w[i] \in Operators /\ ~h[i - 1])
    <3>1. CASE i = m + 1
      <4>1. h[i] = (w[m + 1] \in Operators /\ ~g[m]) /\ h[m] = g[m] /\ i - 1 = m /\ i > 0
        BY <3>1
      <4> HIDE DEF h
      <4> QED
        BY <3>1, <4>1
    <3>2. CASE i # m + 1
      <4>1. i \in 0 .. m /\ h[i] = g[i] /\ (i > 0 => h[i - 1] = g[i - 1])
        BY <3>2
      <4>2. g[i] = (i > 0 /\ w[i] \in Operators /\ ~g[i - 1])
        BY <2>1, <4>1
      <4> HIDE DEF h
      <4> QED
        BY <4>1, <4>2
    <3> QED
      BY <3>1, <3>2
  <2>3. Up(h, m + 1)
    <3> HIDE DEF h
    <3> QED
      BY <2>2
  <2>4. m + 1 \in Nat
    OBVIOUS
  <2> HIDE DEF h
  <2> QED
    BY <2>3, <2>4, Zenon
<1>3. \A m \in Nat : m \in S
  <2> HIDE DEF S
  <2> QED
    BY <1>1, <1>2, SetInduction
<1>4. PICK g : Up(g, Len(w))
  BY <1>3, LenProperties
<1> DEFINE h == [i \in 0 .. Len(w) |-> g[i]]
<1>5. \A i \in 0 .. Len(w) : h[i] = (i > 0 /\ w[i] \in Operators /\ ~h[i - 1])
  <2> SUFFICES ASSUME NEW i \in 0 .. Len(w)
               PROVE  h[i] = (i > 0 /\ w[i] \in Operators /\ ~h[i - 1])
    OBVIOUS
  <2>1. h[i] = g[i] /\ (i > 0 => h[i - 1] = g[i - 1])
    BY LenProperties
  <2>2. g[i] = (i > 0 /\ w[i] \in Operators /\ ~g[i - 1])
    BY <1>4
  <2> HIDE DEF h
  <2> QED
    BY <2>1, <2>2
<1>6. h = [i \in 0 .. Len(w) |-> h[i]]
  OBVIOUS
<1>7. Marking(h, w)
  <2> HIDE DEF h
  <2> QED
    BY <1>5, <1>6 DEF Marking
<1> QED
  BY <1>7

LEMMA MarkingMarks ==
  ASSUME NEW w \in Seq(Word), NEW g, Marking(g, w)
  PROVE  Marks(g, w)
<1>1. \A i \in 0 .. Len(w) : g[i] = (i > 0 /\ w[i] \in Operators /\ ~g[i - 1])
  BY Zenon DEF Marking
<1>2. Len(w) \in Nat
  OBVIOUS
<1>3. g[0] = FALSE
  <2>1. 0 \in 0 .. Len(w) /\ ~(0 > 0)
    BY <1>2
  <2> QED
    BY <1>1, <2>1, Zenon
<1>4. ASSUME NEW i \in 1 .. Len(w) PROVE g[i] = (w[i] \in Operators /\ ~g[i - 1])
  BY <1>1, <1>2
<1> QED
  BY <1>3, <1>4 DEF Marks

LEMMA OperatorMarks == tokens \in Seq(Word) => Marks(IsOperator, tokens)
<1> SUFFICES ASSUME tokens \in Seq(Word) PROVE Marks(IsOperator, tokens)
  OBVIOUS
<1>1. Marking(IsOperator, tokens)
  BY MarkingExists, Zenon DEF Marking, IsOperator
<1> QED
  BY <1>1, MarkingMarks

LEMMA OperatorMarksNext == (tokens \in Seq(Word))' => Marks(IsOperator', tokens')
<1> SUFFICES ASSUME (tokens \in Seq(Word))' PROVE Marks(IsOperator', tokens')
  OBVIOUS
<1>1. Marking(IsOperator', tokens')
  BY MarkingExists, Zenon DEF Marking, IsOperator
<1> QED
  BY <1>1, MarkingMarks
-----------------------------------------------------------------------------
(* The whole line.                                                         *)
LEMMA LineScanned ==
  ASSUME desc \in Desc, fd \in Fds \cup {-1},
         NEW w \in Seq(Word), NEW g, Marks(g, w),
         NEW b \in Nat, \A o \in Nat : 2 * o <= Len(w) => b + o <= MaxFd,
         Above(desc, b)
  PROVE  /\ scanned(w) \in Scanning
         /\ \E o \in Nat : 2 * o <= Len(w) /\ Above(scanned(w).desc, b + o)
         /\ Opened(scanned(w))
         /\ \A i : LastOutward(g, w, Len(w), i) =>
              IF i < Len(w) THEN Result(scanned(w), w[i + 1]) ELSE scanned(w).fd = -1
<1> DEFINE first == [after |-> NULL, fd |-> fd, desc |-> desc, a |-> <<>>,
                     l |-> Len(w), valid |-> TRUE, overrun |-> FALSE]
           s == FoldLeft(scan, first, w)
           m == Len(w)
           P == [k \in 0 .. m |-> {r \in Scanning : Scanned(r, g, w, k, b)}]
<1>1. m \in Nat /\ DOMAIN w = 1 .. m
  OBVIOUS
<1>2. first \in P[0]
  <2>1. first \in Scanning
    BY EmptySeq DEF Scanning
  <2>2. \E o \in Nat : 2 * o + (IF g[0] THEN 1 ELSE 0) <= 0 /\ Above(desc, b + o)
    <3>1. ~g[0] /\ b + 0 = b
      BY DEF Marks
    <3> QED
      BY <3>1
  <2>3. Opened(first)
    BY DEF Opened
  <2>4. \A i : ~LastOutward(g, w, 0 - 1, i)
    BY DEF LastOutward
  <2>5. first.after = IF g[0] THEN w[0] ELSE NULL
    BY DEF Marks
  <2>6. Scanned(first, g, w, 0, b)
    BY <2>2, <2>3, <2>4, <2>5 DEF Scanned
  <2> QED
    BY <1>1, <2>1, <2>6
<1>3. \A k \in 0 .. m - 1 : \A r \in P[k] : scan(r, w[k + 1]) \in P[k + 1]
  <2> SUFFICES ASSUME NEW k \in 0 .. m - 1, NEW r \in P[k] PROVE scan(r, w[k + 1]) \in P[k + 1]
    OBVIOUS
  <2>1. k \in 0 .. m /\ k + 1 \in 0 .. m
    BY <1>1
  <2>2. r \in Scanning /\ Scanned(r, g, w, k, b)
    BY <2>1
  <2>3. scan(r, w[k + 1]) \in Scanning /\ Scanned(scan(r, w[k + 1]), g, w, k + 1, b)
    BY <2>2, ScanStep
  <2> QED
    BY <2>1, <2>3
<1>4. s \in Scanning /\ Scanned(s, g, w, m, b)
  <2>1. P[m] = {r \in Scanning : Scanned(r, g, w, m, b)}
    BY <1>1
  <2>2. s \in P[m]
    <3> HIDE DEF P, first
    <3> QED
      BY <1>1, <1>2, <1>3, ScanReach
  <2> QED
    BY <2>1, <2>2
<1> HIDE DEF s
<1>5. PICK o \in Nat : 2 * o + (IF g[m] THEN 1 ELSE 0) <= m /\ Above(s.desc, b + o)
  BY <1>4 DEF Scanned
<1>6. 2 * o <= m
  BY <1>1, <1>5
<1>7. Opened(s) /\ s.after = (IF g[m] THEN w[m] ELSE NULL)
      /\ \A i : LastOutward(g, w, m - 1, i) => Result(s, w[i + 1])
  BY <1>4 DEF Scanned
<1>8. scanned(w) = IF s.after = NULL THEN s ELSE scan(s, NULL)
  BY DEF scanned, s
<1>9. ASSUME NEW i, LastOutward(g, w, m, i), i < m PROVE LastOutward(g, w, m - 1, i)
  BY <1>1, <1>9 DEF LastOutward
<1>10. ASSUME NEW i, LastOutward(g, w, m, i) PROVE i < m \/ (i = m /\ Outward(g, w, m))
  <2>1. i \in 1 .. m /\ Outward(g, w, i)
    BY <1>10, Zenon DEF LastOutward
  <2>2. \A j \in 1 .. m : j < m \/ j = m
    <3> HIDE DEF m
    <3> QED
      BY <1>1
  <2> QED
    BY <2>1, <2>2, Zenon
<1>11. Outward(g, w, m) => s.after = <<">">> \/ m = 0
  BY <1>7 DEF Outward
<1>12. ~Outward(g, w, 0)
  BY DEF Outward, Marks
<1>13. CASE s.after = NULL
  <2>1. ~Outward(g, w, m)
    BY <1>11, <1>12, <1>13, Distinct
  <2> QED
    BY <1>4, <1>5, <1>6, <1>7, <1>8, <1>9, <1>10, <1>13, <2>1
<1>14. CASE s.after # NULL
  <2> DEFINE t == [s EXCEPT !.after = NULL]
             r == scan(s, NULL)
  <2>1. t \in Scanning /\ t.fd = s.fd /\ t.desc = s.desc /\ Opened(t)
    BY <1>4, <1>7 DEF Scanning, Opened
  <2>2. \A names : ~Named(NULL, names)
    BY DEF Named, NULL
  <2>3. CASE s.after = <<">">>
    <3>1. r = [t EXCEPT !.fd = -1]
      BY <2>2, <2>3 DEF scan, open
    <3> HIDE DEF r, t
    <3>2. r \in Scanning /\ r.fd = -1 /\ r.desc = s.desc
      BY <2>1, <3>1 DEF Scanning
    <3>3. Opened(r)
      BY <1>7, <3>2 DEF Opened
    <3>4. g[m] /\ w[m] = <<">">>
      BY <1>7, <1>14, <2>3
    <3>5. ASSUME NEW i, LastOutward(g, w, m, i) PROVE ~(i < m)
      <4>1. i < m => m \in i + 1 .. m
        BY <1>1, <3>5 DEF LastOutward
      <4> QED
        BY <3>4, <3>5, <4>1 DEF LastOutward, Outward
    <3> QED
      BY <1>5, <1>6, <1>8, <1>14, <3>2, <3>3, <3>5 DEF r
  <2>4. CASE s.after = <<"<">>
    <3>1. r = [t EXCEPT !.valid = FALSE]
      BY <2>2, <2>4, Distinct DEF scan
    <3> HIDE DEF r, t
    <3>2. r \in Scanning /\ r.fd = s.fd /\ r.desc = s.desc
      BY <2>1, <3>1 DEF Scanning
    <3>3. Opened(r) /\ \A name : Result(s, name) => Result(r, name)
      BY <1>7, <3>2, SameDescriptors
    <3>4. ~Outward(g, w, m)
      BY <1>11, <1>12, <2>4, Distinct
    <3> QED
      BY <1>5, <1>6, <1>7, <1>8, <1>9, <1>10, <1>14, <3>2, <3>3, <3>4 DEF r
  <2> QED
    BY <1>4, <1>14, <2>3, <2>4 DEF Scanning, Operators
<1> QED
  BY <1>13, <1>14
-----------------------------------------------------------------------------
(* No line opens more than K files.                                        *)
LEMMA Half ==
  ASSUME NEW m \in Nat
  PROVE  m \div 2 \in Nat /\ \A o \in Nat : 2 * o <= m => o <= m \div 2
OBVIOUS

LEMMA BoundExists ==
  \E k \in Nat : 6 + MaxLines * k <= MaxFd /\ \A text \in Lines : Leaks(text) <= k
<1> DEFINE R == {k \in Nat : 6 + MaxLines * k <= MaxFd}
           S == {MaxFd - k : k \in R}
<1>1. 0 \in R
  BY Bounds
<1>2. \A k \in R : k \in Nat /\ k <= MaxFd
  <2> SUFFICES ASSUME NEW k \in R PROVE k <= MaxFd
    OBVIOUS
  <2>1. MaxLines >= 1 /\ MaxLines \in Nat
    BY Bounds
  <2>2. MaxLines * k >= k /\ MaxLines * k \in Nat
    BY <2>1
  <2> QED
    BY <2>2, Bounds
<1>3. S \in SUBSET Nat /\ S # {}
  <2> HIDE DEF R
  <2> QED
    BY <1>1, <1>2, Bounds
<1>4. PICK x \in S : \A y \in S : x <= y
  <2> HIDE DEF S
  <2> QED
    BY <1>3, Least
<1>5. PICK k \in R : x = MaxFd - k
  OBVIOUS
<1>6. \A j \in R : j <= k
  <2> HIDE DEF R
  <2> QED
    BY <1>2, <1>4, <1>5, Bounds
<1>7. ASSUME NEW text \in Lines PROVE Leaks(text) \in R
  <2>1. Leaks(text) \in Nat
    <3>1. tokenize(text).tokens \in Seq(Word)
      BY Tokenized, ShellAssumption
    <3>2. Len(tokenize(text).tokens) \in Nat
      BY <3>1, LenProperties
    <3> QED
      BY <3>2, Half, Zenon DEF Leaks
  <2>2. MaxFd >= 6 + MaxLines * Leaks(text)
    BY ShellAssumption
  <2>3. MaxLines * Leaks(text) \in Int
    BY <2>1, Bounds
  <2> QED
    BY <2>1, <2>2, <2>3, Bounds
<1> QED
  BY <1>6, <1>7

K == CHOOSE k \in Nat : 6 + MaxLines * k <= MaxFd /\ \A text \in Lines : Leaks(text) <= k

Base(i) == 4 + i * K

LEMMA BaseFacts ==
  ASSUME NEW i \in 0 .. MaxLines
  PROVE  Base(i) \in Nat /\ Base(i) >= 4 /\ Base(i) + 2 <= MaxFd
<1>1. K \in Nat /\ 6 + MaxLines * K <= MaxFd
  BY BoundExists, Zenon DEF K
<1>2. i * K \in Nat /\ i * K <= MaxLines * K
  <2>1. MaxLines * K = i * K + (MaxLines - i) * K /\ (MaxLines - i) * K \in Nat /\ i * K \in Nat
    BY <1>1, Bounds
  <2> QED
    BY <2>1
<1>3. MaxLines * K \in Nat
  BY <1>1, Bounds
<1> QED
  BY <1>1, <1>2, <1>3, Bounds DEF Base

LEMMA BaseNext ==
  ASSUME NEW i \in 0 .. MaxLines - 1, NEW text \in Lines
  PROVE  /\ Base(i + 1) = Base(i) + K /\ K \in Nat
         /\ \A o \in Nat : 2 * o <= Len(tokenize(text).tokens) => o <= K
<1>1. K \in Nat /\ Leaks(text) <= K
  BY BoundExists, Zenon DEF K
<1>2. (i + 1) * K = i * K + K
  BY <1>1, Bounds
<1>3. Len(tokenize(text).tokens) \in Nat
  BY Tokenized, ShellAssumption, LenProperties
<1>4. ASSUME NEW o \in Nat, 2 * o <= Len(tokenize(text).tokens) PROVE o <= K
  <2>1. o <= Leaks(text) /\ Leaks(text) \in Nat
    BY <1>3, <1>4, Half, Zenon DEF Leaks
  <2> QED
    BY <1>1, <2>1
<1>5. i * K \in Nat
  BY <1>1, Bounds
<1> QED
  BY <1>1, <1>2, <1>4, <1>5, Bounds DEF Base
-----------------------------------------------------------------------------
(* The types, and how high the descriptors reach.                          *)
PipeEnds == CASE pc \in {"setpgid", "foreground"} -> {tube.out, tube.in}
              [] pc = "feed"                      -> {tube.in}
              [] OTHER                            -> {}

HighWater == \A d \in Fds : d > Base(n) /\ d \notin PipeEnds => desc[d] = FREE

IInv ==
  /\ TypeOK
  /\ tokens \in Seq(Word) /\ a \in Seq(Word)
  /\ pc \notin {"read", "exited"} => n > 0
  /\ HighWater

LEMMA WordsTyped ==
  ASSUME NEW w \in Seq(Word), NEW v \in Seq(Word)
  PROVE  NULL \notin ToSet(w) \cup ToSet(v)
<1>1. \A u \in Seq(Word) : NULL \notin ToSet(u)
  BY DEF ToSet, Word, NULL
<1> QED
  BY <1>1

LEMMA ClosedTyped ==
  ASSUME NEW t \in Desc, NEW d
  PROVE  /\ close(t, d) \in Desc
         /\ \A e \in Fds : close(t, d)[e] = IF e = d THEN FREE ELSE t[e]
BY DEF close, Desc

LEMMA CopiedTyped ==
  ASSUME NEW t \in Desc, NEW d, NEW e \in {0, 1}
  PROVE  /\ dup2(t, d, e) \in Desc
         /\ \A x \in Fds : x # e => dup2(t, d, e)[x] = t[x]
         /\ d \in Fds /\ t[d] # FREE => dup2(t, d, e)[e] = t[d]
         /\ ~(d \in Fds /\ t[d] # FREE) => dup2(t, d, e) = t
<1>1. e \in Fds
  BY Bounds DEF Fds
<1> QED
  BY <1>1 DEF dup2, Desc

LEMMA RestoredTyped ==
  ASSUME NEW t \in Desc
  PROVE  /\ restored(t) \in Desc
         /\ \A x \in Fds : x \notin {0, 1} => restored(t)[x] = t[x]
<1>1. dup2(t, saved_stdin, 0) \in Desc /\ \A x \in Fds : x # 0 => dup2(t, saved_stdin, 0)[x] = t[x]
  BY CopiedTyped
<1> QED
  BY <1>1, CopiedTyped DEF restored
-----------------------------------------------------------------------------
LEMMA IInvInit == Init => IInv
<1> SUFFICES ASSUME Init PROVE IInv
  OBVIOUS
<1>1. tokens \in Seq(Word) /\ a \in Seq(Word)
  BY EmptySeq DEF Init
<1>2. NULL \notin ToSet(tokens) \cup ToSet(a)
  BY <1>1, WordsTyped
<1>3. /\ desc \in [Fds -> Things \cup {FREE}]
      /\ table \in [Children -> [Fds -> Things \cup {FREE}]]
  BY DEF Init, Things
<1>4. 0 \in 0 .. MaxLines /\ fd \in Fds \cup {-1}
  <2>1. 0 \in 0 .. MaxLines
    BY Bounds
  <2>2. fd \in Garbage /\ Garbage \subseteq Fds \cup {-1}
    BY ShellAssumption DEF Init
  <2> QED
    BY <2>1, <2>2
<1>5. TypeOK
  BY <1>2, <1>3, <1>4 DEF Init, TypeOK
<1>6. Base(0) = 4 /\ PipeEnds = {}
  <2>1. K \in Nat
    BY BoundExists, Zenon DEF K
  <2>2. 0 * K = 0
    BY <2>1
  <2> QED
    BY <2>2 DEF Base, PipeEnds, Init
<1>7. HighWater
  BY <1>6, Bounds DEF HighWater, Init, saved_stdin, saved_stdout, Fds
<1> QED
  BY <1>1, <1>5, <1>7 DEF IInv, Init

(* What a line leaves: w are its words, s the state behind the loop.       *)
LineRead(text, w, s) ==
  /\ IF tokenize(text).abort
     THEN pc' = "aborted" /\ UNCHANGED <<line, fd, desc>>
     ELSE /\ tokens' = w /\ a' = s.a
          /\ fd' = s.fd
          /\ desc' = restored(s.desc)
          /\ \/ pc' = CASE ~s.valid -> "next"
                         [] lookup(w) -> "built-in"
                         [] OTHER -> "program"
             \/ s.overrun /\ pc' = "aborted"
  /\ w \in Seq(Word) /\ s \in Scanning /\ Opened(s)
  /\ Above(s.desc, Base(n + 1))
  /\ \A g : Marks(g, w) => \A i : LastOutward(g, w, Len(w), i) =>
       IF i < Len(w) THEN Result(s, w[i + 1]) ELSE s.fd = -1

LEMMA LineOf ==
  ASSUME IInv, ReadLine
  PROVE  /\ \E text \in Lines : \E w, s : LineRead(text, w, s)
         /\ Base(n + 1) \in Nat /\ Base(n + 1) >= Base(n) /\ Base(n) \in Nat /\ Base(n) >= 4
         /\ desc \in Desc /\ fd \in Fds \cup {-1} /\ n \in 0 .. MaxLines - 1 /\ n' = n + 1
         /\ pc = "read" /\ Above(desc, Base(n))
         /\ UNCHANGED <<interactive, eof, tube, fg, at, group, table>>
<1>1. /\ desc \in Desc /\ fd \in Fds \cup {-1} /\ n \in 0 .. MaxLines - 1 /\ n' = n + 1
      /\ pc = "read" /\ Above(desc, Base(n))
  BY Bounds DEF IInv, TypeOK, ReadLine, Desc, HighWater, PipeEnds, Above
<1>2. PICK text \in Lines :
        LET t == tokenize(text)
            s == scanned(t.tokens)
        IN IF t.abort
           THEN pc' = "aborted" /\ UNCHANGED <<line, fd, desc>>
           ELSE /\ tokens' = t.tokens /\ a' = s.a
                /\ fd' = s.fd
                /\ desc' = restored(s.desc)
                /\ \/ pc' = CASE ~s.valid -> "next"
                               [] lookup(t.tokens) -> "built-in"
                               [] OTHER -> "program"
                   \/ s.overrun /\ pc' = "aborted"
  BY DEF ReadLine
<1> DEFINE w == tokenize(text).tokens
           s == scanned(w)
<1>3. w \in Seq(Word)
  BY Tokenized, ShellAssumption
<1>4. /\ Base(n) \in Nat /\ Base(n + 1) = Base(n) + K /\ K \in Nat /\ Base(n + 1) + 2 <= MaxFd
      /\ \A o \in Nat : 2 * o <= Len(w) => o <= K
      /\ Base(n) >= 4
  <2>1. n \in 0 .. MaxLines /\ n + 1 \in 0 .. MaxLines
    BY <1>1, Bounds
  <2> HIDE DEF w
  <2> QED
    BY <1>1, <2>1, BaseFacts, BaseNext DEF w
<1>5. \A o \in Nat : 2 * o <= Len(w) => Base(n) + o <= MaxFd
  <2> HIDE DEF w
  <2> QED
    BY <1>4, Bounds
<1>6. PICK g : Marks(g, w)
  <2> HIDE DEF w
  <2> QED
    BY <1>3, MarkingExists, MarkingMarks
<1>7. /\ s \in Scanning /\ \E o \in Nat : 2 * o <= Len(w) /\ Above(s.desc, Base(n) + o)
      /\ Opened(s)
  <2> HIDE DEF w
  <2> QED
    BY <1>1, <1>3, <1>4, <1>5, <1>6, LineScanned
<1>9. \A h : Marks(h, w) => \A i : LastOutward(h, w, Len(w), i) =>
        IF i < Len(w) THEN Result(s, w[i + 1]) ELSE s.fd = -1
  <2> HIDE DEF w
  <2> QED
    BY <1>1, <1>3, <1>4, <1>5, LineScanned
<1>10. IF tokenize(text).abort
       THEN pc' = "aborted" /\ UNCHANGED <<line, fd, desc>>
       ELSE /\ tokens' = w /\ a' = s.a
            /\ fd' = s.fd
            /\ desc' = restored(s.desc)
            /\ \/ pc' = CASE ~s.valid -> "next"
                           [] lookup(w) -> "built-in"
                           [] OTHER -> "program"
               \/ s.overrun /\ pc' = "aborted"
  BY <1>2, Zenon
<1> HIDE DEF w, s
<1>8. Above(s.desc, Base(n + 1))
  <2>1. PICK o \in Nat : 2 * o <= Len(w) /\ Above(s.desc, Base(n) + o)
    BY <1>7
  <2>2. Base(n) + o <= Base(n + 1)
    BY <1>4, <2>1
  <2>3. \A d \in Fds : d \in Int
    BY Bounds DEF Fds
  <2> QED
    BY <1>4, <2>1, <2>2, <2>3 DEF Above
<1>11. LineRead(text, w, s)
  BY <1>3, <1>7, <1>8, <1>9, <1>10 DEF LineRead
<1>12. UNCHANGED <<interactive, eof, tube, fg, at, group, table>>
  BY DEF ReadLine, children
<1> QED
  BY <1>1, <1>4, <1>11, <1>12

LEMMA ReadLineTyped ==
  ASSUME IInv, ReadLine
  PROVE  IInv'
<1>1. /\ Base(n + 1) \in Nat /\ Base(n + 1) >= Base(n) /\ Base(n) \in Nat /\ Base(n) >= 4
      /\ desc \in Desc /\ fd \in Fds \cup {-1} /\ n \in 0 .. MaxLines - 1 /\ n' = n + 1
      /\ pc = "read" /\ Above(desc, Base(n))
  BY LineOf
<1>2. PICK text \in Lines : \E w, s : LineRead(text, w, s)
  BY LineOf
<1>3. PICK w, s : LineRead(text, w, s)
  BY <1>2
<1>4. w \in Seq(Word) /\ s \in Scanning /\ Above(s.desc, Base(n + 1))
  BY <1>3 DEF LineRead
<1>5. PipeEnds' = {}
  <2>1. pc' \in {"aborted", "next", "built-in", "program"}
    BY <1>3 DEF LineRead
  <2> QED
    BY <2>1 DEF PipeEnds
<1>6. pc' \in {"aborted", "next", "built-in", "program"} /\ n' > 0 /\ n' \in 0 .. MaxLines
  BY <1>1, <1>3, Bounds DEF LineRead
<1>7. /\ tokens' \in Seq(Word) /\ a' \in Seq(Word) /\ fd' \in Fds \cup {-1}
      /\ desc' \in Desc /\ Above(desc', Base(n'))
  <2>1. CASE tokenize(text).abort
    <3>1. UNCHANGED <<tokens, a, fd, desc>>
      BY <1>3, <2>1 DEF LineRead, line
    <3>2. Above(desc, Base(n + 1))
      <4>1. \A d \in Fds : d \in Int
        BY Bounds DEF Fds
      <4> QED
        BY <1>1, <4>1 DEF Above
    <3> QED
      BY <1>1, <3>1, <3>2 DEF IInv
  <2>2. CASE ~tokenize(text).abort
    <3>1. tokens' = w /\ a' = s.a /\ fd' = s.fd /\ desc' = restored(s.desc)
      BY <1>3, <2>2 DEF LineRead
    <3>2. s.desc \in Desc /\ s.a \in Seq(Word) /\ s.fd \in Fds \cup {-1}
      BY <1>4 DEF Scanning
    <3>3. \A d \in Fds : d > Base(n + 1) => d \notin {0, 1}
      BY <1>1, Bounds DEF Fds
    <3> QED
      BY <1>1, <1>4, <3>1, <3>2, <3>3, RestoredTyped DEF Above
  <2> QED
    BY <2>1, <2>2
<1>8. NULL \notin ToSet(tokens') \cup ToSet(a')
  BY <1>7, WordsTyped
<1>9. TypeOK'
  BY <1>6, <1>7, <1>8 DEF IInv, TypeOK, ReadLine, Desc, children
<1>10. HighWater'
  BY <1>5, <1>7 DEF HighWater, Above
<1> QED
  BY <1>6, <1>7, <1>9, <1>10 DEF IInv

(* The pipe: r and w are its ends, piped the descriptors before the fork.  *)
Forking(r, w, piped) ==
  /\ r \in Fds /\ w \in Fds /\ r # w /\ desc[r] = FREE /\ desc[w] = FREE
  /\ piped \in Desc /\ piped[r] = "tube out" /\ piped[w] = "tube in"
  /\ \A d \in Fds : d \notin {r, w} => piped[d] = desc[d]
  /\ tube' = [out |-> r, in |-> w]
  /\ desc' = close(piped, fd)
  /\ \/ at' = [at EXCEPT ![n] = "forked"] /\ table' = [table EXCEPT ![n] = piped]
     \/ UNCHANGED <<at, table>>

LEMMA ForkOf ==
  ASSUME IInv, Fork
  PROVE  /\ \E r, w, piped : Forking(r, w, piped)
         /\ desc \in Desc /\ n \in Children /\ pc = "program" /\ pc' = "setpgid"
         /\ UNCHANGED <<interactive, eof, n, tokens, a, fd, fg, group>>
<1> DEFINE r == lowest(desc)
           w == lowest([desc EXCEPT ![r] = "tube out"])
           piped == [desc EXCEPT ![r] = "tube out", ![w] = "tube in"]
           half == [desc EXCEPT ![r] = "tube out"]
<1>1. /\ desc \in Desc /\ n \in 0 .. MaxLines /\ pc = "program" /\ Above(desc, Base(n))
      /\ n > 0
  BY DEF IInv, TypeOK, Fork, Desc, HighWater, PipeEnds, Above
<1>2. Base(n) \in Nat /\ Base(n) + 2 <= MaxFd
  BY <1>1, BaseFacts
<1>3. r \in Fds /\ Above(half, Base(n) + 1) /\ half \in Desc /\ desc[r] = FREE
  <2>1. Base(n) < MaxFd
    BY <1>2, Bounds
  <2>2. lowest(desc) \in Fds /\ desc[lowest(desc)] = FREE
    BY <1>1, <1>2, <2>1, LowestFree
  <2>3. \A x : Above([desc EXCEPT ![lowest(desc)] = x], Base(n) + 1)
    BY <1>1, <1>2, <2>1, Taken
  <2> QED
    BY <1>1, <2>2, <2>3 DEF Desc, Things
<1>4. w \in Fds /\ half[w] = FREE
  <2>1. Base(n) + 1 \in Nat /\ Base(n) + 1 < MaxFd
    BY <1>2, Bounds
  <2> HIDE DEF half, r
  <2> QED
    BY <1>3, <2>1, LowestFree DEF half
<1>5. r # w /\ desc[w] = FREE
  <2> HIDE DEF r, w
  <2> QED
    BY <1>1, <1>3, <1>4 DEF Desc, FREE
<1>6. /\ piped \in Desc /\ piped[r] = "tube out" /\ piped[w] = "tube in"
      /\ \A d \in Fds : d \notin {r, w} => piped[d] = desc[d]
  <2> HIDE DEF r, w
  <2> QED
    BY <1>1, <1>3, <1>4, <1>5 DEF Desc, Things
<1>7. /\ tube' = [out |-> r, in |-> w]
      /\ desc' = close(piped, fd)
      /\ \/ at' = [at EXCEPT ![n] = "forked"] /\ table' = [table EXCEPT ![n] = piped]
         \/ UNCHANGED <<at, table>>
      /\ pc' = "setpgid"
      /\ UNCHANGED <<interactive, eof, n, tokens, a, fd, fg, group>>
  BY DEF Fork, line
<1>8. n \in Children
  BY <1>1 DEF Children
<1> HIDE DEF r, w, piped, half
<1>9. Forking(r, w, piped)
  BY <1>3, <1>4, <1>5, <1>6, <1>7 DEF Forking
<1> QED
  BY <1>1, <1>7, <1>8, <1>9

LEMMA ForkTyped ==
  ASSUME IInv, Fork
  PROVE  IInv'
<1>1. /\ desc \in Desc /\ n \in Children /\ pc = "program" /\ pc' = "setpgid"
      /\ UNCHANGED <<interactive, eof, n, tokens, a, fd, fg, group>>
  BY ForkOf
<1>2. PICK r, w, piped : Forking(r, w, piped)
  BY ForkOf
<1>3. desc' \in Desc /\ \A d \in Fds : desc'[d] = piped[d] \/ desc'[d] = FREE
  <2>1. piped \in Desc /\ desc' = close(piped, fd)
    BY <1>2 DEF Forking
  <2> QED
    BY <2>1, ClosedTyped
<1>4. TypeOK'
  <2>1. tube' \in [out : Fds \cup {-1}, in : Fds \cup {-1}]
    BY <1>2 DEF Forking
  <2>2. table' \in [Children -> [Fds -> Things \cup {FREE}]]
    BY <1>2 DEF Forking, IInv, TypeOK, Desc
  <2>3. at' \in [Children -> {"none", "forked", "accepts", "grouped", "runs", "failed", "stopped", "gone"}]
    BY <1>2 DEF Forking, IInv, TypeOK
  <2> QED
    BY <1>1, <1>3, <2>1, <2>2, <2>3 DEF IInv, TypeOK, Desc
<1>5. HighWater'
  <2>1. PipeEnds' = {r, w} /\ PipeEnds = {}
    BY <1>1, <1>2 DEF PipeEnds, Forking
  <2>2. \A d \in Fds : d > Base(n) => desc[d] = FREE
    BY <2>1 DEF IInv, HighWater
  <2>3. \A d \in Fds : d \notin {r, w} => piped[d] = desc[d]
    BY <1>2 DEF Forking
  <2> QED
    BY <1>1, <1>3, <2>1, <2>2, <2>3 DEF HighWater
<1> QED
  BY <1>1, <1>4, <1>5 DEF IInv

(* The pipe's ends are closed one after the other.                         *)
LEMMA ForegroundTyped ==
  ASSUME IInv, Foreground
  PROVE  IInv'
<1>1. /\ pc = "foreground" /\ pc' = "feed" /\ desc' = close(desc, tube.out)
      /\ UNCHANGED <<interactive, eof, n, tokens, a, fd, tube, at, group, table>>
      /\ tcsetpgrp(getpgid(n))
  BY DEF Foreground, children, line
<1>2. desc \in Desc /\ n > 0
  BY <1>1 DEF IInv, TypeOK, Desc
<1>3. desc' \in Desc /\ \A d \in Fds : desc'[d] = IF d = tube.out THEN FREE ELSE desc[d]
  BY <1>1, <1>2, ClosedTyped
<1>4. fg' \in Children \cup {SHELL}
  <2>1. n \in Children
    BY <1>2 DEF IInv, TypeOK, Children
  <2> QED
    BY <1>1, <2>1 DEF getpgid, tcsetpgrp, IInv, TypeOK
<1>5. TypeOK'
  BY <1>1, <1>3, <1>4 DEF IInv, TypeOK, Desc
<1>6. HighWater'
  BY <1>1, <1>3 DEF IInv, HighWater, PipeEnds
<1> QED
  BY <1>1, <1>2, <1>5, <1>6 DEF IInv

LEMMA FeedTyped ==
  ASSUME IInv, Feed
  PROVE  IInv'
<1>1. /\ pc = "feed" /\ pc' = "wait"
      /\ UNCHANGED <<interactive, n, tokens, a, fd, tube, fg, at, group, table>>
      /\ \/ /\ eof' = (eof \/ ~interactive)
            /\ desc' = close(dup2(desc, saved_stdin, 0), tube.in)
         \/ desc' = close(desc, tube.in) /\ UNCHANGED eof
  BY DEF Feed, children, line
<1>2. desc \in Desc /\ n > 0 /\ n \in 0 .. MaxLines
  BY <1>1 DEF IInv, TypeOK, Desc
<1>3. desc' \in Desc /\ \A d \in Fds : d # 0 => desc'[d] = IF d = tube.in THEN FREE ELSE desc[d]
  <2>1. CASE desc' = close(dup2(desc, saved_stdin, 0), tube.in)
    BY <1>2, <2>1, ClosedTyped, CopiedTyped
  <2>2. CASE desc' = close(desc, tube.in)
    BY <1>2, <2>2, ClosedTyped
  <2> QED
    BY <1>1, <2>1, <2>2
<1>4. eof' \in BOOLEAN
  BY <1>1 DEF IInv, TypeOK
<1>5. TypeOK'
  BY <1>1, <1>3, <1>4 DEF IInv, TypeOK, Desc
<1>6. HighWater'
  <2>1. Base(n) >= 4 /\ Base(n) \in Nat
    BY <1>2, BaseFacts
  <2>2. \A d \in Fds : d > Base(n) => d # 0
    BY <2>1
  <2>3. Base(n)' = Base(n) /\ PipeEnds = {tube.in} /\ PipeEnds' = {}
    BY <1>1 DEF Base, PipeEnds
  <2> QED
    BY <1>1, <1>3, <2>2, <2>3 DEF IInv, HighWater
<1> QED
  BY <1>1, <1>2, <1>5, <1>6 DEF IInv

LEMMA NextLineTyped ==
  ASSUME IInv, NextLine
  PROVE  IInv'
<1>1. /\ pc = "next" /\ pc' = "read" /\ desc' = restored(desc)
      /\ UNCHANGED <<interactive, eof, n, tokens, a, fd, tube, fg, at, group, table>>
  BY DEF NextLine, children, line
<1>2. desc \in Desc /\ n \in 0 .. MaxLines
  BY <1>1 DEF IInv, TypeOK, Desc
<1>3. desc' \in Desc /\ \A d \in Fds : d \notin {0, 1} => desc'[d] = desc[d]
  BY <1>1, <1>2, RestoredTyped
<1>4. TypeOK'
  BY <1>1, <1>3 DEF IInv, TypeOK, Desc
<1>5. HighWater'
  <2>1. Base(n) >= 4 /\ Base(n) \in Nat
    BY <1>2, BaseFacts
  <2>2. \A d \in Fds : d > Base(n) => d \notin {0, 1}
    BY <2>1
  <2>3. Base(n)' = Base(n) /\ PipeEnds = {} /\ PipeEnds' = {}
    BY <1>1 DEF Base, PipeEnds
  <2> QED
    BY <1>3, <2>2, <2>3 DEF IInv, HighWater
<1> QED
  BY <1>1, <1>4, <1>5 DEF IInv

(* The steps that leave the shell's descriptors alone.                     *)
LEMMA QuietTyped ==
  ASSUME IInv, TypeOK', UNCHANGED <<desc, n, tokens, a, tube>>, PipeEnds \subseteq PipeEnds',
         pc' \notin {"read", "exited"} => pc \notin {"read", "exited"}
  PROVE  IInv'
BY DEF IInv, HighWater, Base

LEMMA IInvNext == IInv /\ [Next]_vars => IInv'
<1> SUFFICES ASSUME IInv, [Next]_vars PROVE IInv'
  OBVIOUS
<1> USE DEF line, children
<1>1. TypeOK
  BY DEF IInv
<1>2. CASE UNCHANGED vars
  <2>1. UNCHANGED <<desc, n, tokens, a, tube, pc>> /\ TypeOK'
    BY <1>1, <1>2 DEF vars, TypeOK
  <2> QED
    BY <2>1, QuietTyped DEF PipeEnds
<1>3. CASE EndOfInput
  <2>1. TypeOK'
    BY <1>1, <1>3 DEF EndOfInput, TypeOK
  <2> QED
    BY <1>3, <2>1, QuietTyped DEF EndOfInput, PipeEnds
<1>4. CASE RunBuiltIn
  <2>1. TypeOK'
    BY <1>1, <1>4 DEF RunBuiltIn, TypeOK
  <2> QED
    BY <1>4, <2>1, QuietTyped DEF RunBuiltIn, PipeEnds
<1>5. CASE setpgid
  <2>1. n \in Children
    BY <1>1, <1>5 DEF setpgid, IInv, TypeOK, Children
  <2>2. group' \in [Children -> Children \cup {SHELL}]
    BY <1>1, <1>5, <2>1 DEF setpgid, TypeOK
  <2>3. TypeOK'
    BY <1>1, <1>5, <2>2 DEF setpgid, TypeOK
  <2> QED
    BY <1>5, <2>3, QuietTyped DEF setpgid, PipeEnds
<1>6. CASE waitpid
  <2>1. TypeOK'
    BY <1>1, <1>6 DEF waitpid, TypeOK
  <2> QED
    BY <1>6, <2>1, QuietTyped DEF waitpid, PipeEnds
<1>7. CASE Back
  <2>1. TypeOK'
    BY <1>1, <1>7 DEF Back, tcsetpgrp, SHELL, TypeOK
  <2> QED
    BY <1>7, <2>1, QuietTyped DEF Back, PipeEnds
<1>8. ASSUME NEW c \in Children, Starts(c) \/ Exit(c) \/ Stop(c) PROVE IInv'
  <2>1. UNCHANGED <<interactive, desc, eof, pc, n, tokens, a, fd, tube, fg>>
    BY <1>8 DEF Starts, accept_signal, setpgrp, exec, Exit, Stop
  <2>2. at' \in [Children -> {"none", "forked", "accepts", "grouped", "runs", "failed", "stopped", "gone"}]
    BY <1>1, <1>8 DEF TypeOK, Starts, accept_signal, setpgrp, exec, Exit, Stop
  <2>3. group' \in [Children -> Children \cup {SHELL}]
    BY <1>1, <1>8 DEF TypeOK, Starts, accept_signal, setpgrp, exec, Exit, Stop
  <2>4. table' \in [Children -> [Fds -> Things \cup {FREE}]]
    <3>1. CASE exec(c)
      <4> DEFINE t == redirected(table[c])
      <4>1. table[c] \in Desc
        BY <1>1 DEF TypeOK, Desc
      <4>2. t \in Desc
        BY <4>1, ClosedTyped, CopiedTyped DEF redirected
      <4>3. /\ close(dup2(close(t, tube.in), tube.out, 0), tube.out) \in Desc
            /\ close(close(t, tube.out), tube.in) \in Desc
        <5> HIDE DEF t
        <5>1. close(t, tube.in) \in Desc /\ close(t, tube.out) \in Desc
          BY <4>2, ClosedTyped
        <5>2. dup2(close(t, tube.in), tube.out, 0) \in Desc
          BY <5>1, CopiedTyped
        <5> QED
          BY <5>1, <5>2, ClosedTyped
      <4>4. table' = [table EXCEPT ![c] =
                        IF CatFromStdin
                        THEN close(dup2(close(t, tube.in), tube.out, 0), tube.out)
                        ELSE close(close(t, tube.out), tube.in)]
        BY <3>1 DEF exec
      <4> HIDE DEF t
      <4>5. \E d \in Desc : table' = [table EXCEPT ![c] = d]
        BY <4>3, <4>4
      <4> QED
        BY <1>1, <4>5 DEF TypeOK, Desc
    <3>2. CASE UNCHANGED table
      BY <1>1, <3>2 DEF TypeOK
    <3> QED
      BY <1>8, <3>1, <3>2 DEF Starts, accept_signal, setpgrp, Exit, Stop
  <2>5. TypeOK'
    BY <1>1, <2>1, <2>2, <2>3, <2>4 DEF TypeOK
  <2> QED
    BY <2>1, <2>5, QuietTyped DEF PipeEnds
<1> QED
  BY <1>2, <1>3, <1>4, <1>5, <1>6, <1>7, <1>8, ReadLineTyped, ForkTyped, ForegroundTyped,
     FeedTyped, NextLineTyped DEF Next, Runs

LEMMA ShellInvariance == Spec => []IInv
<1>1. IInv /\ [Next]_vars => IInv'
  BY IInvNext
<1> QED
  BY <1>1, IInvInit, PTL DEF Spec

(* Whatever the lines are, the variables of main keep their types; so open *)
(* and pipe always find a descriptor, and no word is empty.                *)
THEOREM ShellTyping == Spec => []TypeOK
<1>1. IInv => TypeOK
  BY DEF IInv
<1> QED
  BY <1>1, ShellInvariance, PTL
-----------------------------------------------------------------------------
(* What the prompt and the redirections rest on: between the lines nothing *)
(* of a command is left, and standard input and output can be restored, as *)
(* no command closes their copies.                                         *)
Tubes == {"tube out", "tube in"}
Reserved == {0, 1, saved_stdin, saved_stdout}

AtLine == {"read", "built-in", "program"}
WithChild == {"setpgid", "foreground", "feed", "wait"}
Starting == {"forked", "accepts", "grouped"}

Saved ==
  /\ desc[saved_stdout] = "output" /\ desc[saved_stdin] = "input"
  /\ fd \notin {saved_stdin, saved_stdout}

Standard == pc \in AtLine => desc[0] = "input" /\ desc[1] = "output"

(* The shell can take the terminal back whenever it has given it away.     *)
Terminal ==
  \/ fg = SHELL
  \/ pc \in {"feed", "wait", "back"} /\ interactive /\ desc[0] = "input"

PipeHeld ==
  /\ \A d \in Fds :
       /\ desc[d] = "tube out" => d = tube.out /\ pc \in {"setpgid", "foreground"}
       /\ desc[d] = "tube in" => d = tube.in /\ pc \in {"setpgid", "foreground", "feed"}
  /\ pc \in WithChild => /\ tube.out \in Fds \ Reserved /\ tube.in \in Fds \ Reserved
                         /\ tube.out # tube.in

(* fd is what the last redirection has left, in a process with table t.    *)
FdRight(t) ==
  \A i : LastOutward(IsOperator, tokens, Len(tokens), i) =>
    IF i < Len(tokens) /\ Named(tokens[i + 1], Files)
    THEN fd \in Fds \ Reserved /\ t[fd] = tokens[i + 1][1]
    ELSE fd = -1

Piped(t) ==
  /\ t[1] = "output" /\ t[tube.out] = "tube out" /\ t[tube.in] = "tube in"
  /\ \A d \in Fds \ {tube.out, tube.in} : t[d] \notin Tubes

(* A child that starts or runs is that of the last line, and waited for.   *)
ChildOf(c) ==
  /\ at[c] \in Starting \cup {"runs", "failed"} => c = n /\ pc \in WithChild
  /\ at[c] \in Starting => Piped(table[c]) /\ FdRight(table[c])

SInv ==
  /\ IInv
  /\ Saved /\ Standard /\ Terminal /\ PipeHeld
  /\ \A c \in Children : ChildOf(c)
  /\ pc = "program" => FdRight(desc)
  /\ RedirectKept

LEMMA SameMarks == tokens' = tokens => IsOperator' = IsOperator
BY DEF IsOperator

LEMMA SameFdRight ==
  ASSUME UNCHANGED <<tokens, fd>>, NEW t
  PROVE  FdRight(t)' <=> FdRight(t')
BY SameMarks, Zenon DEF FdRight

LEMMA Greatest ==
  ASSUME NEW m \in Nat, NEW S \in SUBSET (1 .. m), S # {}
  PROVE  \E x \in S : \A y \in S : x >= y
<1> DEFINE T == {m - x : x \in S}
<1>1. T \in SUBSET Nat /\ T # {}
  <2>1. \A x \in S : m - x \in Nat
    OBVIOUS
  <2>2. PICK x \in S : TRUE
    OBVIOUS
  <2>3. m - x \in T
    OBVIOUS
  <2> QED
    BY <2>1, <2>3
<1>2. PICK t \in T : \A y \in T : t <= y
  <2> HIDE DEF T
  <2> QED
    BY <1>1, Least
<1>3. PICK x \in S : t = m - x
  OBVIOUS
<1>4. ASSUME NEW y \in S PROVE x >= y
  <2>1. m - x <= m - y
    BY <1>2, <1>3
  <2> QED
    BY <2>1
<1> QED
  BY <1>4

LEMMA LastRedirection ==
  ASSUME tokens \in Seq(Word), Redirections # {}
  PROVE  LastOutward(IsOperator, tokens, Len(tokens), Max(Redirections))
<1>1. Redirections \subseteq 1 .. Len(tokens) /\ Len(tokens) \in Nat
  BY DEF Redirections
<1>5. \E i \in Redirections : \A j \in Redirections : i >= j
  BY <1>1, Greatest
<1>6. Max(Redirections) \in Redirections /\ \A j \in Redirections : Max(Redirections) >= j
  BY <1>5, Zenon DEF Max
<1>7. \A j : j \in Redirections <=> j \in 1 .. Len(tokens) /\ Outward(IsOperator, tokens, j)
  BY DEF Redirections, Outward
<1>8. ASSUME NEW j \in Max(Redirections) + 1 .. Len(tokens)
      PROVE  ~Outward(IsOperator, tokens, j)
  <2>1. Max(Redirections) \in 1 .. Len(tokens)
    BY <1>1, <1>6
  <2>2. j \in 1 .. Len(tokens) /\ ~(Max(Redirections) >= j)
    BY <1>1, <2>1
  <2> QED
    BY <1>6, <1>7, <2>2
<1> QED
  BY <1>6, <1>7, <1>8 DEF LastOutward

(* The reserved descriptors exist.                                         *)
LEMMA ReservedFds == Reserved \subseteq Fds /\ saved_stdin = 4 /\ saved_stdout = 3 /\ 0 # 1
BY Bounds DEF Reserved, Fds, saved_stdin, saved_stdout

LEMMA RestoredStandard ==
  ASSUME NEW t \in Desc, t[saved_stdout] = "output", t[saved_stdin] = "input"
  PROVE  restored(t)[0] = "input" /\ restored(t)[1] = "output"
<1>1. saved_stdin \in Fds /\ saved_stdout \in Fds /\ 0 \in Fds /\ 1 \in Fds
      /\ saved_stdin \notin {0, 1} /\ saved_stdout \notin {0, 1}
  BY ReservedFds DEF Reserved
<1> DEFINE u == dup2(t, saved_stdin, 0)
<1>2. u \in Desc /\ u[0] = "input" /\ u[saved_stdout] = "output"
  BY <1>1, CopiedTyped DEF FREE
<1>3. restored(t) = dup2(u, saved_stdout, 1)
  BY DEF restored
<1> HIDE DEF u
<1>4. dup2(u, saved_stdout, 1)[0] = u[0] /\ dup2(u, saved_stdout, 1)[1] = u[saved_stdout]
  <2>1. u[saved_stdout] # FREE /\ 0 # 1 /\ 1 \in {0, 1}
    BY <1>2 DEF FREE
  <2> QED
    BY <1>1, <1>2, <2>1, CopiedTyped
<1> QED
  BY <1>2, <1>3, <1>4

LEMMA NotFree == /\ \A x \in Files : x \notin {"input", "output", "tube out", "tube in", FREE}
                 /\ FREE \notin {"input", "output", "tube out", "tube in"}
BY ShellAssumption DEF FREE
-----------------------------------------------------------------------------
LEMMA SInvInit ==
  ASSUME Garbage \cap {saved_stdin, saved_stdout} = {}, Init
  PROVE  SInv
<1>1. IInv
  BY IInvInit
<1>2. Saved /\ Standard /\ Terminal
  BY ReservedFds DEF Init, Saved, Standard, Terminal, Reserved
<1>3. PipeHeld
  BY DEF Init, PipeHeld, WithChild, FREE
<1>4. \A c \in Children : at[c] = "none"
  BY DEF Init
<1>5. \A c \in Children : ChildOf(c)
  BY <1>4 DEF ChildOf, Starting
<1>6. RedirectKept
  <2>1. ~(n > 0)
    BY DEF Init
  <2> QED
    BY <2>1, Zenon DEF RedirectKept
<1> QED
  BY <1>1, <1>2, <1>3, <1>5, <1>6 DEF SInv, Init

(* Steps that leave the descriptors alone, of the shell and of its child.  *)
LEMMA CalmKept ==
  ASSUME SInv, IInv', UNCHANGED <<interactive, desc, n, tokens, a, fd, tube, table>>,
         Terminal',
         pc' \in AtLine => pc' = pc,
         pc' \in {"setpgid", "foreground"} <=> pc \in {"setpgid", "foreground"},
         pc' = "feed" <=> pc = "feed",
         pc' \in WithChild => pc \in WithChild,
         pc \in WithChild /\ pc' \notin WithChild =>
           \A c \in Children : at[c] \notin Starting \cup {"runs", "failed"},
         \A c \in Children : \/ at'[c] = at[c]
                             \/ at[c] \in Starting /\ at'[c] \in Starting
                             \/ at'[c] \in {"gone", "stopped"}
  PROVE  SInv'
<1>1. Saved' /\ Standard' /\ PipeHeld'
  BY DEF SInv, Saved, Standard, PipeHeld
<1>2. \A t : FdRight(t)' <=> FdRight(t)
  BY SameMarks DEF FdRight
<1>3. ASSUME NEW c \in Children PROVE ChildOf(c)'
  <2>1. at'[c] \in Starting => at[c] \in Starting
    BY DEF Starting
  <2>2. at'[c] \in Starting \cup {"runs", "failed"} => at[c] \in Starting \cup {"runs", "failed"}
    BY DEF Starting
  <2>3. ChildOf(c)
    BY DEF SInv
  <2>4. Piped(table[c])' <=> Piped(table[c])
    BY DEF Piped
  <2>5. at'[c] \in Starting \cup {"runs", "failed"} => c = n' /\ pc' \in WithChild
    BY <2>2, <2>3 DEF ChildOf
  <2>6. at'[c] \in Starting => Piped(table[c])' /\ FdRight(table[c])'
    BY <1>2, <2>1, <2>3, <2>4, Zenon DEF ChildOf
  <2> QED
    BY <2>5, <2>6, Zenon DEF ChildOf
<1>4. (pc = "program" => FdRight(desc))'
  BY <1>2 DEF SInv, AtLine
<1>5. RedirectKept'
  <2>1. n \in Children /\ at'[n] = "runs" => at[n] = "runs"
    BY DEF Starting
  <2>2. n > 0 => n \in Children
    BY DEF IInv, TypeOK, SInv, Children
  <2>3. Redirections' = Redirections
    BY SameMarks DEF Redirections
  <2>4. RedirectKept
    BY DEF SInv
  <2>5. CatFromStdin' <=> CatFromStdin
    BY DEF CatFromStdin
  <2> QED
    BY <2>1, <2>2, <2>3, <2>4, <2>5 DEF RedirectKept, Holds
<1> QED
  BY <1>1, <1>3, <1>4, <1>5 DEF SInv

(* The shell's descriptors change, and there is nothing about the child to *)
(* keep but which it is.                                                   *)
LEMMA DescriptorsKept ==
  ASSUME SInv, IInv', Saved', Standard', Terminal', PipeHeld',
         UNCHANGED <<n, tokens, a, fd, tube, at, table>>,
         pc' # "program", pc' \in WithChild <=> pc \in WithChild
  PROVE  SInv'
<1>1. \A t : FdRight(t)' <=> FdRight(t)
  BY SameMarks DEF FdRight
<1>2. ASSUME NEW c \in Children PROVE ChildOf(c)'
  <2>1. ChildOf(c)
    BY DEF SInv
  <2>2. Piped(table[c])' <=> Piped(table[c])
    BY DEF Piped
  <2> QED
    BY <1>1, <2>1, <2>2, Zenon DEF ChildOf
<1>3. RedirectKept'
  <2>1. Redirections' = Redirections
    BY SameMarks DEF Redirections
  <2>2. CatFromStdin' <=> CatFromStdin
    BY DEF CatFromStdin
  <2> QED
    BY <2>1, <2>2 DEF SInv, RedirectKept, Holds
<1> QED
  BY <1>2, <1>3 DEF SInv

LEMMA NextLineKept ==
  ASSUME SInv, IInv', NextLine
  PROVE  SInv'
<1>1. /\ pc = "next" /\ pc' = "read" /\ desc' = restored(desc)
      /\ UNCHANGED <<interactive, eof, n, tokens, a, fd, tube, fg, at, group, table>>
  BY DEF NextLine, children, line
<1>2. desc \in Desc /\ Saved /\ Terminal /\ PipeHeld
  BY DEF SInv, IInv, TypeOK, Desc
<1>3. /\ desc'[0] = "input" /\ desc'[1] = "output"
      /\ \A d \in Fds : d \notin {0, 1} => desc'[d] = desc[d]
  BY <1>1, <1>2, RestoredTyped, RestoredStandard DEF Saved
<1>4. Saved' /\ Standard'
  BY <1>1, <1>2, <1>3, ReservedFds DEF Saved, Standard, Reserved
<1>5. Terminal'
  BY <1>1, <1>2 DEF Terminal
<1>6. PipeHeld'
  BY <1>1, <1>2, <1>3 DEF PipeHeld, WithChild
<1> QED
  BY <1>1, <1>4, <1>5, <1>6, DescriptorsKept DEF WithChild

LEMMA ForegroundKept ==
  ASSUME SInv, IInv', Foreground
  PROVE  SInv'
<1>1. /\ pc = "foreground" /\ pc' = "feed" /\ desc' = close(desc, tube.out)
      /\ UNCHANGED <<interactive, eof, n, tokens, a, fd, tube, at, group, table>>
      /\ tcsetpgrp(getpgid(n))
  BY DEF Foreground, children, line
<1>2. desc \in Desc /\ Saved /\ Terminal /\ PipeHeld
  BY DEF SInv, IInv, TypeOK, Desc
<1>3. \A d \in Fds : desc'[d] = IF d = tube.out THEN FREE ELSE desc[d]
  BY <1>1, <1>2, ClosedTyped
<1>4. tube.out \in Fds \ Reserved /\ tube.in \in Fds \ Reserved /\ tube.out # tube.in
  BY <1>1, <1>2 DEF PipeHeld, WithChild
<1>5. \A d \in Reserved : desc'[d] = desc[d]
  BY <1>3, <1>4, ReservedFds
<1>6. Saved' /\ Standard'
  BY <1>1, <1>2, <1>5 DEF Saved, Standard, Reserved, AtLine
<1>7. Terminal'
  BY <1>1, <1>2, <1>5 DEF Terminal, Reserved, tcsetpgrp
<1>8. PipeHeld'
  BY <1>1, <1>2, <1>3, <1>4 DEF PipeHeld, FREE
<1> QED
  BY <1>1, <1>6, <1>7, <1>8, DescriptorsKept DEF WithChild

LEMMA FeedKept ==
  ASSUME SInv, IInv', Feed
  PROVE  SInv'
<1>1. /\ pc = "feed" /\ pc' = "wait"
      /\ UNCHANGED <<interactive, n, tokens, a, fd, tube, fg, at, group, table>>
      /\ \/ desc' = close(dup2(desc, saved_stdin, 0), tube.in)
         \/ desc' = close(desc, tube.in)
  BY DEF Feed, children, line
<1>2. desc \in Desc /\ Saved /\ Terminal /\ PipeHeld
  BY DEF SInv, IInv, TypeOK, Desc
<1>3. tube.out \in Fds \ Reserved /\ tube.in \in Fds \ Reserved /\ tube.out # tube.in
  BY <1>1, <1>2 DEF PipeHeld, WithChild
<1>4. PICK t \in Desc : /\ desc' = close(t, tube.in)
                        /\ \A d \in Fds : d # 0 => t[d] = desc[d]
                        /\ t[0] = desc[0] \/ t[0] = "input"
  <2>1. saved_stdin \in Fds /\ 0 \in Fds /\ desc[saved_stdin] # FREE /\ desc[saved_stdin] = "input"
    BY <1>2, ReservedFds DEF Reserved, Saved, FREE
  <2>2. CASE desc' = close(dup2(desc, saved_stdin, 0), tube.in)
    <3>1. /\ dup2(desc, saved_stdin, 0) \in Desc /\ dup2(desc, saved_stdin, 0)[0] = "input"
          /\ \A d \in Fds : d # 0 => dup2(desc, saved_stdin, 0)[d] = desc[d]
      BY <1>2, <2>1, CopiedTyped
    <3> QED
      BY <2>2, <3>1
  <2>3. CASE desc' = close(desc, tube.in)
    BY <1>2, <2>3
  <2> QED
    BY <1>1, <2>2, <2>3
<1>5. \A d \in Fds : desc'[d] = IF d = tube.in THEN FREE ELSE t[d]
  BY <1>4, ClosedTyped
<1>6. /\ desc'[0] = desc[0] \/ desc'[0] = "input"
      /\ \A d \in Reserved : d # 0 => desc'[d] = desc[d]
  BY <1>3, <1>4, <1>5, ReservedFds DEF Reserved
<1>7. Saved' /\ Standard'
  BY <1>1, <1>2, <1>6, ReservedFds DEF Saved, Standard, Reserved, AtLine
<1>8. Terminal'
  BY <1>1, <1>2, <1>6 DEF Terminal
<1>9. PipeHeld'
  BY <1>1, <1>2, <1>3, <1>4, <1>5 DEF PipeHeld, FREE
<1> QED
  BY <1>1, <1>7, <1>8, <1>9, DescriptorsKept DEF WithChild

LEMMA ReadLineKept ==
  ASSUME SInv, IInv', ReadLine
  PROVE  SInv'
<1>1. /\ desc \in Desc /\ fd \in Fds \cup {-1} /\ n \in 0 .. MaxLines - 1 /\ n' = n + 1
      /\ pc = "read"
      /\ UNCHANGED <<interactive, eof, tube, fg, at, group, table>>
  BY LineOf DEF SInv
<1>2. PICK text \in Lines : \E w, s : LineRead(text, w, s)
  BY LineOf DEF SInv
<1>3. PICK w, s : LineRead(text, w, s)
  BY <1>2
<1>4. Saved /\ Standard /\ Terminal /\ PipeHeld /\ \A c \in Children : ChildOf(c)
  BY DEF SInv
<1>5. pc' \in {"aborted", "next", "built-in", "program"}
  BY <1>3 DEF LineRead
<1>6. \A d \in Reserved : desc[d] \in {"input", "output"} /\ desc[d] # FREE
  BY <1>1, <1>4 DEF Reserved, Saved, Standard, AtLine, FREE
<1>7. \A d \in Fds : desc[d] \notin Tubes
  BY <1>1, <1>4 DEF PipeHeld, Tubes
<1>8. ASSUME tokenize(text).abort
      PROVE  Saved' /\ Standard' /\ Terminal' /\ PipeHeld' /\ (pc' = "program" => FdRight(desc)')
  <2>1. pc' = "aborted" /\ UNCHANGED <<tokens, a, fd, desc>>
    BY <1>3, <1>8 DEF LineRead, line
  <2>2. Saved' /\ Standard' /\ Terminal'
    BY <1>1, <1>4, <2>1 DEF Saved, Standard, Terminal, AtLine
  <2>3. PipeHeld'
    BY <1>7, <2>1 DEF PipeHeld, Tubes, WithChild
  <2> QED
    BY <2>1, <2>2, <2>3
<1>9. ASSUME ~tokenize(text).abort
      PROVE  Saved' /\ Standard' /\ Terminal' /\ PipeHeld' /\ (pc' = "program" => FdRight(desc)')
  <2>1. tokens' = w /\ a' = s.a /\ fd' = s.fd /\ desc' = restored(s.desc)
    BY <1>3, <1>9 DEF LineRead
  <2>2. w \in Seq(Word) /\ s \in Scanning /\ Opened(s) /\ s.desc \in Desc
    BY <1>3 DEF LineRead, Scanning
  <2>3. \A d \in Reserved : s.desc[d] = desc[d]
    BY <1>6, <2>2, ReservedFds DEF Opened
  <2>4. s.desc[saved_stdout] = "output" /\ s.desc[saved_stdin] = "input"
    BY <1>4, <2>3 DEF Saved, Reserved
  <2>5. /\ desc'[0] = "input" /\ desc'[1] = "output"
        /\ \A d \in Fds : d \notin {0, 1} => desc'[d] = s.desc[d]
    BY <2>1, <2>2, <2>4, RestoredTyped, RestoredStandard
  <2>6. \A d \in Fds : s.desc[d] = FREE => d \notin Reserved
    BY <1>6, <2>3
  <2>7. Saved'
    <3>1. fd' = fd \/ fd' = -1 \/ desc[fd'] = FREE
      BY <2>1, <2>2 DEF Opened
    <3>2. fd' \notin {saved_stdin, saved_stdout}
      BY <1>4, <1>6, <3>1, ReservedFds DEF Saved, Reserved
    <3> QED
      BY <2>4, <2>5, <3>2, ReservedFds DEF Saved, Reserved
  <2>8. Standard' /\ Terminal'
    BY <1>1, <1>4, <2>5 DEF Standard, Terminal
  <2>9. \A d \in Fds : desc'[d] \notin Tubes
    <3>1. \A d \in Fds : s.desc[d] \notin Tubes
      BY <1>7, <2>2, NotFree DEF Opened, Tubes
    <3> QED
      BY <2>5, <3>1 DEF Tubes
  <2>10. PipeHeld'
    BY <1>5, <2>9 DEF PipeHeld, Tubes, WithChild
  <2>11. FdRight(desc)'
    <3> SUFFICES ASSUME NEW i, LastOutward(IsOperator', tokens', Len(tokens'), i)
                 PROVE  IF i < Len(tokens') /\ Named(tokens'[i + 1], Files)
                        THEN fd' \in Fds \ Reserved /\ desc'[fd'] = tokens'[i + 1][1]
                        ELSE fd' = -1
      BY DEF FdRight
    <3>1. Marks(IsOperator', w)
      BY <2>1, <2>2, OperatorMarksNext
    <3>2. IF i < Len(w) THEN Result(s, w[i + 1]) ELSE s.fd = -1
      BY <1>3, <2>1, <3>1 DEF LineRead
    <3>3. CASE i < Len(w) /\ Named(w[i + 1], Files)
      <4>1. s.fd \in Fds /\ s.desc[s.fd] = w[i + 1][1] /\ desc[s.fd] = FREE
        BY <3>2, <3>3 DEF Result
      <4>2. s.fd \notin Reserved /\ s.fd \notin {0, 1}
        BY <1>6, <4>1 DEF Reserved
      <4> QED
        BY <2>1, <2>5, <3>3, <4>1, <4>2
    <3>4. CASE ~(i < Len(w) /\ Named(w[i + 1], Files))
      <4>1. s.fd = -1
        BY <3>2, <3>4 DEF Result
      <4> QED
        BY <2>1, <3>4, <4>1
    <3> QED
      BY <3>3, <3>4
  <2> QED
    BY <2>7, <2>8, <2>10, <2>11
<1>10. Saved' /\ Standard' /\ Terminal' /\ PipeHeld' /\ (pc' = "program" => FdRight(desc)')
  BY <1>8, <1>9, Zenon
<1>11. \A c \in Children : at'[c] = at[c] /\ at[c] \notin Starting \cup {"runs", "failed"}
  BY <1>1, <1>4 DEF ChildOf, WithChild
<1>12. \A c \in Children : ChildOf(c)'
  BY <1>11 DEF ChildOf
<1>13. RedirectKept'
  <2>1. n' \in Children
    BY <1>1, Bounds DEF Children
  <2>2. at'[n'] # "runs"
    BY <1>11, <2>1
  <2> QED
    BY <2>2, Zenon DEF RedirectKept
<1> QED
  BY <1>10, <1>12, <1>13 DEF SInv

LEMMA ForkKept ==
  ASSUME SInv, IInv', Fork
  PROVE  SInv'
<1>1. /\ desc \in Desc /\ n \in Children /\ pc = "program" /\ pc' = "setpgid"
      /\ UNCHANGED <<interactive, eof, n, tokens, a, fd, fg, group>>
  BY ForkOf DEF SInv
<1>2. PICK r, w, piped : Forking(r, w, piped)
  BY ForkOf DEF SInv
<1>3. Saved /\ Standard /\ Terminal /\ PipeHeld /\ FdRight(desc)
      /\ \A c \in Children : ChildOf(c)
  BY <1>1 DEF SInv
<1>4. /\ r \in Fds /\ w \in Fds /\ r # w /\ desc[r] = FREE /\ desc[w] = FREE
      /\ piped \in Desc /\ piped[r] = "tube out" /\ piped[w] = "tube in"
      /\ \A d \in Fds : d \notin {r, w} => piped[d] = desc[d]
      /\ tube'.out = r /\ tube'.in = w
      /\ desc' = close(piped, fd)
  BY <1>2 DEF Forking
<1>5. \A d \in Fds : desc'[d] = IF d = fd THEN FREE ELSE piped[d]
  <2>1. \A d \in Fds : close(piped, fd)[d] = IF d = fd THEN FREE ELSE piped[d]
    <3>1. piped \in Desc
      BY <1>4
    <3> QED
      BY <3>1, ClosedTyped
  <2>2. desc' = close(piped, fd)
    BY <1>4
  <2> QED
    BY <2>1, <2>2, Zenon
<1>6. \A d \in Reserved : desc[d] # FREE
  BY <1>1, <1>3 DEF Reserved, Saved, Standard, AtLine, FREE
<1>7. r \notin Reserved /\ w \notin Reserved /\ \A d \in Reserved : piped[d] = desc[d]
  BY <1>4, <1>6, ReservedFds
<1>8. Saved'
  BY <1>1, <1>3, <1>5, <1>7, ReservedFds DEF Saved, Reserved
<1>9. Standard' /\ Terminal'
  BY <1>1, <1>3 DEF Standard, Terminal, AtLine
<1>10. \A d \in Fds : desc[d] \notin Tubes
  BY <1>1, <1>3 DEF PipeHeld, Tubes
<1>11. \A d \in Fds : d \notin {r, w} => piped[d] \notin Tubes
  BY <1>4, <1>10
<1>12. PipeHeld'
  BY <1>1, <1>4, <1>5, <1>7, <1>11 DEF PipeHeld, Tubes, FREE
<1>13. Piped(piped)'
  <2>1. piped[1] = "output"
    BY <1>1, <1>3, <1>7 DEF Standard, Reserved, AtLine
  <2> QED
    BY <1>4, <1>11, <2>1 DEF Piped
<1>14. FdRight(piped)'
  <2>1. ASSUME fd \in Fds, desc[fd] \in Files PROVE piped[fd] = desc[fd]
    BY <1>4, <2>1, NotFree
  <2>2. ASSUME NEW i, LastOutward(IsOperator, tokens, Len(tokens), i)
        PROVE  IF i < Len(tokens) /\ Named(tokens[i + 1], Files)
               THEN fd \in Fds \ Reserved /\ piped[fd] = tokens[i + 1][1]
               ELSE fd = -1
    BY <1>3, <2>1, <2>2 DEF FdRight, Named
  <2>3. FdRight(piped)
    BY <2>2 DEF FdRight
  <2> QED
    BY <1>1, <2>3, SameMarks DEF FdRight
<1>15. \A c \in Children : at[c] \notin Starting \cup {"runs", "failed"}
  BY <1>1, <1>3 DEF ChildOf, WithChild
<1>16. \/ at' = [at EXCEPT ![n] = "forked"] /\ table' = [table EXCEPT ![n] = piped]
       \/ UNCHANGED <<at, table>>
  BY <1>2 DEF Forking
<1>17. \A c \in Children :
         \/ at'[c] = at[c]
         \/ c = n /\ at'[c] = "forked" /\ table'[c] = piped
  <2>1. at \in [Children -> {"none", "forked", "accepts", "grouped", "runs", "failed", "stopped", "gone"}]
        /\ DOMAIN table = Children
    BY DEF SInv, IInv, TypeOK
  <2> QED
    BY <1>1, <1>16, <2>1
<1>18. \A c \in Children : ChildOf(c)'
  <2> SUFFICES ASSUME NEW c \in Children PROVE ChildOf(c)'
    OBVIOUS
  <2>1. CASE at'[c] = at[c]
    BY <1>15, <2>1 DEF ChildOf
  <2>2. CASE c = n /\ at'[c] = "forked" /\ table'[c] = piped
    <3>1. Piped(table[c])' /\ FdRight(table[c])'
      BY <1>13, <1>14, <2>2 DEF Piped, FdRight
    <3>2. c = n' /\ pc' \in WithChild
      BY <1>1, <2>2 DEF WithChild
    <3> QED
      BY <3>1, <3>2, Zenon DEF ChildOf
  <2> QED
    BY <1>17, <2>1, <2>2
<1>19. RedirectKept'
  <2>1. at'[n'] # "runs"
    BY <1>1, <1>15, <1>17
  <2> QED
    BY <2>1, Zenon DEF RedirectKept
<1> QED
  BY <1>1, <1>8, <1>9, <1>12, <1>18, <1>19 DEF SInv

(* What the child does to its descriptors between fork and execv.          *)
LEMMA Redirected ==
  ASSUME NEW t \in Desc, Piped(t), FdRight(t), tokens \in Seq(Word), Redirections # {},
         tube.out \in Fds \ Reserved, tube.in \in Fds \ Reserved,
         NEW out, out = LET i == Max(Redirections) + 1
                        IN IF i <= Len(tokens) /\ Named(tokens[i], Files) THEN tokens[i][1]
                           ELSE "output"
  PROVE  /\ redirected(t) \in Desc /\ redirected(t)[1] = out /\ out \notin Tubes
         /\ redirected(t)[tube.out] = "tube out" /\ redirected(t)[tube.in] = "tube in"
         /\ \A d \in Fds \ {tube.out, tube.in} : redirected(t)[d] \notin Tubes
<1> DEFINE m == Max(Redirections)
<1>1. LastOutward(IsOperator, tokens, Len(tokens), m)
  BY LastRedirection
<1>2. m \in Nat /\ Len(tokens) \in Nat
  BY <1>1 DEF LastOutward
<1>3. m < Len(tokens) <=> m + 1 <= Len(tokens)
  <2> HIDE DEF m
  <2> QED
    BY <1>2
<1>4. 1 \in Fds /\ 1 \in Reserved
  BY ReservedFds DEF Reserved
<1>5. CASE m < Len(tokens) /\ Named(tokens[m + 1], Files)
  <2>1. fd \in Fds \ Reserved /\ t[fd] = tokens[m + 1][1] /\ out = tokens[m + 1][1] /\ out \in Files
    <3>1. out = tokens[m + 1][1]
      BY <1>3, <1>5
    <3>2. tokens[m + 1][1] \in Files
      BY <1>5 DEF Named
    <3> HIDE DEF m
    <3> QED
      BY <1>1, <1>5, <3>1, <3>2 DEF FdRight
  <2> HIDE DEF m
  <2>2. out \notin Tubes /\ out # FREE
    BY <2>1, NotFree DEF Tubes
  <2>3. fd \notin {tube.out, tube.in} /\ fd # 1 /\ fd # -1
    <3>1. fd # -1
      BY <2>1, Bounds DEF Fds
    <3> QED
      BY <1>4, <2>1, <2>2, <3>1 DEF Piped, Tubes
  <2> DEFINE v == dup2(t, fd, 1)
  <2>4. v \in Desc /\ v[1] = out /\ \A d \in Fds : d # 1 => v[d] = t[d]
    BY <2>1, <2>2, CopiedTyped
  <2>5. redirected(t) = close(v, fd)
    BY <2>3 DEF redirected
  <2> HIDE DEF v
  <2>6. redirected(t) \in Desc /\ \A d \in Fds : redirected(t)[d] = IF d = fd THEN FREE ELSE v[d]
    BY <2>4, <2>5, ClosedTyped
  <2>7. tube.out # 1 /\ tube.in # 1
    BY <1>4
  <2>8. \A d \in Fds : redirected(t)[d] = IF d = fd THEN FREE ELSE IF d = 1 THEN out ELSE t[d]
    BY <2>4, <2>6
  <2>9. redirected(t)[1] = out
    BY <1>4, <2>3, <2>8
  <2>10. redirected(t)[tube.out] = "tube out" /\ redirected(t)[tube.in] = "tube in"
    BY <2>3, <2>7, <2>8 DEF Piped
  <2>11. \A d \in Fds \ {tube.out, tube.in} : redirected(t)[d] \notin Tubes
    BY <2>2, <2>8, NotFree DEF Piped, Tubes
  <2> QED
    BY <2>2, <2>6, <2>9, <2>10, <2>11
<1>6. CASE ~(m < Len(tokens) /\ Named(tokens[m + 1], Files))
  <2>1. out = "output"
    BY <1>3, <1>6
  <2>2. fd = -1
    <3> HIDE DEF m
    <3> QED
      BY <1>1, <1>6 DEF FdRight
  <2>3. redirected(t) = t
    BY <2>2 DEF redirected
  <2> QED
    BY <2>1, <2>3 DEF Piped, Tubes
<1> QED
  BY <1>5, <1>6

LEMMA CatDescriptors ==
  ASSUME NEW t \in Desc, NEW i \in Fds \ {0}, NEW o \in Fds \ {0}, t[o] # FREE, o # i
  PROVE  LET u == close(dup2(close(t, i), o, 0), o)
         IN /\ u[0] = t[o] /\ u[o] = FREE /\ u[i] = FREE
            /\ \A d \in Fds \ {0, o, i} : u[d] = t[d]
<1> DEFINE v == close(t, i)
           x == dup2(v, o, 0)
<1>1. v \in Desc /\ \A d \in Fds : v[d] = IF d = i THEN FREE ELSE t[d]
  BY ClosedTyped
<1> HIDE DEF v
<1>2. v[o] = t[o] /\ v[o] # FREE
  BY <1>1
<1>3. x \in Desc /\ x[0] = v[o] /\ \A d \in Fds : d # 0 => x[d] = v[d]
  <2>1. v \in Desc /\ o \in Fds /\ 0 \in {0, 1}
    BY <1>1
  <2> QED
    BY <1>2, <2>1, CopiedTyped, Zenon
<1> HIDE DEF x
<1>4. \A d \in Fds : close(x, o)[d] = IF d = o THEN FREE ELSE x[d]
  BY <1>3, ClosedTyped
<1>5. 0 \in Fds
  BY Bounds DEF Fds
<1> QED
  BY <1>1, <1>2, <1>3, <1>4, <1>5 DEF v, x

LEMMA OtherDescriptors ==
  ASSUME NEW t \in Desc, NEW i \in Fds, NEW o \in Fds
  PROVE  LET u == close(close(t, o), i)
         IN \A d \in Fds : u[d] = IF d \in {o, i} THEN FREE ELSE t[d]
<1> DEFINE v == close(t, o)
<1>1. v \in Desc /\ \A d \in Fds : v[d] = IF d = o THEN FREE ELSE t[d]
  BY ClosedTyped
<1> HIDE DEF v
<1>2. \A d \in Fds : close(v, i)[d] = IF d = i THEN FREE ELSE v[d]
  BY <1>1, ClosedTyped
<1> QED
  BY <1>1, <1>2 DEF v

LEMMA CatTakes ==
  ASSUME NEW t \in Desc, NEW i \in Fds \ Reserved, NEW o \in Fds \ Reserved, o # i,
         t[o] = "tube out", \A d \in Fds \ {o, i} : t[d] \notin Tubes
  PROVE  LET u == close(dup2(close(t, i), o, 0), o)
         IN u[1] = t[1] /\ ~Holds(u) /\ \A d \in Fds : u[d] = "tube out" <=> d = 0
<1> DEFINE u == close(dup2(close(t, i), o, 0), o)
<1>1. 0 \in Reserved /\ 1 \in Reserved /\ 0 \in Fds /\ 1 \in Fds /\ 0 # 1
  BY ReservedFds DEF Reserved
<1>2. i \in Fds \ {0} /\ o \in Fds \ {0} /\ t[o] # FREE /\ 1 \in Fds \ {0, o, i}
  <2> HIDE DEF u
  <2>1. 0 \notin {o, i} /\ 1 \notin {o, i} /\ 1 \in Fds
    BY <1>1, Zenon
  <2>2. t[o] # FREE
    BY DEF FREE
  <2> QED
    BY <1>1, <2>1, <2>2, Zenon
<1>3. /\ u[0] = t[o] /\ u[o] = FREE /\ u[i] = FREE
      /\ \A d \in Fds \ {0, o, i} : u[d] = t[d]
  BY <1>2, CatDescriptors
<1> HIDE DEF u
<1>4. \A d \in Fds : d # 0 => u[d] \notin Tubes
  BY <1>3, NotFree DEF Tubes
<1>5. u[1] = t[1] /\ ~Holds(u) /\ \A d \in Fds : u[d] = "tube out" <=> d = 0
  BY <1>1, <1>2, <1>3, <1>4 DEF Holds, Tubes
<1> QED
  BY <1>5, Zenon DEF u

LEMMA OtherTakes ==
  ASSUME NEW t \in Desc, NEW i \in Fds \ Reserved, NEW o \in Fds \ Reserved, o # i,
         t[o] = "tube out", \A d \in Fds \ {o, i} : t[d] \notin Tubes
  PROVE  LET u == close(close(t, o), i)
         IN u[1] = t[1] /\ ~Holds(u) /\ \A d \in Fds : u[d] # "tube out"
<1> DEFINE u == close(close(t, o), i)
<1>1. 1 \in Fds \ {o, i}
  BY ReservedFds DEF Reserved
<1>2. \A d \in Fds : u[d] = IF d \in {o, i} THEN FREE ELSE t[d]
  BY OtherDescriptors
<1> HIDE DEF u
<1>3. u[1] = t[1] /\ \A d \in Fds : u[d] \notin Tubes
  BY <1>1, <1>2, NotFree DEF Tubes
<1>4. u[1] = t[1] /\ ~Holds(u) /\ \A d \in Fds : u[d] # "tube out"
  BY <1>3 DEF Holds, Tubes
<1> QED
  BY <1>4, Zenon DEF u

LEMMA ExecKept ==
  ASSUME SInv, IInv', NEW c \in Children, exec(c)
  PROVE  SInv'
<1> DEFINE t == redirected(table[c])
           u == IF CatFromStdin
                THEN close(dup2(close(t, tube.in), tube.out, 0), tube.out)
                ELSE close(close(t, tube.out), tube.in)
<1>1. /\ at[c] = "grouped" /\ table' = [table EXCEPT ![c] = u]
      /\ \E x \in {"gone", "runs", "failed"} : at' = [at EXCEPT ![c] = x]
      /\ UNCHANGED <<interactive, desc, eof, pc, n, tokens, a, fd, tube, fg, group>>
  BY DEF exec, line
<1>2. /\ Saved /\ Standard /\ Terminal /\ PipeHeld /\ RedirectKept
      /\ \A e \in Children : ChildOf(e)
      /\ tokens \in Seq(Word)
  BY DEF SInv, IInv
<1>3. /\ at \in [Children -> {"none", "forked", "accepts", "grouped", "runs", "failed", "stopped", "gone"}]
      /\ table \in [Children -> Desc]
  BY DEF SInv, IInv, TypeOK, Desc
<1>4. c = n /\ pc \in WithChild /\ Piped(table[c]) /\ FdRight(table[c]) /\ table[c] \in Desc
  BY <1>1, <1>2, <1>3 DEF ChildOf, Starting
<1>5. tube.out \in Fds \ Reserved /\ tube.in \in Fds \ Reserved /\ tube.out # tube.in
  BY <1>2, <1>4 DEF PipeHeld
<1> HIDE DEF t, u
<1>6. /\ at'[c] \in {"gone", "runs", "failed"} /\ table'[c] = u
      /\ \A e \in Children : e # c => at'[e] = at[e]
  BY <1>1, <1>3
<1>7. Saved' /\ Standard' /\ Terminal' /\ PipeHeld'
  BY <1>1, <1>2 DEF Saved, Standard, Terminal, PipeHeld
<1>8. ASSUME NEW e \in Children PROVE ChildOf(e)'
  <2>1. at'[e] \notin Starting
    BY <1>2, <1>4, <1>6 DEF ChildOf, Starting
  <2>2. at'[e] \in Starting \cup {"runs", "failed"} => e = n /\ pc \in WithChild
    BY <1>2, <1>4, <1>6 DEF ChildOf
  <2> QED
    BY <1>1, <2>1, <2>2 DEF ChildOf
<1>9. pc' # "program"
  BY <1>1, <1>4 DEF WithChild
<1>10. Redirections' = Redirections /\ (CatFromStdin' <=> CatFromStdin)
  BY <1>1, SameMarks DEF Redirections, CatFromStdin
<1>11. ASSUME Redirections # {}
       PROVE  /\ u[1] = (LET i == Max(Redirections) + 1
                         IN IF i <= Len(tokens) /\ Named(tokens[i], Files) THEN tokens[i][1]
                            ELSE "output")
              /\ ~Holds(u)
              /\ \A d \in Fds : u[d] = "tube out" <=> CatFromStdin /\ d = 0
  <2> DEFINE out == LET i == Max(Redirections) + 1
                    IN IF i <= Len(tokens) /\ Named(tokens[i], Files) THEN tokens[i][1]
                       ELSE "output"
  <2>1. /\ t \in Desc /\ t[1] = out
        /\ t[tube.out] = "tube out" /\ t[tube.in] = "tube in"
        /\ \A d \in Fds \ {tube.out, tube.in} : t[d] \notin Tubes
    BY <1>2, <1>4, <1>5, <1>11, Redirected DEF t
  <2> HIDE DEF out
  <2>2. tube.out \in Fds \ Reserved /\ tube.in \in Fds \ Reserved /\ tube.out # tube.in
    BY <1>5
  <2>3. u[1] = t[1] /\ ~Holds(u) /\ \A d \in Fds : u[d] = "tube out" <=> CatFromStdin /\ d = 0
    <3>1. CASE CatFromStdin
      <4>1. u = close(dup2(close(t, tube.in), tube.out, 0), tube.out)
        BY <3>1 DEF u
      <4>2. LET v == close(dup2(close(t, tube.in), tube.out, 0), tube.out)
            IN v[1] = t[1] /\ ~Holds(v) /\ \A d \in Fds : v[d] = "tube out" <=> d = 0
        BY <2>1, <2>2, CatTakes, Zenon
      <4>3. u[1] = t[1] /\ ~Holds(u) /\ \A d \in Fds : u[d] = "tube out" <=> d = 0
        BY <4>1, <4>2, Zenon
      <4> QED
        BY <3>1, <4>3
    <3>2. CASE ~CatFromStdin
      <4>1. u = close(close(t, tube.out), tube.in)
        BY <3>2 DEF u
      <4>2. u[1] = t[1] /\ ~Holds(u) /\ \A d \in Fds : u[d] # "tube out"
        BY <2>1, <2>2, <4>1, OtherTakes, Zenon
      <4> QED
        BY <3>2, <4>2
    <3> QED
      BY <3>1, <3>2
  <2>4. u[1] = out
    BY <2>1, <2>3
  <2> QED
    BY <2>3, <2>4 DEF out
<1>12. RedirectKept'
  <2>1. table'[n'] = u /\ tokens' = tokens
    BY <1>1, <1>4, <1>6
  <2> QED
    BY <1>10, <1>11, <2>1 DEF RedirectKept, Holds
<1> QED
  BY <1>7, <1>8, <1>9, <1>12 DEF SInv
-----------------------------------------------------------------------------
LEMMA SInvNext == SInv /\ IInv' /\ [Next]_vars => SInv'
<1> SUFFICES ASSUME SInv, IInv', [Next]_vars PROVE SInv'
  OBVIOUS
<1> USE DEF line, children
<1>1. Terminal /\ TypeOK /\ \A c \in Children : ChildOf(c)
  BY DEF SInv, IInv
<1>2. CASE UNCHANGED vars
  <2>1. Terminal'
    BY <1>1, <1>2 DEF vars, Terminal
  <2> QED
    BY <1>2, <2>1, CalmKept DEF vars
<1>3. CASE EndOfInput
  <2>1. Terminal'
    BY <1>1, <1>3 DEF EndOfInput, Terminal
  <2> QED
    BY <1>3, <2>1, CalmKept DEF EndOfInput, AtLine, WithChild
<1>4. CASE RunBuiltIn
  <2>1. Terminal'
    BY <1>1, <1>4 DEF RunBuiltIn, Terminal
  <2> QED
    BY <1>4, <2>1, CalmKept DEF RunBuiltIn, AtLine, WithChild
<1>5. CASE setpgid
  <2>1. Terminal'
    BY <1>1, <1>5 DEF setpgid, Terminal
  <2> QED
    BY <1>5, <2>1, CalmKept DEF setpgid, AtLine, WithChild
<1>6. CASE waitpid
  <2>1. Terminal'
    BY <1>1, <1>6 DEF waitpid, Terminal
  <2>2. \A c \in Children : at[c] \notin Starting \cup {"runs", "failed"}
    <3>1. \A c \in Children : Alive(c) => at[n] \in {"gone", "stopped"}
      BY <1>6 DEF waitpid
    <3> QED
      BY <1>1, <3>1 DEF ChildOf, Starting, Alive
  <2> QED
    BY <1>6, <2>1, <2>2, CalmKept DEF waitpid, AtLine, WithChild
<1>7. CASE Back
  <2>1. Terminal'
    BY <1>1, <1>7 DEF Back, tcsetpgrp, SHELL, Terminal
  <2> QED
    BY <1>7, <2>1, CalmKept DEF Back, AtLine, WithChild
<1>8. ASSUME NEW c \in Children, accept_signal(c) \/ setpgrp(c) \/ Exit(c) \/ Stop(c) PROVE SInv'
  <2>1. UNCHANGED <<interactive, desc, eof, pc, n, tokens, a, fd, tube, fg, table>>
    BY <1>8 DEF accept_signal, setpgrp, Exit, Stop
  <2>2. Terminal'
    BY <1>1, <2>1 DEF Terminal
  <2>3. \A e \in Children : \/ at'[e] = at[e]
                            \/ at[e] \in Starting /\ at'[e] \in Starting
                            \/ at'[e] \in {"gone", "stopped"}
    BY <1>1, <1>8 DEF TypeOK, accept_signal, setpgrp, Exit, Stop, Starting
  <2> QED
    BY <2>1, <2>2, <2>3, CalmKept
<1> QED
  BY <1>2, <1>3, <1>4, <1>5, <1>6, <1>7, <1>8, ReadLineKept, ForkKept, ForegroundKept,
     FeedKept, NextLineKept, ExecKept DEF Next, Runs, Starts

LEMMA PromptInvariance ==
  ASSUME Garbage \cap {saved_stdin, saved_stdout} = {}
  PROVE  Spec => []SInv
<1>1. Init => SInv
  BY SInvInit
<1>2. SInv /\ [Next]_vars => SInv'
  BY SInvNext, IInvNext DEF SInv
<1> QED
  BY <1>1, <1>2, PTL DEF Spec

(* The prompt finds the shell with its own input and output, in the        *)
(* foreground, and with no end of a pipe, whatever the lines before have   *)
(* redirected and their programs have done: unless the variable fd, which  *)
(* is not initialised, starts as one of the two copies that dup returned,  *)
(* and the first program's line closes it.                                 *)
THEOREM PromptIsReady ==
  ASSUME Garbage \cap {saved_stdin, saved_stdout} = {}
  PROVE  Spec => []PromptReady
<1>1. SInv => PromptReady
  <2> SUFFICES ASSUME SInv, pc = "read"
               PROVE  /\ desc[0] = "input" /\ desc[1] = "output"
                      /\ fg = SHELL
                      /\ \A d \in Fds : desc[d] \notin {"tube out", "tube in"}
    BY Zenon DEF PromptReady
  <2> QED
    BY DEF SInv, Standard, Terminal, PipeHeld, AtLine
<1> QED
  BY <1>1, PromptInvariance, PTL

(* The program of a line writes to the file that its last redirection      *)
(* names, if that could be opened, and holds no other end of the pipe than *)
(* the one cat reads from; under the same condition on fd.                 *)
THEOREM RedirectionKept ==
  ASSUME Garbage \cap {saved_stdin, saved_stdout} = {}
  PROVE  Spec => []RedirectKept
<1>1. SInv => RedirectKept
  BY DEF SInv
<1> QED
  BY <1>1, PromptInvariance, PTL
=============================================================================
