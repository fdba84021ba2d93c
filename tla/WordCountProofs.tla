--------------------------- MODULE WordCountProofs ---------------------------
(***************************************************************************)
(* The four programs, for every number of files and all texts:             *)
(*  - fwords: main's read ends of the pipes (PipeInv);                     *)
(*  - pwords: a word has one place in a list (TwinInv);                    *)
(*  - the types, and that a word that is looked up is still there (TypeInv)*)
(*  - the counts: what a list gets is what a file no longer has left, or a *)
(*    child, or a pipe (Balanced);                                         *)
(*  - the result: what becomes of each file (Fates).                       *)
(***************************************************************************)
EXTENDS WordCount, WordListProofs
Types ==
  /\ build \in Programs
  /\ pc \in {"start", "join", "merge", "sort", "exited", "failed"}
  /\ t \in Files
  /\ fd \in [Files -> Fds]
  /\ table \in [Fds -> Open \cup {FREE}]

(* There is room for the pipes that are still to come.                     *)
Room ==
  build = "fwords" /\ pc = "start" => Cardinality(FreeFds) >= 2 * (NFiles - t + 1)

(* The read ends so far are the last descriptors before the first free one *)
(* as far as main has any, so that a descriptor behind a new one is none.  *)
Behind ==
  build = "fwords" /\ pc = "start" =>
    \A f \in Files : f < t => \A d \in 0 .. fd[f] : table[d] # FREE

PipeInv == Types /\ Room /\ Behind /\ ReadEndsKept
-----------------------------------------------------------------------------
LEMMA Least ==
  ASSUME NEW S, S \subseteq Fds, S # {}
  PROVE  Lowest(S) \in S /\ \A e \in S : Lowest(S) <= e
<1>1. S \subseteq Nat
  BY FilesAssumption DEF Fds
<1>2. \E d \in S : \A e \in S : ~(<<e, d>> \in OpToRel(<, Nat))
  BY <1>1, NatLessThanWellFounded, WFMin
<1>3. \E d \in S : \A e \in S : d <= e
  <2>1. ASSUME NEW d \in Nat, NEW e \in Nat, ~(<<e, d>> \in OpToRel(<, Nat))
        PROVE  d <= e
    <3>1. ~(<<e, d>>[1] < <<e, d>>[2])
      BY <2>1, Zenon DEF OpToRel
    <3> QED
      BY <3>1
  <2> QED
    BY <1>1, <1>2, <2>1, Zenon
<1> QED
  BY <1>3, Zenon DEF Lowest

LEMMA FdsFinite ==
  ASSUME NEW S, S \subseteq Fds
  PROVE  IsFiniteSet(S) /\ Cardinality(S) \in Nat
<1>1. IsFiniteSet(Fds)
  BY FilesAssumption, FS_Interval DEF Fds
<1> QED
  BY <1>1, FS_Subset, FS_CardinalityType

LEMMA Ends ==
  /\ \A f : ReadEnd(f) # FREE /\ WriteEnd(f) # FREE /\ GIVEN # FREE
  /\ \A f, g : ReadEnd(f) # WriteEnd(g) /\ (ReadEnd(f) = ReadEnd(g) => f = g)
BY DEF ReadEnd, WriteEnd, GIVEN, FREE
-----------------------------------------------------------------------------
LEMMA Start == Init => PipeInv
<1> SUFFICES ASSUME Init PROVE PipeInv
  OBVIOUS
<1>1. Types
  BY FilesAssumption DEF Init, Types, Files, Programs, Open, Fds
<1>2. Room
  <2>1. FreeFds = Fds \ Inherited
    BY Ends DEF Init, FreeFds
  <2>2. 2 * (NFiles - t + 1) = 2 * NFiles
    BY FilesAssumption DEF Init
  <2> QED
    BY <2>1, <2>2, FilesAssumption DEF Room
<1>3. Behind /\ ReadEndsKept
  BY DEF Init, Behind, ReadEndsKept, Files
<1> QED
  BY <1>1, <1>2, <1>3 DEF PipeInv

(* The descriptors of a new pipe, and those that are free afterwards.      *)
LEMMA ForkTakes ==
  ASSUME PipeInv, fork,
         NEW r, r = Lowest(FreeFds), NEW w, w = Lowest(FreeFds \ {r})
  PROVE  /\ r \in Fds /\ w \in Fds /\ table[r] = FREE /\ r < w
         /\ \A d \in Fds : d < r => table[d] # FREE
         /\ fd' = [fd EXCEPT ![t] = r]
         /\ table' \in [Fds -> Open \cup {FREE}]
         /\ table'[r] = ReadEnd(t)
         /\ \A d \in Fds : d < r => table'[d] = table[d]
         /\ Cardinality(FreeFds') >= Cardinality(FreeFds) - 2
<1>1. build = "fwords" /\ pc = "start" /\ t \in Files /\ t <= NFiles /\ NFiles \in Nat /\ t \in Nat
  BY FilesAssumption DEF fork, PipeInv, Types, Files
<1>2. FreeFds \subseteq Fds /\ Cardinality(FreeFds) \in Nat /\ IsFiniteSet(FreeFds)
  BY FdsFinite DEF FreeFds
<1>3. Cardinality(FreeFds) >= 2
  BY <1>1, <1>2 DEF PipeInv, Room
<1>4. r \in FreeFds /\ \A e \in FreeFds : r <= e
  <2>1. FreeFds # {}
    BY <1>3, FS_EmptySet
  <2> QED
    BY <1>2, <2>1, Least
<1>5. /\ IsFiniteSet(FreeFds \ {r})
      /\ Cardinality(FreeFds \ {r}) = Cardinality(FreeFds) - 1
  BY <1>2, <1>4, FS_RemoveElement
<1>6. w \in FreeFds \ {r}
  <2>1. FreeFds \ {r} # {}
    BY <1>2, <1>3, <1>5, FS_EmptySet
  <2> QED
    BY <1>2, <2>1, Least
<1>7. /\ IsFiniteSet((FreeFds \ {r}) \ {w})
      /\ Cardinality((FreeFds \ {r}) \ {w}) = Cardinality(FreeFds) - 2
  <2>1. Cardinality((FreeFds \ {r}) \ {w}) = Cardinality(FreeFds \ {r}) - 1
    BY <1>5, <1>6, FS_RemoveElement
  <2> QED
    BY <1>2, <1>5, <2>1, FS_RemoveElement
<1>8. r \in Fds /\ w \in Fds /\ table[r] = FREE /\ r < w /\ r \in Nat /\ Fds \subseteq Nat
  BY <1>2, <1>4, <1>6, FilesAssumption DEF Fds, FreeFds
<1>9. \A d \in Fds : d < r => table[d] # FREE
  BY <1>4, <1>8 DEF FreeFds
<1> DEFINE piped == [table EXCEPT ![r] = ReadEnd(t), ![w] = WriteEnd(t)]
<1>10. fd' = [fd EXCEPT ![t] = r] /\ table' = [piped EXCEPT ![r + 1] = FREE]
  BY DEF fork, closed_by_main
<1>11. table \in [Fds -> Open \cup {FREE}] /\ ReadEnd(t) \in Open /\ WriteEnd(t) \in Open
  BY <1>1 DEF PipeInv, Types, Open
<1>12. table' \in [Fds -> Open \cup {FREE}]
  BY <1>10, <1>11
<1>13. table'[r] = ReadEnd(t) /\ \A d \in Fds : d < r => table'[d] = table[d]
  BY <1>8, <1>10, <1>11
<1>14. (FreeFds \ {r}) \ {w} \subseteq FreeFds'
  BY <1>10, <1>11 DEF FreeFds
<1>15. Cardinality(FreeFds') >= Cardinality((FreeFds \ {r}) \ {w})
  <2>1. FreeFds' \subseteq Fds
    BY DEF FreeFds
  <2>2. IsFiniteSet(FreeFds')
    BY <2>1, FdsFinite
  <2> QED
    BY <1>7, <1>14, <2>1, <2>2, FS_Subset, FdsFinite
<1> QED
  BY <1>7, <1>8, <1>9, <1>10, <1>12, <1>13, <1>15

LEMMA ForkKeeps ==
  ASSUME PipeInv, fork, UNCHANGED build
  PROVE  PipeInv'
<1> DEFINE r == Lowest(FreeFds)
<1>1. /\ build = "fwords" /\ pc = "start" /\ t \in Files /\ t <= NFiles
      /\ NFiles \in Nat \ {0} /\ t \in Nat /\ Files = 1 .. NFiles
      /\ \/ t < NFiles /\ t' = t + 1 /\ pc' = "start"
         \/ t = NFiles /\ t' = 1 /\ pc' = "merge"
  BY FilesAssumption DEF fork, PipeInv, Types, Files, Continue
<1>2. /\ r \in Fds /\ table[r] = FREE
      /\ \A d \in Fds : d < r => table[d] # FREE
      /\ fd' = [fd EXCEPT ![t] = r]
      /\ table' \in [Fds -> Open \cup {FREE}]
      /\ table'[r] = ReadEnd(t)
      /\ \A d \in Fds : d < r => table'[d] = table[d]
      /\ Cardinality(FreeFds') >= Cardinality(FreeFds) - 2
  BY ForkTakes
<1> HIDE DEF r
<1>3. fd \in [Files -> Fds] /\ Fds = 0 .. MaxFd /\ MaxFd \in Nat
  BY FilesAssumption DEF PipeInv, Types, Fds
<1>4. Types'
  BY <1>1, <1>2, <1>3 DEF PipeInv, Types
<1>5. Room'
  <2>1. Cardinality(FreeFds) \in Nat /\ Cardinality(FreeFds') \in Nat
    BY FdsFinite DEF FreeFds
  <2> QED
    BY <1>1, <1>2, <2>1 DEF PipeInv, Room
<1>6. ASSUME NEW f \in Files, f < t
      PROVE  fd'[f] = fd[f] /\ fd[f] < r /\ table'[fd[f]] = ReadEnd(f)
  <2>1. fd'[f] = fd[f] /\ fd[f] \in Fds
    BY <1>1, <1>2, <1>3, <1>6
  <2>2. \A d \in 0 .. fd[f] : table[d] # FREE
    BY <1>1, <1>6 DEF PipeInv, Behind
  <2>3. fd[f] < r
    BY <1>2, <1>3, <2>1, <2>2
  <2>4. table[fd[f]] = ReadEnd(f)
    BY <1>1, <1>6 DEF PipeInv, ReadEndsKept
  <2> QED
    BY <1>2, <2>1, <2>3, <2>4
<1>7. fd'[t] = r
  BY <1>1, <1>2, <1>3
<1>8. Behind'
  <2> SUFFICES ASSUME pc' = "start", NEW f \in Files, f < t', NEW d \in 0 .. fd'[f]
               PROVE  table'[d] # FREE
    BY DEF Behind
  <2>1. t' = t + 1
    BY <1>1
  <2>2. CASE f = t
    <3>1. CASE d = r
      BY <1>2, <3>1, Ends
    <3>2. CASE d < r
      BY <1>2, <1>3, <3>2
    <3> QED
      BY <1>2, <1>3, <1>7, <2>2, <3>1, <3>2
  <2>3. CASE f < t
    <3>1. fd'[f] = fd[f] /\ fd[f] < r /\ fd[f] \in Fds
      BY <1>3, <1>6, <2>3
    <3>2. d \in Fds /\ d < r
      BY <1>2, <1>3, <3>1
    <3> QED
      BY <1>2, <3>2
  <2> QED
    BY <1>1, <2>1, <2>2, <2>3
<1>9. ReadEndsKept'
  <2>1. ASSUME NEW f \in Files, f <= t
        PROVE  table'[fd'[f]] = ReadEnd(f)
    <3>1. f < t \/ f = t
      BY <1>1, <2>1
    <3> QED
      BY <1>2, <1>6, <1>7, <3>1
  <2> QED
    BY <1>1, <2>1 DEF ReadEndsKept
<1> QED
  BY <1>4, <1>5, <1>8, <1>9 DEF PipeInv

LEMMA EndKeeps ==
  ASSUME PipeInv, end_of_counts, UNCHANGED build
  PROVE  PipeInv'
<1>1. /\ pc = "merge" /\ t \in Files /\ Files = 1 .. NFiles /\ NFiles \in Nat \ {0} /\ fd' = fd
      /\ table' = [table EXCEPT ![fd[t]] = FREE]
      /\ \/ t < NFiles /\ t' = t + 1 /\ pc' = "merge"
         \/ t' = 1 /\ pc' = "sort"
  BY FilesAssumption DEF end_of_counts, PipeInv, Types, Files, Continue
<1>2. fd \in [Files -> Fds] /\ table \in [Fds -> Open \cup {FREE}]
  BY DEF PipeInv, Types
<1>3. Types'
  BY <1>1, <1>2 DEF PipeInv, Types
<1>4. Room' /\ Behind'
  BY <1>1 DEF Room, Behind
<1>5. ReadEndsKept'
  <2> SUFFICES ASSUME build = "fwords", pc' = "merge", NEW f \in Files, f >= t'
               PROVE  table'[fd'[f]] = ReadEnd(f)
    BY <1>1 DEF ReadEndsKept
  <2>1. f > t /\ t' = t + 1
    BY <1>1
  <2>2. table[fd[f]] = ReadEnd(f) /\ table[fd[t]] = ReadEnd(t)
    BY <1>1, <2>1 DEF PipeInv, ReadEndsKept
  <2>3. fd[f] # fd[t]
    BY <1>1, <2>1, <2>2, Ends
  <2> QED
    BY <1>1, <1>2, <2>2, <2>3
<1> QED
  BY <1>3, <1>4, <1>5 DEF PipeInv

(* Everything else leaves the descriptors of main alone.                   *)
LEMMA OthersKeep ==
  ASSUME PipeInv, UNCHANGED <<build, fd, table>>,
         pc' \in {"start", "join", "merge", "sort", "exited", "failed"}, t' \in Files,
         build # "fwords" \/ UNCHANGED <<pc, t>> \/ pc' = "exited"
  PROVE  PipeInv'
BY DEF PipeInv, Types, Room, FreeFds, Behind, ReadEndsKept

LEMMA Step ==
  ASSUME PipeInv, [Next]_vars
  PROVE  PipeInv'
<1>1. /\ t \in Files /\ t + 1 \in Nat /\ Files = 1 .. NFiles /\ NFiles \in Nat \ {0}
      /\ pc \in {"start", "join", "merge", "sort", "exited", "failed"}
  BY FilesAssumption DEF PipeInv, Types, Files
<1>2. CASE fork /\ Constant
  BY <1>2, ForkKeeps DEF Constant
<1>3. CASE end_of_counts /\ Constant
  BY <1>3, EndKeeps DEF Constant
<1>4. CASE (fopen \/ fclose \/ pthread_create \/ pthread_join) /\ Constant
  <2>1. build # "fwords" /\ UNCHANGED <<build, fd, table>>
    BY <1>4 DEF fopen, fclose, pthread_create, pthread_join, Constant, processes
  <2>2. pc' \in {"start", "join", "merge", "sort", "exited", "failed"} /\ t' \in Files
    BY <1>1, <1>4 DEF fopen, fclose, pthread_create, pthread_join, Continue
  <2> QED
    BY <2>1, <2>2, OthersKeep
<1>5. CASE (merge_counts \/ print_sorted) /\ Constant
  <2>1. UNCHANGED <<build, fd, table>> /\ (UNCHANGED <<pc, t>> \/ pc' = "exited") /\ t' = t
    BY <1>5 DEF merge_counts, print_sorted, Constant, processes
  <2> QED
    BY <1>1, <2>1, OthersKeep
<1>6. CASE \E f \in Files : Reader(f)
  <2>1. UNCHANGED <<build, fd, table, pc, t>>
    BY <1>6 DEF Reader, Constant, processes, Skip, add_word, add_word_lock, add_word_find,
                add_word_update, add_word_unlock, pthread_exit, child_fopen,
                child_add_word, fprint_words, child_exit
  <2> QED
    BY <1>1, <2>1, OthersKeep
<1>7. CASE UNCHANGED vars
  BY <1>1, <1>7, OthersKeep DEF vars, processes
<1> QED
  BY <1>2, <1>3, <1>4, <1>5, <1>6, <1>7 DEF Next, Main

(* However many files there are and whatever descriptors are open at the   *)
(* start: fwords.c closes none of the pipes that it still has to read.     *)
THEOREM ReadEnds == Spec => []ReadEndsKept
<1>1. PipeInv => ReadEndsKept
  BY DEF PipeInv
<1> QED
  BY <1>1, Start, Step, PTL DEF Spec
-----------------------------------------------------------------------------
(* All four programs: a list has each word in one place.                   *)
Lists ==
  /\ IsList(word_counts) /\ Single(word_counts)
  /\ DOMAIN own = Files
  /\ \A f \in Files : IsList(own[f]) /\ Single(own[f])

(* Who looks a word up in pwords has the lock until it has used the        *)
(* result, and nobody else changes the list in the meantime.               *)
LookUp ==
  /\ DOMAIN at = Files /\ DOMAIN left = Files /\ DOMAIN res = Files
  /\ pc = "merge" => build = "fwords"
  /\ \A f \in Files :
       /\ at[f] \in {"locked", "found", "unlock"} => build = "pwords" /\ lock = f
       /\ at[f] = "found" => res[f] = find_word(word_counts, Head(left[f]))

TwinInv == pc # "exited" => LookUp /\ Lists

LEMMA AddKeeps ==
  ASSUME NEW s, IsList(s), Single(s), NEW v, NEW c, NEW b
  PROVE  IsList(add(s, find_word(s, v), v, c, b)) /\ Single(add(s, find_word(s, v), v, c, b))
<1> DEFINE i == find_word(s, v)
           x == [word |-> v, count |-> c]
<1>1. PICK W, C : s \in Seq([word : W, count : C])
  BY DEF IsList
<1> DEFINE V == W \cup {v}
           D == C \cup {c} \cup {s[k].count + c : k \in DOMAIN s}
           R == [word : V, count : D]
<1>2. s \in Seq(R) /\ x \in R
  BY <1>1, SeqMonotonic
<1>3. Len(s) \in Nat /\ DOMAIN s = 1 .. Len(s) /\ \A k \in DOMAIN s : s[k] \in R
  <2> HIDE DEF R
  <2> QED
    BY <1>2, LenProperties, ElementOfSeq
<1>4. \A q \in Seq(R) : IsList(q)
  <2> HIDE DEF V, D
  <2> QED
    BY Zenon DEF IsList
<1>5. CASE i = 0
  <2>1. \A k \in DOMAIN s : s[k].word # v
    BY <1>5, FindWord
  <2>2. CASE b = "words"
    <3>1. add(s, i, v, c, b) = <<x>> \o s
      BY <1>5, <2>2 DEF add, insert
    <3>2. <<x>> \in Seq(R) /\ Len(<<x>>) = 1 /\ <<x>>[1] = x
      BY <1>2
    <3> HIDE DEF R, x
    <3>3. /\ <<x>> \o s \in Seq(R) /\ Len(<<x>> \o s) = 1 + Len(s)
          /\ \A k \in 1 .. 1 + Len(s) : (<<x>> \o s)[k] = IF k <= 1 THEN <<x>>[k] ELSE s[k - 1]
      BY <1>2, <3>2, ConcatProperties
    <3>4. DOMAIN (<<x>> \o s) = 1 .. 1 + Len(s)
      BY <3>3, LenProperties
    <3>5. /\ (<<x>> \o s)[1] = x
          /\ \A k \in 2 .. 1 + Len(s) : (<<x>> \o s)[k] = s[k - 1] /\ k - 1 \in DOMAIN s
      BY <1>3, <3>2, <3>3
    <3>6. x.word = v
      BY DEF x
    <3>7. Single(<<x>> \o s)
      BY <1>3, <2>1, <3>4, <3>5, <3>6 DEF Single
    <3> QED
      BY <1>4, <3>1, <3>3, <3>7, Zenon
  <2>3. CASE b # "words"
    <3>1. add(s, i, v, c, b) = Append(s, x)
      BY <1>5, <2>3 DEF add, insert
    <3>2. x.word = v
      OBVIOUS
    <3> HIDE DEF R, x
    <3>3. /\ Append(s, x) \in Seq(R) /\ Len(Append(s, x)) = Len(s) + 1
          /\ \A k \in 1 .. Len(s) : Append(s, x)[k] = s[k]
          /\ Append(s, x)[Len(s) + 1] = x
      BY <1>2, AppendProperties
    <3>4. DOMAIN Append(s, x) = 1 .. Len(s) + 1
      BY <3>3, LenProperties
    <3>5. Single(Append(s, x))
      BY <1>3, <2>1, <3>2, <3>3, <3>4 DEF Single
    <3> QED
      BY <1>4, <3>1, <3>3, <3>5, Zenon
  <2> QED
    BY <2>2, <2>3
<1>6. CASE i # 0
  <2> DEFINE y == [s[i] EXCEPT !.count = @ + c]
  <2>1. i \in DOMAIN s /\ s[i].word = v
    BY <1>6, FindWord
  <2>2. add(s, i, v, c, b) = [s EXCEPT ![i] = y]
    BY <1>6 DEF add
  <2>3. y \in R /\ y.word = v
    BY <1>1, <1>3, <2>1
  <2> HIDE DEF i, y, R
  <2>4. [s EXCEPT ![i] = y] \in Seq(R)
    BY <1>2, <1>3, <2>1, <2>3, ExceptSeq
  <2>5. /\ DOMAIN [s EXCEPT ![i] = y] = DOMAIN s
        /\ \A k \in DOMAIN s : [s EXCEPT ![i] = y][k].word = s[k].word
    BY <2>1, <2>3
  <2>6. Single([s EXCEPT ![i] = y])
    BY <2>5 DEF Single
  <2> QED
    BY <1>4, <2>2, <2>4, <2>6, Zenon DEF i
<1> QED
  BY <1>5, <1>6

LEMMA TailKeeps ==
  ASSUME NEW s, IsList(s), Single(s), s # <<>>
  PROVE  IsList(Tail(s)) /\ Single(Tail(s))
<1>1. PICK W, C : s \in Seq([word : W, count : C])
  BY DEF IsList
<1> DEFINE R == [word : W, count : C]
<1> HIDE DEF R
<1>2. s \in Seq(R)
  BY <1>1 DEF R
<1>3. /\ Tail(s) \in Seq(R) /\ Len(Tail(s)) = Len(s) - 1
      /\ \A i \in 1 .. Len(Tail(s)) : Tail(s)[i] = s[i + 1]
  BY <1>2, HeadTailProperties
<1>4. DOMAIN Tail(s) = 1 .. Len(s) - 1 /\ DOMAIN s = 1 .. Len(s) /\ Len(s) \in Nat
  BY <1>2, <1>3, LenProperties
<1>5. Single(Tail(s))
  BY <1>3, <1>4 DEF Single
<1> QED
  BY <1>3, <1>5 DEF IsList, R

LEMMA TwinStart == Init => TwinInv
<1> SUFFICES ASSUME Init PROVE TwinInv
  OBVIOUS
<1>1. LookUp
  BY DEF Init, LookUp
<1>2. IsList(<<>>) /\ Single(<<>>)
  <2>1. <<>> \in Seq([word : {}, count : {}])
    OBVIOUS
  <2> QED
    BY <2>1 DEF IsList, Single
<1>3. Lists
  BY <1>2 DEF Init, Lists
<1> QED
  BY <1>1, <1>3 DEF TwinInv

(* What main does to the lists: words of a file it reads itself, and the   *)
(* lines of a pipe.                                                        *)
LEMMA MainKeepsLists ==
  ASSUME TwinInv, Main
  PROVE  TwinInv'
<1> USE DEF Constant
<1>1. pc # "exited" /\ pc # "failed" /\ Lists /\ LookUp
  BY DEF Main, Running, TwinInv
<1>2. CASE fopen
  BY <1>1, <1>2 DEF fopen, TwinInv, LookUp, Lists, Main, locals, processes
<1>3. CASE fclose
  BY <1>1, <1>3 DEF fclose, Continue, TwinInv, LookUp, Lists, Main, locals, processes
<1>4. CASE pthread_create
  BY <1>1, <1>4 DEF pthread_create, Continue, TwinInv, LookUp, Lists, Main, locals, processes
<1>5. CASE pthread_join
  BY <1>1, <1>5 DEF pthread_join, Continue, TwinInv, LookUp, Lists, Main, files, locals, processes
<1>6. CASE fork
  BY <1>1, <1>6 DEF fork, Continue, TwinInv, LookUp, Lists, Main, locals
<1>7. CASE merge_counts
  <2>1. build = "fwords" /\ build' = build
    BY <1>1, <1>7 DEF merge_counts, LookUp, Main
  <2>2. LookUp'
    BY <1>1, <1>7, <2>1 DEF merge_counts, LookUp, files, locals
  <2>3. IsList(word_counts') /\ Single(word_counts')
    BY <1>1, <1>7, AddKeeps DEF merge_counts, Lists, add_word_with_count
  <2> QED
    BY <1>1, <1>7, <2>2, <2>3 DEF merge_counts, TwinInv, Lists
<1>8. CASE end_of_counts
  BY <1>1, <1>8 DEF end_of_counts, Continue, TwinInv, LookUp, Lists, Main, files, locals
<1>9. CASE print_sorted
  BY <1>9 DEF print_sorted, TwinInv
<1> QED
  BY <1>2, <1>3, <1>4, <1>5, <1>6, <1>7, <1>8, <1>9 DEF Main

(* What a thread or a child does.                                          *)
LEMMA ReaderKeepsLists ==
  ASSUME TwinInv, NEW f \in Files, Reader(f)
  PROVE  TwinInv'
<1> USE DEF Constant
<1>1. pc # "exited" /\ Lists /\ LookUp
  BY DEF Reader, Running, TwinInv
<1>2. build' = build
  BY DEF Reader
<1>3. CASE Skip(f)
  BY <1>1, <1>2, <1>3 DEF Skip, TwinInv, LookUp, Lists, locals, processes
<1>4. CASE add_word(f)
  <2>1. LookUp'
    BY <1>1, <1>2, <1>4 DEF add_word, LookUp, locals
  <2>2. IsList(word_counts') /\ Single(word_counts')
    BY <1>1, <1>4, AddKeeps DEF add_word, Lists, add_word_with_count
  <2> QED
    BY <1>1, <1>4, <2>1, <2>2 DEF add_word, TwinInv, Lists, processes
<1>5. CASE add_word_lock(f)
  BY <1>1, <1>2, <1>5 DEF add_word_lock, Files, TwinInv, LookUp, Lists, processes
<1>6. CASE add_word_find(f)
  BY <1>1, <1>2, <1>6 DEF add_word_find, TwinInv, LookUp, Lists, processes
<1>7. CASE add_word_update(f)
  <2>1. res[f] = find_word(word_counts, Head(left[f])) /\ lock = f /\ build = "pwords"
    BY <1>1, <1>7 DEF add_word_update, LookUp
  <2>2. LookUp'
    BY <1>1, <1>2, <1>7, <2>1 DEF add_word_update, LookUp, locals
  <2>3. IsList(word_counts') /\ Single(word_counts')
    BY <1>1, <1>7, <2>1, AddKeeps DEF add_word_update, Lists
  <2> QED
    BY <1>1, <1>7, <2>2, <2>3 DEF add_word_update, TwinInv, Lists, processes
<1>8. CASE add_word_unlock(f)
  BY <1>1, <1>2, <1>8 DEF add_word_unlock, TwinInv, LookUp, Lists, processes
<1>9. CASE pthread_exit(f)
  BY <1>1, <1>2, <1>9 DEF pthread_exit, TwinInv, LookUp, Lists, locals, processes
<1>10. CASE child_fopen(f)
  BY <1>1, <1>2, <1>10 DEF child_fopen, ExitChild, TwinInv, LookUp, Lists, locals
<1>11. CASE child_add_word(f)
  <2>1. LookUp'
    BY <1>1, <1>2, <1>11 DEF child_add_word, LookUp, locals
  <2>2. IsList(own'[f]) /\ Single(own'[f])
    BY <1>1, <1>11, AddKeeps DEF child_add_word, Lists, add_word_with_count
  <2> QED
    BY <1>1, <1>11, <2>1, <2>2 DEF child_add_word, TwinInv, Lists
<1>12. CASE fprint_words(f)
  <2>1. LookUp'
    BY <1>1, <1>2, <1>12 DEF fprint_words, LookUp, files, locals
  <2>2. IsList(own'[f]) /\ Single(own'[f])
    BY <1>1, <1>12, TailKeeps DEF fprint_words, Lists
  <2> QED
    BY <1>1, <1>12, <2>1, <2>2 DEF fprint_words, TwinInv, Lists
<1>13. CASE child_exit(f)
  BY <1>1, <1>2, <1>13 DEF child_exit, ExitChild, TwinInv, LookUp, Lists, locals
<1> QED
  BY <1>3, <1>4, <1>5, <1>6, <1>7, <1>8, <1>9, <1>10, <1>11, <1>12, <1>13 DEF Reader

LEMMA TwinStep == TwinInv /\ [Next]_vars => TwinInv'
<1> SUFFICES ASSUME TwinInv, [Next]_vars PROVE TwinInv'
  OBVIOUS
<1>1. CASE UNCHANGED vars
  BY <1>1 DEF vars, files, locals, processes, TwinInv, LookUp, Lists
<1> QED
  BY <1>1, MainKeepsLists, ReaderKeepsLists DEF Next
-----------------------------------------------------------------------------
(* Types.  A thread that has looked a word up still has it.                *)
Stages == {"none", "open", "read", "locked", "found", "unlock", "done"}

WordLists == Seq(Seq(Letters))

Descriptors == [Fds -> Open \cup {FREE}]

Rest ==
  /\ text \in [Files -> Texts]
  /\ word_counts \in Seq(Entry)
  /\ at \in [Files -> Stages]
  /\ left \in [Files -> WordLists]
  /\ unread \subseteq Files
  /\ lock \in Files \cup {0}
  /\ res \in [Files -> 0 .. Len(word_counts)]
  /\ own \in [Files -> Seq(Entry)]
  /\ tables \in [Files -> Descriptors]
  /\ pipe \in [Files -> Seq(Entry)]

Holding == \A f \in Files : at[f] \in {"locked", "found"} => IsWord(f)

TypeInv == Rest /\ Holding

LEMMA TypesTogether == TypeOK <=> Types /\ Rest
BY DEF TypeOK, Types, Rest, Stages, WordLists, Letters, Descriptors

LEMMA NextWord ==
  ASSUME TypeInv, NEW f \in Files, left[f] # <<>>
  PROVE  /\ Tail(left[f]) \in WordLists
         /\ Head(left[f]) \in Seq(Letters)
         /\ IsWord(f) => Head(left[f]) \in Word
<1>1. left[f] \in Seq(Seq(Letters))
  BY DEF TypeInv, Rest, WordLists
<1>2. Tail(left[f]) \in Seq(Seq(Letters)) /\ Head(left[f]) \in Seq(Letters)
  BY <1>1, HeadTailProperties
<1>3. IsWord(f) => Head(left[f]) \in Word
  BY <1>2 DEF IsWord, Word, Letters
<1> QED
  BY <1>2, <1>3 DEF WordLists

LEMMA TypeStart == Init => TypeInv
<1> SUFFICES ASSUME Init PROVE TypeInv
  OBVIOUS
<1>1. left \in [Files -> WordLists]
  <2>1. \A f \in Files : get_words(text[f]) \in WordLists
    <3>1. ASSUME NEW f \in Files PROVE text[f] \in Seq(Int)
      BY FilesAssumption DEF Init
    <3> QED
      BY <3>1, Lexed DEF WordLists
  <2> QED
    BY <2>1 DEF Init
<1>2. <<>> \in Seq(Entry) /\ Len(<<>>) = 0
  BY EmptySeq
<1>3. tables \in [Files -> Descriptors]
  BY DEF Init, Descriptors
<1>4. res \in [Files -> 0 .. Len(word_counts)]
  BY <1>2 DEF Init
<1>5. Rest
  BY <1>1, <1>2, <1>3, <1>4 DEF Init, Rest, Stages
<1>6. Holding
  BY DEF Init, Holding
<1> QED
  BY <1>5, <1>6 DEF TypeInv

(* What main does.                                                         *)
LEMMA MainTyped ==
  ASSUME TypeInv, PipeInv, Main
  PROVE  TypeInv'
<1>1. t \in Files /\ text' = text /\ build' = build
  BY DEF PipeInv, Types, Main, Constant
<1>2. Rest /\ Holding
  BY DEF TypeInv
<1>3. CASE fopen \/ fclose \/ pthread_create
  <2>1. UNCHANGED <<word_counts, left, locals, processes>>
    BY <1>3 DEF fopen, fclose, pthread_create
  <2>2. at' = at \/ at' = [at EXCEPT ![t] = "read"] \/ at' = [at EXCEPT ![t] = "done"]
    BY <1>3 DEF fopen, fclose, pthread_create
  <2>3. unread' \subseteq Files
    BY <1>1, <1>2, <1>3 DEF fopen, fclose, pthread_create, Rest
  <2>4. at' \in [Files -> Stages]
    BY <1>2, <2>2 DEF Rest, Stages
  <2>5. Rest'
    BY <1>1, <1>2, <2>1, <2>3, <2>4 DEF Rest, locals, processes
  <2>6. Holding'
    BY <1>2, <2>1, <2>2 DEF Holding, IsWord, Rest
  <2> QED
    BY <2>5, <2>6 DEF TypeInv
<1>4. CASE pthread_join \/ end_of_counts
  BY <1>1, <1>2, <1>4 DEF pthread_join, end_of_counts, files, locals, processes, TypeInv, Rest, Holding, IsWord
<1>5. CASE fork
  <2> DEFINE r == Lowest(FreeFds)
             w == Lowest(FreeFds \ {r})
             piped == [table EXCEPT ![r] = ReadEnd(t), ![w] = WriteEnd(t)]
  <2>1. piped \in Descriptors /\ [piped EXCEPT ![r] = FREE] \in Descriptors
    BY <1>1 DEF PipeInv, Types, Descriptors, Open
  <2>2. tables' = tables \/ tables' = [tables EXCEPT ![t] = [piped EXCEPT ![r] = FREE]]
    BY <1>5 DEF fork
  <2> HIDE DEF piped
  <2>3. tables' \in [Files -> Descriptors]
    BY <1>2, <2>1, <2>2 DEF Rest
  <2>4. UNCHANGED <<word_counts, left, locals, own, pipe>>
    BY <1>5 DEF fork
  <2>5. at' = [at EXCEPT ![t] = "open"] \/ at' = [at EXCEPT ![t] = "done"]
    BY <1>5 DEF fork
  <2>6. unread' \subseteq Files
    BY <1>1, <1>2, <1>5 DEF fork, Rest
  <2>7. at' \in [Files -> Stages]
    BY <1>2, <2>5 DEF Rest, Stages
  <2>8. Rest'
    BY <1>1, <1>2, <2>3, <2>4, <2>6, <2>7 DEF Rest, locals
  <2>9. Holding'
    BY <1>2, <2>4, <2>5 DEF Holding, IsWord, Rest
  <2> QED
    BY <2>8, <2>9 DEF TypeInv
<1>6. CASE merge_counts
  <2> DEFINE line == Head(pipe[t])
             s == word_counts
  <2>1. pipe[t] \in Seq(Entry) /\ pipe[t] # <<>> /\ s \in Seq(Entry)
    BY <1>1, <1>2, <1>6 DEF merge_counts, Rest
  <2>2. line \in Entry /\ Tail(pipe[t]) \in Seq(Entry)
    BY <2>1, HeadTailProperties
  <2>3. line.word \in Word /\ line.count \in Nat \ {0}
    BY <2>2, EntryIs
  <2>4. word_counts' = add(s, find_word(s, line.word), line.word, line.count, build)
    BY <1>6 DEF merge_counts, add_word_with_count
  <2> HIDE DEF line, s
  <2>5. word_counts' \in Seq(Entry) /\ Len(word_counts') >= Len(s)
    BY <2>1, <2>3, <2>4, FindRange, AddTyped
  <2>6. res' \in [Files -> 0 .. Len(word_counts')]
    <3>1. res' = res /\ res \in [Files -> 0 .. Len(s)]
      BY <1>2, <1>6 DEF merge_counts, locals, Rest, s
    <3>2. Len(s) \in Nat /\ Len(word_counts') \in Nat
      BY <2>1, <2>5, LenProperties
    <3>3. \A f \in Files : res[f] \in 0 .. Len(word_counts')
      BY <2>5, <3>1, <3>2
    <3> QED
      BY <3>1, <3>3
  <2>7. pipe' \in [Files -> Seq(Entry)]
    BY <1>2, <1>6, <2>2 DEF merge_counts, Rest
  <2>8. Rest'
    BY <1>1, <1>2, <1>6, <2>5, <2>6, <2>7 DEF merge_counts, Rest, locals, files
  <2>9. Holding'
    BY <1>2, <1>6 DEF merge_counts, Holding, IsWord, files
  <2> QED
    BY <2>8, <2>9 DEF TypeInv
<1>7. CASE print_sorted
  <2>1. word_counts' \in Seq(Entry) /\ Len(word_counts') = Len(word_counts)
    BY <1>2, <1>7, SortIs, ArrangedSame DEF print_sorted, Rest
  <2>2. Rest'
    BY <1>1, <1>2, <1>7, <2>1 DEF print_sorted, Rest, locals, files, processes
  <2>3. Holding'
    BY <1>2, <1>7 DEF print_sorted, Holding, IsWord, files
  <2> QED
    BY <2>2, <2>3 DEF TypeInv
<1> QED
  BY <1>3, <1>4, <1>5, <1>6, <1>7 DEF Main

(* A longer list still has what was found in it.                           *)
LEMMA ResTyped ==
  ASSUME TypeInv, NEW s \in Seq(Entry), Len(s) >= Len(word_counts)
  PROVE  res \in [Files -> 0 .. Len(s)]
<1>1. res \in [Files -> 0 .. Len(word_counts)] /\ word_counts \in Seq(Entry)
  BY DEF TypeInv, Rest
<1>2. Len(s) \in Nat /\ Len(word_counts) \in Nat
  BY <1>1, LenProperties
<1>3. \A f \in Files : res[f] \in 0 .. Len(s)
  BY <1>1, <1>2
<1> QED
  BY <1>1, <1>3

(* What a thread or a child does.                                          *)
LEMMA ReaderTyped ==
  ASSUME TypeInv, PipeInv, NEW f \in Files, Reader(f)
  PROVE  TypeInv'
<1>1. text' = text /\ build' = build
  BY DEF Reader, Constant
<1>2. Rest /\ Holding /\ word_counts \in Seq(Entry)
  BY DEF TypeInv, Rest
<1>3. CASE Skip(f)
  <2>1. Tail(left[f]) \in WordLists /\ at[f] = "read"
    BY <1>3, NextWord DEF Skip
  <2>2. Rest'
    BY <1>1, <1>2, <1>3, <2>1 DEF Skip, Rest, locals, processes
  <2>3. Holding'
    BY <1>2, <1>3, <2>1 DEF Skip, Rest, Holding, IsWord
  <2> QED
    BY <2>2, <2>3 DEF TypeInv
<1>4. CASE add_word(f)
  <2>1. Tail(left[f]) \in WordLists /\ Head(left[f]) \in Word /\ at[f] = "read"
    BY <1>4, NextWord DEF add_word, IsWord
  <2>2. word_counts' \in Seq(Entry) /\ Len(word_counts') >= Len(word_counts)
    <3>1. word_counts' = add(word_counts, find_word(word_counts, Head(left[f])), Head(left[f]), 1, build)
      BY <1>4 DEF add_word, add_word_with_count
    <3>2. 1 \in Nat \ {0}
      OBVIOUS
    <3> QED
      BY <1>2, <2>1, <3>1, <3>2, FindRange, AddTyped
  <2>3. res \in [Files -> 0 .. Len(word_counts')]
    BY <2>2, ResTyped
  <2>4. Rest'
    BY <1>1, <1>2, <1>4, <2>1, <2>2, <2>3 DEF add_word, Rest, locals, processes
  <2>5. Holding'
    BY <1>2, <1>4, <2>1 DEF add_word, Rest, Holding, IsWord
  <2> QED
    BY <2>4, <2>5 DEF TypeInv
<1>5. CASE add_word_lock(f) \/ add_word_find(f) \/ pthread_exit(f)
  <2>1. /\ UNCHANGED <<word_counts, left, unread, processes>> /\ lock' \in {lock, f}
        /\ \/ at' = [at EXCEPT ![f] = "locked"] /\ IsWord(f)
           \/ at' = [at EXCEPT ![f] = "found"] /\ at[f] = "locked"
           \/ at' = [at EXCEPT ![f] = "done"]
    BY <1>5 DEF add_word_lock, add_word_find, pthread_exit, locals
  <2>2. res' \in [Files -> 0 .. Len(word_counts)]
    <3>1. res' = res \/ res' = [res EXCEPT ![f] = find_word(word_counts, Head(left[f]))]
      BY <1>5 DEF add_word_lock, add_word_find, pthread_exit, locals
    <3>2. find_word(word_counts, Head(left[f])) \in 0 .. Len(word_counts)
      BY <1>2, FindRange
    <3>3. res \in [Files -> 0 .. Len(word_counts)] /\ word_counts' = word_counts
      BY <1>2, <2>1 DEF Rest
    <3> QED
      BY <3>1, <3>2, <3>3
  <2>3. Rest'
    BY <1>1, <1>2, <2>1, <2>2 DEF Rest, Stages, processes
  <2>4. Holding'
    BY <1>2, <2>1 DEF Rest, Holding, IsWord
  <2> QED
    BY <2>3, <2>4 DEF TypeInv
<1>6. CASE add_word_update(f)
  <2>1. Tail(left[f]) \in WordLists /\ Head(left[f]) \in Word /\ at[f] = "found"
    <3>1. at[f] = "found" /\ IsWord(f)
      BY <1>2, <1>6 DEF add_word_update, Holding
    <3> QED
      BY <3>1, NextWord DEF IsWord
  <2>2. word_counts' \in Seq(Entry) /\ Len(word_counts') >= Len(word_counts)
    <3>1. word_counts' = add(word_counts, res[f], Head(left[f]), 1, build)
      BY <1>6 DEF add_word_update
    <3>2. 1 \in Nat \ {0} /\ res[f] \in 0 .. Len(word_counts)
      BY <1>2 DEF Rest
    <3> QED
      BY <1>2, <2>1, <3>1, <3>2, AddTyped
  <2>3. res \in [Files -> 0 .. Len(word_counts')]
    BY <2>2, ResTyped
  <2>4. Rest'
    BY <1>1, <1>2, <1>6, <2>1, <2>2, <2>3 DEF add_word_update, Rest, Stages, locals, processes
  <2>5. Holding'
    BY <1>2, <1>6, <2>1 DEF add_word_update, Rest, Holding, IsWord
  <2> QED
    BY <2>4, <2>5 DEF TypeInv
<1>7. CASE add_word_unlock(f)
  <2>1. res' \in [Files -> 0 .. Len(word_counts)]
    <3>1. 0 \in 0 .. Len(word_counts)
      BY <1>2, LenProperties
    <3> QED
      BY <1>2, <1>7, <3>1 DEF add_word_unlock, Rest
  <2>2. Rest'
    BY <1>1, <1>2, <1>7, <2>1 DEF add_word_unlock, Rest, Stages, processes
  <2>3. Holding'
    BY <1>2, <1>7 DEF add_word_unlock, Rest, Holding, IsWord
  <2> QED
    BY <2>2, <2>3 DEF TypeInv
<1>8. CASE child_fopen(f) \/ child_exit(f)
  <2>1. /\ UNCHANGED <<word_counts, left, locals, own, pipe>> /\ unread' \in {unread, unread \cup {f}}
        /\ (at' = [at EXCEPT ![f] = "read"] \/ at' = [at EXCEPT ![f] = "done"])
        /\ (tables' = tables \/ tables' = [tables EXCEPT ![f] = [d \in Fds |-> FREE]])
    BY <1>8 DEF child_fopen, child_exit, ExitChild
  <2>2. [d \in Fds |-> FREE] \in Descriptors
    BY DEF Descriptors
  <2>3. Rest'
    BY <1>1, <1>2, <2>1, <2>2 DEF Rest, Stages, locals
  <2>4. Holding'
    BY <1>2, <2>1 DEF Rest, Holding, IsWord
  <2> QED
    BY <2>3, <2>4 DEF TypeInv
<1>9. CASE child_add_word(f)
  <2>1. Tail(left[f]) \in WordLists /\ Head(left[f]) \in Word /\ at[f] = "read"
    BY <1>9, NextWord DEF child_add_word, IsWord
  <2> DEFINE s == own[f]
             q == add_word_with_count(s, Head(left[f]), 1, build)
  <2>2. s \in Seq(Entry)
    BY <1>2 DEF Rest
  <2>3. q \in Seq(Entry)
    <3>1. q = add(s, find_word(s, Head(left[f])), Head(left[f]), 1, build)
      BY DEF add_word_with_count
    <3>2. 1 \in Nat \ {0}
      OBVIOUS
    <3> HIDE DEF s, q
    <3> QED
      BY <2>1, <2>2, <3>1, <3>2, FindRange, AddTyped
  <2>4. own' \in [Files -> Seq(Entry)]
    <3>1. own' = [own EXCEPT ![f] = q]
      BY <1>9 DEF child_add_word
    <3> HIDE DEF q
    <3> QED
      BY <1>2, <2>3, <3>1 DEF Rest
  <2>5. Rest'
    BY <1>1, <1>2, <1>9, <2>1, <2>4 DEF child_add_word, Rest, locals
  <2>6. Holding'
    BY <1>2, <1>9, <2>1 DEF child_add_word, Rest, Holding, IsWord
  <2> QED
    BY <2>5, <2>6 DEF TypeInv
<1>10. CASE fprint_words(f)
  <2>1. own[f] \in Seq(Entry) /\ own[f] # <<>> /\ pipe[f] \in Seq(Entry)
    BY <1>2, <1>10 DEF fprint_words, Rest
  <2>2. Head(own[f]) \in Entry /\ Tail(own[f]) \in Seq(Entry)
    BY <2>1, HeadTailProperties
  <2>3. Append(pipe[f], Head(own[f])) \in Seq(Entry)
    BY <2>1, <2>2, AppendProperties
  <2>4. Rest'
    BY <1>1, <1>2, <1>10, <2>2, <2>3 DEF fprint_words, Rest, locals, files
  <2>5. Holding'
    BY <1>2, <1>10 DEF fprint_words, Holding, IsWord, files
  <2> QED
    BY <2>4, <2>5 DEF TypeInv
<1> QED
  BY <1>3, <1>4, <1>5, <1>6, <1>7, <1>8, <1>9, <1>10 DEF Reader

LEMMA TypeStep == TypeInv /\ PipeInv /\ [Next]_vars => TypeInv'
<1> SUFFICES ASSUME TypeInv, PipeInv, [Next]_vars PROVE TypeInv'
  OBVIOUS
<1>1. CASE UNCHANGED vars
  BY <1>1 DEF vars, files, locals, processes, TypeInv, Rest, Holding, IsWord
<1> QED
  BY <1>1, MainTyped, ReaderTyped DEF Next

(* The types, whatever the files hold, however many they are and whichever *)
(* of the four programs counts them.                                       *)
THEOREM WordCountTyping == Spec => []TypeOK
<1>1. PipeInv /\ TypeInv => TypeOK
  BY TypesTogether DEF PipeInv, TypeInv
<1> QED
  BY <1>1, Start, Step, TypeStart, TypeStep, PTL DEF Spec
-----------------------------------------------------------------------------
(* What the lists and the pipes count, and what is left to count, together *)
(* make what the files have.                                               *)
Pendings(w) == [f \in Files |-> Pending(f, w)]

Found(w) == [f \in Files |-> Copies(get_words(text[f]), w)]

Balanced ==
  \A w \in Word :
    CountOf(word_counts, w) + SumFunctionOnSet(Pendings(w), Files)
      = SumFunctionOnSet(Found(w), Files)

LEMMA FilesFinite == IsFiniteSet(Files)
BY FilesAssumption, FS_Interval DEF Files

LEMMA PendingIs ==
  ASSUME TypeInv, NEW f \in Files, NEW w
  PROVE  /\ CountOf(own[f], w) \in Nat /\ CountOf(pipe[f], w) \in Nat /\ Copies(left[f], w) \in Nat
         /\ Pending(f, w) = CountOf(own[f], w) + CountOf(pipe[f], w) + Copies(left[f], w)
<1>1. own[f] \in Seq(Entry) /\ pipe[f] \in Seq(Entry) /\ left[f] \in Seq(Seq(Letters))
  BY DEF TypeInv, Rest, WordLists
<1>2. CountOf(own[f], w) \in Nat /\ CountOf(pipe[f], w) \in Nat /\ Copies(left[f], w) \in Nat
  BY <1>1, CountNat, CopiesNat
<1>3. Pending(f, w) = CountOf(own[f], w) + CountOf(pipe[f], w) + Copies(left[f], w)
  BY Zenon DEF Pending, Copies
<1> QED
  BY <1>2, <1>3

Natural == \A w : \A f \in Files : Pendings(w)[f] = Pending(f, w) /\ Pendings(w)[f] \in Nat

LEMMA PendingNat == TypeInv => Natural
<1> SUFFICES ASSUME TypeInv, NEW w, NEW f \in Files
             PROVE  Pendings(w)[f] = Pending(f, w) /\ Pendings(w)[f] \in Nat
  BY DEF Natural
<1>1. Pendings(w)[f] = Pending(f, w)
  BY DEF Pendings
<1>2. Pending(f, w) \in Nat
  BY PendingIs
<1> QED
  BY <1>1, <1>2

LEMMA PendingNatNext == TypeInv' => Natural'
BY PendingNat, PTL

(* What one file no longer has left, a list has got.                       *)
LEMMA Moved ==
  ASSUME NEW p, NEW q, NEW c \in Nat, NEW d \in Nat, NEW f \in Files,
         \A g \in Files : p[g] \in Nat, \A g \in Files : q[g] \in Nat,
         \A g \in Files \ {f} : p[g] = q[g], c + p[f] = d + q[f]
  PROVE  c + SumFunctionOnSet(p, Files) = d + SumFunctionOnSet(q, Files)
<1>1. SumFunctionOnSet(p, Files) + q[f] = SumFunctionOnSet(q, Files) + p[f]
  BY FilesFinite, SumChange
<1>2. SumFunctionOnSet(p, Files) \in Nat /\ SumFunctionOnSet(q, Files) \in Nat
  BY FilesFinite, SumType
<1>3. p[f] \in Nat /\ q[f] \in Nat
  OBVIOUS
<1>4. ASSUME NEW x \in Nat, NEW y \in Nat, NEW a \in Nat, NEW b \in Nat, x + b = y + a, c + a = d + b
      PROVE  c + x = d + y
  BY <1>4
<1> QED
  BY <1>1, <1>2, <1>3, <1>4

LEMMA BalanceKept ==
  ASSUME TypeInv, TypeInv', Balanced, text' = text, NEW f \in Files,
         \A w \in Word : \A g \in Files \ {f} : Pending(g, w)' = Pending(g, w),
         \A w \in Word : CountOf(word_counts, w)' + Pending(f, w)' = CountOf(word_counts, w) + Pending(f, w)
  PROVE  Balanced'
<1> SUFFICES ASSUME NEW w \in Word
             PROVE  CountOf(word_counts', w) + SumFunctionOnSet(Pendings(w)', Files)
                      = SumFunctionOnSet(Found(w)', Files)
  BY DEF Balanced
<1>1. Found(w)' = Found(w)
  BY DEF Found
<1>2. CountOf(word_counts', w) \in Nat /\ CountOf(word_counts, w) \in Nat
  BY CountNat DEF TypeInv, Rest
<1>3. /\ \A g \in Files : Pendings(w)[g] = Pending(g, w) /\ Pendings(w)[g] \in Nat
      /\ \A g \in Files : Pendings(w)'[g] = Pending(g, w)' /\ Pendings(w)'[g] \in Nat
  <2>1. \A g \in Files : Pendings(w)[g] = Pending(g, w) /\ Pendings(w)[g] \in Nat
    BY PendingNat DEF Natural
  <2>2. \A g \in Files : Pendings(w)'[g] = Pending(g, w)' /\ Pendings(w)'[g] \in Nat
    BY PendingNatNext DEF Natural
  <2> QED
    BY <2>1, <2>2
<1>4. CountOf(word_counts', w) + Pendings(w)'[f] = CountOf(word_counts, w) + Pendings(w)[f]
  BY <1>3
<1>5. \A g \in Files \ {f} : Pendings(w)'[g] = Pendings(w)[g]
  BY <1>3
<1>6. CountOf(word_counts', w) + SumFunctionOnSet(Pendings(w)', Files)
        = CountOf(word_counts, w) + SumFunctionOnSet(Pendings(w), Files)
  <2> DEFINE p == Pendings(w)'
             q == Pendings(w)
  <2>1. (\A g \in Files : p[g] \in Nat) /\ (\A g \in Files : q[g] \in Nat)
    BY <1>3
  <2> HIDE DEF p, q
  <2>2. CountOf(word_counts', w) + p[f] = CountOf(word_counts, w) + q[f]
    BY <1>4 DEF p, q
  <2>3. \A g \in Files \ {f} : p[g] = q[g]
    BY <1>5 DEF p, q
  <2>4. CountOf(word_counts', w) + SumFunctionOnSet(p, Files)
          = CountOf(word_counts, w) + SumFunctionOnSet(q, Files)
    BY <1>2, <2>1, <2>2, <2>3, Moved
  <2> QED
    BY <2>4 DEF p, q
<1> QED
  BY <1>1, <1>6 DEF Balanced

LEMMA BalanceStart == Init => Balanced
<1> SUFFICES ASSUME Init, NEW w \in Word
             PROVE  CountOf(word_counts, w) + SumFunctionOnSet(Pendings(w), Files)
                      = SumFunctionOnSet(Found(w), Files)
  BY DEF Balanced
<1>1. TypeInv
  BY TypeStart
<1>2. CountOf(word_counts, w) = 0
  BY CountEmpty DEF Init
<1>3. ASSUME NEW f \in Files PROVE Pendings(w)[f] = Found(w)[f]
  <2>1. own[f] = <<>> /\ pipe[f] = <<>> /\ left[f] = get_words(text[f])
    BY DEF Init
  <2>2. CountOf(own[f], w) = 0 /\ CountOf(pipe[f], w) = 0
    BY <2>1, CountEmpty
  <2>3. Pending(f, w) = Copies(left[f], w)
    BY <1>1, <2>2, PendingIs
  <2>4. Found(w)[f] = Copies(left[f], w)
    BY <2>1 DEF Found
  <2> QED
    BY <2>3, <2>4 DEF Pendings
<1>4. SumFunctionOnSet(Pendings(w), Files) = SumFunctionOnSet(Found(w), Files)
  BY <1>3, FilesFinite, SumSame
<1>5. SumFunctionOnSet(Pendings(w), Files) \in Nat
  BY <1>1, FilesFinite, PendingNat, SumType DEF Natural
<1> QED
  BY <1>2, <1>4, <1>5

(* Nothing to count is moved.                                              *)
LEMMA BalanceSame ==
  ASSUME TypeInv, TypeInv', Balanced, UNCHANGED <<text, left, own, pipe>>,
         \A w \in Word : CountOf(word_counts', w) = CountOf(word_counts, w)
  PROVE  Balanced'
<1>1. PICK f \in Files : TRUE
  BY FilesAssumption DEF Files
<1>2. \A w \in Word : \A g \in Files : Pending(g, w)' = Pending(g, w)
  BY DEF Pending
<1> QED
  BY <1>1, <1>2, BalanceKept

(* The next word of a file is counted in main's list, in a child's, or     *)
(* nowhere.                                                                *)
LEMMA BalanceWord ==
  ASSUME TypeInv, TypeInv', Balanced, text' = text, pipe' = pipe,
         NEW f \in Files, left[f] # <<>>, left' = [left EXCEPT ![f] = Tail(@)],
         \A g \in Files \ {f} : own'[g] = own[g],
         \A w \in Word : CountOf(word_counts', w) + CountOf(own'[f], w)
           = CountOf(word_counts, w) + CountOf(own[f], w) + (IF Head(left[f]) = w THEN 1 ELSE 0)
  PROVE  Balanced'
<1>1. left \in [Files -> WordLists] /\ left[f] \in Seq(Seq(Letters))
  BY DEF TypeInv, Rest, WordLists
<1>2. left'[f] = Tail(left[f]) /\ \A g \in Files \ {f} : left'[g] = left[g]
  BY <1>1
<1>3. \A w \in Word : \A g \in Files \ {f} : Pending(g, w)' = Pending(g, w)
  BY <1>2 DEF Pending
<1>4. ASSUME NEW w \in Word
      PROVE  CountOf(word_counts, w)' + Pending(f, w)' = CountOf(word_counts, w) + Pending(f, w)
  <2> DEFINE one == IF Head(left[f]) = w THEN 1 ELSE 0
             c == CountOf(word_counts, w)
             d == CountOf(word_counts', w)
             p == CountOf(own[f], w)
             q == CountOf(own'[f], w)
             r == CountOf(pipe[f], w)
             k == Copies(left[f], w)
             m == Copies(Tail(left[f]), w)
  <2>1. k = m + one
    BY <1>1, CopiesTail
  <2>2. Pending(f, w) = p + r + k
    BY PendingIs
  <2>3. Pending(f, w)' = q + r + m
    <3>1. Pending(f, w)' = q + CountOf(pipe'[f], w) + Copies(left'[f], w)
      BY Zenon DEF Pending, Copies
    <3> QED
      BY <1>2, <3>1
  <2>4. p \in Nat /\ r \in Nat /\ k \in Nat
    BY PendingIs
  <2>5. m \in Nat /\ one \in Nat
    <3>1. Tail(left[f]) \in Seq(Seq(Letters))
      BY <1>1, CopiesTail
    <3> QED
      BY <3>1, CopiesNat
  <2>6. c \in Nat /\ d \in Nat /\ q \in Nat
    BY CountNat DEF TypeInv, Rest
  <2>7. d + q = c + p + one
    OBVIOUS
  <2> HIDE DEF one, c, d, p, q, r, k, m
  <2>8. d + (q + r + m) = c + (p + r + k)
    BY <2>1, <2>4, <2>5, <2>6, <2>7
  <2> QED
    BY <2>2, <2>3, <2>8 DEF c, d
<1> QED
  BY <1>3, <1>4, BalanceKept

(* A child sends an entry.                                                 *)
LEMMA BalanceSent ==
  ASSUME TypeInv, TypeInv', Balanced, text' = text, left' = left, word_counts' = word_counts,
         NEW f \in Files, own[f] # <<>>,
         pipe' = [pipe EXCEPT ![f] = Append(@, Head(own[f]))],
         own' = [own EXCEPT ![f] = Tail(@)]
  PROVE  Balanced'
<1>1. /\ own \in [Files -> Seq(Entry)] /\ pipe \in [Files -> Seq(Entry)]
      /\ own[f] \in Seq(Entry) /\ pipe[f] \in Seq(Entry)
  BY DEF TypeInv, Rest
<1>2. /\ own'[f] = Tail(own[f]) /\ pipe'[f] = Append(pipe[f], Head(own[f]))
      /\ \A g \in Files \ {f} : own'[g] = own[g] /\ pipe'[g] = pipe[g]
  BY <1>1
<1>3. \A w \in Word : \A g \in Files \ {f} : Pending(g, w)' = Pending(g, w)
  BY <1>2 DEF Pending
<1>4. ASSUME NEW w \in Word
      PROVE  CountOf(word_counts, w)' + Pending(f, w)' = CountOf(word_counts, w) + Pending(f, w)
  <2> DEFINE h == Hit(Head(own[f]), w)
             p == CountOf(own[f], w)
             q == CountOf(own'[f], w)
             r == CountOf(pipe[f], w)
             s == CountOf(pipe'[f], w)
             k == Copies(left[f], w)
  <2>1. p = h + q /\ Head(own[f]) \in Entry
    BY <1>1, <1>2, CountTail
  <2>2. s = r + h
    BY <1>1, <1>2, <2>1, CountAppend
  <2>3. Pending(f, w) = p + r + k
    BY PendingIs
  <2>4. Pending(f, w)' = q + s + k
    BY Zenon DEF Pending, Copies
  <2>5. p \in Nat /\ r \in Nat /\ k \in Nat
    BY PendingIs
  <2>6. q \in Nat
    BY <1>1, <1>2, CountNat DEF TypeInv, Rest
  <2>7. h \in Nat
    BY <2>1, EntryFacts DEF Hit
  <2> HIDE DEF h, p, q, r, s, k
  <2>8. q + s + k = p + r + k
    BY <2>1, <2>2, <2>5, <2>6, <2>7
  <2> QED
    BY <2>3, <2>4, <2>8
<1> QED
  BY <1>3, <1>4, BalanceKept

(* Main takes a line out of a pipe.                                        *)
LEMMA BalanceMerge ==
  ASSUME TypeInv, TypeInv', Balanced, PipeInv, merge_counts, Constant,
         NEW f \in Files, f = t
  PROVE  Balanced'
<1>1. /\ pipe \in [Files -> Seq(Entry)] /\ pipe[f] \in Seq(Entry) /\ pipe[f] # <<>>
      /\ word_counts \in Seq(Entry) /\ text' = text /\ left' = left /\ own' = own
      /\ pipe' = [pipe EXCEPT ![f] = Tail(@)]
  BY DEF merge_counts, PipeInv, Types, TypeInv, Rest, files, Constant
<1>2. pipe'[f] = Tail(pipe[f]) /\ \A g \in Files \ {f} : pipe'[g] = pipe[g]
  BY <1>1
<1>3. \A w \in Word : \A g \in Files \ {f} : Pending(g, w)' = Pending(g, w)
  BY <1>1, <1>2 DEF Pending
<1>4. ASSUME NEW w \in Word
      PROVE  CountOf(word_counts, w)' + Pending(f, w)' = CountOf(word_counts, w) + Pending(f, w)
  <2> DEFINE line == Head(pipe[f])
             h == Hit(line, w)
             c == CountOf(word_counts, w)
             d == CountOf(word_counts', w)
             p == CountOf(own[f], w)
             r == CountOf(pipe[f], w)
             s == CountOf(pipe'[f], w)
             k == Copies(left[f], w)
  <2>1. r = h + s /\ line \in Entry
    BY <1>1, <1>2, CountTail
  <2>2. d = c + h
    <3>1. PICK v \in Word, n \in Nat \ {0} : v = line.word /\ n = line.count
      BY <2>1, EntryIs
    <3>2. word_counts' = add(word_counts, find_word(word_counts, v), v, n, build)
      BY <3>1 DEF merge_counts, add_word_with_count
    <3>3. h = IF v = w THEN n ELSE 0
      BY <3>1 DEF Hit
    <3> HIDE DEF line, h
    <3>4. CountOf(add(word_counts, find_word(word_counts, v), v, n, build), w)
            = CountOf(word_counts, w) + (IF v = w THEN n ELSE 0)
      BY <1>1, AddCounts
    <3> QED
      BY <3>2, <3>3, <3>4, Zenon
  <2>3. Pending(f, w) = p + r + k
    BY PendingIs
  <2>4. Pending(f, w)' = p + s + k
    <3>1. Pending(f, w)' = CountOf(own'[f], w) + s + Copies(left'[f], w)
      BY Zenon DEF Pending, Copies
    <3> QED
      BY <1>1, <3>1
  <2>5. p \in Nat /\ r \in Nat /\ k \in Nat
    BY PendingIs
  <2>6. s \in Nat /\ c \in Nat
    BY <1>1, <1>2, CountNat DEF TypeInv, Rest
  <2>7. h \in Nat
    BY <2>1, EntryFacts DEF Hit
  <2> HIDE DEF line, h, c, d, p, r, s, k
  <2>8. d + (p + s + k) = c + (p + r + k)
    BY <2>1, <2>2, <2>5, <2>6, <2>7
  <2> QED
    BY <2>3, <2>4, <2>8 DEF c, d
<1> QED
  BY <1>1, <1>3, <1>4, BalanceKept

LEMMA BalanceStep ==
  ASSUME TypeInv, TypeInv', PipeInv, TwinInv, Balanced, [Next]_vars
  PROVE  Balanced'
<1>1. /\ word_counts \in Seq(Entry) /\ own \in [Files -> Seq(Entry)]
      /\ left \in [Files -> WordLists]
  BY DEF TypeInv, Rest
<1>2. CASE Main
  <2>1. Constant
    BY <1>2 DEF Main
  <2>2. CASE merge_counts
    <3>1. PICK f \in Files : f = t
      BY DEF PipeInv, Types
    <3> QED
      BY <2>1, <2>2, <3>1, BalanceMerge
  <2>3. CASE print_sorted
    <3>1. \A w : CountOf(word_counts', w) = CountOf(word_counts, w)
      BY <1>1, <2>3, SortIs, ArrangedSame DEF print_sorted
    <3>2. UNCHANGED <<text, left, own, pipe>>
      BY <2>1, <2>3 DEF print_sorted, Constant, files, processes
    <3> QED
      BY <3>1, <3>2, BalanceSame
  <2>4. CASE ~merge_counts /\ ~print_sorted
    <3>1. UNCHANGED <<text, word_counts, left, own, pipe>>
      BY <1>2, <2>4 DEF Main, Constant, fopen, fclose, pthread_create, pthread_join, fork,
                       end_of_counts, files, processes
    <3> QED
      BY <3>1, BalanceSame
  <2> QED
    BY <2>2, <2>3, <2>4
<1>3. ASSUME NEW f \in Files, Reader(f) PROVE Balanced'
  <2>1. text' = text /\ Running
    BY <1>3 DEF Reader, Constant
  <2>2. CASE Skip(f)
    <3>1. left[f] # <<>> /\ Len(Head(left[f])) = 1
      BY <2>2 DEF Skip
    <3>2. left' = [left EXCEPT ![f] = Tail(@)] /\ word_counts' = word_counts /\ own' = own /\ pipe' = pipe
      BY <2>2 DEF Skip, processes
    <3>3. \A w \in Word : Head(left[f]) # w
      <4>1. ASSUME NEW w \in Word PROVE Len(w) # 1
        <5>1. Len(w) > 1
          BY Zenon DEF Word
        <5>2. ~(1 > 1)
          OBVIOUS
        <5> QED
          BY <5>1, <5>2, Zenon
      <4> QED
        BY <3>1, <4>1, Zenon
    <3>4. ASSUME NEW w \in Word
          PROVE  CountOf(word_counts', w) + CountOf(own'[f], w)
                   = CountOf(word_counts, w) + CountOf(own[f], w) + (IF Head(left[f]) = w THEN 1 ELSE 0)
      <4>1. CountOf(word_counts, w) \in Nat /\ CountOf(own[f], w) \in Nat
        BY <1>1, CountNat
      <4>2. (IF Head(left[f]) = w THEN 1 ELSE 0) = 0
        BY <3>3, Zenon
      <4>3. CountOf(word_counts', w) + CountOf(own'[f], w) = CountOf(word_counts, w) + CountOf(own[f], w)
        BY <3>2, Zenon
      <4>4. CountOf(word_counts, w) + CountOf(own[f], w) = CountOf(word_counts, w) + CountOf(own[f], w) + 0
        BY <4>1
      <4> QED
        BY <4>2, <4>3, <4>4, Zenon
    <3> QED
      BY <2>1, <3>1, <3>2, <3>4, BalanceWord
  <2>3. CASE add_word(f) \/ add_word_update(f)
    <3>1. IsWord(f) /\ (add_word_update(f) => res[f] = find_word(word_counts, Head(left[f])))
      <4>1. add_word_update(f) => at[f] = "found"
        BY DEF add_word_update
      <4>2. at[f] = "found" => IsWord(f)
        BY DEF TypeInv, Holding
      <4>3. at[f] = "found" => res[f] = find_word(word_counts, Head(left[f]))
        BY <2>1 DEF TwinInv, LookUp, Running
      <4>4. add_word(f) => IsWord(f)
        BY DEF add_word
      <4> QED
        BY <2>3, <4>1, <4>2, <4>3, <4>4
    <3>2. PICK v \in Word : v = Head(left[f])
      BY <3>1, NextWord DEF IsWord
    <3>3. word_counts' = add(word_counts, find_word(word_counts, v), v, 1, build)
      BY <2>3, <3>1, <3>2 DEF add_word, add_word_update, add_word_with_count
    <3>4. left' = [left EXCEPT ![f] = Tail(@)] /\ own' = own /\ pipe' = pipe
      BY <2>3 DEF add_word, add_word_update, processes
    <3>5. ASSUME NEW w \in Word
          PROVE  CountOf(word_counts', w) + CountOf(own'[f], w)
                   = CountOf(word_counts, w) + CountOf(own[f], w) + (IF Head(left[f]) = w THEN 1 ELSE 0)
      <4>1. 1 \in Nat \ {0}
        OBVIOUS
      <4>2. CountOf(add(word_counts, find_word(word_counts, v), v, 1, build), w)
              = CountOf(word_counts, w) + (IF v = w THEN 1 ELSE 0)
        BY <1>1, <4>1, AddCounts
      <4>3. CountOf(word_counts', w) = CountOf(word_counts, w) + (IF v = w THEN 1 ELSE 0)
        BY <3>3, <4>2, Zenon
      <4>4. CountOf(word_counts, w) \in Nat /\ CountOf(own[f], w) \in Nat
        BY <1>1, CountNat
      <4> QED
        BY <3>2, <3>4, <4>3, <4>4
    <3>6. left[f] # <<>>
      BY <3>1 DEF IsWord
    <3> QED
      BY <2>1, <3>4, <3>5, <3>6, BalanceWord
  <2>4. CASE child_add_word(f)
    <3>1. PICK v \in Word : v = Head(left[f])
      BY <2>4, NextWord DEF child_add_word, IsWord
    <3>2. PICK s \in Seq(Entry) : s = own[f]
      BY <1>1
    <3>3. own' = [own EXCEPT ![f] = add(s, find_word(s, v), v, 1, build)]
      BY <2>4, <3>1, <3>2 DEF child_add_word, add_word_with_count
    <3>4. /\ left' = [left EXCEPT ![f] = Tail(@)] /\ word_counts' = word_counts /\ pipe' = pipe
          /\ left[f] # <<>>
      BY <2>4 DEF child_add_word, IsWord
    <3>5. own'[f] = add(s, find_word(s, v), v, 1, build) /\ \A g \in Files \ {f} : own'[g] = own[g]
      BY <1>1, <3>3
    <3>6. ASSUME NEW w \in Word
          PROVE  CountOf(word_counts', w) + CountOf(own'[f], w)
                   = CountOf(word_counts, w) + CountOf(own[f], w) + (IF Head(left[f]) = w THEN 1 ELSE 0)
      <4>1. 1 \in Nat \ {0}
        OBVIOUS
      <4>2. CountOf(add(s, find_word(s, v), v, 1, build), w) = CountOf(s, w) + (IF v = w THEN 1 ELSE 0)
        BY <4>1, AddCounts
      <4>3. CountOf(own'[f], w) = CountOf(s, w) + (IF v = w THEN 1 ELSE 0)
        BY <3>5, <4>2, Zenon
      <4>4. CountOf(word_counts, w) \in Nat /\ CountOf(s, w) \in Nat
        BY <1>1, CountNat
      <4> QED
        BY <3>1, <3>2, <3>4, <4>3, <4>4
    <3> QED
      BY <2>1, <3>4, <3>5, <3>6, BalanceWord
  <2>5. CASE fprint_words(f)
    <3>1. /\ own[f] # <<>> /\ own' = [own EXCEPT ![f] = Tail(@)]
          /\ pipe' = [pipe EXCEPT ![f] = Append(@, Head(own[f]))]
          /\ left' = left /\ word_counts' = word_counts
      BY <2>5 DEF fprint_words, files
    <3> QED
      BY <2>1, <3>1, BalanceSent
  <2>6. CASE add_word_lock(f) \/ add_word_find(f) \/ add_word_unlock(f) \/ pthread_exit(f)
             \/ child_fopen(f) \/ child_exit(f)
    <3>1. UNCHANGED <<word_counts, left, own, pipe>>
      BY <2>6 DEF add_word_lock, add_word_find, add_word_unlock, pthread_exit, child_fopen, child_exit,
                  locals, processes
    <3> QED
      BY <2>1, <3>1, BalanceSame
  <2> QED
    BY <1>3, <2>2, <2>3, <2>4, <2>5, <2>6 DEF Reader
<1>4. CASE UNCHANGED vars
  <2>1. UNCHANGED <<text, word_counts, left, own, pipe>>
    BY <1>4 DEF vars, files, processes
  <2> QED
    BY <2>1, BalanceSame
<1> QED
  BY <1>2, <1>3, <1>4 DEF Next

(* Main ends by printing the result.                                       *)
LEMMA ExitPrints ==
  ASSUME [Next]_vars, pc' = "exited", pc # "exited"
  PROVE  print_sorted
<1>1. \A f \in Files : ~Reader(f)
  BY DEF Reader, Skip, add_word, add_word_lock, add_word_find, add_word_update, add_word_unlock,
         pthread_exit, child_fopen, child_add_word, fprint_words, child_exit
<1>2. Main
  BY <1>1 DEF Next, vars
<1> QED
  BY <1>2 DEF Main, fopen, fclose, pthread_create, pthread_join, fork, merge_counts,
              end_of_counts, Continue

(* The result still has each word once: it is the same list in order.      *)
LEMMA TwinsNever ==
  ASSUME TypeInv, TwinInv, TwinInv', NoTwins, [Next]_vars
  PROVE  NoTwins'
<1>1. \A s : Single(s) <=> \A i, j \in DOMAIN s : s[i].word = s[j].word => i = j
  BY DEF Single
<1>2. CASE pc' # "exited"
  <2>1. Single(word_counts') /\ \A f \in Files : Single(own'[f])
    BY <1>2 DEF TwinInv, Lists
  <2> QED
    BY <1>1, <2>1 DEF NoTwins
<1>3. CASE pc' = "exited" /\ pc # "exited"
  <2>1. print_sorted /\ UNCHANGED <<files, processes>>
    BY <1>3, ExitPrints DEF print_sorted
  <2>2. word_counts \in Seq(Entry) /\ Single(word_counts)
    BY <1>1 DEF TypeInv, Rest, NoTwins
  <2>3. Single(word_counts')
    BY <2>1, <2>2, SortIs, ArrangedSame DEF print_sorted
  <2>4. own' = own
    BY <2>1 DEF processes
  <2>5. \A f \in Files : Single(own[f])
    BY <1>1 DEF NoTwins
  <2> QED
    BY <1>1, <2>3, <2>4, <2>5 DEF NoTwins
<1>4. CASE pc = "exited"
  <2>1. UNCHANGED vars
    BY <1>4 DEF Next, Main, Reader, Running
  <2> QED
    BY <2>1 DEF vars, processes, NoTwins
<1> QED
  BY <1>2, <1>3, <1>4

LEMMA WordsLong ==
  ASSUME NEW w \in Words
  PROVE  w \in Word
<1>1. PICK s \in Texts : w \in {WordAt(s, p) : p \in Stretches(s)}
  BY DEF Words
<1>2. PICK p \in Stretches(s) : w = WordAt(s, p)
  BY <1>1
<1>3. s \in Seq(Int)
  BY FilesAssumption
<1>4. /\ p \in (DOMAIN s) \X (DOMAIN s) /\ p[1] < p[2]
      /\ \A i \in p[1] .. p[2] : isalpha(s[i])
  BY DEF Stretches
<1>5. p[1] \in 1 .. Len(s) /\ p[2] \in 1 .. Len(s) /\ Len(s) \in Nat
  BY <1>3, <1>4
<1> DEFINE n == p[2] - p[1] + 1
<1>6. n \in Nat /\ n > 1
  BY <1>4, <1>5
<1>7. ASSUME NEW i \in 1 .. n PROVE tolower(s[p[1] + i - 1]) \in Nat \ {0}
  <2>1. p[1] + i - 1 \in p[1] .. p[2] /\ p[1] + i - 1 \in 1 .. Len(s)
    BY <1>5
  <2>2. s[p[1] + i - 1] \in Int /\ isalpha(s[p[1] + i - 1])
    BY <1>3, <1>4, <2>1, ElementOfSeq
  <2> QED
    BY <2>2, LowerLetter DEF Letters
<1>8. w = [i \in 1 .. n |-> tolower(s[p[1] + i - 1])]
  BY <1>2 DEF WordAt
<1> HIDE DEF n
<1>9. w \in [1 .. n -> Nat \ {0}]
  BY <1>7, <1>8
<1>10. w \in Seq(Nat \ {0}) /\ Len(w) = n
  BY <1>6, <1>9
<1> QED
  BY <1>6, <1>10 DEF Word

(* get_words finds each occurrence that is in the text (WordsFound).       *)
LEMMA BalancedCounts ==
  ASSUME TypeInv, Balanced, NoTwins
  PROVE  Counted
<1> SUFFICES ASSUME NEW w \in Words
             PROVE  CountOf(word_counts, w) + SumFunction([f \in Files |-> Pending(f, w)])
                      = SumFunction([f \in Files |-> Occurrences(text[f], w)])
  BY DEF Counted
<1>1. w \in Word
  BY WordsLong
<1>2. ASSUME NEW f \in Files PROVE Copies(get_words(text[f]), w) = Occurrences(text[f], w)
  <2>1. text[f] \in Seq(Int)
    BY FilesAssumption DEF TypeInv, Rest
  <2>2. Len(w) > 1
    BY <1>1 DEF Word
  <2> QED
    BY <2>1, <2>2, WordsFound
<1>3. Found(w) = [f \in Files |-> Occurrences(text[f], w)]
  BY <1>2 DEF Found
<1>4. DOMAIN Found(w) = Files /\ DOMAIN Pendings(w) = Files
  BY DEF Found, Pendings
<1>5. CountOf(word_counts, w) + SumFunctionOnSet(Pendings(w), Files) = SumFunctionOnSet(Found(w), Files)
  BY <1>1 DEF Balanced
<1>6. SumFunction(Pendings(w)) = SumFunctionOnSet(Pendings(w), Files)
  BY <1>4, Zenon DEF SumFunction
<1>7. SumFunction(Found(w)) = SumFunctionOnSet(Found(w), Files)
  BY <1>4, Zenon DEF SumFunction
<1>8. CountOf(word_counts, w) + SumFunction(Pendings(w)) = SumFunction(Found(w))
  BY <1>5, <1>6, <1>7
<1>9. Pendings(w) = [f \in Files |-> Pending(f, w)]
  BY DEF Pendings
<1> QED
  BY <1>3, <1>8, <1>9, Zenon

(* However many files there are, whatever they hold, and however the       *)
(* threads or the processes of a program are scheduled: main's list, the   *)
(* lists of the children, the lines in the pipes and the words not yet     *)
(* read make up the occurrences of every word.                             *)
THEOREM CountsKept == Spec => []Counted
<1>1. Init => Balanced /\ NoTwins
  <2>1. Init => NoTwins
    BY DEF Init, NoTwins
  <2> QED
    BY <2>1, BalanceStart
<1>2. TypeInv /\ PipeInv /\ TwinInv /\ Balanced /\ NoTwins /\ TypeInv' /\ TwinInv' /\ [Next]_vars
        => Balanced' /\ NoTwins'
  BY BalanceStep, TwinsNever
<1>3. TypeInv /\ Balanced /\ NoTwins => Counted
  BY BalancedCounts
<1> QED
  BY <1>1, <1>2, <1>3, Start, Step, TwinStart, TwinStep, TypeStart, TypeStep, PTL DEF Spec

(* A word has one place in a list, whichever program runs and however many *)
(* threads call add_word (word_count_p.c); sorting keeps that.             *)
THEOREM OnePlace == Spec => []NoTwins
<1>1. Counted => NoTwins
  BY DEF Counted
<1> QED
  BY <1>1, CountsKept, PTL
-----------------------------------------------------------------------------
(* The result: what becomes of each file.  Nothing is taken from a file    *)
(* before it is read, nor from one that cannot be; a reader that ends has  *)
(* nothing left.                                                           *)
Intact(f) == own[f] = <<>> /\ pipe[f] = <<>> /\ left[f] = get_words(text[f])

Progress(f) ==
  /\ at[f] \in {"none", "open"} \/ f \in unread => Intact(f)
  /\ f \in unread => at[f] = "done" \/ (at[f] = "none" /\ pc = "failed")
  /\ at[f] = "done" /\ f \notin unread => left[f] = <<>> /\ own[f] = <<>>
  /\ build # "fwords" => own[f] = <<>> /\ pipe[f] = <<>>

(* Main is through with file f.                                            *)
Passed(f) ==
  \/ pc \in {"sort", "exited"}
  \/ f < t /\ (pc \in {"join", "merge"} \/ (pc = "start" /\ build \in {"words", "lwords"}))

(* A child has its write end until it ends: only then is there an end of   *)
(* the file, and main can go on.                                           *)
Scheduled(f) ==
  /\ at[f] = "open" => build = "fwords"
  /\ build = "fwords" => at[f] \in {"none", "open", "read", "done"}
  /\ pc = "start" /\ f > t => at[f] = "none"
  /\ pc = "start" /\ f = t /\ build \in {"pwords", "fwords"} => at[f] = "none"
  /\ build = "fwords" /\ (pc = "start" => f < t) => at[f] # "none"
  /\ build = "fwords" /\ at[f] \in {"open", "read"} => \E d \in Fds : tables[f][d] = WriteEnd(f)
  /\ Passed(f) => at[f] = "done" /\ pipe[f] = <<>>

Fates ==
  /\ pc = "join" => build = "pwords"
  /\ pc = "merge" => build = "fwords"
  /\ \A f \in Files : Progress(f) /\ Scheduled(f)

LEMMA FateStart == Init => Fates
BY DEF Init, Fates, Progress, Intact, Scheduled, Passed, Files

(* A file to which nothing happens.                                        *)
LEMMA FateSame ==
  ASSUME Fates, UNCHANGED <<build, text, pc, t>>, NEW g \in Files,
         own'[g] = own[g], pipe'[g] = pipe[g], left'[g] = left[g], at'[g] = at[g],
         tables'[g] = tables[g], g \in unread' <=> g \in unread
  PROVE  Progress(g)' /\ Scheduled(g)'
BY DEF Fates, Progress, Intact, Scheduled, Passed

(* What a reader changes is its own.                                       *)
LEMMA ReaderLocal ==
  ASSUME TypeInv, NEW f \in Files, Reader(f)
  PROVE  /\ UNCHANGED <<build, text, pc, t>>
         /\ \A g \in Files \ {f} :
              /\ own'[g] = own[g] /\ pipe'[g] = pipe[g] /\ left'[g] = left[g] /\ at'[g] = at[g]
              /\ tables'[g] = tables[g] /\ (g \in unread' <=> g \in unread)
<1>1. /\ own \in [Files -> Seq(Entry)] /\ pipe \in [Files -> Seq(Entry)] /\ left \in [Files -> WordLists]
      /\ at \in [Files -> Stages] /\ tables \in [Files -> Descriptors]
  BY DEF TypeInv, Rest
<1>2. UNCHANGED <<build, text, pc, t>>
  BY DEF Reader, Constant, Skip, add_word, add_word_lock, add_word_find, add_word_update,
         add_word_unlock, pthread_exit, child_fopen, child_add_word, fprint_words, child_exit
<1>3. own' = own \/ own' = [own EXCEPT ![f] = own'[f]]
  BY <1>1 DEF Reader, Skip, add_word, add_word_lock, add_word_find, add_word_update, processes,
         add_word_unlock, pthread_exit, child_fopen, child_add_word, fprint_words, child_exit
<1>4. pipe' = pipe \/ pipe' = [pipe EXCEPT ![f] = pipe'[f]]
  BY <1>1 DEF Reader, Skip, add_word, add_word_lock, add_word_find, add_word_update, processes,
         add_word_unlock, pthread_exit, child_fopen, child_add_word, fprint_words, child_exit
<1>5. left' = left \/ left' = [left EXCEPT ![f] = left'[f]]
  BY <1>1 DEF Reader, Skip, add_word, add_word_lock, add_word_find, add_word_update, files,
         add_word_unlock, pthread_exit, child_fopen, child_add_word, fprint_words, child_exit
<1>6. at' = at \/ at' = [at EXCEPT ![f] = at'[f]]
  BY <1>1 DEF Reader, Skip, add_word, add_word_lock, add_word_find, add_word_update, files,
         add_word_unlock, pthread_exit, child_fopen, ExitChild, child_add_word, fprint_words, child_exit
<1>7. tables' = tables \/ tables' = [tables EXCEPT ![f] = tables'[f]]
  BY <1>1 DEF Reader, Skip, add_word, add_word_lock, add_word_find, add_word_update, processes,
         add_word_unlock, pthread_exit, child_fopen, ExitChild, child_add_word, fprint_words, child_exit
<1>8. unread' \in {unread, unread \cup {f}}
  BY DEF Reader, Skip, add_word, add_word_lock, add_word_find, add_word_update, files,
         add_word_unlock, pthread_exit, child_fopen, ExitChild, child_add_word, fprint_words, child_exit
<1> QED
  BY <1>1, <1>2, <1>3, <1>4, <1>5, <1>6, <1>7, <1>8

LEMMA FateReader ==
  ASSUME TypeInv, TwinInv, Fates, NEW f \in Files, Reader(f)
  PROVE  Fates'
<1>1. UNCHANGED <<build, text, pc, t>> /\ \A g \in Files \ {f} : Progress(g)' /\ Scheduled(g)'
  BY ReaderLocal, FateSame
<1>2. pc # "exited" /\ pc # "failed" /\ LookUp
  BY DEF Reader, Running, TwinInv
<1>3. /\ own \in [Files -> Seq(Entry)] /\ pipe \in [Files -> Seq(Entry)] /\ left \in [Files -> WordLists]
      /\ at \in [Files -> Stages] /\ tables \in [Files -> Descriptors]
  BY DEF TypeInv, Rest
<1>4. Progress(f) /\ Scheduled(f)
  BY DEF Fates
<1>5. f \notin unread \/ at[f] = "done"
  BY <1>2, <1>4 DEF Progress
<1>6. Progress(f)' /\ Scheduled(f)'
  <2>1. CASE Skip(f) \/ add_word(f)
    <3>1. at[f] = "read" /\ UNCHANGED <<at, unread, own, pipe, tables>>
      BY <2>1 DEF Skip, add_word, processes
    <3> QED
      BY <1>1, <1>4, <1>5, <3>1 DEF Progress, Intact, Scheduled, Passed
  <2>2. CASE add_word_lock(f) \/ add_word_find(f) \/ add_word_update(f) \/ add_word_unlock(f)
    <3>1. /\ at[f] \in {"read", "locked", "found", "unlock"} /\ at'[f] \in {"read", "locked", "found", "unlock"}
          /\ build = "pwords" /\ UNCHANGED <<unread, own, pipe, tables>>
      BY <1>2, <1>3, <2>2 DEF add_word_lock, add_word_find, add_word_update, add_word_unlock, LookUp, processes
    <3> QED
      BY <1>1, <1>4, <1>5, <3>1 DEF Progress, Intact, Scheduled, Passed
  <2>3. CASE pthread_exit(f)
    <3>1. at[f] = "read" /\ at'[f] = "done" /\ left[f] = <<>> /\ build = "pwords"
      BY <1>3, <2>3 DEF pthread_exit
    <3>2. UNCHANGED <<left, unread, own, pipe, tables>>
      BY <2>3 DEF pthread_exit, processes
    <3> QED
      BY <1>1, <1>4, <1>5, <3>1, <3>2 DEF Progress, Intact, Scheduled, Passed
  <2>4. CASE child_fopen(f)
    <3>1. at[f] = "open" /\ UNCHANGED <<left, own, pipe>>
      BY <2>4 DEF child_fopen
    <3>2. \/ at'[f] = "read" /\ UNCHANGED <<unread, tables>>
          \/ at'[f] = "done" /\ f \in unread'
      BY <1>3, <2>4 DEF child_fopen, ExitChild
    <3> QED
      BY <1>1, <1>4, <1>5, <3>1, <3>2 DEF Progress, Intact, Scheduled, Passed
  <2>5. CASE child_add_word(f)
    <3>1. at[f] = "read" /\ build = "fwords" /\ UNCHANGED <<at, unread, tables, pipe>>
      BY <2>5 DEF child_add_word
    <3> QED
      BY <1>1, <1>4, <1>5, <3>1 DEF Progress, Intact, Scheduled, Passed
  <2>6. CASE fprint_words(f)
    <3>1. at[f] = "read" /\ build = "fwords" /\ UNCHANGED <<at, unread, left, tables>>
      BY <2>6 DEF fprint_words, files
    <3> QED
      BY <1>1, <1>4, <1>5, <3>1 DEF Progress, Intact, Scheduled, Passed
  <2>7. CASE child_exit(f)
    <3>1. at[f] = "read" /\ at'[f] = "done" /\ build = "fwords" /\ left[f] = <<>> /\ own[f] = <<>>
      BY <1>3, <2>7 DEF child_exit, ExitChild
    <3>2. UNCHANGED <<left, unread, own, pipe>>
      BY <2>7 DEF child_exit
    <3> QED
      BY <1>1, <1>4, <1>5, <3>1, <3>2 DEF Progress, Intact, Scheduled, Passed
  <2> QED
    BY <2>1, <2>2, <2>3, <2>4, <2>5, <2>6, <2>7 DEF Reader
<1> QED
  BY <1>1, <1>6 DEF Fates

(* Main goes on to the next file, or has been through all of them.         *)
LEMMA Onward ==
  ASSUME NEW after, t \in Files, Continue(after)
  PROVE  /\ t' \in Files
         /\ \/ t' = t + 1 /\ pc' = pc /\ \A g \in Files : (g < t' <=> g < t \/ g = t) /\ (g >= t' <=> g > t)
            \/ t' = 1 /\ pc' = after /\ \A g \in Files : g < t \/ g = t
BY FilesAssumption DEF Files, Continue

LEMMA FateMain ==
  ASSUME TypeInv, PipeInv, TwinInv, Fates, Main
  PROVE  Fates'
<1>1. UNCHANGED <<build, text>> /\ t \in Files /\ pc # "exited" /\ pc # "failed"
  BY DEF Main, Constant, Running, PipeInv, Types
<1>2. /\ own \in [Files -> Seq(Entry)] /\ pipe \in [Files -> Seq(Entry)] /\ left \in [Files -> WordLists]
      /\ at \in [Files -> Stages] /\ tables \in [Files -> Descriptors] /\ unread \subseteq Files
  BY DEF TypeInv, Rest
<1>3. /\ \A g \in Files : g < t \/ g = t \/ g > t
      /\ ~(t < t) /\ ~(t > t) /\ \A g \in Files : ~(g < t /\ g > t)
      /\ \A g \in Files : ~(g < 1)
  BY <1>1, FilesAssumption DEF Files
<1>4. (pc = "join" => build = "pwords") /\ (pc = "merge" => build = "fwords")
  BY DEF Fates
<1>5. CASE fopen
  <2>1. /\ build \in {"words", "lwords"} /\ pc = "start" /\ at[t] = "none"
        /\ UNCHANGED <<t, left, own, pipe, tables>>
    BY <1>5 DEF fopen, processes
  <2>2. \/ at' = [at EXCEPT ![t] = "read"] /\ pc' = "start" /\ unread' = unread
        \/ at' = at /\ pc' = "failed" /\ unread' = unread \cup {t}
    BY <1>5, <2>1 DEF fopen
  <2>3. ASSUME NEW g \in Files PROVE Progress(g)' /\ Scheduled(g)'
    <3>1. Progress(g) /\ Scheduled(g)
      BY DEF Fates
    <3>2. CASE g = t
      BY <1>1, <1>2, <1>3, <2>1, <2>2, <3>1, <3>2 DEF Progress, Intact, Scheduled, Passed
    <3>3. CASE g # t
      <4>1. at'[g] = at[g] /\ (g \in unread' <=> g \in unread)
        BY <1>2, <2>2, <3>3
      <4> QED
        BY <1>1, <1>3, <2>1, <2>2, <3>1, <3>3, <4>1 DEF Progress, Intact, Scheduled, Passed
    <3> QED
      BY <3>2, <3>3
  <2> QED
    BY <2>2, <2>3 DEF Fates
<1>6. CASE fclose
  <2>1. /\ build \in {"words", "lwords"} /\ at[t] = "read" /\ left[t] = <<>>
        /\ at' = [at EXCEPT ![t] = "done"] /\ UNCHANGED <<left, unread, own, pipe, tables>>
    BY <1>6 DEF fclose, processes
  <2>2. pc = "start"
    <3>1. Scheduled(t) /\ pc \in {"start", "join", "merge", "sort"}
      BY <1>1 DEF Fates, PipeInv, Types
    <3> QED
      BY <1>4, <2>1, <3>1 DEF Scheduled, Passed
  <2>3. /\ t' \in Files
        /\ \/ t' = t + 1 /\ pc' = pc /\ \A g \in Files : (g < t' <=> g < t \/ g = t) /\ (g >= t' <=> g > t)
           \/ t' = 1 /\ pc' = "sort" /\ \A g \in Files : g < t \/ g = t
    BY <1>1, <1>6, Onward DEF fclose
  <2>4. ASSUME NEW g \in Files PROVE Progress(g)' /\ Scheduled(g)'
    <3>1. Progress(g) /\ Scheduled(g)
      BY DEF Fates
    <3>2. CASE g = t
      BY <1>1, <1>2, <1>3, <2>1, <2>2, <2>3, <3>1, <3>2 DEF Progress, Intact, Scheduled, Passed
    <3>3. CASE g # t
      <4>1. at'[g] = at[g]
        BY <1>2, <2>1, <3>3
      <4>2. t' = t + 1 => (g > t' => g > t)
        BY <1>1, FilesAssumption DEF Files
      <4> QED
        BY <1>1, <1>3, <2>1, <2>2, <2>3, <3>1, <3>3, <4>1, <4>2 DEF Progress, Intact, Scheduled, Passed
    <3> QED
      BY <3>2, <3>3
  <2> QED
    BY <2>2, <2>3, <2>4 DEF Fates
<1>7. CASE pthread_create
  <2>1. /\ build = "pwords" /\ pc = "start" /\ at[t] = "none"
        /\ UNCHANGED <<left, own, pipe, tables>>
    <3>1. build = "pwords" /\ pc = "start" /\ UNCHANGED <<left, own, pipe, tables>>
      BY <1>7 DEF pthread_create, processes
    <3> QED
      BY <1>1, <3>1 DEF Fates, Scheduled
  <2>2. \/ at' = at /\ pc' = "failed" /\ unread' = unread \cup {t} /\ t' = t
        \/ /\ at' = [at EXCEPT ![t] = "read"] /\ unread' = unread
           /\ \/ t' = t + 1 /\ pc' = "start" /\ \A g \in Files : (g < t' <=> g < t \/ g = t) /\ (g >= t' <=> g > t)
              \/ t' = 1 /\ pc' = "join"
    BY <1>1, <1>7, <2>1, Onward DEF pthread_create
  <2>3. ASSUME NEW g \in Files PROVE Progress(g)' /\ Scheduled(g)'
    <3>1. Progress(g) /\ Scheduled(g)
      BY DEF Fates
    <3>2. pc' = "start" => (g > t' \/ g = t' => g > t)
      BY <1>1, <2>2, FilesAssumption DEF Files
    <3>3. CASE g = t
      BY <1>1, <1>2, <1>3, <2>1, <2>2, <3>1, <3>2, <3>3 DEF Progress, Intact, Scheduled, Passed
    <3>4. CASE g # t
      <4>1. at'[g] = at[g]
        BY <1>2, <2>2, <3>4
      <4>2. g \in unread' <=> g \in unread
        BY <2>2, <3>4
      <4> QED
        BY <1>1, <1>3, <2>1, <2>2, <3>1, <3>2, <3>4, <4>1, <4>2 DEF Progress, Intact, Scheduled, Passed
    <3> QED
      BY <3>3, <3>4
  <2> QED
    BY <1>1, <2>1, <2>2, <2>3 DEF Fates
<1>8. CASE pthread_join
  <2>1. /\ build = "pwords" /\ pc = "join" /\ at[t] = "done"
        /\ UNCHANGED <<at, left, unread, own, pipe, tables>>
    BY <1>8 DEF pthread_join, files, processes
  <2>2. \/ t' = t + 1 /\ pc' = "join" /\ \A g \in Files : (g < t' <=> g < t \/ g = t) /\ (g >= t' <=> g > t)
        \/ t' = 1 /\ pc' = "sort" /\ \A g \in Files : g < t \/ g = t
    BY <1>1, <1>8, <2>1, Onward DEF pthread_join
  <2>3. ASSUME NEW g \in Files PROVE Progress(g)' /\ Scheduled(g)'
    <3>1. Progress(g) /\ Scheduled(g)
      BY DEF Fates
    <3> QED
      BY <1>1, <1>3, <2>1, <2>2, <3>1 DEF Progress, Intact, Scheduled, Passed
  <2> QED
    BY <1>1, <2>1, <2>2, <2>3 DEF Fates
<1>9. CASE fork
  <2>1. /\ build = "fwords" /\ pc = "start" /\ at[t] = "none"
        /\ UNCHANGED <<left, own, pipe>>
    <3>1. build = "fwords" /\ pc = "start" /\ UNCHANGED <<left, own, pipe>>
      BY <1>9 DEF fork
    <3> QED
      BY <1>1, <3>1 DEF Fates, Scheduled
  <2>2. \/ t' = t + 1 /\ pc' = "start" /\ \A g \in Files : (g < t' <=> g < t \/ g = t) /\ (g >= t' <=> g > t)
        \/ t' = 1 /\ pc' = "merge" /\ \A g \in Files : g < t \/ g = t
    BY <1>1, <1>9, <2>1, Onward DEF fork
  <2>3. \/ /\ at' = [at EXCEPT ![t] = "open"] /\ unread' = unread
           /\ \E d \in Fds : tables'[t][d] = WriteEnd(t)
           /\ \A g \in Files \ {t} : tables'[g] = tables[g]
        \/ at' = [at EXCEPT ![t] = "done"] /\ unread' = unread \cup {t} /\ tables' = tables
    <3> DEFINE r == Lowest(FreeFds)
               w == Lowest(FreeFds \ {r})
               piped == [table EXCEPT ![r] = ReadEnd(t), ![w] = WriteEnd(t)]
    <3>1. r \in Fds /\ w \in Fds /\ r < w
      BY <1>9, ForkTakes
    <3>2. w # r
      BY <3>1, FilesAssumption DEF Fds
    <3>3. \/ at' = [at EXCEPT ![t] = "open"] /\ unread' = unread /\ tables' = [tables EXCEPT ![t] = [piped EXCEPT ![r] = FREE]]
          \/ at' = [at EXCEPT ![t] = "done"] /\ unread' = unread \cup {t} /\ tables' = tables
      BY <1>9 DEF fork
    <3>4. table \in [Fds -> Open \cup {FREE}]
      BY DEF PipeInv, Types
    <3>5. [piped EXCEPT ![r] = FREE][w] = WriteEnd(t)
      BY <3>1, <3>2, <3>4
    <3> HIDE DEF piped, r, w
    <3> QED
      BY <1>1, <1>2, <3>1, <3>3, <3>5
  <2>4. ASSUME NEW g \in Files PROVE Progress(g)' /\ Scheduled(g)'
    <3>1. Progress(g) /\ Scheduled(g)
      BY DEF Fates
    <3>2. pc' = "start" => (g > t' \/ g = t' => g > t)
      BY <1>1, <2>2, FilesAssumption DEF Files
    <3>3. CASE g = t
      BY <1>1, <1>2, <1>3, <2>1, <2>2, <2>3, <3>1, <3>2, <3>3 DEF Progress, Intact, Scheduled, Passed
    <3>4. CASE g # t
      <4>1. at'[g] = at[g] /\ tables'[g] = tables[g] /\ (g \in unread' <=> g \in unread)
        BY <1>2, <2>3, <3>4
      <4> QED
        BY <1>1, <1>3, <2>1, <2>2, <3>1, <3>2, <3>4, <4>1 DEF Progress, Intact, Scheduled, Passed
    <3> QED
      BY <3>3, <3>4
  <2> QED
    BY <1>1, <2>1, <2>2, <2>4 DEF Fates
<1>10. CASE merge_counts
  <2>1. /\ pc = "merge" /\ pc' = pc /\ t' = t /\ pipe[t] # <<>>
        /\ UNCHANGED <<at, left, unread, own, tables>> /\ pipe' = [pipe EXCEPT ![t] = Tail(@)]
    BY <1>10 DEF merge_counts, files
  <2>2. ASSUME NEW g \in Files PROVE Progress(g)' /\ Scheduled(g)'
    <3>1. Progress(g) /\ Scheduled(g)
      BY DEF Fates
    <3>2. CASE g = t
      BY <1>1, <1>2, <1>3, <1>4, <2>1, <3>1, <3>2 DEF Progress, Intact, Scheduled, Passed
    <3>3. CASE g # t
      <4>1. pipe'[g] = pipe[g]
        BY <1>2, <2>1, <3>3
      <4> QED
        BY <1>1, <2>1, <3>1, <4>1 DEF Progress, Intact, Scheduled, Passed
    <3> QED
      BY <3>2, <3>3
  <2> QED
    BY <1>1, <1>4, <2>1, <2>2 DEF Fates
<1>11. CASE end_of_counts
  <2>1. /\ pc = "merge" /\ AtEnd(t) /\ UNCHANGED <<at, left, unread, own, tables, pipe>>
    BY <1>11 DEF end_of_counts, files
  <2>2. \/ t' = t + 1 /\ pc' = "merge" /\ \A g \in Files : (g < t' <=> g < t \/ g = t) /\ (g >= t' <=> g > t)
        \/ t' = 1 /\ pc' = "sort" /\ \A g \in Files : g < t \/ g = t
    BY <1>1, <1>11, <2>1, Onward DEF end_of_counts
  <2>3. at[t] = "done" /\ pipe[t] = <<>>
    <3>1. \A d \in Fds : tables[t][d] # WriteEnd(t)
      BY <1>1, <2>1 DEF AtEnd
    <3>2. Scheduled(t)
      BY <1>1 DEF Fates
    <3>3. pipe[t] = <<>>
      BY <2>1 DEF AtEnd
    <3> QED
      BY <1>4, <2>1, <3>1, <3>2, <3>3 DEF Scheduled
  <2>4. ASSUME NEW g \in Files PROVE Progress(g)' /\ Scheduled(g)'
    <3>1. Progress(g) /\ Scheduled(g)
      BY DEF Fates
    <3> QED
      BY <1>1, <1>3, <1>4, <2>1, <2>2, <2>3, <3>1 DEF Progress, Intact, Scheduled, Passed
  <2> QED
    BY <1>1, <1>4, <2>1, <2>2, <2>4 DEF Fates
<1>12. CASE print_sorted
  <2>1. pc = "sort" /\ pc' = "exited" /\ UNCHANGED <<t, at, left, unread, own, pipe, tables>>
    BY <1>12 DEF print_sorted, files, processes
  <2> QED
    BY <1>1, <2>1 DEF Fates, Progress, Intact, Scheduled, Passed
<1> QED
  BY <1>5, <1>6, <1>7, <1>8, <1>9, <1>10, <1>11, <1>12 DEF Main

LEMMA FateStep ==
  ASSUME TypeInv, PipeInv, TwinInv, Fates, [Next]_vars
  PROVE  Fates'
<1>1. CASE UNCHANGED vars
  BY <1>1 DEF vars, files, processes, Fates, Progress, Intact, Scheduled, Passed
<1> QED
  BY <1>1, FateMain, FateReader DEF Next

(* What is pending at the end is what could not be read.                   *)
LEMMA PendingAtEnd ==
  ASSUME TypeInv, Fates, pc = "exited", NEW w
  PROVE  /\ \A f \in unread : Pendings(w)[f] = Found(w)[f]
         /\ \A f \in Files \ unread : Pendings(w)[f] = 0
<1>1. ASSUME NEW f \in Files
      PROVE  (f \in unread => Pendings(w)[f] = Found(w)[f]) /\ (f \notin unread => Pendings(w)[f] = 0)
  <2>1. at[f] = "done" /\ pipe[f] = <<>>
    BY DEF Fates, Scheduled, Passed
  <2>2. /\ f \in unread => own[f] = <<>> /\ left[f] = get_words(text[f])
        /\ f \notin unread => own[f] = <<>> /\ left[f] = <<>>
    BY <2>1 DEF Fates, Progress, Intact
  <2>3. CountOf(own[f], w) = 0 /\ CountOf(pipe[f], w) = 0
    BY <2>1, <2>2, CountEmpty
  <2>4. Pendings(w)[f] = Copies(left[f], w)
    <3>1. Pendings(w)[f] = Pending(f, w)
      BY DEF Pendings
    <3> QED
      BY <2>3, <3>1, PendingIs
  <2>5. f \in unread => Copies(left[f], w) = Found(w)[f]
    BY <2>2 DEF Found
  <2>6. Copies(<<>>, w) = 0
    <3>1. {i \in DOMAIN <<>> : <<>>[i] = w} = {}
      OBVIOUS
    <3> QED
      BY <3>1, FS_EmptySet DEF Copies
  <2> QED
    BY <2>2, <2>4, <2>5, <2>6
<1> QED
  BY <1>1 DEF TypeInv, Rest

LEMMA CountsAtEnd ==
  ASSUME TypeInv, Balanced, Fates, pc = "exited", NEW w \in Words
  PROVE  CountOf(word_counts, w) = SumFunction([f \in Files \ unread |-> Occurrences(text[f], w)])
<1> DEFINE P == Pendings(w)
           F == Found(w)
           R == Files \ unread
           c == CountOf(word_counts, w)
           sum(f, S) == SumFunctionOnSet(f, S)
<1>1. w \in Word /\ unread \subseteq Files /\ word_counts \in Seq(Entry)
  BY WordsLong DEF TypeInv, Rest
<1>2. ASSUME NEW f \in Files
      PROVE  F[f] = Occurrences(text[f], w) /\ F[f] \in Nat
  <2>1. text[f] \in Seq(Int)
    BY FilesAssumption DEF TypeInv, Rest
  <2>2. Len(w) > 1
    BY <1>1, Zenon DEF Word
  <2>3. Copies(get_words(text[f]), w) \in Nat
    BY <2>1, Lexed, CopiesNat
  <2> QED
    BY <2>1, <2>2, <2>3, WordsFound DEF Found
<1>3. /\ \A f \in Files : P[f] \in Nat
      /\ \A f \in unread : P[f] = F[f]
      /\ \A f \in R : P[f] = 0
  BY PendingNat, PendingAtEnd DEF Natural
<1>4. c + sum(P, Files) = sum(F, Files) /\ c \in Nat
  BY <1>1, CountNat DEF Balanced
<1>5. IsFiniteSet(Files) /\ IsFiniteSet(unread) /\ IsFiniteSet(R)
  BY <1>1, FilesFinite, FS_Subset
<1>6. SumFunction([f \in R |-> Occurrences(text[f], w)]) = sum(F, R)
  <2> DEFINE g == [f \in R |-> Occurrences(text[f], w)]
  <2>1. DOMAIN g = R /\ \A f \in R : g[f] = F[f]
    BY <1>2
  <2> HIDE DEF g, F, R
  <2>2. SumFunctionOnSet(g, R) = SumFunctionOnSet(F, R)
    BY <1>5, <2>1, SumSame
  <2> QED
    BY <2>1, <2>2, Zenon DEF SumFunction, g
<1> HIDE DEF P, F, c
<1>7. sum(P, Files) = sum(P, unread) + sum(P, R)
  BY <1>1, <1>3, <1>5, SumCut
<1>8. sum(F, Files) = sum(F, unread) + sum(F, R)
  BY <1>1, <1>2, <1>5, SumCut
<1> HIDE DEF R
<1>9. sum(P, unread) = sum(F, unread) /\ sum(P, R) = 0
  BY <1>3, <1>5, SumSame, SumZero
<1>10. sum(F, unread) \in Nat /\ sum(F, R) \in Nat
  BY <1>1, <1>2, <1>5, SumType DEF R
<1>11. c = sum(F, R)
  <2> HIDE DEF sum
  <2> QED
    BY <1>4, <1>7, <1>8, <1>9, <1>10
<1> QED
  BY <1>6, <1>11 DEF c, R

Ordered == pc = "exited" => Ascending(word_counts)

LEMMA OrderStep ==
  ASSUME TypeInv, Ordered, [Next]_vars
  PROVE  Ordered'
<1> SUFFICES ASSUME pc' = "exited" PROVE Ascending(word_counts')
  BY DEF Ordered
<1>1. CASE pc = "exited"
  <2>1. word_counts' = word_counts
    BY <1>1 DEF Next, Main, Reader, Running, vars
  <2> QED
    BY <1>1, <2>1 DEF Ordered
<1>2. CASE pc # "exited"
  <2>1. word_counts' = wordcount_sort(word_counts, build) /\ word_counts \in Seq(Entry)
    BY <1>2, ExitPrints DEF print_sorted, TypeInv, Rest
  <2> QED
    BY <2>1, SortIs
<1> QED
  BY <1>1, <1>2

(* Whatever the files hold, however many they are and whichever of them    *)
(* can be read: each program prints the words of those files with their    *)
(* occurrences, in order, however its threads or processes are scheduled.  *)
THEOREM ResultRight == Spec => []OutputOK
<1>1. Init => Ordered
  BY DEF Init, Ordered
<1>2. /\ Init => Balanced /\ Fates
      /\ TypeInv /\ PipeInv /\ TwinInv /\ Balanced /\ Fates /\ TypeInv' /\ [Next]_vars => Balanced' /\ Fates'
  BY BalanceStart, BalanceStep, FateStart, FateStep
<1>3. TypeInv /\ Ordered /\ [Next]_vars => Ordered'
  BY OrderStep
<1>4. TypeInv /\ Balanced /\ Fates /\ Ordered => OutputOK
  BY CountsAtEnd DEF Ordered, OutputOK
<1> QED
  BY <1>1, <1>2, <1>3, <1>4, Start, Step, TwinStart, TwinStep, TypeStart, TypeStep, PTL DEF Spec
=============================================================================
