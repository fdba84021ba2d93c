----------------------------- MODULE PintosList -----------------------------
(***************************************************************************)
(* list.c: doubly linked lists with a head and a tail node, on the level   *)
(* of their pointers.  A call that only follows or sets a fixed number of  *)
(* pointers is one step; the ones with a loop take a step per iteration,   *)
(* so that what holds inside the loops can be stated.  One thread uses the *)
(* two lists there are: l is the list of the call in progress.             *)
(***************************************************************************)
EXTENDS Integers, Sequences, FiniteSets

CONSTANTS Elems,       \* the struct list_elem of the program
          Lists,
          NULL,
          MaxRemoved   \* (bound) how many removed elements may lie about

(* All less can tell is the order of the elements: their rank, equal ones  *)
(* sharing one.                                                            *)
Ranks == 1 .. Cardinality(Elems)

Rankings == {v \in [Elems -> Ranks] :
               \A x \in Elems : \A r \in 1 .. v[x] : \E y \in Elems : v[y] = r}

head(k) == <<k, "head">>
tail(k) == <<k, "tail">>

Ends == {head(k) : k \in Lists} \cup {tail(k) : k \in Lists}
Nodes == Elems \cup Ends

ASSUME ElemsAssumption == IsFiniteSet(Elems) /\ Elems \cap Ends = {}
ASSUME NULLAssumption == NULL \notin Nodes /\ NULL \notin Lists

VARIABLES
  value,        \* value[x]: the rank of the structure around x
  next, prev,
  pc, l,        \* the loop in progress, and its list
  a0, a1b0, b1, \* the local variables of list_sort and inplace_merge
  runs,         \* output_run_cnt
  elem, best,   \* the local variables of the other loops
  dups,         \* the argument duplicates of list_unique
  was, passed   \* (history) the lists at the call, and at the start of the pass

links == <<next, prev>>
sorting == <<a0, a1b0, b1, runs, passed>>
locals == <<sorting, elem, best, dups>>
vars == <<value, links, pc, l, locals, was>>

less(a, b) == value[a] < value[b]

list_begin(k) == next[head(k)]
list_end(k) == tail(k)
list_empty(k) == list_begin(k) = list_end(k)

is_interior(x) == x # NULL /\ prev[x] # NULL /\ next[x] # NULL
is_tail(x) == x # NULL /\ prev[x] # NULL /\ next[x] = NULL

(* The elements met from the head along next, in order: as many as there   *)
(* are at most, to be defined for links that lead nowhere.                 *)
Contents(k) ==
  LET from[n \in 0 .. Cardinality(Elems)] ==
        [x \in Nodes \cup {NULL} |->
           IF n = 0 \/ x \in {tail(k), NULL} THEN <<>> ELSE <<x>> \o from[n - 1][next[x]]]
  IN from[Cardinality(Elems)][list_begin(k)]

(* The nodes from the first element to the tail, and where one of them is. *)
Row(k) == Append(Contents(k), tail(k))
place(k, x) == LET row == Row(k) IN CHOOSE i \in DOMAIN row : row[i] = x

OnList(k) == LET s == Contents(k) IN {s[i] : i \in DOMAIN s}
Loose ==
  Elems \ UNION {OnList(k) : k \in Lists}

(* list_init of every list; no local variable is in use.                   *)
Init ==
  /\ value \in Rankings
  /\ next = [x \in Nodes |-> IF \E k \in Lists : x = head(k)
                             THEN tail(CHOOSE k \in Lists : x = head(k)) ELSE NULL]
  /\ prev = [x \in Nodes |-> IF \E k \in Lists : x = tail(k)
                             THEN head(CHOOSE k \in Lists : x = tail(k)) ELSE NULL]
  /\ pc = "idle"
  /\ l = NULL
  /\ a0 = NULL /\ a1b0 = NULL /\ b1 = NULL /\ runs = 0
  /\ elem = NULL /\ best = NULL /\ dups = NULL
  /\ was = <<>> /\ passed = <<>>
-----------------------------------------------------------------------------
(* The pointer surgery of list_insert, list_remove and list_splice.        *)
insert(before, x) ==
  /\ prev' = [prev EXCEPT ![x] = prev[before], ![before] = x]
  /\ next' = [next EXCEPT ![x] = before, ![prev[before]] = x]

(* Slip: the node before BEFORE is not told.                               *)
splice_one_way(before, first, last) ==
  LET z == prev[last]
      nx == [next EXCEPT ![prev[first]] = next[z]]
      pv == [prev EXCEPT ![next[z]] = prev[first]]
  IN /\ prev' = [pv EXCEPT ![first] = pv[before], ![before] = z]
     /\ next' = [nx EXCEPT ![z] = before]

splice(before, first, last) ==
  LET z == prev[last]
      nx == [next EXCEPT ![prev[first]] = next[z]]
      pv == [prev EXCEPT ![next[z]] = prev[first]]
  IN IF first = last
     THEN UNCHANGED links
     ELSE /\ prev' = [pv EXCEPT ![first] = pv[before], ![before] = z]
          /\ next' = [nx EXCEPT ![z] = before, ![pv[before]] = first]

remove(x) ==
  /\ next' = [next EXCEPT ![prev[x]] = next[x]]
  /\ prev' = [prev EXCEPT ![next[x]] = prev[x]]

Idle == pc = "idle" /\ UNCHANGED <<value, pc, l, locals, was>>

(* With the first element or the tail it is list_push_front or _back.      *)
list_insert(before, x) ==
  /\ Idle
  /\ is_interior(before) \/ is_tail(before)
  /\ x \in Loose /\ before \notin Loose
  /\ insert(before, x)

list_remove(x) ==
  /\ Idle
  /\ x \in Elems \ Loose
  /\ Cardinality({y \in Loose : next[y] # NULL}) < MaxRemoved
  /\ remove(x)

(* The elements FIRST to LAST follow one another, and BEFORE is not one.   *)
list_splice(before, first, last) ==
  /\ Idle
  /\ prev[before] # NULL
  /\ \E k \in Lists :
       LET row == Row(k)
       IN \E i, j \in DOMAIN row :
            /\ first = row[i] /\ last = row[j] /\ i <= j
            /\ \A m \in i .. j - 1 : before # row[m]
  /\ before \notin Loose
  /\ splice(before, first, last)
-----------------------------------------------------------------------------
(* Calls and returns of the operations with loops.                         *)
Call(k, to) ==
  /\ pc = "idle"
  /\ pc' = to
  /\ l' = k
  /\ was' = [m \in Lists |-> Contents(m)]
  /\ UNCHANGED <<value, links, sorting>>

Return ==
  /\ pc \in {"sorted", "reversed", "ordered", "uniq", "found_max", "found_min"}
  /\ pc' = "idle"
  /\ l' = NULL
  /\ a0' = NULL /\ a1b0' = NULL /\ b1' = NULL /\ runs' = 0
  /\ elem' = NULL /\ best' = NULL /\ dups' = NULL
  /\ was' = <<>> /\ passed' = <<>>
  /\ UNCHANGED <<value, links>>

(* Slip: less is asked the wrong way round.                                *)
run_descending(a) ==
  LET row == Row(l)
      ends == {i \in place(l, a) + 1 .. Len(row) : i = Len(row) \/ less(row[i - 1], row[i])}
  IN row[CHOOSE i \in ends : \A j \in ends : i <= j]

(* The end of the run that starts at a: the first node behind it that is   *)
(* the tail or less than the one before it.                                *)
find_end_of_run(a) ==
  LET row == Row(l)
      ends == {i \in place(l, a) + 1 .. Len(row) : i = Len(row) \/ less(row[i], row[i - 1])}
  IN row[CHOOSE i \in ends : \A j \in ends : i <= j]

list_sort(k) ==
  /\ Call(k, "pass")
  /\ UNCHANGED <<elem, best, dups>>

StartPass ==
  /\ pc = "pass"
  /\ runs' = 0
  /\ a0' = list_begin(l)
  /\ passed' = Contents(l)
  /\ pc' = "locate"
  /\ UNCHANGED <<value, links, l, a1b0, b1, elem, best, dups, was>>

(* Each iteration counts a run and looks for a second one to merge with.   *)
Locate ==
  /\ pc = "locate"
  /\ a0 # list_end(l)
  /\ runs' = runs + 1
  /\ a1b0' = find_end_of_run(a0)
  /\ IF a1b0' = list_end(l)
     THEN pc' = "end of pass" /\ UNCHANGED b1
     ELSE pc' = "merge" /\ b1' = find_end_of_run(a1b0')
  /\ UNCHANGED <<value, links, l, a0, passed, elem, best, dups, was>>

(* Slip: of equal elements the one of the second run goes first.           *)
merge_unstable ==
  /\ pc = "merge"
  /\ IF a0 # a1b0 /\ a1b0 # b1
     THEN IF less(a0, a1b0)
          THEN a0' = next[a0] /\ UNCHANGED <<links, pc, a1b0>>
          ELSE /\ a1b0' = next[a1b0]
               /\ splice(a0, prev[next[a1b0]], next[a1b0])
               /\ UNCHANGED <<pc, a0>>
     ELSE pc' = "locate" /\ a0' = b1 /\ UNCHANGED <<links, a1b0>>
  /\ UNCHANGED <<value, l, b1, runs, passed, elem, best, dups, was>>

inplace_merge ==
  /\ pc = "merge"
  /\ IF a0 # a1b0 /\ a1b0 # b1
     THEN IF ~less(a1b0, a0)
          THEN a0' = next[a0] /\ UNCHANGED <<links, pc, a1b0>>
          ELSE /\ a1b0' = next[a1b0]
               /\ splice(a0, prev[next[a1b0]], next[a1b0])
               /\ UNCHANGED <<pc, a0>>
     ELSE pc' = "locate" /\ a0' = b1 /\ UNCHANGED <<links, a1b0>>
  /\ UNCHANGED <<value, l, b1, runs, passed, elem, best, dups, was>>

EndPass ==
  /\ pc = "end of pass" \/ (pc = "locate" /\ a0 = list_end(l))
  /\ pc' = IF runs > 1 THEN "pass" ELSE "sorted"
  /\ UNCHANGED <<value, links, l, locals, was>>
-----------------------------------------------------------------------------
list_reverse(k) ==
  /\ Call(k, IF list_empty(k) THEN "reversed" ELSE "reverse")
  /\ elem' = list_begin(k)
  /\ UNCHANGED <<best, dups>>

SwapElem ==
  /\ pc = "reverse"
  /\ elem # list_end(l)
  /\ next' = [next EXCEPT ![elem] = prev[elem]]
  /\ prev' = [prev EXCEPT ![elem] = next[elem]]
  /\ elem' = prev'[elem]
  /\ UNCHANGED <<value, pc, l, sorting, best, dups, was>>

(* The ends are swapped first, and then what the new ends point to.        *)
SwapEnds ==
  /\ pc = "reverse"
  /\ elem = list_end(l)
  /\ LET front == prev[tail(l)]
         back == next[head(l)]
     IN /\ next' = [next EXCEPT ![head(l)] = front, ![back] = prev[front]]
        /\ prev' = [prev EXCEPT ![tail(l)] = back, ![front] = next[back]]
  /\ pc' = "reversed"
  /\ UNCHANGED <<value, l, locals, was>>

(* best is the element to insert.                                          *)
list_insert_ordered(k, x) ==
  /\ Call(k, "search")
  /\ x \in Loose
  /\ best' = x
  /\ elem' = list_begin(k)
  /\ UNCHANGED dups

search ==
  /\ pc = "search"
  /\ IF elem # list_end(l) /\ ~less(best, elem)
     THEN elem' = next[elem] /\ UNCHANGED <<links, pc>>
     ELSE insert(elem, best) /\ pc' = "ordered" /\ UNCHANGED elem
  /\ UNCHANGED <<value, l, sorting, best, dups, was>>
-----------------------------------------------------------------------------
(* d is NULL or another list.                                              *)
list_unique(k, d) ==
  /\ d # k
  /\ Call(k, IF list_empty(k) THEN "uniq" ELSE "unique")
  /\ elem' = list_begin(k)
  /\ dups' = d
  /\ UNCHANGED best

(* list_remove, then list_push_back: together what list_splice does.       *)
RemoveTo(x, d) ==
  IF d = NULL THEN remove(x)
  ELSE splice(tail(d), x, next[x])

(* Slip: the element after the removed one is not compared.                *)
unique_skip ==
  /\ pc = "unique"
  /\ LET x == next[elem]
         same == x # list_end(l) /\ ~less(elem, x) /\ ~less(x, elem)
     IN /\ IF same THEN RemoveTo(x, dups) ELSE UNCHANGED links
        /\ IF x = list_end(l) \/ (same /\ next[x] = list_end(l))
           THEN pc' = "uniq" /\ UNCHANGED elem
           ELSE elem' = (IF same THEN next[x] ELSE x) /\ UNCHANGED pc
  /\ UNCHANGED <<value, l, sorting, best, dups, was>>

unique ==
  /\ pc = "unique"
  /\ LET x == next[elem]
         same == x # list_end(l) /\ ~less(elem, x) /\ ~less(x, elem)
     IN /\ IF same THEN RemoveTo(x, dups) ELSE UNCHANGED links
        /\ IF x = list_end(l) THEN pc' = "uniq" ELSE UNCHANGED pc
        /\ IF same \/ x = list_end(l) THEN UNCHANGED elem ELSE elem' = x
  /\ UNCHANGED <<value, l, sorting, best, dups, was>>

Found == [max |-> "found_max", min |-> "found_min"]

(* list_max and list_min: `which' names the loop.                          *)
list_extreme(k, which) ==
  /\ Call(k, IF list_empty(k) THEN Found[which] ELSE which)
  /\ best' = list_begin(k)
  /\ elem' = IF list_empty(k) THEN NULL ELSE next[list_begin(k)]
  /\ UNCHANGED dups

better(which, x) == IF which = "max" THEN less(best, x) ELSE less(x, best)

extreme ==
  /\ pc \in {"max", "min"}
  /\ IF elem = list_end(l)
     THEN pc' = Found[pc] /\ UNCHANGED <<elem, best>>
     ELSE /\ elem' = next[elem]
          /\ best' = IF better(pc, elem) THEN elem ELSE best
          /\ UNCHANGED pc
  /\ UNCHANGED <<value, links, l, sorting, dups, was>>
-----------------------------------------------------------------------------
Next ==
  \/ \E x \in Elems :
       \/ list_remove(x)
       \/ \E y \in Nodes : list_insert(y, x) \/ \E z \in Nodes : list_splice(z, x, y)
       \/ \E k \in Lists : list_insert_ordered(k, x)
  \/ \E k \in Lists :
       \/ list_sort(k) \/ list_reverse(k)
       \/ list_extreme(k, "max") \/ list_extreme(k, "min")
       \/ \E d \in Lists \cup {NULL} : list_unique(k, d)
  \/ StartPass \/ Locate \/ inplace_merge \/ EndPass
  \/ SwapElem \/ SwapEnds
  \/ search \/ unique \/ extreme
  \/ Return

Spec == Init /\ [][Next]_vars
-----------------------------------------------------------------------------
PCs == {"idle", "pass", "locate", "merge", "end of pass", "sorted", "reverse",
        "reversed", "search", "ordered", "unique", "uniq", "max", "min",
        "found_max", "found_min"}

(* Every variable has its type, and a loop that runs looks at a node.      *)
TypeOK ==
  /\ value \in [Elems -> Ranks]
  /\ next \in [Nodes -> Nodes \cup {NULL}]
  /\ prev \in [Nodes -> Nodes \cup {NULL}]
  /\ pc \in PCs
  /\ l \in Lists \cup {NULL}
  /\ {a0, a1b0, b1, elem, best} \subseteq Nodes \cup {NULL}
  /\ runs \in 0 .. (Cardinality(Elems) + 1) \div 2
  /\ dups \in Lists \cup {NULL}
  /\ pc \in {"reverse", "search", "unique", "max", "min"} => elem # NULL

(* What list.c calls the symmetry of the arrangement: from every head the  *)
(* next links lead to the tail of that list, every prev link leads back,   *)
(* no element is on two lists, and no loop runs off them.  Only            *)
(* list_reverse breaks it, until it has swapped the ends.                  *)
LinksOK ==
  /\ TypeOK
  /\ pc # "reverse" =>
       LET s == [k \in Lists |-> Contents(k)]
       IN /\ \A k \in Lists :
               LET nodes == <<head(k)>> \o s[k] \o <<tail(k)>>
               IN /\ prev[head(k)] = NULL /\ next[tail(k)] = NULL
                  /\ \A i \in 1 .. Len(s[k]) + 1 :
                       next[nodes[i]] = nodes[i + 1] /\ prev[nodes[i + 1]] = nodes[i]
          /\ \A j, k \in Lists : \A m \in DOMAIN s[j], n \in DOMAIN s[k] :
               s[j][m] = s[k][n] => j = k /\ m = n

Ordered(s) == \A i \in 1 .. Len(s) - 1 : ~less(s[i + 1], s[i])

Before(s, x, y) == \E i, j \in DOMAIN s : i < j /\ s[i] = x /\ s[j] = y

(* The elements of t are those of s, and equal ones are in the same order. *)
StableArrangement(s, t) ==
  /\ Len(s) = Len(t)
  /\ \A x, y \in {s[i] : i \in DOMAIN s} :
       /\ \E i \in DOMAIN t : t[i] = x
       /\ value[x] = value[y] => (Before(s, x, y) <=> Before(t, x, y))

(* Between any two steps of list_sort, the list is the one of the call     *)
(* with its elements rearranged, no two equal ones exchanged; at the end   *)
(* it is in order.                                                         *)
SortOK ==
  /\ pc \in {"pass", "locate", "merge", "end of pass", "sorted"} =>
       StableArrangement(was[l], Contents(l))
  /\ pc = "sorted" => Ordered(Contents(l))

Segment(x, y) == SubSeq(Row(l), place(l, x), place(l, y) - 1)

(* The places among the first m of s where a run ends and another begins.  *)
Drops(s, m) == {i \in 1 .. m - 1 : less(s[i + 1], s[i])}

RunCount(s) == IF s = <<>> THEN 0 ELSE 1 + Cardinality(Drops(s, Len(s)))

(* list.c:395-396 assert it on entry, and it holds at every iteration: the *)
(* two ranges still to be merged are each in order.  So a pass halves the  *)
(* number of runs, rounding up, which is why list_sort terminates, in      *)
(* O(n log n) steps (list.c:409): what a pass counts is an upper bound of  *)
(* the runs it leaves behind.                                              *)
MergeOK ==
  /\ pc = "merge" =>
       /\ Ordered(Segment(a0, a1b0))
       /\ Ordered(Segment(a1b0, b1))
  /\ pc = "end of pass" \/ (pc = "locate" /\ a0 = list_end(l)) =>
       /\ RunCount(Contents(l)) <= runs
       /\ runs <= (RunCount(passed) + 1) \div 2

Reversed(s) == [i \in DOMAIN s |-> s[Len(s) + 1 - i]]

(* The positions that start a group of adjacent equal elements.            *)
Leaders(s) == {i \in DOMAIN s : i = 1 \/ value[s[i - 1]] # value[s[i]]}

(* Behind its first d elements, t has those of s at the positions A, in    *)
(* their order, and nothing else.                                          *)
Picks(t, d, s, A) ==
  \E g \in [d + 1 .. Len(t) -> A] :
    /\ \A a \in A : \E i \in DOMAIN g : g[i] = a
    /\ \A i, j \in DOMAIN g : i < j => g[i] < g[j]
    /\ \A i \in DOMAIN g : t[i] = s[g[i]]

(* What the other calls with loops promise.  list_reverse turns the list   *)
(* round.  list_insert_ordered keeps a sorted list sorted and puts the new *)
(* element after those equal to it.  list_unique keeps the first of each   *)
(* group of adjacent equal elements and appends the others, in their       *)
(* order, to the list of duplicates.  list_max and list_min return the     *)
(* earliest extreme element, the tail of an empty list.                    *)
ResultOK ==
  LET old == was[l]
      now == Contents(l)
      beaten(x, y) == IF pc = "found_max" THEN less(y, x) ELSE less(x, y)
  IN /\ pc = "reversed" => now = Reversed(old)
     /\ pc = "ordered" /\ Ordered(old) =>
          /\ Ordered(now)
          /\ \A i \in DOMAIN old : value[old[i]] = value[best] => Before(now, old[i], best)
     /\ pc = "uniq" =>
          /\ Picks(now, 0, old, Leaders(old))
          /\ dups # NULL =>
               /\ Picks(Contents(dups), Len(was[dups]), old, DOMAIN old \ Leaders(old))
               /\ was[dups] = SubSeq(Contents(dups), 1, Len(was[dups]))
     /\ pc \in {"found_max", "found_min"} =>
          IF old = <<>> THEN best = list_end(l)
          ELSE \E i \in DOMAIN old :
                 /\ best = old[i]
                 /\ \A j \in DOMAIN old :
                      ~beaten(old[j], old[i]) /\ (j < i => beaten(old[i], old[j]))
=============================================================================
