------------------------------ MODULE WordList ------------------------------
(***************************************************************************)
(* word_helpers.c, and word_count.c, word_count_l.c, word_count_p.c: words *)
(* are cut from a text, and counted in a list.  The pointers are left out  *)
(* here (PintosList has them): a list is a sequence of entries.            *)
(*                                                                         *)
(* A character is a number: k stands for a lower-case letter, -k for the   *)
(* same letter in upper case, 0 for whatever is no letter.                 *)
(***************************************************************************)
EXTENDS Integers, Sequences, FiniteSets, SequencesExt

isalpha(ch) == ch # 0
tolower(ch) == IF ch < 0 THEN -ch ELSE ch

(* get_word, called until it returns 0: s.buffer is the word that is read. *)
complete(s) == IF s.buffer = <<>> THEN s
               ELSE [buffer |-> <<>>, words |-> Append(s.words, s.buffer)]

next_char(s, ch) == IF isalpha(ch) THEN [s EXCEPT !.buffer = Append(@, tolower(ch))]
                                   ELSE complete(s)

get_words(text) ==
  complete(FoldLeft(next_char, [buffer |-> <<>>, words |-> <<>>], text)).words

(* strcmp(v, w) < 0                                                        *)
strcmp(v, w) ==
  \/ v # w /\ IsPrefix(v, w)
  \/ \E i \in DOMAIN v \cap DOMAIN w :
       v[i] < w[i] /\ SubSeq(v, 1, i - 1) = SubSeq(w, 1, i - 1)

Entry == [word : {w \in Seq(Nat \ {0}) : Len(w) > 1}, count : Nat \ {0}]

(* 0 stands for NULL: no entry has the word.                               *)
find_word(list, w) ==
  IF \E i \in DOMAIN list : list[i].word = w
  THEN CHOOSE i \in DOMAIN list : list[i].word = w
  ELSE 0

(* word_count.c inserts at the head, the others at the end.                *)
insert(list, w, c, build) ==
  IF build = "words" THEN <<[word |-> w, count |-> c]>> \o list
                     ELSE Append(list, [word |-> w, count |-> c])

(* i is the result of find_word.                                           *)
add(list, i, w, c, build) ==
  IF i = 0 THEN insert(list, w, c, build)
  ELSE [list EXCEPT ![i].count = @ + c]

add_word_with_count(list, w, c, build) == add(list, find_word(list, w), w, c, build)

less_count(x, y) ==
  \/ x.count < y.count
  \/ x.count = y.count /\ strcmp(x.word, y.word)

(* The loop stops at the first entry, but the very first, that is not      *)
(* smaller; at is how many entries end up before the new one.              *)
wordcount_insert_ordered(sorted, x) ==
  LET stops == {i \in 2 .. Len(sorted) : ~less_count(sorted[i], x)}
      at == IF sorted = <<>> \/ less_count(x, sorted[1]) THEN 0
            ELSE IF stops = {} THEN Len(sorted)
            ELSE (CHOOSE i \in stops : \A j \in stops : i <= j) - 1
  IN SubSeq(sorted, 1, at) \o <<x>> \o SubSeq(sorted, at + 1, Len(sorted))

Ascending(list) == \A i \in 1 .. Len(list) - 1 : ~less_count(list[i + 1], list[i])

(* With PINTOS_LIST it is list_sort: some rearrangement that is in order.  *)
wordcount_sort(list, build) ==
  IF build = "words"
  THEN FoldLeft(wordcount_insert_ordered, <<>>, list)
  ELSE LET arranged == {[i \in DOMAIN list |-> list[p[i]]] :
                          p \in {p \in [DOMAIN list -> DOMAIN list] : IsInjective(p)}}
       IN CHOOSE s \in arranged : Ascending(s)

CountOf(list, w) ==
  SumFunction([i \in DOMAIN list |-> IF list[i].word = w THEN list[i].count ELSE 0])
-----------------------------------------------------------------------------
(* The words of a text, by their places: the longest stretches of two or   *)
(* more letters.                                                           *)
Stretches(s) ==
  {p \in (DOMAIN s) \X (DOMAIN s) :
     /\ p[1] < p[2]
     /\ \A i \in p[1] .. p[2] : isalpha(s[i])
     /\ \A i \in {p[1] - 1, p[2] + 1} \cap DOMAIN s : ~isalpha(s[i])}

WordAt(s, p) == [i \in 1 .. p[2] - p[1] + 1 |-> tolower(s[p[1] + i - 1])]

Occurrences(s, w) == Cardinality({p \in Stretches(s) : WordAt(s, p) = w})
=============================================================================
