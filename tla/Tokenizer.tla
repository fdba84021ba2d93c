------------------------------ MODULE Tokenizer ------------------------------
(***************************************************************************)
(* Shell/tokenizer.c: a line is cut into words at its blanks.  Quotes and  *)
(* backslashes keep a blank, a quote or a backslash inside a word.         *)
(*                                                                         *)
(* A line is a sequence of characters: " " stands for any blank, and an    *)
(* ordinary character may stand for a whole run of them.                   *)
(***************************************************************************)
EXTENDS Integers, Sequences, SequencesExt

CONSTANTS NMax,      \* n_max, the size of the static token
          Samples,   \* (bound) the words tried by RoundTrip,
          Seconds    \* (bound) and those that stand next to them

ASSUME NMaxAssumption == NMax \in Nat /\ NMax > 1
ASSUME SampleAssumption == <<>> \notin Samples \cup Seconds

MODE_NORMAL == ""   \* the other modes are called by their quote
Quotes == {"'", "\""}

Started == [mode |-> MODE_NORMAL, escape |-> FALSE, token |-> <<>>,
            tokens |-> <<>>, abort |-> FALSE]

(* Slip: a blank ends a word even if there is none.                        *)
vector_push_always(s) ==
  [s EXCEPT !.tokens = Append(@, s.token), !.token = <<>>]

(* The word in token, when there is one, is copied and pushed.             *)
vector_push(s) ==
  IF s.token = <<>> THEN s
  ELSE [s EXCEPT !.tokens = Append(@, s.token), !.token = <<>>]

take(s, c) == [s EXCEPT !.token = Append(@, c), !.escape = FALSE]

(* Slip: a backslash is an ordinary character between single quotes.       *)
next_char_sh(s, c) ==
  CASE s.escape                        -> take(s, c)
    [] c = "\\" /\ s.mode # "'"        -> [s EXCEPT !.escape = TRUE]
    [] c = s.mode                      -> [s EXCEPT !.mode = MODE_NORMAL]
    [] s.mode = MODE_NORMAL /\ c \in Quotes -> [s EXCEPT !.mode = c]
    [] s.mode = MODE_NORMAL /\ c = " " -> vector_push(s)
    [] OTHER                           -> take(s, c)

next_char(s, c) ==
  CASE s.escape                        -> take(s, c)
    [] c = "\\"                        -> [s EXCEPT !.escape = TRUE]
    [] c = s.mode                      -> [s EXCEPT !.mode = MODE_NORMAL]
    [] s.mode = MODE_NORMAL /\ c \in Quotes -> [s EXCEPT !.mode = c]
    [] s.mode = MODE_NORMAL /\ c = " " -> vector_push(s)
    [] OTHER                           -> take(s, c)

(* One turn of the loop: a token that would not fit aborts the program.    *)
turn(s, c) ==
  IF s.abort THEN s
  ELSE LET t == next_char(s, c) IN [t EXCEPT !.abort = Len(t.token) + 1 >= NMax]

(* A backslash at the end of the line is dropped.                          *)
tokenize(line) == vector_push(FoldLeft(turn, Started, line))
-----------------------------------------------------------------------------
(* How words may be written: each character within quotes or not, and      *)
(* behind a backslash or not.                                              *)
Styles == [mode : Quotes \cup {MODE_NORMAL}, escape : BOOLEAN]

Plain(c, mode) == c # "\\" /\ IF mode = MODE_NORMAL THEN c \notin Quotes \cup {" "} ELSE c # mode

Stylings(word) ==
  {s \in [1 .. Len(word) -> Styles] :
     \A i \in 1 .. Len(word) : s[i].escape \/ Plain(word[i], s[i].mode)}

quote(mode) == IF mode = MODE_NORMAL THEN <<>> ELSE <<mode>>
switch(from, to) == IF from = to THEN <<>> ELSE quote(from) \o quote(to)

Unclosed(word, s) ==
  FlattenSeq([i \in 1 .. Len(word) |->
    switch(IF i = 1 THEN MODE_NORMAL ELSE s[i - 1].mode, s[i].mode)
      \o (IF s[i].escape THEN <<"\\">> ELSE <<>>) \o <<word[i]>>])

Written(word, s) == Unclosed(word, s) \o quote(s[Len(word)].mode)

(* What tokenize makes of a line that says these words.                    *)
Means(line, words) ==
  LET result == tokenize(line)
  IN IF \E w \in ToSet(words) : Len(w) + 1 >= NMax THEN result.abort
     ELSE ~result.abort /\ result.tokens = words

(* tokenize gives back any words, whichever way each of their characters   *)
(* was quoted, in a line of one word (whose last quote may be missing) or  *)
(* of two; it aborts exactly when a word is too long.                      *)
RoundTrip ==
  \A v \in Samples : \A s \in Stylings(v) :
    /\ Means(Written(v, s), <<v>>)
    /\ Means(<<" ">> \o Unclosed(v, s), <<v>>)
    /\ \A w \in Seconds : \A t \in Stylings(w) :
         /\ Means(Written(v, s) \o <<" ">> \o Written(w, t), <<v, w>>)
         /\ Means(Written(w, t) \o <<" ", " ">> \o Unclosed(v, s) \o <<"\\">>, <<w, v>>)
=============================================================================
