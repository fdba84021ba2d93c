----------------------------- MODULE WordCount ------------------------------
(***************************************************************************)
(* The programs words, lwords, pwords and fwords: the same count by one    *)
(* thread, by a thread per file, and by a process per file that sends its  *)
(* counts through a pipe.  `build' is the program that runs.               *)
(***************************************************************************)
EXTENDS WordList

CONSTANTS NFiles,      \* argc - 1, at least 1
          Texts,       \* what a file may hold: sequences of characters
          Inherited,   \* the descriptors that are open from the start
          MaxFd,       \* (bound) the highest descriptor
          Capacity     \* how many lines fit into a pipe

Files == 1 .. NFiles
Programs == {"words", "lwords", "pwords", "fwords"}
Fds == 0 .. MaxFd

ReadEnd(f) == <<"read", f>>
WriteEnd(f) == <<"write", f>>
FREE == <<"free">>
GIVEN == <<"given">>
Open == {ReadEnd(f) : f \in Files} \cup {WriteEnd(f) : f \in Files} \cup {GIVEN}

ASSUME FilesAssumption ==
  /\ NFiles \in Nat \ {0} /\ MaxFd \in Nat /\ Capacity \in Nat \ {0}
  /\ Inherited \subseteq Fds
  /\ Cardinality(Fds \ Inherited) >= 2 * NFiles
  /\ Texts \subseteq Seq(Int)

VARIABLES
  build, text,
  word_counts,   \* the list of main
  pc, t,         \* where main is, and its loop variable
  at,            \* at[f]: where the reader of file f is
  left,          \* left[f]: the words not yet counted
  unread,        \* the files that could not be read
  lock, res,     \* the mutex and the local res of add_word (pwords)
  own,           \* own[f]: the list of a child, without what it has printed
  fd, table,     \* the read ends in main's array fd; main's descriptors
  tables,        \* tables[f]: the descriptors of a child
  pipe           \* pipe[f]: the lines in it

files == <<at, left, unread>>
locals == <<lock, res>>
processes == <<own, fd, table, tables, pipe>>
vars == <<build, text, word_counts, pc, t, files, locals, processes>>

(* init_words, and nothing opened yet.                                     *)
Init ==
  /\ build \in Programs
  /\ text \in [Files -> Texts]
  /\ word_counts = <<>>
  /\ pc = "start" /\ t = 1
  /\ at = [f \in Files |-> "none"]
  /\ left = [f \in Files |-> get_words(text[f])]
  /\ unread = {}
  /\ lock = 0 /\ res = [f \in Files |-> 0]
  /\ own = [f \in Files |-> <<>>]
  /\ fd = [f \in Files |-> 0]
  /\ table = [d \in Fds |-> IF d \in Inherited THEN GIVEN ELSE FREE]
  /\ tables = [f \in Files |-> [d \in Fds |-> FREE]]
  /\ pipe = [f \in Files |-> <<>>]

Constant == UNCHANGED <<build, text>>

Running == pc \notin {"exited", "failed"}

(* The next round of a loop over the files, or what follows it.            *)
Continue(after) ==
  IF t < NFiles THEN t' = t + 1 /\ UNCHANGED pc
                ELSE t' = 1 /\ pc' = after
-----------------------------------------------------------------------------
(* count_words of one thread or child.  Words of one letter are dropped.   *)
Skip(f) ==
  /\ at[f] = "read"
  /\ left[f] # <<>> /\ Len(Head(left[f])) = 1
  /\ left' = [left EXCEPT ![f] = Tail(@)]
  /\ UNCHANGED <<word_counts, pc, t, at, unread, locals, processes>>

(* Slip: a word of one letter is a word.                                   *)
Wanted(f) == left[f] # <<>>

IsWord(f) == left[f] # <<>> /\ Len(Head(left[f])) > 1

(* words and lwords: main reads the file it has opened.                    *)
fopen ==
  /\ build \in {"words", "lwords"}
  /\ pc = "start" /\ at[t] = "none"
  /\ \/ at' = [at EXCEPT ![t] = "read"] /\ UNCHANGED <<pc, unread>>
     \/ pc' = "failed" /\ unread' = unread \cup {t} /\ UNCHANGED at
  /\ UNCHANGED <<word_counts, t, left, locals, processes>>

add_word(f) ==
  /\ build \in {"words", "lwords"}
  /\ at[f] = "read" /\ IsWord(f)
  /\ word_counts' = add_word_with_count(word_counts, Head(left[f]), 1, build)
  /\ left' = [left EXCEPT ![f] = Tail(@)]
  /\ UNCHANGED <<pc, t, at, unread, locals, processes>>

fclose ==
  /\ build \in {"words", "lwords"}
  /\ at[t] = "read" /\ left[t] = <<>>
  /\ at' = [at EXCEPT ![t] = "done"]
  /\ Continue("sort")
  /\ UNCHANGED <<word_counts, left, unread, locals, processes>>
-----------------------------------------------------------------------------
(* pwords.  The file cannot be opened, or the thread not be created: exit. *)
pthread_create ==
  /\ build = "pwords"
  /\ pc = "start"
  /\ \/ at' = [at EXCEPT ![t] = "read"] /\ Continue("join") /\ UNCHANGED unread
     \/ pc' = "failed" /\ unread' = unread \cup {t} /\ UNCHANGED <<t, at>>
  /\ UNCHANGED <<word_counts, left, locals, processes>>

(* Slip: the lock is taken after the word was looked up.                   *)
add_word_before_lock(f) ==
  /\ build = "pwords"
  /\ at[f] = "read" /\ IsWord(f)
  /\ at' = [at EXCEPT ![f] = "found"]
  /\ res' = [res EXCEPT ![f] = find_word(word_counts, Head(left[f]))]
  /\ UNCHANGED <<word_counts, pc, t, left, unread, lock, processes>>

add_word_lock(f) ==
  /\ build = "pwords"
  /\ at[f] = "read" /\ IsWord(f)
  /\ lock = 0
  /\ lock' = f
  /\ at' = [at EXCEPT ![f] = "locked"]
  /\ UNCHANGED <<word_counts, pc, t, left, unread, res, processes>>

add_word_find(f) ==
  /\ at[f] = "locked"
  /\ res' = [res EXCEPT ![f] = find_word(word_counts, Head(left[f]))]
  /\ at' = [at EXCEPT ![f] = "found"]
  /\ UNCHANGED <<word_counts, pc, t, left, unread, lock, processes>>

add_word_update(f) ==
  /\ at[f] = "found"
  /\ word_counts' = add(word_counts, res[f], Head(left[f]), 1, build)
  /\ left' = [left EXCEPT ![f] = Tail(@)]
  /\ at' = [at EXCEPT ![f] = "unlock"]
  /\ UNCHANGED <<pc, t, unread, locals, processes>>

add_word_unlock(f) ==
  /\ at[f] = "unlock"
  /\ lock' = 0
  /\ at' = [at EXCEPT ![f] = "read"]
  /\ res' = [res EXCEPT ![f] = 0]
  /\ UNCHANGED <<word_counts, pc, t, left, unread, processes>>

pthread_exit(f) ==
  /\ build = "pwords"
  /\ at[f] = "read" /\ left[f] = <<>>
  /\ at' = [at EXCEPT ![f] = "done"]
  /\ UNCHANGED <<word_counts, pc, t, left, unread, locals, processes>>

(* Slip: the first thread that ends ends the loop.                         *)
pthread_join_any ==
  /\ build = "pwords"
  /\ pc = "join" /\ \E f \in Files : at[f] = "done"
  /\ Continue("sort")
  /\ UNCHANGED <<word_counts, files, locals, processes>>

pthread_join ==
  /\ build = "pwords"
  /\ pc = "join" /\ at[t] = "done"
  /\ Continue("sort")
  /\ UNCHANGED <<word_counts, files, locals, processes>>
-----------------------------------------------------------------------------
(* fwords.  A new pipe takes the two lowest free descriptors.              *)
Lowest(S) == CHOOSE d \in S : \A e \in S : d <= e

FreeFds == {d \in Fds : table[d] = FREE}

(* Slip: the read end is closed.                                           *)
closed_read_end(r) == r

(* main closes the descriptor after the read end, whatever that is.        *)
closed_by_main(r) == r + 1

(* pipe, fork and close.  Without a child the pipe stays empty.            *)
fork ==
  /\ build = "fwords"
  /\ pc = "start"
  /\ LET r == Lowest(FreeFds)
         w == Lowest(FreeFds \ {r})
         piped == [table EXCEPT ![r] = ReadEnd(t), ![w] = WriteEnd(t)]
     IN /\ fd' = [fd EXCEPT ![t] = r]
        /\ table' = [piped EXCEPT ![closed_by_main(r)] = FREE]
        /\ \/ /\ at' = [at EXCEPT ![t] = "open"]
              /\ tables' = [tables EXCEPT ![t] = [piped EXCEPT ![r] = FREE]]
              /\ UNCHANGED unread
           \/ /\ at' = [at EXCEPT ![t] = "done"]
              /\ unread' = unread \cup {t}
              /\ UNCHANGED tables
  /\ Continue("merge")
  /\ UNCHANGED <<word_counts, left, locals, own, pipe>>

ExitChild(f) ==
  /\ at' = [at EXCEPT ![f] = "done"]
  /\ tables' = [tables EXCEPT ![f] = [d \in Fds |-> FREE]]

child_fopen(f) ==
  /\ at[f] = "open"
  /\ \/ at' = [at EXCEPT ![f] = "read"] /\ UNCHANGED <<unread, tables>>
     \/ ExitChild(f) /\ unread' = unread \cup {f}
  /\ UNCHANGED <<word_counts, pc, t, left, locals, own, fd, table, pipe>>

(* A child counts into its copy of the list, which is empty.               *)
child_add_word(f) ==
  /\ build = "fwords"
  /\ at[f] = "read" /\ IsWord(f)
  /\ own' = [own EXCEPT ![f] = add_word_with_count(@, Head(left[f]), 1, build)]
  /\ left' = [left EXCEPT ![f] = Tail(@)]
  /\ UNCHANGED <<word_counts, pc, t, at, unread, locals, fd, table, tables, pipe>>

(* A full pipe makes the child wait.                                       *)
fprint_words(f) ==
  /\ build = "fwords"
  /\ at[f] = "read" /\ left[f] = <<>>
  /\ own[f] # <<>>
  /\ Len(pipe[f]) < Capacity
  /\ pipe' = [pipe EXCEPT ![f] = Append(@, Head(own[f]))]
  /\ own' = [own EXCEPT ![f] = Tail(@)]
  /\ UNCHANGED <<word_counts, pc, t, files, locals, fd, table, tables>>

child_exit(f) ==
  /\ build = "fwords"
  /\ at[f] = "read" /\ left[f] = <<>> /\ own[f] = <<>>
  /\ ExitChild(f)
  /\ UNCHANGED <<word_counts, pc, t, left, unread, locals, own, fd, table, pipe>>

(* Slip: waitpid without WNOHANG, before the pipe is read.                 *)
merge_after_wait ==
  /\ pc = "merge"
  /\ pipe[t] # <<>>
  /\ at[t] = "done"
  /\ LET line == Head(pipe[t])
     IN word_counts' = add_word_with_count(word_counts, line.word, line.count, build)
  /\ pipe' = [pipe EXCEPT ![t] = Tail(@)]
  /\ UNCHANGED <<pc, t, files, locals, own, fd, table, tables>>

merge_counts ==
  /\ pc = "merge"
  /\ pipe[t] # <<>>
  /\ LET line == Head(pipe[t])
     IN word_counts' = add_word_with_count(word_counts, line.word, line.count, build)
  /\ pipe' = [pipe EXCEPT ![t] = Tail(@)]
  /\ UNCHANGED <<pc, t, files, locals, own, fd, table, tables>>

(* End of file: the pipe is empty, and nobody has its write end.           *)
AtEnd(f) ==
  /\ pipe[f] = <<>>
  /\ \A d \in Fds : table[d] # WriteEnd(f) /\ \A g \in Files : tables[g][d] # WriteEnd(f)

end_of_counts ==
  /\ pc = "merge"
  /\ AtEnd(t)
  /\ table' = [table EXCEPT ![fd[t]] = FREE]
  /\ Continue("sort")
  /\ UNCHANGED <<word_counts, files, locals, own, fd, tables, pipe>>
-----------------------------------------------------------------------------
(* The result is sorted, printed, and main returns.                        *)
print_sorted ==
  /\ pc = "sort"
  /\ word_counts' = wordcount_sort(word_counts, build)
  /\ pc' = "exited"
  /\ UNCHANGED <<t, files, locals, processes>>

Main ==
  /\ Running
  /\ \/ fopen \/ fclose
     \/ pthread_create \/ pthread_join
     \/ fork \/ merge_counts \/ end_of_counts
     \/ print_sorted
  /\ Constant

Reader(f) ==
  /\ Running
  /\ \/ Skip(f) \/ add_word(f)
     \/ add_word_lock(f) \/ add_word_find(f) \/ add_word_update(f)
     \/ add_word_unlock(f) \/ pthread_exit(f)
     \/ child_fopen(f) \/ child_add_word(f) \/ fprint_words(f) \/ child_exit(f)
  /\ Constant

Next == Main \/ \E f \in Files : Reader(f)

Spec == Init /\ [][Next]_vars

(* The operating system runs main and every thread or child.               *)
FairSpec == Spec /\ WF_vars(Main) /\ \A f \in Files : WF_vars(Reader(f))
-----------------------------------------------------------------------------
(* Every variable has its type; a list never holds a word of one letter.   *)
TypeOK ==
  /\ build \in Programs /\ text \in [Files -> Texts]
  /\ word_counts \in Seq(Entry)
  /\ pc \in {"start", "join", "merge", "sort", "exited", "failed"}
  /\ t \in Files
  /\ at \in [Files -> {"none", "open", "read", "locked", "found", "unlock", "done"}]
  /\ left \in [Files -> Seq(Seq(Nat \ {0}))]
  /\ unread \subseteq Files
  /\ lock \in Files \cup {0}
  /\ res \in [Files -> 0 .. Len(word_counts)]
  /\ own \in [Files -> Seq(Entry)]
  /\ fd \in [Files -> Fds]
  /\ table \in [Fds -> Open \cup {FREE}]
  /\ tables \in [Files -> [Fds -> Open \cup {FREE}]]
  /\ pipe \in [Files -> Seq(Entry)]

(* The words that the files can have.                                      *)
Words == UNION {{WordAt(s, p) : p \in Stretches(s)} : s \in Texts}

(* No list has a word in two places, which in pwords is what the lock      *)
(* around find_word and list_push_back is for.                             *)
NoTwins ==
  \A s \in {word_counts} \cup {own[f] : f \in Files} :
    \A i, j \in DOMAIN s : s[i].word = s[j].word => i = j

(* The occurrences of a word in file f that main's list has yet to get.    *)
Pending(f, w) ==
  CountOf(own[f], w) + CountOf(pipe[f], w)
    + Cardinality({i \in DOMAIN left[f] : left[f][i] = w})

(* No occurrence of a word is lost or counted twice: what is in the lists  *)
(* and in the pipes is what has been read of the files, each word in one   *)
(* place of a list.                                                        *)
Counted ==
  /\ \A w \in Words :
       CountOf(word_counts, w) + SumFunction([f \in Files |-> Pending(f, w)])
         = SumFunction([f \in Files |-> Occurrences(text[f], w)])
  /\ NoTwins

(* A pipe that main has yet to read is open at the number it remembers,    *)
(* although numbers are used again and closed by arithmetic.               *)
ReadEndsKept ==
  build = "fwords" =>
    \A f \in Files :
      (IF pc = "start" THEN f < t ELSE pc = "merge" /\ f >= t) =>
        table[fd[f]] = ReadEnd(f)

(* What is printed: each word of the files that could be read, once, with  *)
(* its occurrences, in the order of less_count, whichever program ran and  *)
(* however its threads or processes were scheduled.                        *)
OutputOK ==
  pc = "exited" =>
    /\ Ascending(word_counts)
    /\ \A w \in Words :
         CountOf(word_counts, w) =
           SumFunction([f \in Files \ unread |-> Occurrences(text[f], w)])

(* Every program ends, however long the files and however small the pipes. *)
Terminates == <>(~Running)
=============================================================================
