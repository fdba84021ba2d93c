---------------------------- MODULE SharedQueue -----------------------------
(***************************************************************************)
(* The first-in first-out queue of bounded length that spooler.h and       *)
(* consumer.h promise the spooler's threads and wq.c the server's workers. *)
(* Every item inserted is handed to exactly one removal, in the order of   *)
(* insertion, and a removal returns NULL only after the queue was closed,  *)
(* with nothing left.                                                      *)
(***************************************************************************)
EXTENDS Naturals, Sequences

CONSTANTS Consumers, Strings, Size, NULL, Garbage

VARIABLES queue,       \* the strings inserted and not yet removed
          closed,      \* spool_shutdown has been called
          taken        \* taken[c]: what consumer c last got from spool_remove

vars == <<queue, closed, taken>>

Init == /\ queue = <<>>
        /\ closed = FALSE
        /\ taken = [c \in Consumers |-> Garbage]

Insert(s) == /\ ~closed
             /\ Len(queue) < Size
             /\ queue' = Append(queue, s)
             /\ UNCHANGED <<closed, taken>>

Remove(c) == /\ queue # <<>>
             /\ taken' = [taken EXCEPT ![c] = Head(queue)]
             /\ queue' = Tail(queue)
             /\ UNCHANGED closed

RemoveNothing(c) == /\ closed
                    /\ queue = <<>>
                    /\ taken' = [taken EXCEPT ![c] = NULL]
                    /\ UNCHANGED <<queue, closed>>

Shutdown == /\ closed' = TRUE
            /\ UNCHANGED <<queue, taken>>

Next == \/ \E s \in Strings : Insert(s)
        \/ \E c \in Consumers : Remove(c) \/ RemoveNothing(c)
        \/ Shutdown

Spec == Init /\ [][Next]_vars
=============================================================================
