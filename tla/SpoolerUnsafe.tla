---------------------------- MODULE SpoolerUnsafe ----------------------------
(***************************************************************************)
(* spooler_unsafe.c, the spooler for a single thread: any sequence of the  *)
(* calls that api_tests.c makes.                                           *)
(***************************************************************************)
EXTENDS SpoolShared, Sequences

VARIABLE returned     \* what the last spool_remove_unsafe returned

vars == <<ring, returned>>

Init == spool_init_shared /\ returned = Garbage

spool_insert_unsafe(item) ==
  /\ IF spool_full THEN UNCHANGED ring ELSE spool_insert_unchecked(item)
  /\ UNCHANGED returned

spool_remove_unsafe ==
  IF spool_empty
  THEN returned' = NULL /\ UNCHANGED ring
  ELSE returned' = removed_item /\ spool_remove_unchecked

Next == spool_remove_unsafe \/ \E item \in Strings : spool_insert_unsafe(item)

Spec == Init /\ [][Next]_vars
-----------------------------------------------------------------------------
(* The buffer is a queue of bounded length: a string is put at its end, or *)
(* refused when the buffer is full, and a removal returns the oldest       *)
(* string, or NULL when there is none.                                     *)
Queue ==
  [][\/ /\ returned' = returned
        /\ \/ Len(Contents) < Size /\ \E item \in Strings : Contents' = Append(Contents, item)
           \/ Len(Contents) = Size /\ Contents' = Contents
     \/ /\ Contents # <<>>
        /\ returned' = Head(Contents) /\ Contents' = Tail(Contents)
     \/ /\ Contents = <<>>
        /\ returned' = NULL /\ Contents' = Contents]_vars
=============================================================================
