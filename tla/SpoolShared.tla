---------------------------- MODULE SpoolShared -----------------------------
(***************************************************************************)
(* spooler_shared.c: the circular buffer every version of the spooler is   *)
(* built on.  Its operations make no synchronisation of their own, so each *)
(* is one step here and its caller decides what may interleave with it.    *)
(***************************************************************************)
EXTENDS Integers

CONSTANTS Size,        \* sp->size, the number of slots; never changes
          Strings,     \* the char* values stored in the buffer
          NULL,        \* the C null pointer
          Garbage      \* what uninitialised memory holds

ASSUME SizeAssumption == Size \in Nat \ {0}
ASSUME PointerAssumption == /\ NULL \notin Strings
                            /\ Garbage \notin Strings
                            /\ NULL # Garbage

VARIABLES write_index, read_index,
          capacity,    \* sp->capacity: the number of FREE slots
          elements,    \* sp->elements, the malloc'ed array of slots
          heap         \* the strings that are malloc'ed and not yet freed

ring == <<write_index, read_index, capacity, elements, heap>>

Slots == 0 .. Size - 1

spool_init_shared ==
  /\ write_index = 0
  /\ read_index = 0
  /\ capacity = Size
  /\ elements = [i \in Slots |-> Garbage]
  /\ heap = {}

spool_empty == capacity = Size

spool_full == capacity = 0

(* A full buffer is not refused: the string under write_index is freed and *)
(* overwritten, and read_index stays.  (The early return for a buffer of   *)
(* size 0 cannot be taken: Size > 0.)                                      *)
spool_insert_unchecked(item) ==
  /\ capacity' = IF spool_full THEN capacity ELSE capacity - 1
  /\ heap' = IF spool_full THEN heap \ {elements[write_index]} ELSE heap
  /\ elements' = [elements EXCEPT ![write_index] = item]
  /\ write_index' = (write_index + 1) % Size
  /\ UNCHANGED read_index

(* Slip: the newest string is returned, not the oldest.                    *)
newest_item == IF spool_empty THEN NULL
               ELSE elements[(write_index + Size - 1) % Size]

(* What spool_remove_unchecked returns, and what it does to the buffer.    *)
removed_item == IF spool_empty THEN NULL ELSE elements[read_index]

(* Slip: read_index stays behind.                                          *)
spool_remove_in_place ==
  /\ capacity' = IF spool_empty THEN capacity ELSE capacity + 1
  /\ UNCHANGED <<read_index, write_index, elements, heap>>

spool_remove_unchecked ==
  /\ IF spool_empty
     THEN UNCHANGED <<capacity, read_index>>
     ELSE /\ capacity' = capacity + 1
          /\ read_index' = (read_index + 1) % Size
  /\ UNCHANGED <<write_index, elements, heap>>
-----------------------------------------------------------------------------
(* The buffer as its users see it: the slots that hold a string, counted   *)
(* from read_index, and the strings in the order they are to be removed.   *)
Count == Size - capacity

Wrap(i) == IF i < Size THEN i ELSE i - Size

Offset(i) == IF i >= read_index THEN i - read_index ELSE i - read_index + Size

LiveSlots == {i \in Slots : Offset(i) < Count}

Contents == [k \in 1 .. Count |-> elements[Wrap(read_index + k - 1)]]

RingTypeOK ==
  /\ write_index \in Slots
  /\ read_index \in Slots
  /\ capacity \in 0 .. Size
  /\ elements \in [Slots -> Strings \cup {Garbage}]
  /\ heap \in SUBSET Strings

(* The three counters agree: the free slots are those from write_index up  *)
(* to read_index, and exactly the occupied ones hold a live string.        *)
RingOK ==
  /\ write_index = Wrap(read_index + Count)
  /\ \A i \in LiveSlots : elements[i] \in heap
  /\ \A i, j \in LiveSlots : elements[i] = elements[j] => i = j
=============================================================================
