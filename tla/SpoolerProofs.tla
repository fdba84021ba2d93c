---------------------------- MODULE SpoolerProofs ----------------------------
(***************************************************************************)
(* Safety of the spooler for any number of threads, strings and slots, in  *)
(* every executable and memory layout.  IInv is the inductive invariant:   *)
(* the properties to be proved, and LifeCycle, what main and the threads   *)
(* have reached when.  The index arithmetic of spooler_shared.c is         *)
(* reasoned about once, in the lemmas on what one operation of the buffer  *)
(* does to the slots in use; the proofs about the threads use only these,  *)
(* and so do those about the spooler without threads at the end.           *)
(***************************************************************************)
EXTENDS Spooler, FiniteSetTheorems, SequenceTheorems, TLAPS

(* (i + 1) % size is a step to the next slot, or from the last to slot 0.  *)
LEMMA NextSlot ==
  ASSUME NEW i \in Slots
  PROVE  (i + 1) % Size = Wrap(i + 1) /\ Wrap(i + 1) \in Slots
BY SizeAssumption DEF Slots, Wrap

(* With room, an insertion brings exactly the slot under write_index into  *)
(* use, and frees nothing.                                                 *)
LEMMA InsertUsesFreeSlot ==
  ASSUME RingTypeOK, write_index = Wrap(read_index + Count), ~spool_full,
         NEW item \in Strings, spool_insert_unchecked(item)
  PROVE  /\ RingTypeOK'
         /\ write_index' = Wrap(read_index' + Count')
         /\ write_index \notin LiveSlots
         /\ LiveSlots' = LiveSlots \cup {write_index}
         /\ elements' = [elements EXCEPT ![write_index] = item]
         /\ heap' = heap
<1> USE SizeAssumption DEF RingTypeOK
<1>1. write_index' = Wrap(write_index + 1) /\ write_index' \in Slots
  BY NextSlot DEF spool_insert_unchecked
<1>2. /\ capacity' = capacity - 1 /\ heap' = heap /\ read_index' = read_index
      /\ elements' = [elements EXCEPT ![write_index] = item]
      /\ capacity \in 1 .. Size
  BY DEF spool_insert_unchecked, spool_full
<1>3. RingTypeOK'
  BY <1>1, <1>2
<1>4. write_index' = Wrap(read_index' + Count')
  BY <1>1, <1>2 DEF Wrap, Count, Slots
<1>5. write_index \notin LiveSlots
  BY <1>2 DEF LiveSlots, Offset, Count, Wrap, Slots
<1>6. ASSUME NEW i \in Slots
      PROVE  Offset(i)' < Count' <=> Offset(i) < Count \/ i = write_index
  BY <1>2 DEF Offset, Count, Wrap, Slots
<1>7. LiveSlots' = LiveSlots \cup {write_index}
  BY <1>6 DEF LiveSlots, Slots
<1> QED
  BY <1>2, <1>3, <1>4, <1>5, <1>7

(* A removal gives up exactly the slot under read_index, which was in use. *)
LEMMA RemoveFreesOldest ==
  ASSUME RingTypeOK, write_index = Wrap(read_index + Count), ~spool_empty,
         spool_remove_unchecked
  PROVE  /\ RingTypeOK'
         /\ write_index' = Wrap(read_index' + Count')
         /\ read_index \in LiveSlots
         /\ LiveSlots' = LiveSlots \ {read_index}
         /\ removed_item = elements[read_index]
         /\ UNCHANGED <<elements, heap>>
<1> USE SizeAssumption DEF RingTypeOK
<1>1. read_index' = Wrap(read_index + 1) /\ read_index' \in Slots
  BY NextSlot DEF spool_remove_unchecked
<1>2. /\ capacity' = capacity + 1 /\ capacity \in 0 .. Size - 1
      /\ UNCHANGED <<write_index, elements, heap>>
  BY DEF spool_remove_unchecked, spool_empty
<1>3. RingTypeOK'
  BY <1>1, <1>2
<1>4. write_index' = Wrap(read_index' + Count')
  BY <1>1, <1>2 DEF Wrap, Count, Slots
<1>5. read_index \in LiveSlots
  BY <1>2 DEF LiveSlots, Offset, Count, Slots
<1>6. ASSUME NEW i \in Slots
      PROVE  Offset(i)' < Count' <=> Offset(i) < Count /\ i # read_index
  BY <1>1, <1>2 DEF Offset, Count, Wrap, Slots
<1>7. LiveSlots' = LiveSlots \ {read_index}
  BY <1>6 DEF LiveSlots, Slots
<1> QED
  BY <1>2, <1>3, <1>4, <1>5, <1>7 DEF removed_item

(* An empty buffer has no slot in use.                                     *)
LEMMA EmptyHasNoLiveSlot ==
  ASSUME RingTypeOK, spool_empty
  PROVE  LiveSlots = {}
BY SizeAssumption DEF RingTypeOK, spool_empty, LiveSlots, Offset, Count, Slots

(* What the counters and the slots in use always satisfy.                  *)
Filled ==
  /\ write_index = Wrap(read_index + Count)
  /\ \A i \in LiveSlots : elements[i] \in Strings

LEMMA RingFilled ==
  ASSUME RingTypeOK, RingOK
  PROVE  Filled
BY DEF RingTypeOK, RingOK, Filled

(* The strings in use, seen as a sequence: an insertion appends to it and  *)
(* a removal takes its head.                                               *)
LEMMA ContentsLen ==
  ASSUME RingTypeOK, Filled
  PROVE  Contents \in Seq(Strings) /\ Len(Contents) = Count
<1> USE SizeAssumption DEF RingTypeOK
<1>1. Count \in Nat
  BY DEF Count
<1>2. ASSUME NEW k \in 1 .. Count
      PROVE  elements[Wrap(read_index + k - 1)] \in Strings
  <2>1. Wrap(read_index + k - 1) \in LiveSlots
    BY DEF Wrap, LiveSlots, Offset, Count, Slots
  <2> QED
    BY <2>1 DEF Filled
<1> QED
  BY <1>1, <1>2 DEF Contents

LEMMA InsertAppends ==
  ASSUME RingTypeOK, Filled, ~spool_full,
         NEW item \in Strings, spool_insert_unchecked(item)
  PROVE  Contents' = Append(Contents, item)
<1> USE SizeAssumption DEF RingTypeOK
<1>1. /\ capacity' = capacity - 1 /\ read_index' = read_index
      /\ elements' = [elements EXCEPT ![write_index] = item]
      /\ capacity \in 1 .. Size
  BY DEF spool_insert_unchecked, spool_full
<1>2. Count' = Count + 1 /\ Count \in Nat /\ Len(Contents) = Count
  BY <1>1, ContentsLen DEF Count
<1>3. ASSUME NEW k \in 1 .. Count
      PROVE  elements'[Wrap(read_index + k - 1)] = elements[Wrap(read_index + k - 1)]
  <2>1. Wrap(read_index + k - 1) # write_index
    BY <1>1 DEF Filled, Wrap, Count, Slots
  <2> QED
    BY <1>1, <2>1
<1>4. elements'[Wrap(read_index + Count' - 1)] = item
  BY <1>1, <1>2 DEF Filled
<1>5. Contents' = [k \in 1 .. Count + 1 |-> elements'[Wrap(read_index + k - 1)]]
  BY <1>1, <1>2 DEF Contents, Wrap
<1>6. /\ Append(Contents, item) \in Seq(Strings)
      /\ Len(Append(Contents, item)) = Count + 1
      /\ \A k \in 1 .. Count : Append(Contents, item)[k] = Contents[k]
      /\ Append(Contents, item)[Count + 1] = item
  BY <1>2, ContentsLen, AppendProperties
<1>7. ASSUME NEW k \in 1 .. Count + 1
      PROVE  elements'[Wrap(read_index + k - 1)] = Append(Contents, item)[k]
  <2>1. CASE k \in 1 .. Count
    BY <1>3, <1>6, <2>1 DEF Contents
  <2>2. CASE k = Count + 1
    BY <1>2, <1>4, <1>6, <2>2
  <2> QED
    BY <1>2, <2>1, <2>2
<1>8. Append(Contents, item) = [k \in 1 .. Count + 1 |-> Append(Contents, item)[k]]
  <2>1. Append(Contents, item) \in [1 .. Count + 1 -> Strings]
    BY <1>6, LenProperties
  <2> QED
    BY <2>1
<1> QED
  BY <1>5, <1>7, <1>8

LEMMA RemoveTakesHead ==
  ASSUME RingTypeOK, Filled, ~spool_empty, spool_remove_unchecked
  PROVE  /\ Contents # <<>>
         /\ removed_item = Head(Contents)
         /\ Contents' = Tail(Contents)
<1> USE SizeAssumption DEF RingTypeOK
<1>1. /\ read_index' = Wrap(read_index + 1) /\ capacity' = capacity + 1
      /\ elements' = elements /\ capacity \in 0 .. Size - 1
  BY NextSlot DEF spool_remove_unchecked, spool_empty
<1>2. Count' = Count - 1 /\ Count \in Nat \ {0}
  BY <1>1 DEF Count
<1>3. Contents \in Seq(Strings) /\ Len(Contents) = Count
  BY ContentsLen
<1>4. Contents # <<>> /\ Head(Contents) = Contents[1]
  BY <1>2, <1>3
<1>5. removed_item = Contents[1]
  BY <1>1, <1>2 DEF removed_item, spool_empty, Contents, Wrap, Slots
<1>6. Contents' = [k \in 1 .. Count - 1 |-> elements[Wrap(Wrap(read_index + 1) + k - 1)]]
  BY <1>1, <1>2 DEF Contents, Wrap
<1>7. ASSUME NEW k \in 1 .. Count - 1
      PROVE  Wrap(Wrap(read_index + 1) + k - 1) = Wrap(read_index + (k + 1) - 1)
  BY <1>2 DEF Wrap, Count, Slots
<1>8. Tail(Contents) = [k \in 1 .. Count - 1 |-> Contents[k + 1]]
  <2>1. /\ Tail(Contents) \in Seq(Strings) /\ Len(Tail(Contents)) = Count - 1
        /\ \A k \in 1 .. Count - 1 : Tail(Contents)[k] = Contents[k + 1]
    BY <1>3, <1>4, HeadTailProperties
  <2>2. Tail(Contents) \in [1 .. Count - 1 -> Strings]
    BY <2>1, LenProperties
  <2> QED
    BY <2>1, <2>2
<1>9. ASSUME NEW k \in 1 .. Count - 1
      PROVE  Contents[k + 1] = elements[Wrap(read_index + (k + 1) - 1)]
  BY <1>2 DEF Contents
<1> QED
  BY <1>4, <1>5, <1>6, <1>7, <1>8, <1>9
-----------------------------------------------------------------------------
LifeCycle ==
  /\ shutdown => main \in {"broadcast", "reap", "exited", "failed"}
  /\ shutdown \/ main \in {"shutdown", "broadcast", "reap", "exited"} =>
       \A p \in Writers : pc[p] = "done"
  /\ main = "exited" /\ build # "spooler2_killed" =>
       \A c \in Readers : pc[c] = "done"
  /\ overlap => \A t \in Threads : pc[t] = "none"
  /\ \A p \in Producers : pc[p] = "done" => n[p] = NStrs
  /\ \A c \in Consumers : pc[c] = "done" => str[c] = NULL

IInv ==
  /\ TypeOK
  /\ MutualExclusion
  /\ NoOverwrite
  /\ RingOK
  /\ ExactlyOnce
  /\ NullMeansDrained
  /\ LifeCycle

USE ThreadAssumption, SizeAssumption, PointerAssumption, StringAssumption
-----------------------------------------------------------------------------
(* The three implementations are made of the same steps.                   *)
SyncStep(t) ==
  \/ Lock(t)
  \/ \E cv \in Conds :
        \/ Signal(t, "resignal", "wait", cv)
        \/ Signal(t, "signal", "unlock", cv)
        \/ Sleep(t, cv)
        \/ WakeUp(t, cv)
  \/ Unlock(t, "retry", "call")
  \/ Unlock(t, "unlock", "loop")

LEMMA InsertSteps ==
  ASSUME NEW p \in Producers, spool_insert(p)
  PROVE  \/ SyncStep(p)
         \/ \E w \in {"retry", "resignal"} : Test(p, spool_full, w)
         \/ \E to \in {"signal", "unlock"} : Store(p, to)
BY DEF spool_insert, spool_insert_safe, spool_insert_cv1, spool_insert_cv2,
       SyncStep, Conds

LEMMA RemoveSteps ==
  ASSUME NEW c \in Consumers, spool_remove(c)
  PROVE  \/ SyncStep(c)
         \/ \E w \in {"retry", "resignal"} :
               \/ Test(c, spool_empty, w)
               \/ Test(c, spool_empty /\ ~shutdown, w)
         \/ \E to \in {"signal", "unlock"} : Take(c, to)
BY DEF spool_remove, spool_remove_safe, spool_remove_cv1, spool_remove_cv2,
       SyncStep, Conds

(* A step that moves one thread, and changes neither its strings nor what  *)
(* it holds, disturbs only what is said of the lock and of the threads'    *)
(* places.                                                                 *)
LEMMA QuietStep ==
  ASSUME IInv, UNCHANGED <<n, str, printed, ring, shutdown>>,
         \A t \in Threads : Holds(t)' = Holds(t)
  PROVE  RingOK' /\ ExactlyOnce'
<1>1. /\ LiveSlots' = LiveSlots /\ Made' = Made /\ Holders' = Holders
      /\ Count' = Count
  BY DEF ring, LiveSlots, Offset, Count, Made, Holders
<1>2. RingOK'
  BY <1>1 DEF IInv, RingOK, ring
<1>3. ExactlyOnce'
  BY <1>1 DEF IInv, ExactlyOnce, ring
<1> QED
  BY <1>2, <1>3
-----------------------------------------------------------------------------
LEMMA SyncPreserves ==
  ASSUME IInv, NEW t \in Threads, SyncStep(t), Running,
         UNCHANGED <<build, overlap, main, shutdown>>
  PROVE  IInv'
<1> USE DEF IInv
<1> DEFINE CS == {"test", "retry", "resignal", "wait", "access", "signal", "unlock"}
<1>1. UNCHANGED <<n, str, printed, ring>>
  BY DEF SyncStep, Lock, Signal, Sleep, WakeUp, Unlock
<1>2. PICK from \in PCs, to \in PCs :
        /\ pc[t] = from /\ pc' = [pc EXCEPT ![t] = to]
        /\ from \notin {"none", "loop", "done"} /\ to \notin {"none", "access", "done"}
        /\ from \notin {"signal", "unlock"} <=> to \notin {"signal", "unlock", "loop"}
  BY DEF SyncStep, Lock, Signal, Sleep, WakeUp, Unlock, Goto, PCs
<1>3. TypeOK'
  <2>1. owner' \in Threads \cup {Nobody} /\ waiters' \in [Conds -> SUBSET Threads]
    BY DEF TypeOK, SyncStep, Lock, Signal, Sleep, WakeUp, Unlock, MutexLock,
           MutexUnlock, CondWait, CondReturn, CondSignal
  <2> QED
    BY <1>1, <1>2, <2>1 DEF TypeOK, RingTypeOK, ring
<1>4. MutualExclusion'
  <2>1. CASE Lock(t) \/ \E cv \in Conds : WakeUp(t, cv)
    BY <1>2, <2>1 DEF TypeOK, MutualExclusion, InCS, Lock, WakeUp, Goto, CondReturn,
                      MutexLock
  <2>2. CASE \/ Unlock(t, "retry", "call") \/ Unlock(t, "unlock", "loop")
             \/ \E cv \in Conds : Sleep(t, cv)
    BY <1>2, <2>2 DEF TypeOK, MutualExclusion, InCS, Unlock, Sleep, Goto, CondWait,
                      MutexUnlock
  <2>3. CASE \E cv \in Conds : \/ Signal(t, "resignal", "wait", cv)
                               \/ Signal(t, "signal", "unlock", cv)
    BY <1>2, <2>3 DEF TypeOK, MutualExclusion, InCS, Signal, Goto, CondSignal
  <2> QED
    BY <2>1, <2>2, <2>3 DEF SyncStep
<1>5. NoOverwrite'
  BY <1>1, <1>2 DEF TypeOK, NoOverwrite, spool_full, spool_empty, ring
<1>6. RingOK' /\ ExactlyOnce'
  <2>1. \A u \in Threads : Holds(u)' = Holds(u)
    BY <1>1, <1>2 DEF TypeOK, Holds, PCs
  <2> QED
    BY <1>1, <2>1, QuietStep
<1>7. NullMeansDrained'
  BY <1>1, <1>2 DEF TypeOK, NullMeansDrained, spool_empty, ring, Threads
<1>8. LifeCycle'
  BY <1>1, <1>2 DEF TypeOK, LifeCycle, Writers, Readers, Threads
<1> QED
  BY <1>3, <1>4, <1>5, <1>6, <1>7, <1>8

(* The test under the lock is what makes NoOverwrite true: a thread moves  *)
(* to the buffer only when it has just found room, a string or a shutdown. *)
LEMMA TestPreserves ==
  ASSUME IInv, NEW t \in Threads, NEW blocked \in BOOLEAN,
         NEW w \in {"retry", "resignal"}, Test(t, blocked, w), Running,
         IF t \in Producers THEN spool_full => blocked
         ELSE spool_empty => blocked \/ shutdown,
         UNCHANGED <<build, overlap, main, shutdown>>
  PROVE  IInv'
<1> USE DEF IInv, Test, Goto
<1>1. PICK to \in {w, "access"} :
        /\ pc[t] = "test" /\ pc' = [pc EXCEPT ![t] = to]
        /\ to = "access" => ~blocked
  OBVIOUS
<1>2. UNCHANGED <<n, str, printed, ring, sync>>
  OBVIOUS
<1>3. TypeOK'
  BY <1>1, <1>2 DEF TypeOK, RingTypeOK, ring, sync, PCs
<1>4. MutualExclusion'
  BY <1>1, <1>2 DEF TypeOK, MutualExclusion, InCS, sync
<1>5. NoOverwrite'
  BY <1>1, <1>2 DEF TypeOK, NoOverwrite, spool_full, spool_empty, ring
<1>6. RingOK' /\ ExactlyOnce'
  <2>1. \A u \in Threads : Holds(u)' = Holds(u)
    BY <1>1, <1>2 DEF TypeOK, Holds, PCs
  <2> QED
    BY <1>2, <2>1, QuietStep
<1>7. NullMeansDrained'
  BY <1>1, <1>2 DEF TypeOK, NullMeansDrained, spool_empty, ring, Threads
<1>8. LifeCycle'
  BY <1>1, <1>2 DEF TypeOK, LifeCycle, Writers, Readers, Threads
<1> QED
  BY <1>3, <1>4, <1>5, <1>6, <1>7, <1>8

(* A string goes from its producer's hands into a free slot.               *)
LEMMA StorePreserves ==
  ASSUME IInv, NEW p \in Producers, NEW to \in {"signal", "unlock"}, Store(p, to),
         UNCHANGED <<build, overlap, main, shutdown>>
  PROVE  IInv'
<1> USE DEF IInv
<1>1. /\ pc[p] = "access" /\ pc' = [pc EXCEPT ![p] = to] /\ p \in Threads
      /\ UNCHANGED <<n, str, printed, sync>>
  BY DEF Store, Goto, Threads
<1>2. Holds(p) /\ str[p] \in heap /\ str[p] \in Strings /\ ~spool_full
  BY <1>1 DEF Holds, Holders, PCs, ExactlyOnce, TypeOK, RingTypeOK, NoOverwrite
<1>3. /\ RingTypeOK'
      /\ write_index' = Wrap(read_index' + Count')
      /\ write_index \notin LiveSlots
      /\ LiveSlots' = LiveSlots \cup {write_index}
      /\ elements' = [elements EXCEPT ![write_index] = str[p]]
      /\ heap' = heap
  BY <1>2, InsertUsesFreeSlot DEF Store, TypeOK, RingOK
<1>4. Holders' = Holders \ {p}
  BY <1>1, <1>2 DEF Holders, Holds, TypeOK, PCs, Threads
<1>5. /\ write_index \in Slots /\ elements \in [Slots -> Strings \cup {Garbage}]
      /\ LiveSlots \subseteq Slots
  BY DEF TypeOK, RingTypeOK, LiveSlots
<1>6. /\ elements'[write_index] = str[p]
      /\ \A i \in LiveSlots : elements'[i] = elements[i] /\ elements[i] # str[p]
  BY <1>1, <1>2, <1>3, <1>5 DEF ExactlyOnce, Holders
<1>7. TypeOK'
  BY <1>1, <1>3 DEF TypeOK, sync, PCs
<1>8. MutualExclusion'
  BY <1>1 DEF TypeOK, MutualExclusion, InCS, sync
<1>9. NoOverwrite'
  BY <1>1 DEF TypeOK, NoOverwrite, MutualExclusion, InCS
<1>10. RingOK'
  BY <1>2, <1>3, <1>6 DEF RingOK
<1>11. ExactlyOnce'
  <2>1. Made' = Made
    BY <1>1 DEF Made
  <2>2. {elements'[i] : i \in LiveSlots'} = {elements[i] : i \in LiveSlots} \cup {str[p]}
    BY <1>3, <1>6
  <2>3. {str'[t] : t \in Holders'} \cup {str[p]} = {str[t] : t \in Holders}
    BY <1>1, <1>2, <1>4 DEF Holders
  <2>4. \A i \in LiveSlots', t \in Holders' : elements'[i] # str'[t]
    BY <1>1, <1>2, <1>3, <1>4, <1>6 DEF ExactlyOnce, Holders
  <2> QED
    BY <1>1, <1>3, <1>4, <2>1, <2>2, <2>3, <2>4 DEF ExactlyOnce
<1>12. NullMeansDrained' /\ LifeCycle'
  BY <1>1 DEF TypeOK, NullMeansDrained, LifeCycle, Threads, Writers, Readers
<1> QED
  BY <1>7, <1>8, <1>9, <1>10, <1>11, <1>12

(* A string goes from its slot into the consumer's hands; with none left,  *)
(* production has stopped and the consumer gets NULL.                      *)
LEMMA TakePreserves ==
  ASSUME IInv, NEW c \in Consumers, NEW to \in {"signal", "unlock"}, Take(c, to),
         UNCHANGED <<build, overlap, main, shutdown>>
  PROVE  IInv'
<1> USE DEF IInv
<1>1. /\ pc[c] = "access" /\ pc' = [pc EXCEPT ![c] = to] /\ c \in Threads
      /\ c \notin Producers /\ str' = [str EXCEPT ![c] = removed_item]
      /\ UNCHANGED <<n, printed, sync>>
  BY DEF Take, Goto, Threads
<1>2. MutualExclusion'
  BY <1>1 DEF TypeOK, MutualExclusion, InCS, sync
<1>3. NoOverwrite'
  BY <1>1 DEF TypeOK, NoOverwrite, MutualExclusion, InCS
<1>4. LifeCycle'
  BY <1>1 DEF TypeOK, LifeCycle, Threads, Writers, Readers
<1>5. Made' = Made
  BY <1>1 DEF Made
<1>6. \A t \in Threads \ {c} : Holds(t)' = Holds(t) /\ str'[t] = str[t]
  BY <1>1 DEF TypeOK, Holds
<1>7. CASE spool_empty
  <2>1. removed_item = NULL /\ UNCHANGED ring
    BY <1>7 DEF Take, spool_remove_unchecked, removed_item, ring
  <2>2. shutdown /\ \A p \in Producers : pc[p] = "done"
    BY <1>1, <1>7 DEF NoOverwrite, LifeCycle, Writers
  <2>3. TypeOK'
    BY <1>1, <2>1 DEF TypeOK, RingTypeOK, ring, sync, PCs
  <2>4. Holders' = Holders /\ c \notin Holders
    BY <1>1, <1>6, <2>1 DEF Holders, Holds, TypeOK
  <2>5. LiveSlots' = LiveSlots /\ Count' = Count
    BY <2>1 DEF LiveSlots, Offset, Count, ring
  <2>6. RingOK'
    BY <2>1, <2>5 DEF RingOK, ring
  <2>7. ExactlyOnce'
    BY <1>1, <1>5, <1>6, <2>1, <2>4, <2>5 DEF ExactlyOnce, ring, Holders
  <2>8. NullMeansDrained'
    BY <1>1, <1>7, <2>1, <2>2 DEF NullMeansDrained, TypeOK, spool_empty, ring, Threads
  <2> QED
    BY <1>2, <1>3, <1>4, <2>3, <2>6, <2>7, <2>8
<1>8. CASE ~spool_empty
  <2>1. /\ RingTypeOK'
        /\ write_index' = Wrap(read_index' + Count')
        /\ read_index \in LiveSlots
        /\ LiveSlots' = LiveSlots \ {read_index}
        /\ removed_item = elements[read_index]
        /\ UNCHANGED <<elements, heap>>
    BY <1>8, RemoveFreesOldest DEF Take, TypeOK, RingOK
  <2>2. removed_item \in heap /\ removed_item \in Strings /\ removed_item # NULL
    BY <2>1 DEF RingOK, TypeOK, RingTypeOK
  <2>3. Holders' = Holders \cup {c} /\ c \notin Holders /\ str'[c] = removed_item
    BY <1>1, <1>6, <2>2 DEF Holders, Holds, TypeOK, Threads
  <2>4. TypeOK'
    BY <1>1, <2>1, <2>2 DEF TypeOK, sync, PCs
  <2>5. RingOK'
    BY <2>1 DEF RingOK
  <2>6. \A i \in LiveSlots' : elements[i] # removed_item
    BY <2>1 DEF RingOK
  <2>7. ExactlyOnce'
    <3>1. {elements'[i] : i \in LiveSlots'} \cup {removed_item}
            = {elements[i] : i \in LiveSlots}
      BY <2>1
    <3>2. {str'[t] : t \in Holders'} = {str[t] : t \in Holders} \cup {removed_item}
      BY <1>6, <2>3 DEF Holders
    <3>3. \A t \in Holders : str[t] # removed_item
      BY <2>1 DEF ExactlyOnce
    <3>4. \A t, u \in Holders' : str'[t] = str'[u] => t = u
      BY <1>6, <2>3, <3>3 DEF ExactlyOnce, Holders
    <3>5. \A i \in LiveSlots', t \in Holders' : elements'[i] # str'[t]
      BY <1>6, <2>1, <2>3, <2>6 DEF ExactlyOnce, Holders
    <3> QED
      BY <1>1, <1>5, <2>1, <3>1, <3>2, <3>4, <3>5 DEF ExactlyOnce
  <2>8. NullMeansDrained'
    BY <1>1, <1>8, <2>2 DEF NullMeansDrained, TypeOK
  <2> QED
    BY <1>2, <1>3, <1>4, <2>4, <2>5, <2>7, <2>8
<1> QED
  BY <1>7, <1>8

(* A new string is in its producer's hands only.                           *)
LEMMA ProducerPreserves ==
  ASSUME IInv, NEW p \in Producers, producer(p), Running,
         UNCHANGED <<build, overlap, main, shutdown>>
  PROVE  IInv'
<1> USE DEF IInv
<1> DEFINE s == <<p, n[p]>>
<1>0. p \in Threads /\ p \notin Consumers
  BY DEF Threads
<1>1. CASE Unfinished(p)
  <2>1. /\ pc[p] = "loop" /\ pc' = [pc EXCEPT ![p] = "call"]
        /\ str' = [str EXCEPT ![p] = s] /\ heap' = heap \cup {s}
        /\ n' = [n EXCEPT ![p] = @ + 1] /\ n[p] \in 0 .. NStrs - 1
        /\ UNCHANGED <<printed, write_index, read_index, capacity, elements, sync>>
    BY <1>1 DEF producer, Unfinished, Goto, TypeOK
  <2>2. /\ s \in Producers \X (0 .. NStrs - 1) /\ s \in Strings
        /\ s[1] = p /\ s[2] = n[p]
    BY <2>1
  <2>3. s \notin Made
    BY <2>2 DEF Made, TypeOK
  <2>4. Made' = Made \cup {s}
    <3>1. ASSUME NEW r \in Producers \X (0 .. NStrs - 1)
          PROVE  r[2] < n'[r[1]] <=> r[2] < n[r[1]] \/ r = s
      <4>1. r[1] \in Producers /\ r[2] \in 0 .. NStrs - 1 /\ r = <<r[1], r[2]>>
        OBVIOUS
      <4>2. CASE r[1] = p
        <5>1. n'[r[1]] = n[p] + 1
          BY <2>1, <4>2 DEF TypeOK
        <5> QED
          BY <2>1, <4>1, <4>2, <5>1
      <4>3. CASE r[1] # p
        BY <2>1, <2>2, <4>1, <4>3 DEF TypeOK
      <4> QED
        BY <4>2, <4>3
    <3> QED
      BY <2>2, <3>1 DEF Made
  <2>5. s \notin heap
    BY <2>3 DEF ExactlyOnce
  <2>6. Holders' = Holders \cup {p} /\ p \notin Holders
    BY <1>0, <2>1 DEF Holders, Holds, TypeOK, PCs
  <2>7. LiveSlots' = LiveSlots /\ Count' = Count
    BY <2>1 DEF LiveSlots, Offset, Count
  <2>8. TypeOK'
    BY <1>0, <2>1, <2>2 DEF TypeOK, RingTypeOK, sync, PCs
  <2>9. MutualExclusion' /\ NoOverwrite'
    BY <1>0, <2>1 DEF TypeOK, MutualExclusion, InCS, NoOverwrite, spool_full,
                      spool_empty, sync
  <2>10. RingOK'
    BY <2>1, <2>7 DEF RingOK
  <2>11. ExactlyOnce'
    <3>1. {str'[t] : t \in Holders'} = {str[t] : t \in Holders} \cup {s}
      BY <1>0, <2>1, <2>6 DEF Holders, TypeOK
    <3>2. \A i \in LiveSlots, t \in Holders' : elements[i] # str'[t]
      BY <1>0, <2>1, <2>5, <2>6 DEF ExactlyOnce, Holders, TypeOK
    <3>3. \A t, u \in Holders' : str'[t] = str'[u] => t = u
      BY <1>0, <2>1, <2>5, <2>6 DEF ExactlyOnce, Holders, TypeOK
    <3> QED
      BY <2>1, <2>3, <2>4, <2>7, <3>1, <3>2, <3>3 DEF ExactlyOnce
  <2>12. NullMeansDrained' /\ LifeCycle'
    BY <1>0, <2>1 DEF NullMeansDrained, LifeCycle, TypeOK, Threads, Writers, Readers,
                      spool_empty
  <2> QED
    BY <2>8, <2>9, <2>10, <2>11, <2>12
<1>2. CASE ~Unfinished(p)
  <2>1. /\ pc[p] = "loop" /\ pc' = [pc EXCEPT ![p] = "done"] /\ n[p] = NStrs
        /\ UNCHANGED <<n, str, printed, ring, sync>>
    BY <1>2 DEF producer, Unfinished, Goto, TypeOK
  <2>2. TypeOK'
    BY <2>1 DEF TypeOK, RingTypeOK, ring, sync, PCs
  <2>3. MutualExclusion' /\ NoOverwrite'
    BY <1>0, <2>1 DEF TypeOK, MutualExclusion, InCS, NoOverwrite, spool_full,
                      spool_empty, sync, ring
  <2>4. \A u \in Threads : Holds(u)' = Holds(u)
    BY <2>1 DEF TypeOK, Holds, PCs
  <2>5. RingOK' /\ ExactlyOnce'
    BY <2>1, <2>4, QuietStep
  <2>6. NullMeansDrained' /\ LifeCycle'
    BY <1>0, <2>1 DEF NullMeansDrained, LifeCycle, TypeOK, Threads, Writers, Readers,
                      spool_empty, ring
  <2> QED
    BY <2>2, <2>3, <2>5, <2>6
<1> QED
  BY <1>1, <1>2

(* A printed string is freed, and was in nobody else's hands.              *)
LEMMA ConsumerPreserves ==
  ASSUME IInv, NEW c \in Consumers, consumer(c), Running,
         UNCHANGED <<build, overlap, main, shutdown>>
  PROVE  IInv'
<1> USE DEF IInv
<1>0. c \in Threads /\ c \notin Producers
  BY DEF Threads
<1>1. CASE str[c] # NULL
  <2>1. /\ pc[c] = "loop" /\ pc' = [pc EXCEPT ![c] = "call"]
        /\ printed' = printed \cup {str[c]} /\ heap' = heap \ {str[c]}
        /\ UNCHANGED <<n, str, write_index, read_index, capacity, elements, sync>>
    BY <1>1 DEF consumer, Goto
  <2>2. Holders' = Holders \ {c} /\ c \in Holders
    BY <1>0, <1>1, <2>1 DEF Holders, Holds, TypeOK, PCs
  <2>3. str[c] \in heap
    BY <2>2 DEF ExactlyOnce
  <2>4. /\ \A i \in LiveSlots : elements[i] # str[c]
        /\ \A t \in Holders' : str[t] # str[c]
    BY <2>2 DEF ExactlyOnce
  <2>5. LiveSlots' = LiveSlots /\ Count' = Count /\ Made' = Made
    BY <2>1 DEF LiveSlots, Offset, Count, Made
  <2>6. TypeOK'
    BY <1>0, <2>1, <2>3 DEF TypeOK, RingTypeOK, sync, PCs
  <2>7. MutualExclusion' /\ NoOverwrite'
    BY <1>0, <2>1 DEF TypeOK, MutualExclusion, InCS, NoOverwrite, spool_full,
                      spool_empty, sync
  <2>8. RingOK'
    BY <2>1, <2>4, <2>5 DEF RingOK
  <2>9. ExactlyOnce'
    <3>1. {str[t] : t \in Holders} = {str[t] : t \in Holders'} \cup {str[c]}
      BY <2>2
    <3>2. heap' = {elements[i] : i \in LiveSlots} \cup {str[t] : t \in Holders'}
      BY <2>1, <2>4, <3>1 DEF ExactlyOnce
    <3> QED
      BY <2>1, <2>2, <2>3, <2>5, <3>2 DEF ExactlyOnce
  <2>10. NullMeansDrained' /\ LifeCycle'
    BY <1>0, <2>1 DEF NullMeansDrained, LifeCycle, TypeOK, Threads, Writers, Readers,
                      spool_empty
  <2> QED
    BY <2>6, <2>7, <2>8, <2>9, <2>10
<1>2. CASE str[c] = NULL
  <2>1. /\ pc[c] = "loop" /\ pc' = [pc EXCEPT ![c] = "done"]
        /\ UNCHANGED <<n, str, printed, ring, sync>>
    BY <1>2 DEF consumer, Goto
  <2>2. TypeOK'
    BY <2>1 DEF TypeOK, RingTypeOK, ring, sync, PCs
  <2>3. MutualExclusion' /\ NoOverwrite'
    BY <1>0, <2>1 DEF TypeOK, MutualExclusion, InCS, NoOverwrite, spool_full,
                      spool_empty, sync, ring
  <2>4. \A u \in Threads : Holds(u)' = Holds(u)
    BY <1>0, <1>2, <2>1 DEF TypeOK, Holds, PCs
  <2>5. RingOK' /\ ExactlyOnce'
    BY <2>1, <2>4, QuietStep
  <2>6. NullMeansDrained' /\ LifeCycle'
    BY <1>0, <1>2, <2>1 DEF NullMeansDrained, LifeCycle, TypeOK, Threads, Writers,
                            Readers, spool_empty, ring
  <2> QED
    BY <2>2, <2>3, <2>5, <2>6
<1> QED
  BY <1>1, <1>2

LEMMA ThreadPreserves ==
  ASSUME IInv,
         \/ \E p \in Producers : thread_writer_fun(p)
         \/ \E c \in Consumers : thread_reader_fun(c)
  PROVE  IInv'
<1>1. ASSUME NEW p \in Producers, thread_writer_fun(p)
      PROVE  IInv'
  <2>1. Running /\ UNCHANGED <<build, overlap, main, shutdown>>
    BY <1>1 DEF thread_writer_fun
  <2>2. CASE producer(p)
    BY <2>1, <2>2, ProducerPreserves
  <2>3. CASE SyncStep(p)
    BY <2>1, <2>3, SyncPreserves DEF Threads
  <2>4. CASE \E w \in {"retry", "resignal"} : Test(p, spool_full, w)
    <3>1. PICK w \in {"retry", "resignal"} : Test(p, spool_full, w)
      BY <2>4
    <3>2. p \in Threads /\ spool_full \in BOOLEAN
      BY DEF Threads, spool_full
    <3> QED
      BY <2>1, <3>1, <3>2, TestPreserves
  <2>5. CASE \E to \in {"signal", "unlock"} : Store(p, to)
    BY <2>1, <2>5, StorePreserves
  <2> QED
    BY <1>1, <2>2, <2>3, <2>4, <2>5, InsertSteps DEF thread_writer_fun
<1>2. ASSUME NEW c \in Consumers, thread_reader_fun(c)
      PROVE  IInv'
  <2>1. Running /\ UNCHANGED <<build, overlap, main, shutdown>>
    BY <1>2 DEF thread_reader_fun
  <2>2. CASE consumer(c)
    BY <2>1, <2>2, ConsumerPreserves
  <2>3. CASE SyncStep(c)
    BY <2>1, <2>3, SyncPreserves DEF Threads
  <2>4. ASSUME NEW w \in {"retry", "resignal"}, NEW blocked \in BOOLEAN,
               Test(c, blocked, w), spool_empty => blocked \/ shutdown
        PROVE  IInv'
    BY <2>1, <2>4, TestPreserves DEF Threads
  <2>5. ASSUME NEW w \in {"retry", "resignal"},
               Test(c, spool_empty, w) \/ Test(c, spool_empty /\ ~shutdown, w)
        PROVE  IInv'
    <3>1. spool_empty \in BOOLEAN /\ (spool_empty /\ ~shutdown) \in BOOLEAN
      BY DEF spool_empty
    <3>2. CASE Test(c, spool_empty, w)
      BY <2>4, <3>1, <3>2
    <3>3. CASE Test(c, spool_empty /\ ~shutdown, w)
      <4>1. spool_empty => (spool_empty /\ ~shutdown) \/ shutdown
        OBVIOUS
      <4> QED
        BY <2>4, <3>1, <3>3, <4>1
    <3> QED
      BY <2>5, <3>2, <3>3
  <2>6. CASE \E to \in {"signal", "unlock"} : Take(c, to)
    BY <2>1, <2>6, TakePreserves
  <2> QED
    BY <1>2, <2>2, <2>3, <2>5, <2>6, RemoveSteps DEF thread_reader_fun
<1> QED
  BY <1>1, <1>2

(* main moves itself on, creates threads, and sets the flag only after the *)
(* producers are done.                                                     *)
LEMMA MainPreserves ==
  ASSUME IInv, run_threads \/ CreateFails \/ \E t \in Threads : Spurious(t)
  PROVE  IInv'
<1> USE DEF IInv
<1>1. UNCHANGED <<build, overlap, n, str, printed, ring>>
  BY DEF run_threads, Create, Created, JoinProducers, spool_shutdown_efficient,
         JoinConsumers, CreateFails, Spurious, threads
<1>2. ASSUME UNCHANGED <<n, str, printed, ring>>, \A t \in Threads : Holds(t)' = Holds(t)
      PROVE  RingOK' /\ ExactlyOnce'
  <2>1. /\ LiveSlots' = LiveSlots /\ Made' = Made /\ Holders' = Holders
        /\ Count' = Count
    BY <1>2 DEF ring, LiveSlots, Offset, Count, Made, Holders
  <2> QED
    BY <1>2, <2>1 DEF RingOK, ExactlyOnce, ring
<1>3. CASE \E t \in Threads : Create(t)
  <2>1. PICK t \in Threads : Create(t)
    BY <1>3
  <2>2. PICK to \in {"loop", "call"} :
          /\ pc[t] = "none" /\ pc' = [pc EXCEPT ![t] = to]
          /\ t \in Producers => to = "loop"
          /\ t \in Consumers => to = "call"
    BY <2>1 DEF Create, Goto, Writers, Readers
  <2>3. ~overlap /\ main = "create" /\ UNCHANGED <<main, shutdown, sync>>
    BY <2>1 DEF Create, Writers, Readers
  <2>4. TypeOK'
    BY <1>1, <2>2, <2>3 DEF TypeOK, RingTypeOK, ring, sync, PCs
  <2>5. MutualExclusion' /\ NoOverwrite'
    BY <1>1, <2>2, <2>3 DEF TypeOK, MutualExclusion, InCS, NoOverwrite, spool_full,
                            spool_empty, sync, ring
  <2>6. \A u \in Threads : Holds(u)' = Holds(u)
    BY <1>1, <2>1, <2>2 DEF TypeOK, Holds, PCs, Threads, Create, Goto, Writers
  <2>7. NullMeansDrained'
    BY <1>1, <2>2, <2>3 DEF TypeOK, NullMeansDrained, LifeCycle
  <2>8. LifeCycle'
    BY <1>1, <2>2, <2>3 DEF TypeOK, LifeCycle, Writers, Readers, Threads
  <2> QED
    BY <1>1, <1>2, <2>4, <2>5, <2>6, <2>7, <2>8
<1>4. ASSUME UNCHANGED pc
      PROVE  IInv'
  <2>1. CASE Created \/ JoinProducers \/ JoinConsumers \/ CreateFails
    <3>1. UNCHANGED <<shutdown, sync>> /\ main' \in {"join", "exited", "reap", "shutdown", "failed"}
      BY <2>1 DEF Created, JoinProducers, JoinConsumers, CreateFails
    <3>2. TypeOK'
      BY <1>1, <1>4, <3>1 DEF TypeOK, RingTypeOK, ring, sync
    <3>3. MutualExclusion' /\ NoOverwrite' /\ NullMeansDrained'
      BY <1>1, <1>4, <3>1 DEF MutualExclusion, InCS, NoOverwrite, NullMeansDrained,
                              spool_full, spool_empty, sync, ring
    <3>4. \A u \in Threads : Holds(u)' = Holds(u)
      BY <1>1, <1>4 DEF Holds
    <3>5. LifeCycle'
      BY <1>1, <1>4, <2>1, <3>1 DEF TypeOK, LifeCycle, Writers, Readers, Created,
                                    JoinProducers, JoinConsumers, CreateFails
    <3> QED
      BY <1>1, <1>2, <3>2, <3>3, <3>4, <3>5
  <2>2. CASE spool_shutdown_efficient \/ \E t \in Threads : Spurious(t)
    <3>1. /\ owner' = owner /\ waiters' \in [Conds -> SUBSET Threads]
          /\ shutdown' = shutdown \/ shutdown' = TRUE
      BY <2>2 DEF spool_shutdown_efficient, CondBroadcast, Spurious, SpuriousWakeup,
                  TypeOK, sync
    <3>2. /\ main' \in {main, "broadcast", "reap"}
          /\ main' # main \/ shutdown' # shutdown => main \in {"shutdown", "broadcast"}
          /\ shutdown' => shutdown \/ main' \in {"broadcast", "reap"}
      BY <2>2 DEF spool_shutdown_efficient, Spurious, TypeOK
    <3>3. TypeOK'
      BY <1>1, <1>4, <3>1, <3>2 DEF TypeOK, RingTypeOK, ring
    <3>4. MutualExclusion' /\ NoOverwrite' /\ NullMeansDrained'
      BY <1>1, <1>4, <3>1 DEF MutualExclusion, InCS, NoOverwrite, NullMeansDrained,
                              spool_full, spool_empty, ring
    <3>5. \A u \in Threads : Holds(u)' = Holds(u)
      BY <1>1, <1>4 DEF Holds
    <3>6. LifeCycle'
      BY <1>1, <1>4, <2>2, <3>1, <3>2 DEF TypeOK, LifeCycle, Writers, Readers,
                                          spool_shutdown_efficient, Spurious
    <3> QED
      BY <1>1, <1>2, <3>3, <3>4, <3>5, <3>6
  <2>3. CASE \E t \in Threads : Create(t)
    BY <1>3, <2>3
  <2> QED
    BY <2>1, <2>2, <2>3 DEF run_threads
<1>5. CASE ~ \E t \in Threads : Create(t)
  BY <1>4, <1>5 DEF run_threads, Created, JoinProducers, spool_shutdown_efficient,
                    JoinConsumers, CreateFails, Spurious, threads
<1> QED
  BY <1>3, <1>5

LEMMA InitInvariant == Init => IInv
<1> SUFFICES ASSUME Init PROVE IInv
  OBVIOUS
<1> USE DEF Init, spool_init, spool_init_shared, SyncInit
<1>1. TypeOK
  <2>1. RingTypeOK
    BY DEF RingTypeOK, Slots
  <2>2. /\ pc \in [Threads -> PCs] /\ n \in [Producers -> 0 .. NStrs]
        /\ str \in [Threads -> Strings \cup {NULL, Garbage}]
        /\ waiters \in [Conds -> SUBSET Threads]
    BY DEF PCs
  <2> QED
    BY <2>1, <2>2 DEF TypeOK
<1>2. MutualExclusion /\ NoOverwrite
  BY DEF MutualExclusion, InCS, NoOverwrite
<1>3. LiveSlots = {} /\ Holders = {} /\ Made = {}
  <2>1. LiveSlots = {}
    BY <1>1, EmptyHasNoLiveSlot DEF TypeOK, spool_empty
  <2>2. Holders = {}
    BY DEF Holders, Holds, PCs
  <2>3. Made = {}
    BY DEF Made
  <2> QED
    BY <2>1, <2>2, <2>3
<1>4. RingOK
  BY <1>3 DEF RingOK, Wrap, Count
<1>5. ExactlyOnce
  BY <1>3 DEF ExactlyOnce
<1>6. NullMeansDrained /\ LifeCycle
  BY DEF NullMeansDrained, LifeCycle, Threads
<1> QED
  BY <1>1, <1>2, <1>4, <1>5, <1>6 DEF IInv

(* The invariant holds in every reachable state.                           *)
THEOREM Invariance == Spec => []IInv
<1>1. Init => IInv
  BY InitInvariant
<1>2. IInv /\ [Next]_vars => IInv'
  <2> SUFFICES ASSUME IInv, [Next]_vars PROVE IInv'
    OBVIOUS
  <2>1. CASE Next
    BY <2>1, ThreadPreserves, MainPreserves DEF Next
  <2>2. CASE UNCHANGED vars
    BY <2>2 DEF vars, threads, ring, sync, IInv, TypeOK, MutualExclusion, NoOverwrite,
      RingOK, ExactlyOnce, NullMeansDrained, LifeCycle, RingTypeOK, InCS, spool_full,
      spool_empty, Count, Wrap, LiveSlots, Offset, Made, Holders, Holds, Writers, Readers
  <2> QED
    BY <2>1, <2>2
<1> QED
  BY <1>1, <1>2, PTL DEF Spec

(* Every variable keeps its type.                                          *)
THEOREM Typing == Spec => []TypeOK
BY Invariance, PTL DEF IInv

(* Two threads are never inside the critical sections of the spooler.      *)
THEOREM LockDiscipline == Spec => []MutualExclusion
BY Invariance, PTL DEF IInv

(* A full buffer is never written, an empty one read only after shutdown.  *)
THEOREM Bounds == Spec => []NoOverwrite
BY Invariance, PTL DEF IInv

(* The counters of the buffer agree with the strings stored in it.         *)
THEOREM RingIntegrity == Spec => []RingOK
BY Invariance, PTL DEF IInv

(* No string is lost, duplicated, freed twice or used after its free.      *)
THEOREM Conservation == Spec => []ExactlyOnce
BY Invariance, PTL DEF IInv

(* NULL is returned only when production stopped and the buffer drained.   *)
THEOREM Draining == Spec => []NullMeansDrained
BY Invariance, PTL DEF IInv

(* Where the counts of main.c lie apart from the spooler, and somebody     *)
(* consumes, main returns only after every string was printed.             *)
THEOREM Completion ==
  ASSUME Overlaps = {FALSE}, Consumers # {}
  PROVE  Spec => []AllPrintedAtExit
<1>1. IInv => AllPrintedAtExit
  <2> SUFFICES ASSUME IInv, main = "exited", build # "spooler2_killed"
               PROVE  printed = Producers \X (0 .. NStrs - 1) /\ heap = {}
    BY DEF AllPrintedAtExit
  <2> USE DEF IInv
  <2>1. ~overlap
    BY DEF TypeOK
  <2>2. /\ \A c \in Consumers : str[c] = NULL
        /\ \A p \in Producers : pc[p] = "done" /\ n[p] = NStrs
    BY <2>1 DEF LifeCycle, Writers, Readers
  <2>3. spool_empty
    BY <2>2 DEF NullMeansDrained
  <2>4. LiveSlots = {}
    BY <2>3, EmptyHasNoLiveSlot DEF TypeOK
  <2>5. Holders = {}
    BY <2>2 DEF Holders, Holds, Threads
  <2>6. Made = Producers \X (0 .. NStrs - 1)
    BY <2>2 DEF Made
  <2> QED
    BY <2>4, <2>5, <2>6 DEF ExactlyOnce
<1> QED
  BY <1>1, Invariance, PTL
-----------------------------------------------------------------------------
(* The spooler implements the queue: Store is Insert, Take is Remove or    *)
(* RemoveNothing, setting the flag is Shutdown, and the rest stutters.     *)
LEMMA Stutters ==
  ASSUME UNCHANGED <<read_index, capacity, elements, str, shutdown>>
  PROVE  UNCHANGED Queue!vars
<1>1. UNCHANGED <<Contents, shutdown>>
  BY DEF Contents, Count, Wrap
<1>2. [c \in Consumers |-> str[c]]' = [c \in Consumers |-> str[c]]
  OBVIOUS
<1> QED
  BY <1>1, <1>2 DEF Queue!vars

LEMMA StoreInserts ==
  ASSUME IInv, NEW p \in Producers, NEW to \in {"signal", "unlock"}, Store(p, to),
         shutdown' = shutdown
  PROVE  Queue!Next
<1> USE DEF IInv
<1>1. pc[p] = "access" /\ p \in Threads /\ str' = str
  BY DEF Store, Goto, Threads
<1>2. str[p] \in Strings /\ ~spool_full
  BY <1>1 DEF NoOverwrite, ExactlyOnce, Holders, Holds, PCs, TypeOK, RingTypeOK
<1>3. ~shutdown
  BY <1>1 DEF LifeCycle, Writers
<1>4. Contents' = Append(Contents, str[p])
  BY <1>2, RingFilled, InsertAppends DEF Store, TypeOK
<1>5. Len(Contents) < Size
  BY <1>2, RingFilled, ContentsLen DEF TypeOK, RingTypeOK, Count, spool_full
<1>6. Queue!Insert(str[p])
  BY <1>1, <1>3, <1>4, <1>5 DEF Queue!Insert
<1> QED
  BY <1>2, <1>6 DEF Queue!Next

LEMMA TakeRemoves ==
  ASSUME IInv, NEW c \in Consumers, NEW to \in {"signal", "unlock"}, Take(c, to),
         shutdown' = shutdown
  PROVE  Queue!Next
<1> USE DEF IInv
<1> DEFINE taken == [d \in Consumers |-> str[d]]
<1>1. /\ pc[c] = "access" /\ c \in Threads /\ c \notin Producers
      /\ str' = [str EXCEPT ![c] = removed_item] /\ spool_remove_unchecked
  BY DEF Take, Goto, Threads
<1>2. taken' = [taken EXCEPT ![c] = removed_item]
  BY <1>1 DEF TypeOK, Threads
<1>3. CASE spool_empty
  <2>1. removed_item = NULL /\ UNCHANGED <<read_index, capacity, elements>>
    BY <1>1, <1>3 DEF spool_remove_unchecked, removed_item
  <2>2. Contents' = Contents
    BY <2>1 DEF Contents, Count, Wrap
  <2>3. Contents = <<>>
    BY <1>3, RingFilled, ContentsLen, EmptySeq DEF TypeOK, RingTypeOK, Count, spool_empty
  <2>4. shutdown
    BY <1>1, <1>3 DEF NoOverwrite
  <2>5. Queue!RemoveNothing(c)
    BY <1>2, <2>1, <2>2, <2>3, <2>4 DEF Queue!RemoveNothing
  <2> QED
    BY <2>5 DEF Queue!Next
<1>4. CASE ~spool_empty
  <2>1. /\ Contents # <<>> /\ removed_item = Head(Contents)
        /\ Contents' = Tail(Contents)
    BY <1>1, <1>4, RingFilled, RemoveTakesHead DEF TypeOK
  <2>2. Queue!Remove(c)
    BY <1>2, <2>1 DEF Queue!Remove
  <2> QED
    BY <2>2 DEF Queue!Next
<1> QED
  BY <1>3, <1>4

LEMMA StepRefines ==
  ASSUME IInv, Next
  PROVE  Queue!Next \/ UNCHANGED Queue!vars
<1>1. ASSUME NEW p \in Producers, thread_writer_fun(p)
      PROVE  Queue!Next \/ UNCHANGED Queue!vars
  <2>1. shutdown' = shutdown
    BY <1>1 DEF thread_writer_fun
  <2>2. CASE producer(p)
    <3>1. UNCHANGED <<read_index, capacity, elements>>
      BY <2>2 DEF producer, ring
    <3>2. \A c \in Consumers : str'[c] = str[c]
      BY <2>2 DEF producer, IInv, TypeOK, Threads
    <3>3. UNCHANGED <<Contents, shutdown, [c \in Consumers |-> str[c]]>>
      BY <2>1, <3>1, <3>2 DEF Contents, Count, Wrap
    <3> QED
      BY <3>3 DEF Queue!vars
  <2>3. CASE SyncStep(p) \/ \E w \in {"retry", "resignal"} : Test(p, spool_full, w)
    BY <2>1, <2>3, Stutters DEF SyncStep, Lock, Signal, Sleep, WakeUp, Unlock, Test, ring
  <2>4. CASE \E to \in {"signal", "unlock"} : Store(p, to)
    BY <2>1, <2>4, StoreInserts
  <2> QED
    BY <1>1, <2>2, <2>3, <2>4, InsertSteps DEF thread_writer_fun
<1>2. ASSUME NEW c \in Consumers, thread_reader_fun(c)
      PROVE  Queue!Next \/ UNCHANGED Queue!vars
  <2>1. shutdown' = shutdown
    BY <1>2 DEF thread_reader_fun
  <2>2. CASE consumer(c)
    BY <2>1, <2>2, Stutters DEF consumer, ring
  <2>3. CASE \/ SyncStep(c)
             \/ \E w \in {"retry", "resignal"} :
                   Test(c, spool_empty, w) \/ Test(c, spool_empty /\ ~shutdown, w)
    BY <2>1, <2>3, Stutters DEF SyncStep, Lock, Signal, Sleep, WakeUp, Unlock, Test, ring
  <2>4. CASE \E to \in {"signal", "unlock"} : Take(c, to)
    BY <2>1, <2>4, TakeRemoves
  <2> QED
    BY <1>2, <2>2, <2>3, <2>4, RemoveSteps DEF thread_reader_fun
<1>3. CASE main = "shutdown" /\ shutdown' = TRUE /\ UNCHANGED <<threads, ring>>
  <2>1. UNCHANGED <<Contents, [c \in Consumers |-> str[c]]>>
    BY <1>3 DEF threads, ring, Contents, Count, Wrap
  <2> QED
    BY <1>3, <2>1 DEF Queue!Next, Queue!Shutdown
<1>4. CASE UNCHANGED <<str, ring, shutdown>>
  BY <1>4, Stutters DEF ring
<1>5. run_threads \/ CreateFails \/ (\E t \in Threads : Spurious(t)) =>
         \/ main = "shutdown" /\ shutdown' = TRUE /\ UNCHANGED <<threads, ring>>
         \/ UNCHANGED <<str, ring, shutdown>>
  BY DEF run_threads, Create, Created, JoinProducers, spool_shutdown_efficient,
         JoinConsumers, CreateFails, Spurious, threads
<1> QED
  BY <1>1, <1>2, <1>3, <1>4, <1>5 DEF Next

(* The strings are removed in the order they were inserted, each by one    *)
(* consumer, whichever implementation runs.                                *)
THEOREM Refinement == Spec => RefinesQueue
<1>1. Init => Queue!Init
  <2> SUFFICES ASSUME Init PROVE Queue!Init
    OBVIOUS
  <2>1. RingTypeOK /\ RingOK /\ Count = 0
    BY InitInvariant DEF IInv, TypeOK, Init, spool_init, spool_init_shared, Count
  <2>2. Contents = <<>>
    BY <2>1, RingFilled, ContentsLen, EmptySeq
  <2>3. [c \in Consumers |-> str[c]] = [c \in Consumers |-> Garbage]
    BY DEF Init, Threads
  <2> QED
    BY <2>2, <2>3 DEF Queue!Init, Init, spool_init
<1>2. IInv /\ [Next]_vars => [Queue!Next]_(Queue!vars)
  <2>1. CASE UNCHANGED vars
    BY <2>1, Stutters DEF vars, threads, ring
  <2> QED
    BY <2>1, StepRefines
<1> QED
  BY <1>1, <1>2, Invariance, PTL DEF Spec, RefinesQueue, Queue!Spec
-----------------------------------------------------------------------------
(***************************************************************************)
(* The wake-ups.  WakeInv is what, with IInv, makes NoLostWakeup           *)
(* inductive: who waits on which variable, that a thread about to wait has *)
(* still a reason to, and that with one variable it has woken somebody     *)
(* first, if there was anybody.                                            *)
(***************************************************************************)
(* Which variable a thread waits on, and which one it signals.             *)
WaitsOn(t) == IF build = "spooler4" /\ t \in Producers THEN "pro_cv" ELSE "con_cv"
SignalsTo(t) == IF build = "spooler4" /\ t \in Consumers THEN "pro_cv" ELSE "con_cv"

Blocked(t) == IF t \in Producers THEN spool_full ELSE spool_empty

Sleepers ==
  \A t \in Threads, cv \in Conds :
     t \in waiters[cv] => pc[t] = "asleep" /\ cv = WaitsOn(t)

StillBlocked == \A t \in Threads : pc[t] \in {"resignal", "wait"} => Blocked(t)

PassedOn ==
  build = "spooler3" =>
    \A t \in Threads : pc[t] = "wait" =>
       waiters["con_cv"] = {} \/ \E u \in Coming(Threads) : u # t

WakeInv ==
  build \in {"spooler3", "spooler4"} =>
     Sleepers /\ StillBlocked /\ PassedOn /\ NoLostWakeup

(* NoLostWakeup for two variables, said of either: the kind of thread that *)
(* waits on it, and the other.                                             *)
Kind(cv) == IF cv = "con_cv" THEN Consumers ELSE Producers
Other(cv) == IF cv = "con_cv" THEN Producers ELSE Consumers
Amount(cv) == IF cv = "con_cv" THEN Count ELSE capacity

Enough(cv) ==
  waiters[cv] # {} => Amount(cv) <= Cardinality(Coming(Kind(cv))) + Cardinality(Signalling(Other(cv)))

OneGoes ==
  \A t \in Threads : Asleep(t) /\ ~Blocked(t) => Coming(Threads) \cup Signalling(Threads) # {}

LEMMA Parts ==
  NoLostWakeup <=> /\ build = "spooler4" => \A cv \in Conds : Enough(cv)
                   /\ build = "spooler3" => OneGoes
BY DEF NoLostWakeup, Conds, Enough, Kind, Other, Amount, OneGoes, Blocked

LEMMA PartsNext ==
  NoLostWakeup' <=> /\ build' = "spooler4" => \A cv \in Conds : Enough(cv)'
                    /\ build' = "spooler3" => OneGoes'
BY DEF NoLostWakeup, Conds, Enough, Kind, Other, Amount, OneGoes, Blocked

LEMMA Finite ==
  ASSUME NEW cv \in Conds
  PROVE  /\ IsFiniteSet(Coming(Kind(cv))) /\ IsFiniteSet(Signalling(Other(cv)))
         /\ IsFiniteSet(Coming(Kind(cv))') /\ IsFiniteSet(Signalling(Other(cv))')
<1>1. /\ Coming(Kind(cv)) \in SUBSET Threads /\ Signalling(Other(cv)) \in SUBSET Threads
      /\ Coming(Kind(cv))' \in SUBSET Threads /\ Signalling(Other(cv))' \in SUBSET Threads
  BY DEF Coming, Signalling, Kind, Other, Threads
<1> QED
  BY <1>1, FinitelyMany, FS_Subset

LEMMA Amounts ==
  ASSUME TypeOK, NEW cv \in Conds
  PROVE  Amount(cv) \in Nat
<1>1. \A x \in 0 .. Size : x \in Nat /\ Size - x \in Nat
  BY SizeAssumption
<1> QED
  BY <1>1 DEF TypeOK, RingTypeOK, Amount, Count

LEMMA AmountsNext ==
  ASSUME TypeOK', NEW cv \in Conds
  PROVE  Amount(cv)' \in Nat
<1>1. capacity' \in 0 .. Size
  BY DEF TypeOK, RingTypeOK
<1>2. Amount(cv)' = IF cv = "con_cv" THEN Count' ELSE capacity'
  BY DEF Amount
<1>3. Count' = Size - capacity'
  BY DEF Count
<1>4. \A x \in 0 .. Size : x \in Nat /\ Size - x \in Nat
  BY SizeAssumption
<1>5. Count' \in Nat /\ capacity' \in Nat
  BY <1>1, <1>3, <1>4
<1> QED
  BY <1>2, <1>5

(* The ways in which those that are coming and those that will signal may  *)
(* change with the amount of work.                                         *)
LEMMA Balance ==
  ASSUME TypeOK, TypeOK', NEW cv \in Conds,
         LET a == Coming(Kind(cv))  b == Signalling(Other(cv))
         IN \/ /\ Amount(cv) <= Cardinality(a) + Cardinality(b)
               /\ \/ a \subseteq a' /\ b \subseteq b' /\ Amount(cv)' <= Amount(cv)
                  \/ /\ a \subseteq a' /\ Amount(cv)' <= Amount(cv) + 1
                     /\ \E t \in Threads : t \notin b /\ b' = b \cup {t}
                  \/ /\ b \subseteq b' /\ Amount(cv)' <= Amount(cv) - 1
                     /\ \E t \in Threads : a' = a \ {t}
                  \/ /\ Amount(cv)' <= Amount(cv)
                     /\ \E t, u \in Threads : b' = b \ {t} /\ u \notin a /\ a \cup {u} \subseteq a'
            \/ Amount(cv)' <= 0
  PROVE  Amount(cv)' <= Cardinality(Coming(Kind(cv))') + Cardinality(Signalling(Other(cv))')
<1> DEFINE a == Coming(Kind(cv))
           b == Signalling(Other(cv))
           c == Coming(Kind(cv))'
           d == Signalling(Other(cv))'
           x == Amount(cv)
           y == Amount(cv)'
<1>1. x \in Nat /\ y \in Nat
  BY Amounts, AmountsNext
<1>2. IsFiniteSet(a) /\ IsFiniteSet(b) /\ IsFiniteSet(c) /\ IsFiniteSet(d)
  BY Finite
<1>3. \/ /\ x <= Cardinality(a) + Cardinality(b)
         /\ \/ a \subseteq c /\ b \subseteq d /\ y <= x
            \/ a \subseteq c /\ y <= x + 1 /\ \E t \in Threads : t \notin b /\ d = b \cup {t}
            \/ b \subseteq d /\ y <= x - 1 /\ \E t \in Threads : c = a \ {t}
            \/ y <= x /\ \E t, u \in Threads : d = b \ {t} /\ u \notin a /\ a \cup {u} \subseteq c
      \/ y <= 0
  OBVIOUS
<1> HIDE DEF a, b, c, d, x, y
<1>4. /\ Cardinality(a) \in Nat /\ Cardinality(b) \in Nat
      /\ Cardinality(c) \in Nat /\ Cardinality(d) \in Nat
  BY <1>2, FS_CardinalityType
<1>5. a \subseteq c => Cardinality(a) <= Cardinality(c)
  BY <1>2, FS_Subset
<1>6. b \subseteq d => Cardinality(b) <= Cardinality(d)
  BY <1>2, FS_Subset
<1>7. ASSUME NEW t, t \notin b, d = b \cup {t} PROVE Cardinality(d) = Cardinality(b) + 1
  BY <1>2, <1>7, FS_AddElement
<1>8. ASSUME NEW t, c = a \ {t} PROVE Cardinality(c) >= Cardinality(a) - 1
  <2>1. Cardinality(c) \in {Cardinality(a) - 1, Cardinality(a)}
    BY <1>2, <1>8, FS_RemoveElement
  <2> QED
    BY <1>4, <2>1
<1>9. ASSUME NEW t, NEW u, d = b \ {t}, u \notin a, a \cup {u} \subseteq c
      PROVE  Cardinality(d) >= Cardinality(b) - 1 /\ Cardinality(c) >= Cardinality(a) + 1
  <2>1. Cardinality(d) \in {Cardinality(b) - 1, Cardinality(b)}
    BY <1>2, <1>9, FS_RemoveElement
  <2>2. Cardinality(a \cup {u}) = Cardinality(a) + 1
    BY <1>2, <1>9, FS_AddElement
  <2>3. Cardinality(a \cup {u}) <= Cardinality(c)
    BY <1>2, <1>9, FS_Subset
  <2> QED
    BY <1>4, <2>1, <2>2, <2>3
<1>10. y <= Cardinality(c) + Cardinality(d)
  <2>1. CASE a \subseteq c /\ b \subseteq d /\ y <= x /\ x <= Cardinality(a) + Cardinality(b)
    BY <1>1, <1>4, <1>5, <1>6, <2>1
  <2>2. CASE /\ a \subseteq c /\ y <= x + 1 /\ x <= Cardinality(a) + Cardinality(b)
             /\ \E t \in Threads : t \notin b /\ d = b \cup {t}
    <3>1. Cardinality(d) = Cardinality(b) + 1
      BY <1>7, <2>2
    <3> QED
      BY <1>1, <1>4, <1>5, <2>2, <3>1
  <2>3. CASE /\ b \subseteq d /\ y <= x - 1 /\ x <= Cardinality(a) + Cardinality(b)
             /\ \E t \in Threads : c = a \ {t}
    <3>1. Cardinality(c) >= Cardinality(a) - 1
      BY <1>8, <2>3
    <3> QED
      BY <1>1, <1>4, <1>6, <2>3, <3>1
  <2>4. CASE /\ y <= x /\ x <= Cardinality(a) + Cardinality(b)
             /\ \E t, u \in Threads : d = b \ {t} /\ u \notin a /\ a \cup {u} \subseteq c
    <3>1. Cardinality(d) >= Cardinality(b) - 1 /\ Cardinality(c) >= Cardinality(a) + 1
      BY <1>9, <2>4
    <3> QED
      BY <1>1, <1>4, <2>4, <3>1
  <2>5. CASE y <= 0
    BY <1>1, <1>4, <2>5
  <2> QED
    BY <1>3, <2>1, <2>2, <2>3, <2>4, <2>5
<1> QED
  BY <1>10 DEF c, d, y
-----------------------------------------------------------------------------
(* Steps that change nothing in the buffer and after which at least those  *)
(* are coming, or signalling, that were.                                   *)
LEMMA MoreCome ==
  ASSUME TypeOK, TypeOK', WakeInv, build \in {"spooler3", "spooler4"}, build' = build,
         capacity' = capacity,
         \A cv \in Conds : waiters'[cv] \subseteq waiters[cv],
         \A t \in Threads : \/ pc'[t] = pc[t]
                            \/ /\ pc[t] # "signal" /\ pc'[t] \notin {"signal", "wait"}
                               /\ pc'[t] = "resignal" => Blocked(t)
                               /\ ~Asleep(t)
                               /\ \/ pc[t] \in {"none", "unlock", "loop"}
                                  \/ pc'[t] \notin {"none", "unlock", "loop", "done"}
  PROVE  WakeInv'
<1> USE DEF WakeInv
<1>1. /\ \A t : Blocked(t)' = Blocked(t) /\ WaitsOn(t)' = WaitsOn(t)
      /\ \A cv : Amount(cv)' = Amount(cv)
  BY DEF Blocked, WaitsOn, Amount, Count, spool_full, spool_empty
<1>2. \A t \in Threads : Asleep(t)' => Asleep(t)
  BY DEF Asleep
<1>3. \A t \in Threads : pc'[t] = pc[t] \/ ~Asleep(t)
  OBVIOUS
<1>4. \A k \in {Threads, Producers, Consumers} :
         Coming(k) \subseteq Coming(k)' /\ Signalling(k)' = Signalling(k)
  BY <1>2 DEF Coming, Signalling, Threads
<1>5. Sleepers'
  BY <1>1, <1>3 DEF Sleepers, Asleep
<1>6. StillBlocked'
  BY <1>1 DEF StillBlocked
<1>7. PassedOn'
  BY <1>4 DEF PassedOn, Conds
<1>8. ASSUME build = "spooler4", NEW cv \in Conds PROVE Enough(cv)'
  <2>1. SUFFICES ASSUME waiters'[cv] # {}
                 PROVE  Amount(cv)' <= Cardinality(Coming(Kind(cv))') + Cardinality(Signalling(Other(cv))')
    BY DEF Enough, Kind, Other
  <2>2. Amount(cv) <= Cardinality(Coming(Kind(cv))) + Cardinality(Signalling(Other(cv)))
    BY <1>8, <2>1, Parts DEF Enough
  <2>3. /\ Coming(Kind(cv)) \subseteq Coming(Kind(cv))'
        /\ Signalling(Other(cv)) \subseteq Signalling(Other(cv))'
    BY <1>4 DEF Kind, Other
  <2> QED
    BY <1>1, <2>2, <2>3, Amounts, Balance
<1>9. ASSUME build = "spooler3" PROVE OneGoes'
  BY <1>1, <1>2, <1>4, <1>9, Parts DEF OneGoes
<1> QED
  BY <1>5, <1>6, <1>7, <1>8, <1>9, PartsNext

(* A step with the lock: nobody else is between a lock and an unlock.      *)
LEMMA OthersOutside ==
  ASSUME TypeOK, MutualExclusion, NEW t \in Threads, InCS(t), NEW u \in Threads, u # t
  PROVE  ~InCS(u)
BY ThreadAssumption DEF TypeOK, MutualExclusion

(* The buffer changes: a thread that was coming will signal the others.    *)
LEMMA AccessWakes ==
  ASSUME TypeOK, TypeOK', MutualExclusion, WakeInv, build \in {"spooler3", "spooler4"},
         build' = build, waiters' = waiters, NEW t \in Threads,
         pc[t] = "access", pc' = [pc EXCEPT ![t] = "signal"],
         \A cv \in Conds : IF t \in Other(cv) THEN Amount(cv)' <= Amount(cv) + 1
                           ELSE Amount(cv)' <= Amount(cv) - 1 \/ Amount(cv)' <= 0
  PROVE  WakeInv'
<1> USE DEF WakeInv
<1>1. \A u \in Threads : WaitsOn(u)' = WaitsOn(u) /\ (Asleep(u)' <=> Asleep(u))
  BY DEF WaitsOn, Asleep
<1>2. /\ pc'[t] = "signal" /\ \A u \in Threads \ {t} : pc'[u] = pc[u]
      /\ DOMAIN pc = Threads
  BY DEF TypeOK
<1>3. \A u \in Threads : pc'[u] \notin {"resignal", "wait"}
  BY <1>2, OthersOutside DEF InCS
<1>4. Sleepers'
  BY <1>1, <1>2 DEF Sleepers
<1>5. StillBlocked' /\ PassedOn'
  BY <1>3 DEF StillBlocked, PassedOn
<1>6. ASSUME build = "spooler4", NEW cv \in Conds PROVE Enough(cv)'
  <2>1. SUFFICES ASSUME waiters[cv] # {}
                 PROVE  Amount(cv)' <= Cardinality(Coming(Kind(cv))') + Cardinality(Signalling(Other(cv))')
    BY DEF Enough, Kind, Other
  <2>2. Amount(cv) <= Cardinality(Coming(Kind(cv))) + Cardinality(Signalling(Other(cv)))
    BY <1>6, <2>1, Parts DEF Enough
  <2>3. /\ Kind(cv) \subseteq Threads /\ Other(cv) \subseteq Threads
        /\ Kind(cv) \cap Other(cv) = {} /\ t \in Kind(cv) \cup Other(cv)
    BY ThreadAssumption DEF Kind, Other, Threads
  <2>4. CASE t \in Other(cv)
    <3>1. Coming(Kind(cv))' = Coming(Kind(cv))
      BY <1>1, <1>2, <2>3, <2>4 DEF Coming, Kind, Other
    <3>2. Signalling(Other(cv))' = Signalling(Other(cv)) \cup {t} /\ t \notin Signalling(Other(cv))
      BY <1>2, <2>3, <2>4 DEF Signalling, Kind, Other
    <3>3. Amount(cv)' <= Amount(cv) + 1 /\ Amount(cv)' \in Int
      BY <2>4, AmountsNext
    <3> QED
      BY <2>2, <3>1, <3>2, <3>3, Amounts, Balance
  <2>5. CASE t \notin Other(cv)
    <3>1. Coming(Kind(cv))' = Coming(Kind(cv)) \ {t}
      BY <1>1, <1>2, <2>3, <2>5 DEF Coming, Kind, Other
    <3>2. Signalling(Other(cv)) \subseteq Signalling(Other(cv))'
      BY <1>2, <2>3, <2>5 DEF Signalling, Kind, Other
    <3>3. (Amount(cv)' <= Amount(cv) - 1 \/ Amount(cv)' <= 0) /\ Amount(cv)' \in Int
      BY <2>5, AmountsNext
    <3> QED
      BY <2>2, <3>1, <3>2, <3>3, Amounts, Balance
  <2> QED
    BY <2>4, <2>5
<1>7. ASSUME build = "spooler3" PROVE OneGoes'
  BY <1>2 DEF OneGoes, Signalling
<1> QED
  BY <1>4, <1>5, <1>6, <1>7, PartsNext

(* pthread_cond_signal after a change of the buffer, and before a wait.    *)
LEMMA SignalWakes ==
  ASSUME TypeOK, TypeOK', MutualExclusion, WakeInv, build \in {"spooler3", "spooler4"},
         build' = build, capacity' = capacity, NEW t \in Threads,
         \/ Signal(t, "signal", "unlock", SignalsTo(t))
         \/ Signal(t, "resignal", "wait", SignalsTo(t))
  PROVE  WakeInv'
<1> USE DEF WakeInv
<1> DEFINE cs == SignalsTo(t)
<1>1. /\ \A u \in Threads : Blocked(u)' = Blocked(u) /\ WaitsOn(u)' = WaitsOn(u)
      /\ \A cv : Amount(cv)' = Amount(cv)
  BY DEF Blocked, WaitsOn, Amount, Count, spool_full, spool_empty
<1>2. /\ \A u \in Threads \ {t} : pc'[u] = pc[u]
      /\ \/ pc[t] = "signal" /\ pc'[t] = "unlock"
         \/ pc[t] = "resignal" /\ pc'[t] = "wait"
  BY DEF Signal, Goto, TypeOK
<1>3. /\ cs \in Conds
      /\ \/ waiters[cs] = {} /\ waiters' = waiters
         \/ \E w \in waiters[cs] : waiters' = [waiters EXCEPT ![cs] = @ \ {w}]
  BY DEF Signal, CondSignal, SignalsTo, Conds
<1>4. \A cv \in Conds : waiters'[cv] \subseteq waiters[cv] /\ waiters[cv] \subseteq Threads
  BY <1>3 DEF TypeOK
<1>5. Sleepers'
  BY <1>1, <1>2, <1>4 DEF Sleepers
<1>6. \A u \in Threads : Asleep(u)' => Asleep(u)
  BY <1>4 DEF Asleep
<1>7. StillBlocked'
  BY <1>1, <1>2 DEF StillBlocked
<1>8. ASSUME NEW w \in waiters[cs], waiters' = [waiters EXCEPT ![cs] = @ \ {w}]
      PROVE  /\ w \in Threads /\ w # t /\ cs = WaitsOn(w) /\ pc[w] = "asleep" /\ Asleep(w) /\ ~Asleep(w)'
             /\ pc'[w] = "asleep"
  <2>1. w \in Threads /\ cs = WaitsOn(w) /\ pc[w] = "asleep" /\ Asleep(w)
    BY <1>3, <1>4, <1>8 DEF Sleepers, Asleep
  <2>2. \A cv \in Conds : w \notin waiters'[cv]
    BY <1>3, <1>8, <2>1 DEF Sleepers, TypeOK
  <2> QED
    BY <1>2, <2>1, <2>2 DEF Asleep
<1>9. PassedOn'
  <2> SUFFICES ASSUME build = "spooler3", NEW u \in Threads, pc'[u] = "wait"
               PROVE  waiters'["con_cv"] = {} \/ \E v \in Coming(Threads)' : v # u
    BY DEF PassedOn
  <2>1. u = t /\ cs = "con_cv"
    BY <1>2, OthersOutside DEF InCS, SignalsTo
  <2>2. ASSUME NEW w \in waiters[cs], waiters' = [waiters EXCEPT ![cs] = @ \ {w}]
        PROVE  w \in Coming(Threads)' /\ w # u
    BY <1>8, <2>1, <2>2 DEF Coming
  <2> QED
    BY <1>3, <2>1, <2>2
<1>10. ASSUME build = "spooler4", NEW cv \in Conds PROVE Enough(cv)'
  <2>1. SUFFICES ASSUME waiters'[cv] # {}
                 PROVE  Amount(cv)' <= Cardinality(Coming(Kind(cv))') + Cardinality(Signalling(Other(cv))')
    BY DEF Enough, Kind, Other
  <2>2. Amount(cv) <= Cardinality(Coming(Kind(cv))) + Cardinality(Signalling(Other(cv)))
    BY <1>4, <1>10, <2>1, Parts DEF Enough
  <2>3. Kind(cv) \subseteq Threads /\ Other(cv) \subseteq Threads
    BY DEF Kind, Other, Threads
  <2>4. Coming(Kind(cv)) \subseteq Coming(Kind(cv))'
    BY <1>2, <1>6, <2>3 DEF Coming, Kind
  <2>5. CASE cv = cs /\ pc[t] = "signal"
    <3>1. PICK w \in waiters[cs] : waiters' = [waiters EXCEPT ![cs] = @ \ {w}]
      BY <1>3, <2>1, <2>5
    <3>2. w \in Kind(cv)
      BY <1>8, <1>10, <2>5, <3>1, ThreadAssumption DEF WaitsOn, Kind, Threads
    <3>3. w \in Threads /\ w \notin Coming(Kind(cv)) /\ w \in Coming(Kind(cv))'
      BY <1>8, <3>1, <3>2 DEF Coming, Kind
    <3>4. Signalling(Other(cv))' = Signalling(Other(cv)) \ {t}
      BY <1>2, <2>3, <2>5 DEF Signalling, Other
    <3>5. Coming(Kind(cv)) \cup {w} \subseteq Coming(Kind(cv))'
      BY <2>4, <3>3
    <3>6. \E v, u \in Threads :
            /\ Signalling(Other(cv))' = Signalling(Other(cv)) \ {v}
            /\ u \notin Coming(Kind(cv)) /\ Coming(Kind(cv)) \cup {u} \subseteq Coming(Kind(cv))'
      BY <3>3, <3>4, <3>5
    <3>7. Amount(cv)' <= Amount(cv)
      BY <1>1, Amounts
    <3> QED
      BY <2>2, <3>6, <3>7, Balance
  <2>6. CASE ~(cv = cs /\ pc[t] = "signal")
    <3>1. Signalling(Other(cv)) \subseteq Signalling(Other(cv))'
      <4>1. pc[t] = "signal" => t \notin Other(cv)
        BY <1>10, <2>6, ThreadAssumption DEF SignalsTo, Other, Conds, Threads
      <4> QED
        BY <1>2, <2>3, <4>1 DEF Signalling, Other
    <3> QED
      BY <1>1, <2>2, <2>4, <3>1, Amounts, Balance
  <2> QED
    BY <2>5, <2>6
<1>11. ASSUME build = "spooler3" PROVE OneGoes'
  <2> SUFFICES ASSUME NEW u \in Threads, Asleep(u)'
               PROVE  Coming(Threads)' # {}
    BY DEF OneGoes
  <2>1. PICK cv \in Conds : u \in waiters[cv] /\ u \in waiters'[cv]
    BY <1>4 DEF Asleep
  <2>2. waiters[cs] # {}
    BY <1>11, <2>1 DEF Sleepers, WaitsOn, SignalsTo
  <2>3. PICK w \in waiters[cs] : waiters' = [waiters EXCEPT ![cs] = @ \ {w}]
    BY <1>3, <2>2
  <2>4. w \in Coming(Threads)'
    BY <1>8, <2>3 DEF Coming
  <2> QED
    BY <2>4
<1> QED
  BY <1>5, <1>7, <1>9, <1>10, <1>11, PartsNext

(* pthread_cond_wait: what made the thread wait is still so.               *)
LEMMA SleepWakes ==
  ASSUME TypeOK, TypeOK', MutualExclusion, WakeInv, build \in {"spooler3", "spooler4"},
         build' = build, capacity' = capacity, NEW t \in Threads, Sleep(t, WaitsOn(t))
  PROVE  WakeInv'
<1> USE DEF WakeInv
<1> DEFINE cw == WaitsOn(t)
<1>1. /\ \A u \in Threads : Blocked(u)' = Blocked(u) /\ WaitsOn(u)' = WaitsOn(u)
      /\ \A cv : Amount(cv)' = Amount(cv)
  BY DEF Blocked, WaitsOn, Amount, Count, spool_full, spool_empty
<1>2. /\ \A u \in Threads \ {t} : pc'[u] = pc[u]
      /\ pc[t] = "wait" /\ pc'[t] = "asleep" /\ Blocked(t)
  BY DEF Sleep, Goto, TypeOK, StillBlocked
<1>3. cw \in Conds /\ waiters' = [waiters EXCEPT ![cw] = @ \cup {t}]
  BY DEF Sleep, CondWait, WaitsOn, Conds
<1>4. /\ waiters'[cw] = waiters[cw] \cup {t} /\ t \in waiters'[cw]
      /\ \A cv \in Conds \ {cw} : waiters'[cv] = waiters[cv]
  BY <1>3 DEF TypeOK
<1>5. Sleepers'
  BY <1>1, <1>2, <1>4 DEF Sleepers
<1>6. \A u \in Threads \ {t} : Asleep(u)' <=> Asleep(u)
  BY <1>3, <1>4 DEF Asleep
<1>7. \A u \in Threads : pc'[u] \notin {"resignal", "wait"}
  BY <1>2, OthersOutside DEF InCS
<1>8. StillBlocked' /\ PassedOn'
  BY <1>7 DEF StillBlocked, PassedOn
<1>9. ASSUME build = "spooler4", NEW cv \in Conds PROVE Enough(cv)'
  <2>1. SUFFICES ASSUME waiters'[cv] # {}
                 PROVE  Amount(cv)' <= Cardinality(Coming(Kind(cv))') + Cardinality(Signalling(Other(cv))')
    BY DEF Enough, Kind, Other
  <2>2. Kind(cv) \subseteq Threads /\ Other(cv) \subseteq Threads
    BY DEF Kind, Other, Threads
  <2>3. CASE cv = cw
    <3>1. Amount(cv)' = 0
      BY <1>1, <1>2, <1>9, <2>3, ThreadAssumption, SizeAssumption
         DEF Blocked, WaitsOn, Amount, Count, spool_full, spool_empty, TypeOK, RingTypeOK, Threads
    <3> QED
      BY <3>1, Amounts, Balance
  <2>4. CASE cv # cw
    <3>1. t \notin Kind(cv) /\ waiters[cv] # {}
      BY <1>4, <1>9, <2>1, <2>4, ThreadAssumption DEF WaitsOn, Kind, Conds, Threads
    <3>2. Amount(cv) <= Cardinality(Coming(Kind(cv))) + Cardinality(Signalling(Other(cv)))
      BY <1>9, <3>1, Parts DEF Enough
    <3>3. Coming(Kind(cv)) \subseteq Coming(Kind(cv))'
      BY <1>2, <1>6, <2>2, <3>1 DEF Coming, Kind
    <3>4. Signalling(Other(cv)) \subseteq Signalling(Other(cv))'
      BY <1>2, <2>2 DEF Signalling, Other
    <3> QED
      BY <1>1, <3>2, <3>3, <3>4, Amounts, Balance
  <2> QED
    BY <2>3, <2>4
<1>10. ASSUME build = "spooler3" PROVE OneGoes'
  <2> SUFFICES ASSUME NEW u \in Threads, Asleep(u)', ~Blocked(u)'
               PROVE  Coming(Threads)' # {}
    BY DEF OneGoes
  <2>1. u # t /\ Asleep(u)
    BY <1>1, <1>2, <1>6
  <2>2. waiters["con_cv"] # {}
    BY <1>10, <2>1 DEF Asleep, Sleepers, WaitsOn
  <2>3. PICK v \in Coming(Threads) : v # t
    BY <1>2, <1>10, <2>2 DEF PassedOn
  <2>4. v \in Coming(Threads)'
    BY <1>2, <1>6, <2>3 DEF Coming
  <2> QED
    BY <2>4
<1> QED
  BY <1>5, <1>8, <1>9, <1>10, PartsNext
-----------------------------------------------------------------------------
(* What a thread of spooler3 or spooler4 does while it inserts or removes, *)
(* said with the variables it waits on and signals.                        *)
LEMMA CallSteps ==
  ASSUME build \in {"spooler3", "spooler4"}, NEW t \in Threads,
         \/ t \in Producers /\ spool_insert(t)
         \/ t \in Consumers /\ spool_remove(t)
  PROVE  \/ Lock(t)
         \/ t \in Producers /\ Test(t, spool_full, "resignal")
         \/ t \in Consumers /\ Test(t, spool_empty /\ ~shutdown, "resignal")
         \/ Signal(t, "resignal", "wait", SignalsTo(t))
         \/ Signal(t, "signal", "unlock", SignalsTo(t))
         \/ Sleep(t, WaitsOn(t))
         \/ WakeUp(t, WaitsOn(t))
         \/ Unlock(t, "unlock", "loop")
         \/ t \in Producers /\ Store(t, "signal")
         \/ t \in Consumers /\ Take(t, "signal")
<1> USE ThreadAssumption DEF SignalsTo, WaitsOn, Threads
<1>1. CASE t \in Producers /\ spool_insert(t)
  BY <1>1 DEF spool_insert, spool_insert_cv1, spool_insert_cv2, PART2
<1>2. CASE t \in Consumers /\ spool_remove(t)
  BY <1>2 DEF spool_remove, spool_remove_cv1, spool_remove_cv2, PART2
<1> QED
  BY <1>1, <1>2

LEMMA CallWakes ==
  ASSUME IInv, IInv', WakeInv, build \in {"spooler3", "spooler4"}, build' = build,
         NEW t \in Threads,
         \/ t \in Producers /\ spool_insert(t)
         \/ t \in Consumers /\ spool_remove(t)
  PROVE  WakeInv'
<1> TypeOK /\ TypeOK' /\ MutualExclusion /\ NoOverwrite
  BY DEF IInv
<1>1. CASE Lock(t) \/ Unlock(t, "unlock", "loop")
  <2>1. /\ UNCHANGED <<capacity, waiters>> /\ \A u \in Threads \ {t} : pc'[u] = pc[u]
        /\ \/ pc[t] = "call" /\ pc'[t] = "test"
           \/ pc[t] = "unlock" /\ pc'[t] = "loop"
    BY <1>1 DEF Lock, Unlock, Goto, MutexLock, MutexUnlock, ring, TypeOK
  <2>2. ~Asleep(t)
    BY <2>1 DEF WakeInv, Sleepers, Asleep
  <2> QED
    BY <2>1, <2>2, MoreCome
<1>2. CASE WakeUp(t, WaitsOn(t))
  <2>1. /\ UNCHANGED <<capacity, waiters>> /\ \A u \in Threads \ {t} : pc'[u] = pc[u]
        /\ pc[t] = "asleep" /\ pc'[t] = "test" /\ t \notin waiters[WaitsOn(t)]
    BY <1>2 DEF WakeUp, Goto, CondReturn, MutexLock, ring, TypeOK
  <2>2. ~Asleep(t)
    BY <2>1 DEF WakeInv, Sleepers, Asleep
  <2> QED
    BY <2>1, <2>2, MoreCome
<1>3. CASE \/ t \in Producers /\ Test(t, spool_full, "resignal")
           \/ t \in Consumers /\ Test(t, spool_empty /\ ~shutdown, "resignal")
  <2>1. /\ UNCHANGED <<capacity, waiters>> /\ \A u \in Threads \ {t} : pc'[u] = pc[u]
        /\ pc[t] = "test" /\ pc'[t] \in {"access", "resignal"}
        /\ pc'[t] = "resignal" => Blocked(t)
    BY <1>3, ThreadAssumption DEF Test, Goto, ring, sync, TypeOK, Blocked, Threads
  <2>2. ~Asleep(t)
    BY <2>1 DEF WakeInv, Sleepers, Asleep
  <2> QED
    BY <2>1, <2>2, MoreCome
<1>4. CASE Signal(t, "resignal", "wait", SignalsTo(t)) \/ Signal(t, "signal", "unlock", SignalsTo(t))
  BY <1>4, SignalWakes DEF Signal, ring
<1>5. CASE Sleep(t, WaitsOn(t))
  BY <1>5, SleepWakes DEF Sleep, ring
<1>6. CASE t \in Producers /\ Store(t, "signal")
  <2>1. /\ waiters' = waiters /\ pc[t] = "access" /\ pc' = [pc EXCEPT ![t] = "signal"]
        /\ capacity \in Nat \ {0} /\ capacity' = capacity - 1
    BY <1>6 DEF Store, Goto, sync, NoOverwrite, spool_insert_unchecked, spool_full, TypeOK, RingTypeOK
  <2>2. \A cv \in Conds : IF t \in Other(cv) THEN Amount(cv)' <= Amount(cv) + 1
                          ELSE Amount(cv)' <= Amount(cv) - 1 \/ Amount(cv)' <= 0
    BY <1>6, <2>1, ThreadAssumption, SizeAssumption DEF Other, Amount, Count, Conds, Threads
  <2> QED
    BY <2>1, <2>2, AccessWakes
<1>7. CASE t \in Consumers /\ Take(t, "signal")
  <2>1. /\ waiters' = waiters /\ pc[t] = "access" /\ pc' = [pc EXCEPT ![t] = "signal"]
        /\ \/ capacity = Size /\ capacity' = Size
           \/ capacity' = capacity + 1
        /\ capacity \in Nat
    BY <1>7 DEF Take, Goto, sync, spool_remove_unchecked, spool_empty, TypeOK, RingTypeOK
  <2>2. \A cv \in Conds : IF t \in Other(cv) THEN Amount(cv)' <= Amount(cv) + 1
                          ELSE Amount(cv)' <= Amount(cv) - 1 \/ Amount(cv)' <= 0
    BY <1>7, <2>1, ThreadAssumption, SizeAssumption DEF Other, Amount, Count, Conds, Threads
  <2> QED
    BY <2>1, <2>2, AccessWakes
<1> QED
  BY <1>1, <1>2, <1>3, <1>4, <1>5, <1>6, <1>7, CallSteps

LEMMA StepWakes ==
  ASSUME IInv, IInv', WakeInv, Next
  PROVE  WakeInv'
<1> SUFFICES ASSUME build \in {"spooler3", "spooler4"}, build' = build
             PROVE  WakeInv'
  <2>1. build' = build
    BY DEF Next, run_threads, Create, Created, JoinProducers, spool_shutdown_efficient,
           JoinConsumers, CreateFails, Spurious, thread_writer_fun, thread_reader_fun
  <2> QED
    BY <2>1 DEF WakeInv
<1> TypeOK /\ TypeOK'
  BY DEF IInv
<1>1. CASE \/ \E p \in Producers : thread_writer_fun(p) /\ producer(p)
           \/ \E c \in Consumers : thread_reader_fun(c) /\ consumer(c)
           \/ \E t \in Threads : Create(t)
  <2>1. PICK t \in Threads :
          /\ UNCHANGED <<capacity, waiters>> /\ \A u \in Threads \ {t} : pc'[u] = pc[u]
          /\ pc[t] \in {"loop", "none"} /\ pc'[t] \in {"loop", "call", "done"}
    BY <1>1 DEF Create, producer, consumer, Goto, ring, sync, Threads, TypeOK
  <2>2. ~Asleep(t)
    BY <2>1 DEF WakeInv, Sleepers, Asleep
  <2> QED
    BY <2>1, <2>2, MoreCome
<1>2. CASE \/ \E p \in Producers : thread_writer_fun(p) /\ spool_insert(p)
           \/ \E c \in Consumers : thread_reader_fun(c) /\ spool_remove(c)
  BY <1>2, CallWakes DEF Threads
<1>3. CASE UNCHANGED <<pc, capacity>> /\ \A cv \in Conds : waiters'[cv] \subseteq waiters[cv]
  BY <1>3, MoreCome
<1>4. CASE \/ Created \/ JoinProducers \/ JoinConsumers \/ CreateFails
           \/ spool_shutdown_efficient \/ \E t \in Threads : Spurious(t)
  <2>1. UNCHANGED <<pc, capacity>>
    BY <1>4 DEF Created, JoinProducers, JoinConsumers, CreateFails,
                spool_shutdown_efficient, Spurious, threads, ring
  <2>2. \A cv \in Conds : waiters'[cv] \subseteq waiters[cv]
    BY <1>4 DEF Created, JoinProducers, JoinConsumers, CreateFails, spool_shutdown_efficient,
                Spurious, SpuriousWakeup, CondBroadcast, sync, TypeOK
  <2> QED
    BY <1>3, <2>1, <2>2
<1> QED
  BY <1>1, <1>2, <1>4 DEF Next, run_threads, thread_writer_fun, thread_reader_fun

(* No wake-up is lost between threads, whatever their number, and although *)
(* a signal may wake anybody who waits on the variable.                    *)
THEOREM WakeUps == Spec => []NoLostWakeup
<1>1. Init => WakeInv
  <2> SUFFICES ASSUME Init PROVE WakeInv
    OBVIOUS
  <2>1. /\ \A cv \in Conds : waiters[cv] = {}
        /\ \A t \in Threads : pc[t] = "none" /\ ~Asleep(t)
    BY DEF Init, spool_init, SyncInit, Asleep
  <2>2. NoLostWakeup
    BY <2>1, Parts DEF Enough, OneGoes
  <2> QED
    BY <2>1, <2>2 DEF WakeInv, Sleepers, StillBlocked, PassedOn
<1>2. IInv /\ IInv' /\ WakeInv /\ [Next]_vars => WakeInv'
  <2>1. ASSUME WakeInv, UNCHANGED vars PROVE WakeInv'
    <3>1. NoLostWakeup' <=> NoLostWakeup
      BY <2>1 DEF vars, threads, ring, sync, NoLostWakeup, Coming, Signalling, Asleep, Count,
                  spool_full, spool_empty
    <3> QED
      BY <2>1, <3>1 DEF vars, threads, ring, sync, WakeInv, Sleepers, StillBlocked, PassedOn,
                        WaitsOn, Blocked, Coming, Asleep, spool_full, spool_empty
  <2> QED
    BY <2>1, StepWakes
<1>3. IInv /\ WakeInv => NoLostWakeup
  <2> SUFFICES ASSUME IInv, WakeInv PROVE NoLostWakeup
    OBVIOUS
  <2> QED
    BY DEF WakeInv, NoLostWakeup
<1> QED
  BY <1>1, <1>2, <1>3, Invariance, PTL DEF Spec
-----------------------------------------------------------------------------
(* The spooler without threads, on the same buffer.                        *)
VARIABLE returned

Unsafe == INSTANCE SpoolerUnsafe

UnsafeInv == RingTypeOK /\ Filled

LEMMA SameBuffer ==
  /\ Unsafe!Contents = Contents /\ Unsafe!Contents' = Contents'
  /\ Unsafe!ring = ring /\ Unsafe!ring' = ring'
  /\ Unsafe!spool_empty <=> spool_empty
  /\ Unsafe!spool_full <=> spool_full
  /\ Unsafe!removed_item = removed_item
  /\ Unsafe!spool_init_shared <=> spool_init_shared
  /\ Unsafe!spool_remove_unchecked <=> spool_remove_unchecked
  /\ \A item : Unsafe!spool_insert_unchecked(item) <=> spool_insert_unchecked(item)
BY DEF Unsafe!Contents, Contents, Unsafe!Count, Count, Unsafe!Wrap, Wrap, Unsafe!ring, ring,
   Unsafe!spool_empty, spool_empty, Unsafe!spool_full, spool_full,
   Unsafe!removed_item, removed_item, Unsafe!spool_init_shared, spool_init_shared,
   Unsafe!Slots, Slots, Unsafe!spool_remove_unchecked, spool_remove_unchecked,
   Unsafe!spool_insert_unchecked, spool_insert_unchecked

LEMMA Calls ==
  ASSUME Unsafe!Next
  PROVE  \/ spool_empty /\ returned' = NULL /\ UNCHANGED ring
         \/ ~spool_empty /\ returned' = removed_item /\ spool_remove_unchecked
         \/ spool_full /\ UNCHANGED <<ring, returned>>
         \/ /\ ~spool_full /\ returned' = returned
            /\ \E item \in Strings : spool_insert_unchecked(item)
BY SameBuffer DEF Unsafe!Next, Unsafe!spool_insert_unsafe, Unsafe!spool_remove_unsafe,
   Unsafe!ring, ring

(* Any sequence of calls keeps the counters of the buffer consistent.      *)
THEOREM Consistent == Unsafe!Spec => []UnsafeInv
<1>1. Unsafe!Init => UnsafeInv
  BY SizeAssumption, SameBuffer DEF Unsafe!Init, spool_init_shared, UnsafeInv, RingTypeOK, Filled, Wrap, Count,
     LiveSlots, Offset, Slots
<1>2. UnsafeInv /\ [Unsafe!Next]_(Unsafe!vars) => UnsafeInv'
  <2> SUFFICES ASSUME UnsafeInv, [Unsafe!Next]_(Unsafe!vars) PROVE UnsafeInv'
    OBVIOUS
  <2>1. CASE UNCHANGED ring
    BY <2>1 DEF UnsafeInv, ring, RingTypeOK, Filled, LiveSlots, Offset, Count, Slots
  <2>2. ASSUME NEW item \in Strings, ~spool_full, spool_insert_unchecked(item) PROVE UnsafeInv'
    <3>1. /\ RingTypeOK' /\ write_index' = Wrap(read_index' + Count')
          /\ LiveSlots' = LiveSlots \cup {write_index}
          /\ elements' = [elements EXCEPT ![write_index] = item]
      BY <2>2, InsertUsesFreeSlot DEF UnsafeInv, Filled
    <3>2. \A i \in LiveSlots' : elements'[i] \in Strings
      BY <3>1 DEF UnsafeInv, RingTypeOK, Filled, LiveSlots
    <3> QED
      BY <3>1, <3>2 DEF UnsafeInv, Filled
  <2>3. ASSUME ~spool_empty, spool_remove_unchecked PROVE UnsafeInv'
    <3>1. /\ RingTypeOK' /\ write_index' = Wrap(read_index' + Count')
          /\ LiveSlots' = LiveSlots \ {read_index} /\ elements' = elements
      BY <2>3, RemoveFreesOldest DEF UnsafeInv, Filled
    <3> QED
      BY <3>1 DEF UnsafeInv, Filled
  <2>4. CASE UNCHANGED Unsafe!vars
    BY <2>1, <2>4, SameBuffer DEF Unsafe!vars
  <2>5. CASE Unsafe!Next
    BY <2>1, <2>2, <2>3, <2>5, Calls DEF ring
  <2> QED
    BY <2>4, <2>5
<1> QED
  BY <1>1, <1>2, PTL DEF Unsafe!Spec

(* spooler_unsafe.c:21-38: the two functions make a bounded queue.         *)
THEOREM UnsafeQueue == Unsafe!Spec => Unsafe!Queue
<1> DEFINE Step(contents, next) ==
     \/ /\ returned' = returned
        /\ \/ Len(contents) < Size /\ \E item \in Strings : next = Append(contents, item)
           \/ Len(contents) = Size /\ next = contents
     \/ /\ contents # <<>>
        /\ returned' = Head(contents) /\ next = Tail(contents)
     \/ /\ contents = <<>>
        /\ returned' = NULL /\ next = contents
<1>1. UnsafeInv /\ Unsafe!Next => Step(Contents, Contents')
  <2> SUFFICES ASSUME UnsafeInv, Unsafe!Next PROVE Step(Contents, Contents')
    OBVIOUS
  <2>1. Len(Contents) = Size - capacity /\ Contents \in Seq(Strings) /\ capacity \in 0 .. Size
    BY ContentsLen DEF UnsafeInv, RingTypeOK, Count
  <2>2. UNCHANGED ring => Contents' = Contents
    BY DEF ring, Contents, Count, Wrap
  <2>3. CASE spool_empty /\ returned' = NULL /\ UNCHANGED ring
    BY <2>1, <2>2, <2>3, SizeAssumption, EmptySeq DEF spool_empty
  <2>4. CASE ~spool_empty /\ returned' = removed_item /\ spool_remove_unchecked
    BY <2>4, RemoveTakesHead DEF UnsafeInv
  <2>5. CASE spool_full /\ UNCHANGED <<ring, returned>>
    BY <2>1, <2>2, <2>5, SizeAssumption DEF spool_full
  <2>6. ASSUME NEW item \in Strings, ~spool_full, returned' = returned,
               spool_insert_unchecked(item)
        PROVE  Step(Contents, Contents')
    <3>1. Contents' = Append(Contents, item)
      BY <2>6, InsertAppends DEF UnsafeInv
    <3> QED
      BY <2>1, <2>6, <3>1, SizeAssumption DEF spool_full
  <2> QED
    BY <2>3, <2>4, <2>5, <2>6, Calls
<1>2. UnsafeInv /\ [Unsafe!Next]_(Unsafe!vars)
        => [Step(Unsafe!Contents, Unsafe!Contents')]_(Unsafe!vars)
  BY <1>1, SameBuffer
<1> QED
  BY <1>2, Consistent, PTL DEF Unsafe!Spec, Unsafe!Queue
=============================================================================
