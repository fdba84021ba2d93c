------------------------------ MODULE Spooler ------------------------------
(***************************************************************************)
(* The multi-threaded print spooler: producers insert strings, consumers   *)
(* remove and print them, and main creates the threads, joins the          *)
(* producers, shuts the spooler down and joins the consumers.  The four    *)
(* threaded executables of the Makefile are one specification: `build' is  *)
(* the executable that runs.                                               *)
(*                                                                         *)
(* A step is one pthread call, or the code between two of them.            *)
(***************************************************************************)
EXTENDS Pthreads, SpoolShared, FiniteSets

CONSTANTS Producers, Consumers,
          NStrs,       \* nstrs: how many strings each producer inserts
          Builds,      \* the executables considered
          Overlaps     \* the possible values of overlap

Threads == Producers \cup Consumers

Conds == {"con_cv", "pro_cv"}

EXECS == {"spooler2", "spooler2_killed", "spooler3", "spooler4"}

PART2 == {"spooler2", "spooler2_killed"}

ASSUME SizeAtLeastTwo == Size >= 2
ASSUME ThreadAssumption ==
  /\ Producers \cap Consumers = {}
  /\ Nobody \notin Threads
ASSUME FinitelyMany == IsFiniteSet(Threads)
ASSUME StringAssumption ==
  /\ NStrs \in Nat
  /\ Producers \X (0 .. NStrs - 1) \subseteq Strings
ASSUME BuildAssumption == Builds \subseteq EXECS /\ Overlaps \subseteq BOOLEAN

VARIABLES
  build,
  overlap,    \* nprods, ncons and nstrs lie where the spooler has buf_lock
  main,       \* where main is in run_threads
  pc,         \* where each thread is in its code
  n,          \* n[p]: how many strings producer p has made
  str,        \* str[t]: the local variable str of thread t
  shutdown,   \* sp->shutdown
  printed     \* the strings that consumers have printed

threads == <<pc, n, str, printed>>
vars == <<build, overlap, main, threads, shutdown, ring, sync>>

(* main.c is compiled with no PARTn: the spool_t it reserves ends before   *)
(* buf_lock, and a linker that puts nprods, ncons and nstrs right behind   *)
(* it has pthread_mutex_init zero them, before main's first loop.          *)
Writers == IF overlap THEN {} ELSE Producers
Readers == IF overlap THEN {} ELSE Consumers

spool_init ==
  /\ spool_init_shared
  /\ SyncInit(Conds)
  /\ shutdown = FALSE

Init ==
  /\ build \in Builds
  /\ overlap \in Overlaps
  /\ main = "create"
  /\ pc = [t \in Threads |-> "none"]
  /\ n = [p \in Producers |-> 0]
  /\ str = [t \in Threads |-> Garbage]
  /\ printed = {}
  /\ spool_init
-----------------------------------------------------------------------------
(* The calls of spool_insert and spool_remove.                             *)
Goto(t, from, to) ==
  /\ pc[t] = from
  /\ pc' = [pc EXCEPT ![t] = to]

(* Slip: the call of pthread_mutex_lock is forgotten.                      *)
LockForgotten(t) ==
  /\ Goto(t, "call", "test")
  /\ UNCHANGED <<n, str, printed, ring, sync>>

Lock(t) ==
  /\ Goto(t, "call", "test")
  /\ MutexLock(t)
  /\ UNCHANGED <<n, str, printed, ring>>

(* The condition of the loop, evaluated under the lock.                    *)
Test(t, blocked, otherwise) ==
  /\ Goto(t, "test", IF blocked THEN otherwise ELSE "access")
  /\ UNCHANGED <<n, str, printed, ring, sync>>

Signal(t, from, to, cv) ==
  /\ Goto(t, from, to)
  /\ CondSignal(cv)
  /\ UNCHANGED <<n, str, printed, ring>>

Sleep(t, cv) ==
  /\ Goto(t, "wait", "asleep")
  /\ CondWait(t, cv)
  /\ UNCHANGED <<n, str, printed, ring>>

(* Slip: `if' in place of `while' around the wait.                         *)
WakeUpNoRetest(t, cv) ==
  /\ Goto(t, "asleep", "access")
  /\ CondReturn(t, cv)
  /\ UNCHANGED <<n, str, printed, ring>>

WakeUp(t, cv) ==
  /\ Goto(t, "asleep", "test")
  /\ CondReturn(t, cv)
  /\ UNCHANGED <<n, str, printed, ring>>

Unlock(t, from, to) ==
  /\ Goto(t, from, to)
  /\ MutexUnlock
  /\ UNCHANGED <<n, str, printed, ring>>

Store(p, to) ==
  /\ Goto(p, "access", to)
  /\ spool_insert_unchecked(str[p])
  /\ UNCHANGED <<n, str, printed, sync>>

Take(c, to) ==
  /\ Goto(c, "access", to)
  /\ str' = [str EXCEPT ![c] = removed_item]
  /\ spool_remove_unchecked
  /\ UNCHANGED <<n, printed, sync>>
-----------------------------------------------------------------------------
(* Slip: the lock is kept while polling.                                   *)
spool_insert_holding(p) ==
  \/ Lock(p)
  \/ Test(p, spool_full, "test")
  \/ Store(p, "unlock")
  \/ Unlock(p, "unlock", "loop")

(* spooler_safe.c: the loop polls, and gives the lock up between tests.    *)
spool_insert_safe(p) ==
  \/ Lock(p)
  \/ Test(p, spool_full, "retry")
  \/ Unlock(p, "retry", "call")
  \/ Store(p, "unlock")
  \/ Unlock(p, "unlock", "loop")

spool_remove_safe(c) ==
  \/ Lock(c)
  \/ Test(c, spool_empty, "retry")
  \/ Unlock(c, "retry", "call")
  \/ Take(c, "unlock")
  \/ Unlock(c, "unlock", "loop")

(* spooler_one_cv.c: everybody waits on con_cv.                            *)
spool_insert_cv1(p) ==
  \/ Lock(p)
  \/ Test(p, spool_full, "resignal")
  \/ Signal(p, "resignal", "wait", "con_cv")
  \/ Sleep(p, "con_cv")
  \/ WakeUp(p, "con_cv")
  \/ Store(p, "signal")
  \/ Signal(p, "signal", "unlock", "con_cv")
  \/ Unlock(p, "unlock", "loop")

(* Slip: a consumer that leaves signals nobody.                            *)
spool_remove_silent(c) ==
  \/ Lock(c)
  \/ Test(c, spool_empty /\ ~shutdown, "resignal")
  \/ Signal(c, "resignal", "wait", "con_cv")
  \/ Sleep(c, "con_cv")
  \/ WakeUp(c, "con_cv")
  \/ Take(c, "unlock")
  \/ Unlock(c, "unlock", "loop")

spool_remove_cv1(c) ==
  \/ Lock(c)
  \/ Test(c, spool_empty /\ ~shutdown, "resignal")
  \/ Signal(c, "resignal", "wait", "con_cv")
  \/ Sleep(c, "con_cv")
  \/ WakeUp(c, "con_cv")
  \/ Take(c, "signal")
  \/ Signal(c, "signal", "unlock", "con_cv")
  \/ Unlock(c, "unlock", "loop")

(* spooler_two_cv.c: consumers wait on con_cv, producers on pro_cv.        *)
spool_insert_cv2(p) ==
  \/ Lock(p)
  \/ Test(p, spool_full, "resignal")
  \/ Signal(p, "resignal", "wait", "con_cv")
  \/ Sleep(p, "pro_cv")
  \/ WakeUp(p, "pro_cv")
  \/ Store(p, "signal")
  \/ Signal(p, "signal", "unlock", "con_cv")
  \/ Unlock(p, "unlock", "loop")

(* Slip: after a removal the consumers are signalled, not the producers.   *)
spool_remove_wrong_cv(c) ==
  \/ Lock(c)
  \/ Test(c, spool_empty /\ ~shutdown, "resignal")
  \/ Signal(c, "resignal", "wait", "pro_cv")
  \/ Sleep(c, "con_cv")
  \/ WakeUp(c, "con_cv")
  \/ Take(c, "signal")
  \/ Signal(c, "signal", "unlock", "con_cv")
  \/ Unlock(c, "unlock", "loop")

spool_remove_cv2(c) ==
  \/ Lock(c)
  \/ Test(c, spool_empty /\ ~shutdown, "resignal")
  \/ Signal(c, "resignal", "wait", "pro_cv")
  \/ Sleep(c, "con_cv")
  \/ WakeUp(c, "con_cv")
  \/ Take(c, "signal")
  \/ Signal(c, "signal", "unlock", "pro_cv")
  \/ Unlock(c, "unlock", "loop")

(* spooler.c: which implementation an executable calls.                    *)
spool_insert(p) ==
  \/ build \in PART2 /\ spool_insert_safe(p)
  \/ build = "spooler3" /\ spool_insert_cv1(p)
  \/ build = "spooler4" /\ spool_insert_cv2(p)

spool_remove(c) ==
  \/ build \in PART2 /\ spool_remove_safe(c)
  \/ build = "spooler3" /\ spool_remove_cv1(c)
  \/ build = "spooler4" /\ spool_remove_cv2(c)
-----------------------------------------------------------------------------
(* Slip: n <= nstrs in the loop.                                           *)
UnfinishedOffByOne(p) == n[p] <= NStrs

(* producer.c: the n-th string of p is <<p, n>>.                           *)
Unfinished(p) == n[p] < NStrs

producer(p) ==
  \/ /\ Unfinished(p)
     /\ Goto(p, "loop", "call")
     /\ str' = [str EXCEPT ![p] = <<p, n[p]>>]
     /\ heap' = heap \cup {<<p, n[p]>>}
     /\ n' = [n EXCEPT ![p] = @ + 1]
     /\ UNCHANGED <<printed, write_index, read_index, capacity, elements, sync>>
  \/ /\ ~Unfinished(p)
     /\ Goto(p, "loop", "done")
     /\ UNCHANGED <<n, str, printed, ring, sync>>

(* consumer.c: print and free the string, until spool_remove returns NULL. *)
consumer(c) ==
  \/ /\ str[c] # NULL
     /\ Goto(c, "loop", "call")
     /\ printed' = printed \cup {str[c]}
     /\ heap' = heap \ {str[c]}
     /\ UNCHANGED <<n, str, write_index, read_index, capacity, elements, sync>>
  \/ /\ str[c] = NULL
     /\ Goto(c, "loop", "done")
     /\ UNCHANGED <<n, str, printed, ring, sync>>

Running == main \notin {"exited", "failed"}

thread_writer_fun(p) ==
  /\ Running
  /\ producer(p) \/ spool_insert(p)
  /\ UNCHANGED <<build, overlap, main, shutdown>>

thread_reader_fun(c) ==
  /\ Running
  /\ consumer(c) \/ spool_remove(c)
  /\ UNCHANGED <<build, overlap, main, shutdown>>

(* POSIX allows it at any time.                                            *)
Spurious(t) ==
  /\ Running
  /\ \E cv \in Conds : SpuriousWakeup(t, cv)
  /\ UNCHANGED <<build, overlap, main, threads, shutdown, ring>>
-----------------------------------------------------------------------------
(* main.c, main_killed.c: run_threads after spool_init.                    *)
Create(t) ==
  /\ main = "create"
  /\ t \in Writers \/ (t \in Readers /\ \A p \in Writers : pc[p] # "none")
  /\ Goto(t, "none", IF t \in Writers THEN "loop" ELSE "call")
  /\ UNCHANGED <<build, overlap, main, n, str, printed, shutdown, ring, sync>>

CreateFails ==
  /\ main = "create"
  /\ \E t \in Writers \cup Readers : pc[t] = "none"
  /\ main' = "failed"
  /\ UNCHANGED <<build, overlap, threads, shutdown, ring, sync>>

Created ==
  /\ main = "create"
  /\ \A t \in Writers \cup Readers : pc[t] # "none"
  /\ main' = "join"
  /\ UNCHANGED <<build, overlap, threads, shutdown, ring, sync>>

(* Slip: shutting down without joining the producers.                      *)
JoinNobody ==
  /\ main = "join"
  /\ main' = CASE build = "spooler2_killed" -> "exited"
               [] build = "spooler2" -> "reap"
               [] OTHER -> "shutdown"
  /\ UNCHANGED <<build, overlap, threads, shutdown, ring, sync>>

(* spool_shutdown is empty in PART2, and main_killed.c ends here.          *)
JoinProducers ==
  /\ main = "join"
  /\ \A p \in Writers : pc[p] = "done"
  /\ main' = CASE build = "spooler2_killed" -> "exited"
               [] build = "spooler2" -> "reap"
               [] OTHER -> "shutdown"
  /\ UNCHANGED <<build, overlap, threads, shutdown, ring, sync>>

(* The lock is not taken: the two steps interleave with the threads'.      *)
spool_shutdown_efficient ==
  \/ /\ main = "shutdown"
     /\ shutdown' = TRUE
     /\ main' = "broadcast"
     /\ UNCHANGED <<build, overlap, threads, ring, sync>>
  \/ /\ main = "broadcast"
     /\ CondBroadcast("con_cv")
     /\ main' = "reap"
     /\ UNCHANGED <<build, overlap, threads, shutdown, ring>>

(* Slip: main returns without waiting for the consumers.                   *)
ReturnAtOnce ==
  /\ main = "reap"
  /\ main' = "exited"
  /\ UNCHANGED <<build, overlap, threads, shutdown, ring, sync>>

(* With the counts zeroed, the threads joined are uninitialised handles:   *)
(* pthread_join returns an error or crashes.                               *)
JoinConsumers ==
  /\ main = "reap"
  /\ \A c \in Readers : pc[c] = "done"
  /\ main' \in IF overlap THEN {"exited", "failed"} ELSE {"exited"}
  /\ UNCHANGED <<build, overlap, threads, shutdown, ring, sync>>

run_threads ==
  \/ \E t \in Threads : Create(t)
  \/ Created
  \/ JoinProducers
  \/ spool_shutdown_efficient
  \/ JoinConsumers

Next ==
  \/ run_threads
  \/ CreateFails
  \/ \E p \in Producers : thread_writer_fun(p)
  \/ \E c \in Consumers : thread_reader_fun(c)
  \/ \E t \in Threads : Spurious(t)

Spec == Init /\ [][Next]_vars

(* What the scheduler owes the program: main runs on, and so does every    *)
(* thread, which gets the mutex in the end if it keeps trying to lock it.  *)
Fairness ==
  /\ WF_vars(run_threads)
  /\ \A p \in Producers : SF_vars(thread_writer_fun(p))
  /\ \A c \in Consumers : SF_vars(thread_reader_fun(c))

FairSpec == Spec /\ Fairness
-----------------------------------------------------------------------------
PCs == {"none", "loop", "call", "test", "retry", "resignal", "wait", "asleep",
        "access", "signal", "unlock", "done"}

TypeOK ==
  /\ build \in Builds
  /\ overlap \in Overlaps
  /\ main \in {"create", "join", "shutdown", "broadcast", "reap", "exited", "failed"}
  /\ pc \in [Threads -> PCs]
  /\ n \in [Producers -> 0 .. NStrs]
  /\ str \in [Threads -> Strings \cup {NULL, Garbage}]
  /\ shutdown \in BOOLEAN
  /\ printed \in SUBSET Strings
  /\ RingTypeOK
  /\ owner \in Threads \cup {Nobody}
  /\ waiters \in [Conds -> SUBSET Threads]

(* The threads between a lock (or a return from a wait) and the next       *)
(* unlock (or wait).                                                       *)
InCS(t) == pc[t] \in {"test", "retry", "resignal", "wait", "access", "signal", "unlock"}

(* buf_lock is held exactly by the thread inside a critical section, so    *)
(* two threads are never in one together: every path of every version      *)
(* pairs its locks and unlocks.                                            *)
MutualExclusion == \A t \in Threads : InCS(t) <=> owner = t

(* spool_insert_unchecked is reached only with room in the buffer, and     *)
(* spool_remove_unchecked only with a string in it or after shutdown, on   *)
(* every path: after polling, waiting, and waking for no reason.           *)
NoOverwrite ==
  \A t \in Threads : pc[t] = "access" =>
     IF t \in Producers THEN ~spool_full ELSE ~spool_empty \/ shutdown

(* Who has a string that is in no slot: a producer from malloc to Store,   *)
(* a consumer from Take to free.                                           *)
Holds(t) ==
  IF t \in Producers
  THEN pc[t] \in PCs \ {"none", "loop", "signal", "unlock", "done"}
  ELSE pc[t] \in {"signal", "unlock", "loop"} /\ str[t] # NULL

Holders == {t \in Threads : Holds(t)}

Made == {s \in Producers \X (0 .. NStrs - 1) : s[2] < n[s[1]]}

(* Every string a producer made is, until it is printed and freed, in      *)
(* exactly one place: one slot of the buffer or the hands of one thread.   *)
(* No string is lost, printed twice, freed twice or used after its free.   *)
ExactlyOnce ==
  /\ printed \cup heap = Made
  /\ printed \cap heap = {}
  /\ heap = {elements[i] : i \in LiveSlots} \cup {str[t] : t \in Holders}
  /\ \A i \in LiveSlots, t \in Holders : elements[i] # str[t]
  /\ \A t, u \in Holders : str[t] = str[u] => t = u

(* consumer.h: "NULL indicates that all production has stopped, buffer has *)
(* drained and consumer should terminate".                                 *)
NullMeansDrained ==
  \A c \in Consumers : str[c] = NULL =>
     /\ shutdown
     /\ \A p \in Producers : pc[p] = "done"
     /\ spool_empty

(* When main returns, each producer's strings have all been printed and    *)
(* freed.  main_killed.c is exempt: it does not wait for its consumers.    *)
AllPrintedAtExit ==
  main = "exited" /\ build # "spooler2_killed" =>
     /\ printed = Producers \X (0 .. NStrs - 1)
     /\ heap = {}

Asleep(t) == \E cv \in Conds : t \in waiters[cv]

(* The threads of a kind on their way to the test of their condition, and  *)
(* those that have changed the buffer and not yet signalled.               *)
Coming(kind) == {t \in kind : ~Asleep(t) /\ pc[t] \notin {"none", "signal", "unlock", "loop", "done"}}
Signalling(kind) == {t \in kind : pc[t] = "signal"}

(* No wake-up is lost.  With two condition variables, while consumers      *)
(* sleep there are never more strings than consumers coming for them and   *)
(* signals still to be sent, and the same of producers and free slots.     *)
(* With one, a signal may wake the wrong kind; but while somebody sleeps   *)
(* whose condition holds, some thread is on its way to pass it on.         *)
NoLostWakeup ==
  /\ build = "spooler4" /\ waiters["con_cv"] # {} =>
       Count <= Cardinality(Coming(Consumers)) + Cardinality(Signalling(Producers))
  /\ build = "spooler4" /\ waiters["pro_cv"] # {} =>
       capacity <= Cardinality(Coming(Producers)) + Cardinality(Signalling(Consumers))
  /\ build = "spooler3" =>
       \A t \in Threads :
          Asleep(t) /\ (IF t \in Producers THEN ~spool_full ELSE ~spool_empty) =>
             Coming(Threads) \cup Signalling(Threads) # {}
-----------------------------------------------------------------------------
(* The spooler is the queue its interface promises: strings are removed in *)
(* the order they were inserted and spool_remove returns NULL only when    *)
(* the queue is closed and empty.                                          *)
Queue == INSTANCE SharedQueue
  WITH queue <- Contents, closed <- shutdown,
       taken <- [c \in Consumers |-> str[c]]

RefinesQueue == Queue!Spec

(* No producer waits for ever for room, and every string is printed.       *)
(* spooler2_killed ends when its producers do, with strings unprinted.     *)
AllPrinted ==
  main = "join" ~>
     /\ main # "join"
     /\ printed = Producers \X (0 .. NStrs - 1) \/ build = "spooler2_killed"

(* main.c:98: with one condition variable and two consumers or more, every *)
(* consumer terminates after the shutdown and main returns.                *)
Terminates ==
  main = "shutdown" /\ build = "spooler3" ~> main = "exited"

(* consumer.h, spooler_one_cv.c:34: the shutdown reaches every consumer.   *)
ShutdownReachesAll ==
  \A c \in Consumers : main = "reap" /\ shutdown ~> pc[c] = "done"
=============================================================================
