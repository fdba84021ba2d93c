---------------------------- MODULE CountThreads ----------------------------
(***************************************************************************)
(* Shell/threads.c: threads that count up to a limit together, a shared    *)
(* count and one of their own.  main holds the lock while it creates them. *)
(* The test of the limit is outside the lock.                              *)
(***************************************************************************)
EXTENDS Integers, FiniteSets

CONSTANTS NThreads,
          Limits,       \* values of the second argument
          MainThread,   \* the thread of main
          Nobody,       \* the owner of a free mutex
          Garbage       \* what an uninitialised variable holds

Tids == 0 .. NThreads - 1

ASSUME CountThreadsAssumption ==
  /\ NThreads \in Nat \ {0}
  /\ Limits \subseteq Int
  /\ Nobody \notin Tids /\ MainThread \notin Tids /\ MainThread # Nobody
  /\ Garbage \notin Nat

VARIABLES
  global_limit,  \* the second argument
  global_count,
  count,         \* count[i]: threads[i].count
  count_lock,    \* the thread that holds the mutex
  main, i,       \* where main is, and its loop variable
  pc,            \* pc[t]: where thread t is
  loaded         \* loaded[t]: the global_count that t is about to increase

vars == <<global_limit, global_count, count, count_lock, main, i, pc, loaded>>

(* main has taken the lock.                                                *)
Init ==
  /\ global_limit \in Limits
  /\ global_count = 0
  /\ count = [t \in Tids |-> Garbage]
  /\ count_lock = MainThread
  /\ main = "create" /\ i = 0
  /\ pc = [t \in Tids |-> "none"]
  /\ loaded = [t \in Tids |-> 0]

Running == main \notin {"done", "failed"}

go(t, from, to) == pc[t] = from /\ pc' = [pc EXCEPT ![t] = to]

(* Slip: the count of the new thread is not set to zero.                   *)
create_uncleared ==
  /\ main = "create" /\ i < NThreads
  /\ \/ go(i, "none", "test") /\ i' = i + 1 /\ UNCHANGED <<main, count>>
     \/ main' = "failed" /\ UNCHANGED <<pc, i, count>>
  /\ UNCHANGED <<global_limit, global_count, count_lock, loaded>>

(* pthread_create may fail: exit with the threads so far.                  *)
create ==
  /\ main = "create" /\ i < NThreads
  /\ count' = [count EXCEPT ![i] = 0]
  /\ \/ go(i, "none", "test") /\ i' = i + 1 /\ UNCHANGED main
     \/ main' = "failed" /\ UNCHANGED <<pc, i>>
  /\ UNCHANGED <<global_limit, global_count, count_lock, loaded>>

fire ==
  /\ main = "create" /\ i = NThreads
  /\ count_lock' = Nobody
  /\ main' = "join" /\ i' = 0
  /\ UNCHANGED <<global_limit, global_count, count, pc, loaded>>

join ==
  /\ main = "join"
  /\ IF i < NThreads
     THEN pc[i] = "done" /\ i' = i + 1 /\ UNCHANGED main
     ELSE main' = "done" /\ UNCHANGED i
  /\ UNCHANGED <<global_limit, global_count, count, count_lock, pc, loaded>>

(* Slip: the loop goes on at the limit.                                    *)
test_past_limit(t) ==
  /\ go(t, "test", IF global_count <= global_limit THEN "lock" ELSE "done")
  /\ UNCHANGED <<global_limit, global_count, count, count_lock, main, i, loaded>>

test(t) ==
  /\ go(t, "test", IF global_count < global_limit THEN "lock" ELSE "done")
  /\ UNCHANGED <<global_limit, global_count, count, count_lock, main, i, loaded>>

(* Slip: the lock is not waited for.                                       *)
lock_barging(t) ==
  /\ go(t, "lock", "global")
  /\ count_lock' = t
  /\ UNCHANGED <<global_limit, global_count, count, main, i, loaded>>

lock(t) ==
  /\ go(t, "lock", "global")
  /\ count_lock = Nobody
  /\ count_lock' = t
  /\ UNCHANGED <<global_limit, global_count, count, main, i, loaded>>

(* global_count++ reads and writes the variable in two steps.              *)
load_global(t) ==
  /\ go(t, "global", "store")
  /\ loaded' = [loaded EXCEPT ![t] = global_count]
  /\ UNCHANGED <<global_limit, global_count, count, count_lock, main, i>>

store_global(t) ==
  /\ go(t, "store", "own")
  /\ global_count' = loaded[t] + 1
  /\ UNCHANGED <<global_limit, count, count_lock, main, i, loaded>>

(* Slip: the lock is kept from one count to the next.                      *)
increment_own_locked(t) ==
  /\ go(t, "own", "test")
  /\ count' = [count EXCEPT ![t] = @ + 1]
  /\ UNCHANGED <<global_limit, global_count, count_lock, main, i, loaded>>

increment_own(t) ==
  /\ go(t, "own", "unlock")
  /\ count' = [count EXCEPT ![t] = @ + 1]
  /\ UNCHANGED <<global_limit, global_count, count_lock, main, i, loaded>>

unlock(t) ==
  /\ go(t, "unlock", "test")
  /\ count_lock' = Nobody
  /\ UNCHANGED <<global_limit, global_count, count, main, i, loaded>>

Main == Running /\ (create \/ fire \/ join)

(* exit ends the threads too.                                              *)
threadfun(t) ==
  /\ Running
  /\ \/ test(t) \/ lock(t) \/ load_global(t) \/ store_global(t)
     \/ increment_own(t) \/ unlock(t)

Next == Main \/ \E t \in Tids : threadfun(t)

Spec == Init /\ [][Next]_vars

(* main and the threads run on, and the limit bounds how often one can be  *)
(* overtaken on its way to the lock.                                       *)
FairSpec == Spec /\ WF_vars(Main) /\ \A t \in Tids : WF_vars(threadfun(t))
-----------------------------------------------------------------------------
PCs == {"none", "test", "lock", "global", "store", "own", "unlock", "done"}

(* Every variable has its type; a thread that runs has a count.            *)
TypeOK ==
  /\ global_limit \in Limits
  /\ global_count \in Nat
  /\ count \in [Tids -> Nat \cup {Garbage}]
  /\ \A t \in Tids : pc[t] # "none" => count[t] \in Nat
  /\ count_lock \in Tids \cup {MainThread, Nobody}
  /\ main \in {"create", "join", "done", "failed"}
  /\ i \in 0 .. NThreads
  /\ pc \in [Tids -> PCs]
  /\ loaded \in [Tids -> Nat]

Holding == {t \in Tids : pc[t] \in {"global", "store", "own", "unlock"}}

(* The lock protects the two increments: whoever is between lock and       *)
(* unlock holds it, and main holds it until all threads are created.       *)
LockHeld ==
  /\ \A t \in Holding : count_lock = t
  /\ main = "create" => count_lock = MainThread

(* Threads that have passed the test and will count whatever happens.      *)
Committed == {t \in Tids : pc[t] \in {"lock", "global", "store"}}

(* The test outside the lock lets the count pass the limit, but by less    *)
(* than the number of threads, and not at all if there is nothing to       *)
(* count; when main has joined all threads, the limit has been reached.    *)
OvershootBounded ==
  /\ IF global_limit > 0 THEN global_count <= global_limit + NThreads - 1
                         ELSE global_count = 0
  /\ main = "done" => global_count >= global_limit

(* The sum of the first k counts.                                          *)
sum[k \in 0 .. NThreads] == IF k = 0 THEN 0 ELSE sum[k - 1] + count[k - 1]

(* Each thread's own count is what it has added, whenever the lock is free.*)
CountsAddUp == main # "create" /\ count_lock = Nobody => global_count = sum[NThreads]

(* Every run comes to an end.                                              *)
Terminates == <>(~Running)
=============================================================================
