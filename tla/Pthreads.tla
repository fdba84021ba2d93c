------------------------------ MODULE Pthreads ------------------------------
(***************************************************************************)
(* The POSIX mutex and condition variables the programs of this repository *)
(* synchronise with, as far as their calls can observe them.  The library  *)
(* is not part of the repository: a monitor is modelled from its uses,     *)
(* one mutex and the condition variables that are waited on under it.      *)
(***************************************************************************)
CONSTANT Nobody        \* the value of owner while the mutex is free

VARIABLES owner,       \* the thread that holds the mutex, or Nobody
          waiters      \* waiters[cv]: threads blocked in pthread_cond_wait on cv

sync == <<owner, waiters>>

(* pthread_mutex_init and pthread_cond_init of every condition variable.   *)
SyncInit(Conds) ==
  /\ owner = Nobody
  /\ waiters = [cv \in Conds |-> {}]

(* pthread_mutex_lock: the step at which the call returns.                 *)
MutexLock(t) ==
  /\ owner = Nobody
  /\ owner' = t
  /\ UNCHANGED waiters

MutexUnlock ==
  /\ owner' = Nobody
  /\ UNCHANGED waiters

(* pthread_cond_wait releases the mutex and blocks in one step ...         *)
CondWait(t, cv) ==
  /\ owner' = Nobody
  /\ waiters' = [waiters EXCEPT ![cv] = @ \cup {t}]

(* ... and returns once t is unblocked and holds the mutex again.          *)
CondReturn(t, cv) ==
  /\ t \notin waiters[cv]
  /\ MutexLock(t)

(* pthread_cond_signal unblocks one waiter, of the library's choice; with  *)
(* no waiter it has no effect.                                             *)
CondSignal(cv) ==
  /\ \/ waiters[cv] = {} /\ UNCHANGED waiters
     \/ \E t \in waiters[cv] : waiters' = [waiters EXCEPT ![cv] = @ \ {t}]
  /\ UNCHANGED owner

CondBroadcast(cv) ==
  /\ waiters' = [waiters EXCEPT ![cv] = {}]
  /\ UNCHANGED owner

(* POSIX lets a wait return although nobody signalled.                     *)
SpuriousWakeup(t, cv) ==
  /\ t \in waiters[cv]
  /\ waiters' = [waiters EXCEPT ![cv] = @ \ {t}]
  /\ UNCHANGED owner
=============================================================================
