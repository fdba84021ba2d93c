--------------------------- MODULE HttpServerProofs --------------------------
(***************************************************************************)
(* The four HTTP servers, for any number of threads or children, clients   *)
(* and descriptors: every descriptor has one keeper, every connection is   *)
(* answered at most once, no worker of the pool sleeps through one, and    *)
(* the list of wq.c is well formed and first come, first served.           *)
(*                                                                         *)
(* Three invariants carry this: WakeInv (the mutex and the condition       *)
(* variable), ServeInv (descriptors and answers in the servers without a   *)
(* queue) and PoolInv (the list, and descriptors and answers in the server *)
(* with one).                                                              *)
(***************************************************************************)
EXTENDS HttpServer, FiniteSetTheorems, WellFoundedInduction, TLAPS

(* Who is between lock and unlock of wq.c has the mutex.                   *)
Critical(r) == pc[r] \in {"append", "broadcast", "pushed", "test", "wait", "take", "popped"}

LockHeld == \A r \in Runners : Critical(r) => owner = r

(* What a worker saw before it sleeps is still true when it does.          *)
Idle == \A w \in Workers : pc[w] = "wait" => size = 0

WakeInv ==
  /\ DOMAIN pc = Runners /\ DOMAIN waiters = {CondVar} /\ size \in Int
  /\ LockHeld /\ Idle /\ NoLostWakeup
-----------------------------------------------------------------------------
LEMMA WakeStart == Init => WakeInv
BY RunnerAssumption DEF Init, WakeInv, LockHeld, Critical, Idle, NoLostWakeup, Runners,
   wq_init, SyncInit, CondVar

(* No step but those of wq.c touches the queue, the mutex or the critical  *)
(* sections.                                                               *)
Outside ==
  /\ UNCHANGED <<wq, sync>>
  /\ up' => up
  /\ DOMAIN pc' = DOMAIN pc
  /\ \A r \in Runners : pc'[r] = pc[r] \/ (~Critical(r) /\ ~Critical(r)')

LEMMA OutsideKeeps == WakeInv /\ Outside => WakeInv'
BY RunnerAssumption DEF WakeInv, Outside, LockHeld, Idle, NoLostWakeup, Critical, Runners, wq, sync

LEMMA HandlerOutside ==
  ASSUME WakeInv, NEW r \in Runners, handle_files_request(r)
  PROVE  Outside
BY DEF WakeInv, handle_files_request, http_request_parse, Answer, Crash, Exit, Goto,
   Running, Outside, Critical

LEMMA CloseOutside ==
  ASSUME WakeInv, NEW r \in Runners, close(r, "close", "accept") \/ close(r, "close", "none")
           \/ close(r, "close", "waitpid") \/ close(r, "close", "pop")
  PROVE  Outside
BY DEF WakeInv, close, Goto, Outside, Critical

LEMMA ClientOutside ==
  ASSUME WakeInv, NEW c \in Clients, Connect(c) \/ Say(c)
  PROVE  Outside
BY DEF WakeInv, Connect, Say, Outside, process

LEMMA ProcessOutside ==
  ASSUME WakeInv, dispatch_process
  PROVE  Outside
<1> Main \in Runners /\ Workers \subseteq Runners
  BY DEF Runners
<1>1. ASSUME NEW w \in Workers, fork(w) PROVE Outside
  BY <1>1 DEF WakeInv, fork, Outside, Critical
<1>2. CASE fork_fails
  BY <1>2 DEF WakeInv, fork_fails, Goto, Outside, Critical
<1>3. CASE close(Main, "close", "waitpid")
  BY <1>3, CloseOutside
<1>4. ASSUME NEW S, waitpid(S, "waitpid", "waitany") \/ waitpid(S, "waitany", "accept")
      PROVE  Outside
  BY <1>4 DEF WakeInv, waitpid, Zombies, Outside, Critical
<1> QED
  BY <1>1, <1>2, <1>3, <1>4 DEF dispatch_process

LEMMA MainOutside ==
  ASSUME WakeInv, serve_forever, ~dispatch_pool
  PROVE  Outside
<1> Main \in Runners /\ Workers \subseteq Runners /\ Pool \subseteq Workers
  BY RunnerAssumption DEF Runners
<1>1. CASE new_dispatcher
  BY <1>1 DEF WakeInv, new_dispatcher, Untried, Outside, Critical
<1>2. ASSUME NEW c \in Clients, Accept(c) \/ AcceptFails(c) PROVE Outside
  BY <1>2 DEF WakeInv, Accept, AcceptFails, Goto, process, Outside, Critical
<1>3. CASE dispatch_basic
  BY <1>3, HandlerOutside, CloseOutside DEF dispatch_basic
<1>4. ASSUME NEW w \in Workers, dispatch_thread(w) PROVE Outside
  BY <1>4 DEF WakeInv, dispatch_thread, Outside, Critical
<1>5. CASE dispatch_thread_fails
  BY <1>5 DEF WakeInv, dispatch_thread_fails, Exit, Goto, Outside, Critical
<1> QED
  BY <1>1, <1>2, <1>3, <1>4, <1>5, ProcessOutside DEF serve_forever

LEMMA WorkerOutside ==
  ASSUME WakeInv, NEW w \in Workers, handle_client(w) \/ child(w)
  PROVE  Outside
<1> w \in Runners
  BY DEF Runners
<1>1. CASE handle_client(w)
  BY <1>1, HandlerOutside, CloseOutside DEF handle_client, WakeInv, Goto, Outside, Critical
<1>2. CASE child(w)
  BY <1>2, HandlerOutside DEF child, child_exits, WakeInv, Goto, Outside, Critical
<1> QED
  BY <1>1, <1>2
-----------------------------------------------------------------------------
LEMMA PushKeeps ==
  ASSUME WakeInv, wq_push(Main)
  PROVE  WakeInv'
<1> Main \in Runners /\ Main \notin Workers /\ Workers \subseteq Runners /\ Nobody \notin Runners
  BY RunnerAssumption DEF Runners
<1>1. CASE Lock(Main, "dispatch", "append")
  BY <1>1 DEF WakeInv, Lock, MutexLock, Goto, LockHeld, Idle, NoLostWakeup, Critical, wq
<1>2. CASE Append(Main, "append", "broadcast")
  BY <1>2 DEF WakeInv, Append, append, Goto, LockHeld, Idle, NoLostWakeup, Critical, sync
<1>3. CASE Broadcast(Main, "broadcast", "pushed")
  BY <1>3 DEF WakeInv, Broadcast, CondBroadcast, Goto, LockHeld, Idle, NoLostWakeup, Critical, wq
<1>4. CASE Unlock(Main, "pushed", "accept")
  BY <1>4 DEF WakeInv, Unlock, MutexUnlock, Goto, LockHeld, Idle, NoLostWakeup, Critical, wq
<1> QED
  BY <1>1, <1>2, <1>3, <1>4 DEF wq_push

LEMMA PopKeeps ==
  ASSUME WakeInv, NEW w \in Workers, wq_pop(w)
  PROVE  WakeInv'
<1> Main \in Runners /\ Main \notin Workers /\ Workers \subseteq Runners /\ Nobody \notin Runners
  BY RunnerAssumption DEF Runners
<1>1. CASE Lock(w, "pop", "test")
  BY <1>1 DEF WakeInv, Lock, MutexLock, Goto, LockHeld, Idle, NoLostWakeup, Critical, wq
<1>2. CASE Test(w)
  BY <1>2 DEF WakeInv, Test, Goto, LockHeld, Idle, NoLostWakeup, Critical, wq, sync
<1>3. CASE Sleep(w)
  BY <1>3 DEF WakeInv, Sleep, CondWait, Goto, LockHeld, Idle, NoLostWakeup, Critical, wq
<1>4. CASE WakeUp(w)
  BY <1>4 DEF WakeInv, WakeUp, CondReturn, MutexLock, Goto, LockHeld, Idle,
    NoLostWakeup, Critical, wq
<1>5. CASE Take(w)
  BY <1>5 DEF WakeInv, Take, delete_head, Goto, LockHeld, Idle, NoLostWakeup, Critical, sync
<1>6. CASE Unlock(w, "popped", "free")
  BY <1>6 DEF WakeInv, Unlock, MutexUnlock, Goto, LockHeld, Idle, NoLostWakeup, Critical, wq
<1>7. CASE Free(w)
  BY <1>7 DEF WakeInv, Free, free, Goto, LockHeld, Idle, NoLostWakeup, Critical, sync
<1> QED
  BY <1>1, <1>2, <1>3, <1>4, <1>5, <1>6, <1>7 DEF wq_pop

LEMMA WakeStep == WakeInv /\ [Next]_vars => WakeInv'
<1> SUFFICES ASSUME WakeInv, [Next]_vars PROVE WakeInv'
  OBVIOUS
<1> Main \in Runners /\ Workers \subseteq Runners
  BY DEF Runners
<1>1. CASE UNCHANGED vars
  BY <1>1, OutsideKeeps DEF vars, process, Outside
<1>2. ASSUME NEW c \in Clients, Connect(c) \/ Say(c) PROVE WakeInv'
  BY <1>2, ClientOutside, OutsideKeeps
<1>3. CASE serve_forever
  BY <1>3, MainOutside, OutsideKeeps, PushKeeps DEF dispatch_pool
<1>4. ASSUME NEW w \in Workers, worker(w) PROVE WakeInv'
  BY <1>4, WorkerOutside, OutsideKeeps, PopKeeps,
    HandlerOutside, CloseOutside DEF worker, handle_clients
<1>5. ASSUME NEW w \in Workers, Spurious(w) PROVE WakeInv'
  BY <1>5 DEF Spurious, SpuriousWakeup, WakeInv, process, LockHeld, Idle, NoLostWakeup, Critical, wq
<1>6. CASE signal_callback_handler
  BY <1>6, OutsideKeeps DEF signal_callback_handler, Exit, Outside
<1> QED
  BY <1>1, <1>2, <1>3, <1>4, <1>5, <1>6 DEF Next

(* However many workers wait, one is told of each connection, since the    *)
(* broadcast and the test are under one lock (wq.c:17, wq.c:38).           *)
THEOREM NobodyForgotten == Spec => []NoLostWakeup
<1>1. WakeInv => NoLostWakeup
  BY DEF WakeInv
<1> QED
  BY <1>1, WakeStart, WakeStep, PTL DEF Spec
-----------------------------------------------------------------------------
(* The servers without a queue.  Who answers for a connection.             *)
Holder(r) == Running(r) /\ Holding(r)

NoPool == build \in EXECUTABLES \ {"httpserver_pool"}

Types ==
  /\ DOMAIN pc = Runners /\ DOMAIN fd = Runners
  /\ table \in [Runners -> [FDs -> Clients \cup {NULL}]]
  /\ DOMAIN conn = Clients /\ DOMAIN said = Clients
  /\ answers \in [Clients -> Nat]
  /\ size = 0
  /\ build = "httpserver_process" =>
       \A w \in Workers : pc[w] \in {"none", "read", "answer", "close", "zombie"}

(* A connection that is held is open where it is held ...                  *)
Held ==
  \A r \in Runners : Holder(r) =>
    /\ fd[r] \in FDs /\ Served(r) \in Clients
    /\ conn[Served(r)] = "accepted"
    /\ build = "httpserver_thread" => Served(r) \notin failed

(* ... by one runner only, but for the time until the parent has closed    *)
(* its copy.                                                               *)
Parting(r) == build = "httpserver_process" /\ r = Main /\ pc[Main] = "close"

Alone ==
  \A r, s \in Runners :
    Holder(r) /\ Holder(s) /\ Served(r) = Served(s) => r = s \/ Parting(r) \/ Parting(s)

(* What is open in the server is held there, or lost.                      *)
Kept ==
  up => \A f \in FDs : table[Main][f] # NULL =>
          /\ conn[table[Main][f]] = "accepted"
          /\ \/ \E r \in Runners : Proc(r) = Main /\ Holding(r) /\ fd[r] = f
             \/ build = "httpserver_thread" /\ table[Main][f] \in failed

Distinct ==
  up => \A f, g \in FDs : table[Main][f] # NULL /\ table[Main][f] = table[Main][g] => f = g

ChildHasOne ==
  build = "httpserver_process" =>
    \A w \in Workers, f \in FDs :
      table[w][f] # NULL <=> pc[w] \in {"read", "answer", "close"} /\ f = fd[w]

(* The answer to a connection that is held comes before the close.         *)
Answering ==
  \A r \in Runners : Holder(r) /\ ~Parting(r) =>
    answers[Served(r)] = IF pc[r] = "close" THEN 1 ELSE 0

AtMostOnce ==
  \A c \in Clients :
    answers[c] <= 1 /\ (conn[c] # "accepted" => answers[c] = 0 /\ c \notin failed)

(* Whoever was accepted is still to be answered, or was, or something      *)
(* failed.                                                                 *)
Due(c) ==
  IF build = "httpserver_process"
  THEN \E r \in Runners : Holder(r) /\ Served(r) = c /\ ~Parting(r)
  ELSE \E f \in FDs : table[Main][f] = c

NobodyLost ==
  up => \A c \in Clients : conn[c] = "accepted" =>
          \/ Due(c)
          \/ answers[c] = 1
          \/ build = "httpserver_process" /\ (c \in failed \/ said[c] \in {"unreadable", "hangup"})

ServeInv ==
  Types /\ Held /\ Alone /\ Kept /\ Distinct /\ ChildHasOne /\ Answering /\ AtMostOnce /\ NobodyLost
-----------------------------------------------------------------------------
LEMMA ServeStart == Init => ServeInv
<1> SUFFICES ASSUME Init PROVE ServeInv
  OBVIOUS
<1> Main \in Runners /\ Main \notin Workers /\ Workers \subseteq Runners
  BY RunnerAssumption DEF Runners
<1>1. \A r \in Runners : ~Holding(r)
  BY DEF Init, Holding
<1>2. Types
  BY DEF Init, Types, NoFiles, wq_init
<1>3. Held /\ Alone /\ Answering
  BY <1>1 DEF Held, Alone, Answering, Holder
<1>4. Kept /\ Distinct /\ ChildHasOne
  BY DEF Init, Kept, Distinct, ChildHasOne, NoFiles
<1>5. AtMostOnce /\ NobodyLost
  BY DEF Init, AtMostOnce, NobodyLost
<1> QED
  BY <1>2, <1>3, <1>4, <1>5 DEF ServeInv

LEMMA AcceptServes ==
  ASSUME ServeInv, NoPool, NEW c \in Clients, Accept(c)
  PROVE  ServeInv'
<1> Main \in Runners /\ Main \notin Workers /\ Workers \subseteq Runners
  BY RunnerAssumption DEF Runners
<1> USE DEF ServeInv
<1>1. PICK f \in FDs :
        /\ table[Main][f] = NULL
        /\ fd' = [fd EXCEPT ![Main] = f]
        /\ table' = [table EXCEPT ![Main] = [@ EXCEPT ![f] = c]]
  BY DEF Accept, FreeFDs
<1>2. /\ up /\ pc[Main] = "accept" /\ conn[c] = "backlog" /\ c # NULL
      /\ pc' = [pc EXCEPT ![Main] = IF build = "httpserver_basic" THEN "read" ELSE "dispatch"]
      /\ conn' = [conn EXCEPT ![c] = "accepted"]
      /\ UNCHANGED <<build, up, said, answers, failed, size>>
  BY FDAssumption DEF Accept, Goto, Running, Proc, outcome, wq
<1>3. Types'
  BY <1>1, <1>2 DEF Types
<1>4. /\ ~Holder(Main) /\ Holder(Main)' /\ Served(Main)' = c /\ fd'[Main] = f /\ ~Parting(Main)'
      /\ pc'[Main] # "close"
  BY <1>1, <1>2 DEF Types, Holder, Holding, Running, Served, Proc, Parting
<1>5. \A r \in Runners : r # Main =>
        /\ Holder(r)' <=> Holder(r)
        /\ pc'[r] = pc[r] /\ fd'[r] = fd[r] /\ ~Parting(r) /\ ~Parting(r)'
        /\ Holder(r) => Served(r)' = Served(r) /\ Served(r) # c
  <2> TAKE r \in Runners
  <2> HAVE r # Main
  <2>1. /\ Holder(r)' <=> Holder(r)
        /\ pc'[r] = pc[r] /\ fd'[r] = fd[r] /\ ~Parting(r) /\ ~Parting(r)'
    BY <1>1, <1>2 DEF Types, Holder, Holding, Running, Proc, Parting
  <2>2. ASSUME Holder(r) PROVE Served(r) # c /\ Served(r) # NULL /\ fd[r] \in FDs
    BY <1>2, <2>2, FDAssumption DEF Held
  <2>3. ASSUME Holder(r) PROVE Served(r)' = Served(r)
    BY <1>1, <1>2, <2>1, <2>2, <2>3 DEF Types, Served, Proc
  <2> QED
    BY <2>1, <2>2, <2>3
<1>6. Held'
  BY <1>2, <1>4, <1>5, <1>1 DEF Held, AtMostOnce, Types
<1>7. Alone'
  BY <1>4, <1>5 DEF Alone
<1>8. Kept'
  BY <1>1, <1>2, <1>4, <1>5 DEF Kept, Types, Holding, Proc
<1>9. Distinct'
  BY <1>1, <1>2 DEF Distinct, Types, Kept
<1>10. ChildHasOne'
  BY <1>1, <1>2 DEF ChildHasOne, Types
<1>11. Answering' /\ AtMostOnce'
  BY <1>2, <1>4, <1>5 DEF Answering, AtMostOnce, Types
<1>12. NobodyLost'
  <2>1. ~Parting(Main)
    BY <1>2 DEF Parting
  <2>2. \A d \in Clients : d = c \/ Due(d) => Due(d)'
    <3>1. CASE build = "httpserver_process"
      BY <1>2, <1>4, <1>5, <2>1, <3>1 DEF Due
    <3>2. CASE build # "httpserver_process"
      BY <1>1, <1>2, <3>2, FDAssumption DEF Due, Types
    <3> QED
      BY <3>1, <3>2
  <2> QED
    BY <1>2, <2>2 DEF NobodyLost, Types
<1> QED
  BY <1>3, <1>6, <1>7, <1>8, <1>9, <1>10, <1>11, <1>12

(* Steps that open and close nothing and answer nobody.                    *)
Quiet ==
  /\ UNCHANGED <<build, up, table, fd, answers, failed, size>>
  /\ DOMAIN conn' = DOMAIN conn /\ DOMAIN said' = DOMAIN said /\ DOMAIN pc' = DOMAIN pc
  /\ \A c \in Clients : conn'[c] = conn[c] \/ (conn[c] # "accepted" /\ conn'[c] # "accepted")
  /\ \A c \in Clients : said'[c] = said[c] \/ said[c] = "nothing"
  /\ \A r \in Runners :
       pc'[r] = pc[r] \/ (pc[r] # "close" /\ pc'[r] # "close" /\ (Holding(r) <=> Holding(r)'))
  /\ build = "httpserver_process" =>
       \A w \in Workers : pc'[w] \in {"none", "read", "answer", "close", "zombie"}

LEMMA QuietServes ==
  ASSUME ServeInv, NoPool, Quiet
  PROVE  ServeInv'
<1> Main \in Runners /\ Main \notin Workers /\ Workers \subseteq Runners
  BY RunnerAssumption DEF Runners
<1> USE DEF ServeInv
<1>1. /\ UNCHANGED <<build, up, table, fd, answers, failed, size>>
      /\ DOMAIN conn' = DOMAIN conn
      /\ \A c \in Clients : conn'[c] = "accepted" <=> conn[c] = "accepted"
  BY DEF Quiet
<1>2. \A r \in Runners :
        /\ Holding(r)' <=> Holding(r)
        /\ Holder(r)' <=> Holder(r)
        /\ Served(r)' = Served(r)
        /\ pc'[r] = "close" <=> pc[r] = "close"
        /\ Parting(r)' <=> Parting(r)
        /\ Proc(r)' = Proc(r)
  BY DEF Quiet, Holder, Running, Proc, Served, Parting, Holding
<1>3. Types'
  BY <1>1 DEF Types, Quiet
<1>4. Held'
  BY <1>1, <1>2 DEF Held
<1>5. Alone'
  BY <1>2 DEF Alone
<1>6. Kept'
  BY <1>1, <1>2 DEF Kept, Types
<1>7. Distinct'
  BY <1>1 DEF Distinct
<1>8. ChildHasOne'
  <2>1. ASSUME NEW w \in Workers, build = "httpserver_process"
        PROVE  pc'[w] \in {"read", "answer", "close"} <=> pc[w] \in {"read", "answer", "close"}
    BY <1>2, <2>1 DEF Types, Quiet, Holding
  <2> QED
    BY <1>1, <2>1 DEF ChildHasOne
<1>9. Answering'
  BY <1>1, <1>2 DEF Answering
<1>10. AtMostOnce'
  BY <1>1 DEF AtMostOnce
<1>11. NobodyLost'
  <2>1. \A c \in Clients : Due(c)' <=> Due(c)
    BY <1>1, <1>2 DEF Due
  <2>2. \A c \in Clients : said[c] \in {"unreadable", "hangup"} => said'[c] = said[c]
    BY DEF Quiet
  <2> QED
    BY <1>1, <2>1, <2>2 DEF NobodyLost
<1> QED
  BY <1>3, <1>4, <1>5, <1>6, <1>7, <1>8, <1>9, <1>10, <1>11

LEMMA AnswerServes ==
  ASSUME ServeInv, NoPool, NEW r \in Runners, Answer(r), ~Parting(r)
  PROVE  ServeInv'
<1> Main \in Runners /\ Main \notin Workers /\ Workers \subseteq Runners
  BY RunnerAssumption DEF Runners
<1> USE DEF ServeInv
<1>1. /\ pc[r] = "answer" /\ pc' = [pc EXCEPT ![r] = "close"]
      /\ answers' = [c \in Clients |-> IF c = Served(r) THEN answers[c] + 1 ELSE answers[c]]
      /\ UNCHANGED <<build, up, table, fd, conn, said, failed, size>>
  BY DEF Answer, Goto, wq
<1>2. Holder(r) /\ Served(r) \in Clients /\ answers[Served(r)] = 0 /\ conn[Served(r)] = "accepted"
  BY <1>1 DEF Answer, Goto, Holder, Holding, Held, Answering
<1>3. /\ Holding(r)' /\ Holder(r)' /\ pc'[r] = "close"
      /\ \A s \in Runners : /\ Holding(s)' <=> Holding(s)
                            /\ Holder(s)' <=> Holder(s)
                            /\ Served(s)' = Served(s) /\ Proc(s)' = Proc(s)
                            /\ s # r => pc'[s] = pc[s] /\ (Parting(s)' <=> Parting(s))
  BY <1>1, <1>2 DEF Types, Holder, Holding, Running, Proc, Served, Parting
<1>4. Types'
  BY <1>1 DEF Types
<1>5. Held' /\ Distinct'
  BY <1>1, <1>3 DEF Held, Distinct
<1>6. Alone'
  BY <1>3 DEF Alone
<1>7. Kept'
  BY <1>1, <1>3 DEF Kept, Types
<1>8. ChildHasOne'
  BY <1>1 DEF ChildHasOne, Types
<1>9. answers'[Served(r)] = 1 /\ \A c \in Clients : c # Served(r) => answers'[c] = answers[c]
  BY <1>1, <1>2
<1>10. Answering'
  <2> SUFFICES ASSUME NEW s \in Runners, Holder(s)', ~Parting(s)'
               PROVE  answers'[Served(s)'] = IF pc'[s] = "close" THEN 1 ELSE 0
    BY DEF Answering
  <2>1. CASE s = r
    BY <1>3, <1>9, <2>1
  <2>2. CASE s # r
    <3>1. Served(s) # Served(r) /\ Served(s) \in Clients
      BY <1>2, <1>3, <2>2 DEF Alone, Held
    <3> QED
      BY <1>3, <1>9, <2>2, <3>1 DEF Answering
  <2> QED
    BY <2>1, <2>2
<1>11. AtMostOnce'
  BY <1>1, <1>2, <1>9 DEF AtMostOnce
<1>12. NobodyLost'
  <2>1. \A c \in Clients : Due(c) /\ c # Served(r) => Due(c)'
    BY <1>1, <1>3 DEF Due
  <2> QED
    BY <1>1, <1>9, <2>1 DEF NobodyLost
<1> QED
  BY <1>4, <1>5, <1>6, <1>7, <1>8, <1>10, <1>11, <1>12

(* The server process ends.                                                *)
LEMMA ExitServes ==
  ASSUME ServeInv, NoPool, Exit, UNCHANGED <<build, fd, conn, said, answers, size>>,
         \/ failed' = failed
         \/ /\ build = "httpserver_thread" /\ Holder(Main)
            /\ failed' \subseteq failed \cup {Served(Main)}
  PROVE  ServeInv'
<1> Main \in Runners /\ Main \notin Workers /\ Workers \subseteq Runners
  BY RunnerAssumption DEF Runners
<1> USE DEF ServeInv
<1>1. /\ ~up' /\ UNCHANGED <<build, pc, fd, conn, said, answers, size>>
      /\ table' = [table EXCEPT ![Main] = NoFiles]
  BY DEF Exit
<1>2. \A r \in Runners :
        /\ Holder(r)' => Holder(r) /\ r # Main /\ build = "httpserver_process"
        /\ Parting(r)' <=> Parting(r)
        /\ Holder(r)' => Served(r)' = Served(r)
  BY <1>1 DEF Types, Holder, Holding, Running, Proc, Served, Parting
<1>3. Types'
  BY <1>1 DEF Types, NoFiles
<1>4. Held'
  BY <1>1, <1>2 DEF Held
<1>5. Alone'
  BY <1>2 DEF Alone
<1>6. Kept' /\ Distinct' /\ NobodyLost'
  BY <1>1 DEF Kept, Distinct, NobodyLost
<1>7. ChildHasOne'
  BY <1>1 DEF ChildHasOne, Types
<1>8. Answering'
  BY <1>1, <1>2 DEF Answering
<1>9. AtMostOnce'
  BY <1>1 DEF AtMostOnce, Held
<1> QED
  BY <1>3, <1>4, <1>5, <1>6, <1>7, <1>8, <1>9

(* The close after the answer, in the servers without children.            *)
LEMMA CloseServes ==
  ASSUME ServeInv, NoPool, build # "httpserver_process", NEW r \in Runners, NEW to,
         to \in {"accept", "none"}, close(r, "close", to)
  PROVE  ServeInv'
<1> Main \in Runners /\ Main \notin Workers /\ Workers \subseteq Runners
  BY RunnerAssumption DEF Runners
<1> USE DEF ServeInv
<1>1. /\ up /\ pc[r] = "close" /\ pc' = [pc EXCEPT ![r] = to]
      /\ table' = [table EXCEPT ![Main] = [@ EXCEPT ![fd[r]] = NULL]]
      /\ UNCHANGED <<build, up, fd, conn, said, answers, failed, size>>
  BY DEF close, Goto, Running, Proc, outcome, wq
<1>2. /\ Holder(r) /\ ~Holder(r)' /\ ~Holding(r)' /\ fd[r] \in FDs
      /\ table[Main][fd[r]] = Served(r) /\ Served(r) \in Clients /\ answers[Served(r)] = 1
  BY <1>1 DEF Types, Holder, Running, Proc, Holding, Held, Answering, Served, Parting
<1>3. \A s \in Runners : ~Parting(s) /\ ~Parting(s)' /\ Proc(s) = Main /\ Proc(s)' = Main
  BY <1>1 DEF Parting, Proc
<1>4. ASSUME NEW s \in Runners, s # r
      PROVE  /\ Holding(s)' <=> Holding(s)
             /\ Holder(s)' <=> Holder(s)
             /\ pc'[s] = pc[s]
             /\ Holder(s) => fd[s] # fd[r] /\ Served(s)' = Served(s)
  <2>1. pc'[s] = pc[s]
    BY <1>1, <1>4 DEF Types
  <2>2. (Holding(s)' <=> Holding(s)) /\ (Holder(s)' <=> Holder(s))
    BY <1>1, <2>1 DEF Holding, Holder, Running, Proc
  <2>3. ASSUME Holder(s) PROVE fd[s] # fd[r] /\ fd[s] \in FDs
    BY <1>2, <1>3, <1>4, <2>3 DEF Alone, Held, Served
  <2>4. ASSUME Holder(s) PROVE Served(s)' = Served(s)
    BY <1>1, <1>3, <2>3, <2>4 DEF Types, Served
  <2> QED
    BY <2>1, <2>2, <2>3, <2>4
<1>5. Types'
  BY <1>1 DEF Types
<1>6. Held'
  BY <1>1, <1>2, <1>4 DEF Held
<1>7. Alone'
  BY <1>2, <1>4, <1>3 DEF Alone
<1>8. \A f \in FDs : table'[Main][f] # NULL => f # fd[r] /\ table'[Main][f] = table[Main][f]
  BY <1>1, <1>2 DEF Types
<1>9. Kept'
  <2>1. ASSUME NEW f \in FDs, NEW s \in Runners, Holding(s), fd[s] = f, f # fd[r]
        PROVE  Holding(s)' /\ Proc(s)' = Main /\ fd'[s] = f
    BY <1>1, <1>3, <1>4, <2>1
  <2> QED
    BY <1>1, <1>8, <2>1 DEF Kept
<1>10. Distinct'
  BY <1>1, <1>8 DEF Distinct
<1>11. ChildHasOne'
  BY <1>1 DEF ChildHasOne
<1>12. Answering'
  BY <1>1, <1>2, <1>3, <1>4 DEF Answering
<1>13. AtMostOnce'
  BY <1>1 DEF AtMostOnce
<1>14. NobodyLost'
  <2>1. \A c \in Clients : Due(c) /\ c # Served(r) => Due(c)'
    BY <1>1, <1>2, FDAssumption DEF Due, Types
  <2> QED
    BY <1>1, <1>2, <2>1 DEF NobodyLost
<1> QED
  BY <1>5, <1>6, <1>7, <1>9, <1>10, <1>11, <1>12, <1>13, <1>14

(* The close in the parent.                                                *)
LEMMA ParentCloseServes ==
  ASSUME ServeInv, NoPool, build = "httpserver_process", close(Main, "close", "waitpid")
  PROVE  ServeInv'
<1> Main \in Runners /\ Main \notin Workers /\ Workers \subseteq Runners
  BY RunnerAssumption DEF Runners
<1> USE DEF ServeInv
<1>1. /\ up /\ pc[Main] = "close" /\ pc' = [pc EXCEPT ![Main] = "waitpid"]
      /\ table' = [table EXCEPT ![Main] = [@ EXCEPT ![fd[Main]] = NULL]]
      /\ UNCHANGED <<build, up, fd, conn, said, answers, failed, size>>
  BY DEF close, Goto, Running, Proc, outcome, wq
<1>2. Parting(Main) /\ Holder(Main) /\ ~Holder(Main)' /\ ~Holding(Main)'
  BY <1>1 DEF Types, Holder, Running, Holding, Parting
<1>3. \A s \in Runners : s # Main =>
        /\ Holding(s)' <=> Holding(s)
        /\ Holder(s)' <=> Holder(s)
        /\ pc'[s] = pc[s] /\ Served(s)' = Served(s)
        /\ ~Parting(s) /\ ~Parting(s)' /\ Proc(s) = s /\ Proc(s)' = s
  BY <1>1 DEF Types, Holding, Holder, Running, Proc, Served, Parting
<1>4. Types'
  BY <1>1 DEF Types
<1>5. Held'
  BY <1>1, <1>2, <1>3 DEF Held
<1>6. Alone'
  BY <1>2, <1>3 DEF Alone
<1>7. \A f \in FDs : table[Main][f] # NULL => f = fd[Main]
  BY <1>1, <1>3 DEF Kept
<1>8. \A f \in FDs : table'[Main][f] = NULL
  BY <1>1, <1>7 DEF Types
<1>9. Kept' /\ Distinct'
  BY <1>8 DEF Kept, Distinct
<1>10. ChildHasOne'
  BY <1>1 DEF ChildHasOne, Types
<1>11. Answering'
  BY <1>1, <1>2, <1>3 DEF Answering
<1>12. AtMostOnce'
  BY <1>1 DEF AtMostOnce
<1>13. NobodyLost'
  <2>1. \A c \in Clients : Due(c) => Due(c)'
    BY <1>1, <1>2, <1>3 DEF Due
  <2> QED
    BY <1>1, <2>1 DEF NobodyLost
<1> QED
  BY <1>4, <1>5, <1>6, <1>9, <1>10, <1>11, <1>12, <1>13

(* A child leaves, or dies.                                                *)
LEMMA ChildEndServes ==
  ASSUME ServeInv, NoPool, build = "httpserver_process", NEW w \in Workers,
         pc[w] = "close" \/ (pc[w] = "answer" /\ said[Served(w)] \in {"unreadable", "hangup"}),
         pc' = [pc EXCEPT ![w] = "zombie"],
         table' = [table EXCEPT ![w] = NoFiles],
         UNCHANGED <<build, up, fd, conn, said, answers, failed, size>>
  PROVE  ServeInv'
<1> Main \in Runners /\ Main \notin Workers /\ Workers \subseteq Runners /\ w # Main
  BY RunnerAssumption DEF Runners
<1> USE DEF ServeInv
<1>1. /\ Holder(w) /\ ~Parting(w) /\ ~Holder(w)' /\ ~Holding(w)'
      /\ Served(w) \in Clients
      /\ answers[Served(w)] = 1 \/ said[Served(w)] \in {"unreadable", "hangup"}
  BY DEF Types, Holder, Running, Proc, Holding, Parting, Answering, Held
<1>2. \A s \in Runners : s # w =>
        /\ Holding(s)' <=> Holding(s)
        /\ Holder(s)' <=> Holder(s)
        /\ pc'[s] = pc[s] /\ Served(s)' = Served(s) /\ Proc(s)' = Proc(s)
        /\ Parting(s)' <=> Parting(s)
  BY DEF Types, Holding, Holder, Running, Proc, Served, Parting
<1>3. Types'
  BY DEF Types, NoFiles
<1>4. Held'
  BY <1>1, <1>2 DEF Held
<1>5. Alone'
  BY <1>1, <1>2 DEF Alone
<1>6. table'[Main] = table[Main]
  BY DEF Types
<1>7. Kept' /\ Distinct'
  BY <1>2, <1>6 DEF Kept, Distinct, Proc, Holding
<1>8. ChildHasOne'
  BY DEF ChildHasOne, Types, NoFiles
<1>9. Answering'
  BY <1>1, <1>2 DEF Answering
<1>10. AtMostOnce'
  BY DEF AtMostOnce
<1>11. NobodyLost'
  <2>1. \A c \in Clients : Due(c) /\ c # Served(w) => Due(c)'
    BY <1>2 DEF Due
  <2> QED
    BY <1>1, <2>1 DEF NobodyLost
<1> QED
  BY <1>3, <1>4, <1>5, <1>7, <1>8, <1>9, <1>10, <1>11

(* A thread takes the connection over from main.                           *)
LEMMA ThreadServes ==
  ASSUME ServeInv, NoPool, NEW w \in Workers, dispatch_thread(w)
  PROVE  ServeInv'
<1> Main \in Runners /\ Main \notin Workers /\ Workers \subseteq Runners
  BY RunnerAssumption DEF Runners
<1> USE DEF ServeInv
<1>1. /\ build = "httpserver_thread" /\ up /\ pc[w] = "none" /\ pc[Main] = "dispatch"
      /\ pc' = [pc EXCEPT ![Main] = "accept", ![w] = "start"]
      /\ fd' = [fd EXCEPT ![w] = fd[Main]]
      /\ UNCHANGED <<build, up, table, conn, said, answers, failed, size>>
  BY DEF dispatch_thread, Running, Proc, outcome, wq
<1>2. \A s \in Runners : /\ ~Parting(s) /\ ~Parting(s)' /\ Proc(s) = Main /\ Proc(s)' = Main
                         /\ Holder(s) <=> Holding(s)
                         /\ Holder(s)' <=> Holding(s)'
  BY <1>1 DEF Parting, Proc, Holder, Running
<1>3. /\ Holder(Main) /\ ~Holder(w) /\ ~Holder(Main)' /\ Holder(w)'
      /\ fd'[w] = fd[Main] /\ Served(w)' = Served(Main)
      /\ pc[Main] # "close" /\ pc'[w] # "close"
  BY <1>1, <1>2 DEF Types, Holding, Served
<1>4. \A s \in Runners : s # Main /\ s # w =>
        /\ Holder(s)' <=> Holder(s)
        /\ pc'[s] = pc[s] /\ fd'[s] = fd[s] /\ Served(s)' = Served(s)
  BY <1>1, <1>2 DEF Types, Holding, Served
<1>5. Types'
  BY <1>1 DEF Types
<1>6. Held'
  BY <1>1, <1>3, <1>4 DEF Held
<1>7. Alone'
  BY <1>2, <1>3, <1>4 DEF Alone
<1>8. Kept'
  BY <1>1, <1>2, <1>3, <1>4 DEF Kept
<1>9. Distinct' /\ AtMostOnce' /\ ChildHasOne'
  BY <1>1 DEF Distinct, AtMostOnce, ChildHasOne
<1>10. Answering'
  <2>1. answers[Served(Main)] = 0 /\ UNCHANGED answers
    BY <1>1, <1>2, <1>3 DEF Answering
  <2>2. answers'[Served(w)'] = 0
    BY <1>3, <2>1
  <2> QED
    BY <1>2, <1>3, <1>4, <2>1, <2>2 DEF Answering
<1>11. NobodyLost'
  BY <1>1 DEF NobodyLost, Due
<1> QED
  BY <1>5, <1>6, <1>7, <1>8, <1>9, <1>10, <1>11

(* No thread was created, and main goes on.                                *)
LEMMA NoThreadServes ==
  ASSUME ServeInv, NoPool, build = "httpserver_thread", Goto(Main, "dispatch", "accept"),
         failed' = failed \cup {Served(Main)},
         UNCHANGED <<build, up, table, fd, conn, said, answers, size>>
  PROVE  ServeInv'
<1> Main \in Runners /\ Main \notin Workers /\ Workers \subseteq Runners
  BY RunnerAssumption DEF Runners
<1> USE DEF ServeInv
<1>1. up /\ pc[Main] = "dispatch" /\ pc' = [pc EXCEPT ![Main] = "accept"]
  BY DEF Goto, Running, Proc
<1>2. \A s \in Runners : /\ ~Parting(s) /\ ~Parting(s)' /\ Proc(s) = Main /\ Proc(s)' = Main
                         /\ Holder(s) <=> Holding(s)
                         /\ Holder(s)' <=> Holding(s)'
                         /\ Served(s)' = Served(s)
  BY <1>1 DEF Parting, Proc, Holder, Running, Served
<1>3. Holder(Main) /\ ~Holder(Main)' /\ Served(Main) \in Clients /\ conn[Served(Main)] = "accepted"
      /\ table[Main][fd[Main]] = Served(Main)
  BY <1>1, <1>2 DEF Types, Holding, Held, Served
<1>4. \A s \in Runners : s # Main =>
        /\ Holder(s)' <=> Holder(s)
        /\ pc'[s] = pc[s]
        /\ Holder(s) => Served(s) # Served(Main)
  BY <1>1, <1>2, <1>3 DEF Types, Holding, Alone
<1>5. Types'
  BY <1>1 DEF Types
<1>6. Held'
  BY <1>1, <1>2, <1>3, <1>4 DEF Held
<1>7. Alone'
  BY <1>2, <1>3, <1>4 DEF Alone
<1>8. Kept'
  BY <1>1, <1>2, <1>3, <1>4 DEF Kept
<1>9. Distinct' /\ AtMostOnce' /\ ChildHasOne'
  BY <1>1, <1>3 DEF Distinct, AtMostOnce, ChildHasOne
<1>10. Answering'
  BY <1>1, <1>2, <1>3, <1>4 DEF Answering
<1>11. NobodyLost'
  BY <1>1 DEF NobodyLost, Due
<1> QED
  BY <1>5, <1>6, <1>7, <1>8, <1>9, <1>10, <1>11

(* A child gets a copy of all the parent has open, which is one connection.*)
LEMMA ForkServes ==
  ASSUME ServeInv, NoPool, build = "httpserver_process", NEW w \in Workers, fork(w)
  PROVE  ServeInv'
<1> Main \in Runners /\ Main \notin Workers /\ Workers \subseteq Runners /\ w # Main
  BY RunnerAssumption DEF Runners
<1> USE DEF ServeInv
<1>1. /\ up /\ pc[w] = "none" /\ pc[Main] = "dispatch"
      /\ pc' = [pc EXCEPT ![Main] = "close", ![w] = "read"]
      /\ table' = [table EXCEPT ![w] = table[Main]]
      /\ fd' = [fd EXCEPT ![w] = fd[Main]]
      /\ UNCHANGED <<build, up, conn, said, answers, failed, size>>
  BY DEF fork, Running, Proc, outcome, wq
<1>2. /\ Holder(Main) /\ ~Parting(Main) /\ ~Holder(w)
      /\ Holder(Main)' /\ Parting(Main)' /\ Holder(w)' /\ ~Parting(w)'
      /\ Served(Main)' = Served(Main) /\ Served(w)' = Served(Main)
      /\ pc'[w] # "close" /\ fd'[w] = fd[Main] /\ fd'[Main] = fd[Main]
      /\ Holding(Main)' /\ Proc(Main)' = Main
  BY <1>1 DEF Types, Holder, Running, Proc, Holding, Served, Parting
<1>3. \A s \in Runners : s # Main /\ s # w =>
        /\ Holder(s)' <=> Holder(s)
        /\ pc'[s] = pc[s] /\ fd'[s] = fd[s] /\ Served(s)' = Served(s)
        /\ ~Parting(s) /\ ~Parting(s)'
  BY <1>1 DEF Types, Holder, Running, Proc, Holding, Served, Parting
<1>4. Types'
  BY <1>1 DEF Types
<1>5. Held'
  BY <1>1, <1>2, <1>3 DEF Held
<1>6. Alone'
  <2> SUFFICES ASSUME NEW r \in Runners, NEW s \in Runners,
                      Holder(r)', Holder(s)', Served(r)' = Served(s)', ~Parting(r)', ~Parting(s)'
               PROVE  r = s
    BY DEF Alone
  <2>1. r # Main /\ s # Main
    BY <1>2
  <2>2. \A q \in Runners : q # Main /\ q # w /\ Holder(q) => Served(q) # Served(Main)
    BY <1>2, <1>3 DEF Alone
  <2> QED
    BY <1>2, <1>3, <2>1, <2>2 DEF Alone
<1>7. table'[Main] = table[Main]
  BY <1>1 DEF Types
<1>8. \A f \in FDs : table[Main][f] # NULL <=> f = fd[Main]
  <2>1. \A f \in FDs : table[Main][f] # NULL => f = fd[Main]
    BY <1>1 DEF Kept, Proc
  <2>2. fd[Main] \in FDs /\ table[Main][fd[Main]] # NULL
    BY <1>2, FDAssumption DEF Held, Served, Proc
  <2> QED
    BY <2>1, <2>2
<1>9. Kept' /\ Distinct'
  BY <1>1, <1>2, <1>7, <1>8 DEF Kept, Distinct
<1>10. ChildHasOne'
  BY <1>1, <1>8 DEF ChildHasOne, Types
<1>11. Answering'
  <2>1. answers[Served(Main)] = 0 /\ UNCHANGED answers
    BY <1>1, <1>2 DEF Answering
  <2>2. answers'[Served(w)'] = 0
    BY <1>2, <2>1
  <2> QED
    BY <1>2, <1>3, <2>1, <2>2 DEF Answering
<1>12. AtMostOnce'
  BY <1>1 DEF AtMostOnce
<1>13. NobodyLost'
  <2>1. \A c \in Clients : Due(c) => Due(c)'
    BY <1>1, <1>2, <1>3 DEF Due
  <2> QED
    BY <1>1, <2>1 DEF NobodyLost
<1> QED
  BY <1>4, <1>5, <1>6, <1>9, <1>10, <1>11, <1>12, <1>13

LEMMA NoForkServes ==
  ASSUME ServeInv, NoPool, build = "httpserver_process", fork_fails
  PROVE  ServeInv'
<1> Main \in Runners /\ Main \notin Workers /\ Workers \subseteq Runners
  BY RunnerAssumption DEF Runners
<1> USE DEF ServeInv
<1>1. /\ up /\ pc[Main] = "dispatch" /\ pc' = [pc EXCEPT ![Main] = "close"]
      /\ failed' = failed \cup {Served(Main)}
      /\ UNCHANGED <<build, up, table, fd, conn, said, answers, size>>
  BY DEF fork_fails, Goto, Running, Proc, wq
<1>2. /\ Holder(Main) /\ ~Parting(Main) /\ Holder(Main)' /\ Parting(Main)'
      /\ Served(Main) \in Clients /\ conn[Served(Main)] = "accepted"
  BY <1>1 DEF Types, Holder, Running, Proc, Holding, Parting, Held
<1>3. \A s \in Runners :
        /\ Holder(s)' <=> Holder(s)
        /\ Holding(s)' <=> Holding(s)
        /\ Served(s)' = Served(s) /\ Proc(s)' = Proc(s)
        /\ s # Main => pc'[s] = pc[s] /\ ~Parting(s) /\ ~Parting(s)'
  BY <1>1 DEF Types, Holder, Running, Proc, Holding, Served, Parting
<1>4. Types'
  BY <1>1 DEF Types
<1>5. Held' /\ Distinct'
  BY <1>1, <1>3 DEF Held, Distinct
<1>6. Alone'
  BY <1>2, <1>3 DEF Alone
<1>7. Kept'
  BY <1>1, <1>3 DEF Kept
<1>8. ChildHasOne'
  BY <1>1 DEF ChildHasOne, Types
<1>9. Answering'
  BY <1>1, <1>2, <1>3 DEF Answering
<1>10. AtMostOnce'
  BY <1>1, <1>2 DEF AtMostOnce
<1>11. NobodyLost'
  <2>1. \A c \in Clients : Due(c) /\ c # Served(Main) => Due(c)'
    BY <1>1, <1>3 DEF Due
  <2> QED
    BY <1>1, <2>1 DEF NobodyLost
<1> QED
  BY <1>4, <1>5, <1>6, <1>7, <1>8, <1>9, <1>10, <1>11

LEMMA HandlerServes ==
  ASSUME ServeInv, NoPool, NEW r \in Runners, handle_files_request(r),
         build = "httpserver_process" => r \in Workers
  PROVE  ServeInv'
<1> Main \in Runners /\ Main \notin Workers /\ Workers \subseteq Runners
  BY RunnerAssumption DEF Runners
<1> USE DEF ServeInv
<1>1. CASE http_request_parse(r)
  <2>1. Quiet
    BY <1>1 DEF http_request_parse, Goto, Types, Quiet, Holding, outcome, wq
  <2> QED
    BY <2>1, QuietServes
<1>2. CASE Answer(r)
  BY <1>2, AnswerServes DEF Parting
<1>3. CASE Crash(r)
  <2>1. CASE Proc(r) = Main
    BY <1>3, <2>1, ExitServes DEF Crash, outcome, wq
  <2>2. CASE Proc(r) # Main
    <3>1. build = "httpserver_process" /\ r \in Workers
      BY <2>2 DEF Proc
    <3> QED
      BY <1>3, <2>2, <3>1, ChildEndServes DEF Crash, outcome, wq
  <2> QED
    BY <2>1, <2>2
<1> QED
  BY <1>1, <1>2, <1>3 DEF handle_files_request

LEMMA ServeStep ==
  ASSUME ServeInv, NoPool, [Next]_vars
  PROVE  ServeInv'
<1> Main \in Runners /\ Main \notin Workers /\ Workers \subseteq Runners /\ Pool \subseteq Workers
  BY RunnerAssumption DEF Runners
<1>1. build \in {"httpserver_basic", "httpserver_thread", "httpserver_process"}
  BY DEF NoPool, EXECUTABLES
<1>2. Types
  BY DEF ServeInv
<1>3. CASE UNCHANGED vars
  <2>1. Quiet
    BY <1>2, <1>3 DEF Quiet, Types, vars, process, outcome, wq, Holding
  <2> QED
    BY <2>1, QuietServes
<1>4. ASSUME NEW c \in Clients, Connect(c) \/ Say(c) \/ AcceptFails(c) PROVE ServeInv'
  <2>1. Quiet
    BY <1>2, <1>4 DEF Connect, Say, AcceptFails, Quiet, Types, process, outcome, wq, Holding
  <2> QED
    BY <2>1, QuietServes
<1>5. ASSUME NEW w \in Workers, Spurious(w) PROVE ServeInv'
  <2>1. Quiet
    BY <1>2, <1>5 DEF Spurious, Quiet, Types, process, outcome, wq, Holding
  <2> QED
    BY <2>1, QuietServes
<1>6. CASE signal_callback_handler
  BY <1>6, ExitServes DEF signal_callback_handler, outcome, wq
<1>7. CASE new_dispatcher
  <2>1. pc' = [pc EXCEPT ![Main] = "accept"] /\ pc[Main] = "new"
    BY <1>1, <1>7 DEF new_dispatcher
  <2>2. Quiet
    BY <1>2, <1>7, <2>1 DEF new_dispatcher, Quiet, Types, outcome, wq, Holding
  <2> QED
    BY <2>2, QuietServes
<1>8. CASE dispatch_basic
  BY <1>8, HandlerServes, CloseServes DEF dispatch_basic
<1>9. CASE dispatch_thread_fails
  <2>1. up /\ pc[Main] = "dispatch" /\ Holder(Main)
    BY <1>9 DEF dispatch_thread_fails, Running, Proc, Holder, Holding
  <2>2. CASE Exit
    BY <1>9, <2>1, <2>2, ExitServes DEF dispatch_thread_fails, wq
  <2>3. CASE Goto(Main, "dispatch", "accept") /\ UNCHANGED <<up, table>>
    BY <1>9, <2>3, NoThreadServes DEF dispatch_thread_fails, wq
  <2> QED
    BY <1>9, <2>2, <2>3 DEF dispatch_thread_fails
<1>10. ASSUME NEW S, NEW from, NEW to, from \in {"waitpid", "waitany"}, to \in {"waitany", "accept"},
              waitpid(S, from, to)
       PROVE  ServeInv'
  <2>1. \A r \in Runners :
          pc'[r] = pc[r] \/ (~Holding(r) /\ ~Holding(r)' /\ pc'[r] # "close" /\ pc[r] # "close")
    BY <1>2, <1>10 DEF waitpid, Zombies, Types, Holding
  <2>2. \A w \in Workers : pc'[w] = pc[w] \/ pc'[w] = "none"
    BY <1>2, <1>10 DEF waitpid, Zombies, Types
  <2>3. DOMAIN pc' = DOMAIN pc
    BY <1>10 DEF waitpid
  <2>4. Quiet
    BY <1>2, <1>10, <2>1, <2>2, <2>3 DEF waitpid, Quiet, Types, outcome, wq
  <2> QED
    BY <2>4, QuietServes
<1>11. CASE dispatch_process
  <2>1. ASSUME NEW S, waitpid(S, "waitpid", "waitany") \/ waitpid(S, "waitany", "accept")
        PROVE  ServeInv'
    BY <1>10, <2>1
  <2> QED
    BY <1>11, <2>1, ForkServes, NoForkServes, ParentCloseServes DEF dispatch_process
<1>12. ASSUME NEW w \in Workers, handle_client(w) PROVE ServeInv'
  <2>1. CASE Goto(w, "start", "read")
                /\ UNCHANGED <<build, up, conn, said, table, fd, wq_item, cpid, outcome, wq, sync>>
    <3>1. Quiet
      BY <1>2, <1>12, <2>1 DEF handle_client, Goto, Quiet, Types, outcome, wq, Holding
    <3> QED
      BY <3>1, QuietServes
  <2> QED
    BY <1>12, <2>1, HandlerServes, CloseServes DEF handle_client
<1>13. ASSUME NEW w \in Workers, child(w) PROVE ServeInv'
  <2>1. CASE child_exits(w)
    BY <1>13, <2>1, ChildEndServes DEF child, child_exits, Goto, outcome, wq
  <2> QED
    BY <1>13, <2>1, HandlerServes DEF child
<1>14. CASE serve_forever
  BY <1>1, <1>4, <1>7, <1>8, <1>9, <1>11, <1>14,
    AcceptServes, ThreadServes DEF serve_forever, dispatch_pool
<1>15. ASSUME NEW w \in Workers, worker(w) PROVE ServeInv'
  BY <1>1, <1>12, <1>13, <1>15 DEF worker, handle_clients
<1> QED
  BY <1>3, <1>4, <1>5, <1>6, <1>14, <1>15 DEF Next

LEMMA SameBuild == [Next]_vars => build' = build
BY DEF Next, Connect, Say, serve_forever, new_dispatcher, Accept, AcceptFails, dispatch_basic,
   dispatch_thread, dispatch_thread_fails, dispatch_process, dispatch_pool, handle_files_request,
   http_request_parse, Answer, Crash, close, fork, fork_fails, waitpid, wq_push, Lock, Append,
   Broadcast, Unlock, worker, handle_client, child, child_exits, handle_clients, wq_pop, Test,
   Sleep, WakeUp, Take, Free, Spurious, signal_callback_handler, vars

THEOREM ServeInvariance == Spec => [](NoPool => ServeInv)
<1>1. Init => (NoPool => ServeInv)
  BY ServeStart
<1>2. (NoPool => ServeInv) /\ [Next]_vars => (NoPool => ServeInv)'
  BY SameBuild, ServeStep DEF NoPool
<1> QED
  BY <1>1, <1>2, PTL DEF Spec
-----------------------------------------------------------------------------
(* Induction over the numbers, for the set of those it is true of.         *)
LEMMA SetInduction ==
  ASSUME NEW S, 0 \in S, \A n \in Nat : n \in S => n + 1 \in S
  PROVE  \A n \in Nat : n \in S
<1> DEFINE T == Nat \ S
           R == OpToRel(<, Nat)
<1>1. IsWellFoundedOn(R, Nat)
  BY NatLessThanWellFounded, Zenon
<1>2. \A x, y \in Nat : <<x, y>> \in R <=> x < y
  BY DEF OpToRel
<1>3. ASSUME T # {} PROVE FALSE
  <2> HIDE DEF R
  <2>1. PICK x \in T : \A y \in T : ~(<<y, x>> \in R)
    BY <1>1, <1>3, WFMin
  <2>2. x # 0 /\ x - 1 \in Nat
    OBVIOUS
  <2>3. <<x - 1, x>> \in R
    BY <1>2, <2>2
  <2>4. x - 1 \notin T
    BY <2>1, <2>3
  <2> QED
    BY <2>2, <2>4
<1> QED
  BY <1>3

(* f repeats F, from h on.                                                 *)
Repeats(f, V, h, F) ==
  f \in [Nat -> V] /\ f[0] = h /\ \A n \in Nat : f[n + 1] = F[f[n]]

(* There is such a function: what a recursion over the numbers says.       *)
LEMMA Iterated ==
  ASSUME NEW V, NEW h \in V, NEW F \in [V -> V]
  PROVE  \E f : Repeats(f, V, h, F)
<1> DEFINE Begins(g, n) == /\ g \in [0 .. n -> V] /\ g[0] = h
                           /\ \A k \in 0 .. n - 1 : g[k + 1] = F[g[k]]
           S == {n \in Nat : \E g : Begins(g, n)}
<1>1. 0 \in S
  <2> DEFINE g == [k \in 0 .. 0 |-> h]
  <2>1. Begins(g, 0)
    OBVIOUS
  <2> QED
    BY <2>1
<1>2. ASSUME NEW n \in Nat, n \in S PROVE n + 1 \in S
  <2>1. PICK g : Begins(g, n)
    BY <1>2
  <2> DEFINE e == [k \in 0 .. n + 1 |-> IF k = n + 1 THEN F[g[n]] ELSE g[k]]
  <2>2. g[n] \in V /\ F[g[n]] \in V
    BY <2>1
  <2>3. e \in [0 .. n + 1 -> V] /\ e[0] = h
    BY <2>1, <2>2
  <2>4. ASSUME NEW k \in 0 .. n PROVE e[k + 1] = F[e[k]]
    BY <2>1, <2>4
  <2>5. Begins(e, n + 1)
    <3> HIDE DEF e
    <3> QED
      BY <2>3, <2>4
  <2> HIDE DEF Begins
  <2> QED
    BY <2>5
<1>3. \A n \in Nat : n \in S
  <2> HIDE DEF S
  <2> QED
    BY <1>1, <1>2, SetInduction
<1>4. ASSUME NEW m \in Nat, NEW n \in Nat, m <= n, NEW g, NEW e, Begins(g, m), Begins(e, n)
      PROVE  g[m] = e[m]
  <2> DEFINE A == {k \in Nat : k <= m => g[k] = e[k]}
  <2>1. 0 \in A
    BY <1>4
  <2>2. ASSUME NEW k \in Nat, k \in A PROVE k + 1 \in A
    BY <1>4, <2>2
  <2>3. \A k \in Nat : k \in A
    <3> HIDE DEF A
    <3> QED
      BY <2>1, <2>2, SetInduction
  <2> QED
    BY <2>3
<1> DEFINE f == [n \in Nat |-> (CHOOSE g : Begins(g, n))[n]]
<1>5. ASSUME NEW n \in Nat PROVE Begins(CHOOSE g : Begins(g, n), n)
  <2> HIDE DEF Begins
  <2> QED
    BY <1>3
<1>6. \A n \in Nat : f[n] \in V
  BY <1>5
<1>7. f[0] = h
  BY <1>5
<1>8. ASSUME NEW n \in Nat PROVE f[n + 1] = F[f[n]]
  <2> DEFINE g == CHOOSE g : Begins(g, n)
             e == CHOOSE e : Begins(e, n + 1)
  <2>1. Begins(g, n) /\ Begins(e, n + 1)
    <3> HIDE DEF Begins
    <3> QED
      BY <1>5
  <2>2. f[n] = g[n] /\ f[n + 1] = e[n + 1]
    BY DEF f, g, e
  <2> HIDE DEF g, e, f
  <2>3. e[n + 1] = F[e[n]]
    BY <2>1
  <2>5. g[n] = e[n]
    <3>1. n + 1 \in Nat /\ n <= n + 1
      OBVIOUS
    <3> HIDE DEF Begins
    <3> QED
      BY <1>4, <2>1, <3>1
  <2> QED
    BY <2>2, <2>3, <2>5
<1>9. f \in [Nat -> V]
  BY <1>6
<1>10. Repeats(f, V, h, F)
  <2> HIDE DEF f
  <2> QED
    BY <1>7, <1>8, <1>9 DEF Repeats
<1> QED
  <2> HIDE DEF f
  <2> QED
    BY <1>10, Zenon
-----------------------------------------------------------------------------
Links ==
  /\ head \in Items \cup {NULL}
  /\ next \in [Items -> Items \cup {NULL}]
  /\ prev \in [Items -> Items \cup {NULL}]
  /\ client_socket_fd \in [Items -> FDs \cup {NULL}]
  /\ size \in Nat /\ allocated \subseteq Items

(* The nodes met from some head along some next.                           *)
LEMMA Walked ==
  ASSUME NEW h \in Items \cup {NULL}, NEW nx \in [Items -> Items \cup {NULL}]
  PROVE  \E f : f = [k \in Nat |-> IF k = 0 THEN h
                                   ELSE IF f[k - 1] = NULL THEN NULL ELSE nx[f[k - 1]]]
<1> DEFINE V == Items \cup {NULL}
           F == [x \in V |-> IF x = NULL THEN NULL ELSE nx[x]]
<1>1. F \in [V -> V]
  BY ItemsAssumption
<1>2. PICK f : /\ f \in [Nat -> V] /\ f[0] = h
               /\ \A n \in Nat : f[n + 1] = F[f[n]]
  <2>1. h \in V
    OBVIOUS
  <2> HIDE DEF F, V
  <2>2. \E f : Repeats(f, V, h, F)
    BY <1>1, <2>1, Iterated, Zenon
  <2> QED
    BY <2>2 DEF Repeats
<1>3. ASSUME NEW k \in Nat
      PROVE  f[k] = IF k = 0 THEN h ELSE IF f[k - 1] = NULL THEN NULL ELSE nx[f[k - 1]]
  <2>1. CASE k = 0
    BY <1>2, <2>1
  <2>2. CASE k # 0
    <3>1. k - 1 \in Nat /\ (k - 1) + 1 = k
      BY <2>2
    <3>2. f[(k - 1) + 1] = F[f[k - 1]] /\ f[k - 1] \in V
      BY <1>2, <3>1
    <3> QED
      BY <2>2, <3>1, <3>2
  <2> QED
    BY <2>1, <2>2
<1>4. f = [k \in Nat |-> IF k = 0 THEN h ELSE IF f[k - 1] = NULL THEN NULL ELSE nx[f[k - 1]]]
  BY <1>2, <1>3
<1> QED
  BY <1>4, Zenon

Steps(f, h, nx) ==
  /\ f \in [Nat -> Items \cup {NULL}] /\ f[0] = h
  /\ \A k \in Nat : f[k + 1] = IF f[k] = NULL THEN NULL ELSE nx[f[k]]

LEMMA Unrolled ==
  ASSUME NEW h \in Items \cup {NULL}, NEW nx \in [Items -> Items \cup {NULL}], NEW f,
         f = [k \in Nat |-> IF k = 0 THEN h ELSE IF f[k - 1] = NULL THEN NULL ELSE nx[f[k - 1]]]
  PROVE  Steps(f, h, nx)
<1>1. \A k \in Nat :
        f[k] = IF k = 0 THEN h ELSE IF f[k - 1] = NULL THEN NULL ELSE nx[f[k - 1]]
  BY Zenon
<1>2. f[0] = h
  BY <1>1
<1>3. ASSUME NEW k \in Nat PROVE f[k + 1] = IF f[k] = NULL THEN NULL ELSE nx[f[k]]
  <2>1. k + 1 \in Nat /\ k + 1 # 0 /\ (k + 1) - 1 = k
    OBVIOUS
  <2> QED
    BY <1>1, <2>1
<1> DEFINE S == {k \in Nat : f[k] \in Items \cup {NULL}}
<1>4. 0 \in S
  BY <1>2
<1>5. ASSUME NEW k \in Nat, k \in S PROVE k + 1 \in S
  BY <1>3, <1>5
<1>6. \A k \in Nat : k \in S
  <2> HIDE DEF S
  <2> QED
    BY <1>4, <1>5, SetInduction
<1>7. f \in [Nat -> Items \cup {NULL}]
  BY <1>6
<1> QED
  BY <1>2, <1>3, <1>7 DEF Steps

LEMMA Nodes ==
  ASSUME Links
  PROVE  Steps(node, head, next)
<1>1. head \in Items \cup {NULL} /\ next \in [Items -> Items \cup {NULL}]
  BY DEF Links
<1>2. node = [k \in Nat |-> IF k = 0 THEN head
                            ELSE IF node[k - 1] = NULL THEN NULL ELSE next[node[k - 1]]]
  BY <1>1, Walked, Zenon DEF node
<1> QED
  BY <1>1, <1>2, Unrolled

LEMMA NodesNext ==
  ASSUME Links'
  PROVE  Steps(node', head', next')
<1>1. head' \in Items \cup {NULL} /\ next' \in [Items -> Items \cup {NULL}]
  BY DEF Links
<1>2. node' = [k \in Nat |-> IF k = 0 THEN head'
                             ELSE IF node'[k - 1] = NULL THEN NULL ELSE next'[node'[k - 1]]]
  BY <1>1, Walked, Zenon DEF node
<1> QED
  BY <1>1, <1>2, Unrolled

(* Two walks that start alike and go on alike for a while are the same     *)
(* for that long.                                                          *)
LEMMA SameWalk ==
  ASSUME NEW h, NEW nx, NEW f, Steps(f, h, nx), NEW h2, NEW nx2, NEW g, Steps(g, h2, nx2),
         NEW m \in Nat, NEW n \in Nat, g[0] = f[m],
         \A k \in 0 .. n - 1 : f[m + k] # NULL /\ nx2[f[m + k]] = nx[f[m + k]]
  PROVE  \A k \in 0 .. n : g[k] = f[m + k]
<1> DEFINE S == {k \in Nat : k <= n => g[k] = f[m + k]}
<1>1. 0 \in S
  OBVIOUS
<1>2. ASSUME NEW k \in Nat, k \in S PROVE k + 1 \in S
  <2>1. CASE k + 1 <= n
    <3>1. k \in 0 .. n - 1 /\ m + k \in Nat /\ m + (k + 1) = (m + k) + 1
      BY <2>1
    <3>2. g[k] = f[m + k]
      BY <1>2, <2>1
    <3>3. f[(m + k) + 1] = nx[f[m + k]]
      BY <3>1 DEF Steps
    <3>4. g[k + 1] = nx2[g[k]]
      BY <3>1, <3>2 DEF Steps
    <3> QED
      BY <3>1, <3>2, <3>3, <3>4
  <2> QED
    BY <2>1
<1>3. \A k \in Nat : k \in S
  <2> HIDE DEF S
  <2> QED
    BY <1>1, <1>2, SetInduction
<1> QED
  BY <1>3
-----------------------------------------------------------------------------
(* DL_APPEND lengthens the list by a node ...                              *)
LEMMA AppendList ==
  ASSUME Links, ListOK, NEW x \in FDs, append(x)
  PROVE  /\ Links' /\ ListOK'
         /\ size' = size + 1
         /\ \A k \in 0 .. size - 1 : node'[k] = node[k]
         /\ \E add \in Items \ allocated :
              /\ node'[size] = add /\ Queued' = Queued \cup {add}
              /\ allocated' = allocated \cup {add}
              /\ client_socket_fd' = [client_socket_fd EXCEPT ![add] = x]
<1>1. PICK add \in Items \ allocated :
        /\ DL_APPEND(add)
        /\ client_socket_fd' = [client_socket_fd EXCEPT ![add] = x]
        /\ allocated' = allocated \cup {add}
        /\ size' = size + 1
  BY DEF append
<1>2. size \in Nat /\ size' \in Nat
  BY <1>1 DEF Links
<1>3. Links'
  BY <1>1, <1>2 DEF Links, DL_APPEND
<1>4. Steps(node, head, next) /\ Steps(node', head', next')
  BY <1>3, Nodes, NodesNext
<1>5. /\ \A k \in 0 .. size - 1 : node[k] \in allocated /\ node[k] # NULL /\ node[k] # add
      /\ \A j, k \in 0 .. size - 1 : node[j] = node[k] => j = k
      /\ node[size] = NULL
      /\ \A k \in 0 .. size - 1 : prev[node[k]] = IF k = 0 THEN node[size - 1] ELSE node[k - 1]
  BY ItemsAssumption DEF ListOK, Queued, Links
<1>6. /\ \A k \in 0 .. size - 1 : node'[k] = node[k]
      /\ node'[size] = add /\ node'[size + 1] = NULL
      /\ \A k \in 0 .. size : prev'[node'[k]] = IF k = 0 THEN node'[size] ELSE node'[k - 1]
  <2>1. CASE size = 0
    <3>1. head = NULL
      BY <1>4, <1>5, <2>1 DEF Steps
    <3>2. head' = add /\ prev' = [prev EXCEPT ![add] = add] /\ next' = [next EXCEPT ![add] = NULL]
      BY <1>1, <3>1 DEF DL_APPEND
    <3>3. node'[0] = add /\ node'[0 + 1] = next'[add]
      BY <1>4, <3>2, ItemsAssumption DEF Steps
    <3>4. next'[add] = NULL /\ prev'[add] = add
      BY <3>2 DEF Links
    <3> QED
      BY <2>1, <3>3, <3>4
  <2>2. CASE size # 0
    <3>1. head = node[0] /\ head # NULL /\ prev[head] = node[size - 1] /\ size - 1 \in 0 .. size - 1
      BY <1>2, <1>4, <1>5, <2>2 DEF Steps
    <3>2. /\ prev' = [prev EXCEPT ![add] = node[size - 1], ![head] = add]
          /\ next' = [next EXCEPT ![node[size - 1]] = add, ![add] = NULL]
          /\ head' = head
      BY <1>1, <3>1 DEF DL_APPEND
    <3>3. ASSUME NEW k \in 0 .. size - 2 PROVE next'[node[k]] = next[node[k]]
      <4>1. k \in 0 .. size - 1 /\ k # size - 1
        BY <1>2
      <4>2. node[k] # add /\ node[k] # node[size - 1]
        BY <1>5, <3>1, <4>1
      <4>3. node[k] \in Items
        BY <1>5, <4>1 DEF Links
      <4> QED
        BY <3>2, <4>2, <4>3 DEF Links
    <3>4. \A k \in 0 .. size - 1 : node'[k] = node[k]
      <4>1. node'[0] = node[0 + 0]
        BY <1>4, <3>1, <3>2 DEF Steps
      <4>2. \A k \in 0 .. (size - 1) - 1 : node[0 + k] # NULL /\ next'[node[0 + k]] = next[node[0 + k]]
        BY <1>2, <1>5, <3>3
      <4>3. size - 1 \in Nat
        BY <1>2, <2>2
      <4>4. \A k \in 0 .. size - 1 : node'[k] = node[0 + k]
        BY <1>4, <4>1, <4>2, <4>3, SameWalk
      <4> QED
        BY <1>2, <4>4
    <3>5. node[size - 1] \in Items /\ node[size - 1] # add /\ head \in Items /\ head # add
      BY <1>5, <3>1 DEF Links
    <3>6. next'[node[size - 1]] = add /\ next'[add] = NULL /\ prev'[head] = add
          /\ prev'[add] = node[size - 1]
      BY <3>2, <3>5 DEF Links
    <3>7. node'[size] = add
      <4>1. node'[(size - 1) + 1] = IF node'[size - 1] = NULL THEN NULL ELSE next'[node'[size - 1]]
        BY <1>2, <1>4, <3>1 DEF Steps
      <4>2. (size - 1) + 1 = size /\ node'[size - 1] = node[size - 1] /\ node[size - 1] # NULL
        BY <1>2, <1>5, <3>1, <3>4
      <4> QED
        BY <3>6, <4>1, <4>2
    <3>8. node'[size + 1] = NULL
      BY <1>2, <1>4, <3>6, <3>7 DEF Steps
    <3>9. ASSUME NEW k \in 0 .. size
          PROVE  prev'[node'[k]] = IF k = 0 THEN node'[size] ELSE node'[k - 1]
      <4>1. CASE k = 0
        BY <3>1, <3>4, <3>6, <3>7, <4>1
      <4>2. CASE k = size
        BY <2>2, <3>1, <3>4, <3>6, <3>7, <4>2
      <4>3. CASE k # 0 /\ k # size
        <5>1. k \in 0 .. size - 1 /\ k - 1 \in 0 .. size - 1
          BY <1>2, <4>3
        <5>2. node[k] # head /\ node[k] # add /\ node[k] \in Items /\ prev[node[k]] = node[k - 1]
          BY <1>5, <2>2, <3>1, <4>3, <5>1 DEF Links
        <5>3. prev'[node[k]] = prev[node[k]]
          BY <3>2, <5>2 DEF Links
        <5> QED
          BY <3>4, <4>3, <5>1, <5>2, <5>3
      <4> QED
        BY <4>1, <4>2, <4>3
    <3> QED
      BY <3>4, <3>7, <3>8, <3>9
  <2> QED
    BY <2>1, <2>2
<1>7. Queued' = Queued \cup {add}
  <2>1. Queued' = {node'[k] : k \in 0 .. size}
    BY <1>1, <1>2 DEF Queued
  <2>2. 0 .. size = (0 .. size - 1) \cup {size}
    BY <1>2
  <2>3. ASSUME NEW i \in Queued' PROVE i \in Queued \cup {add}
    <3>1. PICK k \in 0 .. size : i = node'[k]
      BY <2>1
    <3>2. k \in 0 .. size - 1 \/ k = size
      BY <2>2
    <3> QED
      BY <1>6, <3>1, <3>2 DEF Queued
  <2>4. ASSUME NEW i \in Queued PROVE i \in Queued'
    <3>1. PICK k \in 0 .. size - 1 : i = node[k]
      BY DEF Queued
    <3>2. k \in 0 .. size /\ i = node'[k]
      BY <1>6, <2>2, <3>1
    <3> QED
      BY <2>1, <3>2
  <2>5. add \in Queued'
    <3>1. size \in 0 .. size
      BY <1>2
    <3> QED
      BY <1>6, <2>1, <3>1
  <2> QED
    BY <2>3, <2>4, <2>5
<1>8. ListOK'
  <2>1. 0 .. size' - 1 = 0 .. size /\ size' - 1 = size
    BY <1>1, <1>2
  <2>2. Queued' \subseteq allocated'
    BY <1>1, <1>7 DEF ListOK
  <2>3. ASSUME NEW j \in 0 .. size, NEW k \in 0 .. size, node'[j] = node'[k] PROVE j = k
    <3>1. (j \in 0 .. size - 1 \/ j = size) /\ (k \in 0 .. size - 1 \/ k = size)
      BY <1>2
    <3> QED
      BY <1>5, <1>6, <2>3, <3>1
  <2> QED
    BY <1>1, <1>6, <2>1, <2>2, <2>3 DEF ListOK
<1> QED
  BY <1>1, <1>3, <1>6, <1>7, <1>8

(* ... and DL_DELETE takes the first from it.                              *)
LEMMA TakeList ==
  ASSUME Links, ListOK, head # NULL, delete_head
  PROVE  /\ Links' /\ ListOK' /\ head \in Queued
         /\ size \in Nat \ {0} /\ size' = size - 1
         /\ \A k \in 0 .. size - 1 : node'[k] = node[k + 1]
         /\ Queued' = Queued \ {head}
<1>1. size' = size - 1 /\ DL_DELETE_head /\ UNCHANGED <<client_socket_fd, allocated>>
  BY DEF delete_head
<1>2. Steps(node, head, next)
  BY Nodes
<1>3. /\ \A k \in 0 .. size - 1 : node[k] \in allocated /\ node[k] \in Items /\ node[k] # NULL
      /\ \A j, k \in 0 .. size - 1 : node[j] = node[k] => j = k
      /\ node[size] = NULL
      /\ \A k \in 0 .. size - 1 : prev[node[k]] = IF k = 0 THEN node[size - 1] ELSE node[k - 1]
  BY ItemsAssumption DEF ListOK, Queued, Links
<1>4. size \in Nat \ {0} /\ head = node[0] /\ head \in Queued /\ size - 1 \in Nat /\ size' \in Nat
  <2>1. size # 0
    BY <1>2, <1>3 DEF Steps
  <2>2. size \in Nat /\ head = node[0]
    BY <1>2 DEF Links, Steps
  <2> QED
    BY <1>1, <2>1, <2>2 DEF Queued
<1>5. prev[head] = node[size - 1] /\ node[0 + 1] = next[head]
  BY <1>2, <1>3, <1>4 DEF Steps
<1>6. Links' /\ head' = node[1] /\ next' = next
      /\ \A k \in 1 .. size - 1 : prev'[node[k]] = IF k = 1 THEN node[size - 1] ELSE node[k - 1]
  <2>1. CASE size = 1
    <3>1. head' = NULL /\ UNCHANGED <<next, prev>>
      BY <1>1, <1>4, <1>5, <2>1 DEF DL_DELETE_head
    <3> QED
      BY <1>1, <1>3, <1>4, <2>1, <3>1 DEF Links
  <2>2. CASE size # 1
    <3>1. size - 1 \in 0 .. size - 1 /\ 0 \in 0 .. size - 1 /\ 1 \in 0 .. size - 1 /\ size - 1 # 0
      BY <1>4, <2>2
    <3>2. node[size - 1] # node[0]
      BY <1>3, <3>1
    <3>3. /\ prev' = [prev EXCEPT ![node[1]] = node[size - 1]]
          /\ head' = node[1] /\ next' = next
      BY <1>1, <1>4, <1>5, <3>2 DEF DL_DELETE_head
    <3>4. Links'
      BY <1>1, <1>3, <1>4, <3>1, <3>3 DEF Links
    <3>5. ASSUME NEW k \in 1 .. size - 1
          PROVE  prev'[node[k]] = IF k = 1 THEN node[size - 1] ELSE node[k - 1]
      <4>1. k \in 0 .. size - 1 /\ node[k] \in Items /\ node[k] = node[1] => k = 1
        BY <1>3, <1>4, <3>1
      <4>2. prev[node[k]] = node[k - 1] /\ node[k] \in Items
        BY <1>3, <1>4
      <4>3. (node[k] = node[1]) <=> (k = 1)
        BY <1>3, <1>4, <3>1
      <4> QED
        BY <3>3, <4>2, <4>3 DEF Links
    <3> QED
      BY <3>3, <3>4, <3>5
  <2> QED
    BY <2>1, <2>2
<1>7. Steps(node', head', next')
  BY <1>6, NodesNext
<1>8. \A k \in 0 .. size - 1 : node'[k] = node[k + 1]
  <2>1. node'[0] = node[1 + 0]
    BY <1>6, <1>7 DEF Steps
  <2>2. \A k \in 0 .. (size - 1) - 1 : node[1 + k] # NULL /\ next'[node[1 + k]] = next[node[1 + k]]
    BY <1>3, <1>4, <1>6
  <2>3. \A k \in 0 .. size - 1 : node'[k] = node[1 + k]
    BY <1>2, <1>4, <1>7, <2>1, <2>2, SameWalk
  <2> QED
    BY <1>4, <2>3
<1>9. Queued' = Queued \ {head}
  <2>1. Queued' = {node'[k] : k \in 0 .. size - 2}
    BY <1>1, <1>4 DEF Queued
  <2>2. \A k \in 0 .. size - 2 : node'[k] = node[k + 1] /\ k + 1 \in 0 .. size - 1 /\ node[k + 1] # head
    BY <1>3, <1>4, <1>8
  <2>3. \A k \in 0 .. size - 1 : node[k] # head => k - 1 \in 0 .. size - 2 /\ node'[k - 1] = node[k]
    BY <1>4, <1>8
  <2> QED
    BY <2>1, <2>2, <2>3 DEF Queued
<1>10. ListOK'
  <2>1. size' - 1 = size - 2 /\ size' \in 0 .. size - 1 /\ 0 .. size' - 1 = 0 .. size - 2
    BY <1>1, <1>4
  <2>2. Queued' \subseteq allocated'
    BY <1>1, <1>9 DEF ListOK
  <2>3. ASSUME NEW j \in 0 .. size - 2, NEW k \in 0 .. size - 2, node'[j] = node'[k] PROVE j = k
    <3>1. j + 1 \in 0 .. size - 1 /\ k + 1 \in 0 .. size - 1 /\ j \in 0 .. size - 1 /\ k \in 0 .. size - 1
      BY <1>4
    <3>2. node[j + 1] = node[k + 1]
      BY <1>8, <2>3, <3>1
    <3>3. j + 1 = k + 1
      BY <1>3, <3>1, <3>2
    <3> QED
      BY <3>3
  <2>4. node'[size'] = NULL
    BY <1>1, <1>3, <1>4, <1>8, <2>1
  <2>5. ASSUME NEW k \in 0 .. size - 2
        PROVE  prev'[node'[k]] = IF k = 0 THEN node'[size' - 1] ELSE node'[k - 1]
    <3>1. k + 1 \in 1 .. size - 1 /\ node'[k] = node[k + 1]
      BY <1>4, <1>8
    <3>2. k = 0 => node'[size' - 1] = node[size - 1]
      BY <1>4, <1>8, <2>1
    <3>3. k # 0 => node'[k - 1] = node[k]
      BY <1>4, <1>8
    <3>4. prev'[node[k + 1]] = IF k + 1 = 1 THEN node[size - 1] ELSE node[(k + 1) - 1]
      BY <1>6, <3>1
    <3> QED
      BY <3>1, <3>2, <3>3, <3>4
  <2> QED
    BY <2>1, <2>2, <2>3, <2>4, <2>5 DEF ListOK
<1> QED
  BY <1>1, <1>4, <1>6, <1>8, <1>9, <1>10
-----------------------------------------------------------------------------
(* The server with a pool.                                                 *)
WithPool == build = "httpserver_pool"

Popped == {w \in Workers : pc[w] \in {"popped", "free"}}

(* The live nodes are those of the list and those about to be freed; who   *)
(* takes one has seen that there is one.                                   *)
NodeInv ==
  /\ Links /\ ListOK
  /\ DOMAIN pc = Runners /\ wq_item \in [Workers -> Items \cup {NULL}]
  /\ allocated = Queued \cup {wq_item[w] : w \in Popped}
  /\ \A w \in Popped : wq_item[w] \notin Queued
  /\ \A v, w \in Popped : wq_item[v] = wq_item[w] => v = w
  /\ \A w \in Workers : pc[w] = "take" => size # 0

LEMMA NodeStart == Init => NodeInv
<1> SUFFICES ASSUME Init PROVE NodeInv
  OBVIOUS
<1>1. /\ head = NULL /\ size = 0 /\ allocated = {}
      /\ \A w \in Workers : pc[w] = "none" /\ wq_item[w] = NULL
      /\ DOMAIN pc = Runners
  BY RunnerAssumption DEF Init, wq_init, Runners
<1>2. Links
  BY DEF Init, wq_init, Links
<1>3. Popped = {} /\ Queued = {}
  BY <1>1 DEF Popped, Queued
<1>4. ListOK
  <2>1. node[0] = NULL
    BY <1>1, <1>2, Nodes DEF Steps
  <2> QED
    BY <1>1, <1>3, <2>1 DEF ListOK
<1> QED
  BY <1>1, <1>2, <1>3, <1>4 DEF NodeInv, Init

(* Steps that leave the queue alone.                                       *)
NodesAlone ==
  /\ UNCHANGED <<wq, wq_item>>
  /\ DOMAIN pc' = DOMAIN pc
  /\ \A w \in Workers : /\ pc'[w] \in {"popped", "free"} <=> pc[w] \in {"popped", "free"}
                        /\ pc'[w] = "take" => pc[w] = "take" \/ size # 0

LEMMA AloneKeepsNodes ==
  ASSUME NodeInv, NodesAlone
  PROVE  NodeInv'
<1>1. UNCHANGED <<head, next, prev, client_socket_fd, size, allocated, wq_item>>
  BY DEF NodesAlone, wq, list
<1>2. Links'
  BY <1>1 DEF NodeInv, Links
<1>3. node' = node
  BY <1>1 DEF node
<1>4. Queued' = Queued /\ (ListOK <=> ListOK')
  BY <1>1, <1>3 DEF Queued, ListOK
<1>5. Popped' = Popped
  BY DEF Popped, NodesAlone
<1> QED
  BY <1>1, <1>2, <1>4, <1>5 DEF NodeInv, NodesAlone

LEMMA AppendKeepsNodes ==
  ASSUME NodeInv, LockHeld, fd[Main] \in FDs, Append(Main, "append", "broadcast")
  PROVE  NodeInv'
<1> Main \in Runners /\ Main \notin Workers /\ Workers \subseteq Runners
  BY RunnerAssumption DEF Runners
<1>1. /\ append(fd[Main]) /\ pc' = [pc EXCEPT ![Main] = "broadcast"] /\ wq_item' = wq_item
      /\ pc[Main] = "append"
  BY DEF Append, Goto
<1>2. Links' /\ ListOK' /\ size' = size + 1
  BY <1>1, AppendList DEF NodeInv
<1>3. PICK add \in Items \ allocated : Queued' = Queued \cup {add} /\ allocated' = allocated \cup {add}
  BY <1>1, AppendList DEF NodeInv
<1>4. Popped' = Popped /\ \A w \in Workers : pc'[w] = pc[w]
  BY <1>1 DEF NodeInv, Popped
<1>5. \A w \in Workers : pc[w] # "take"
  BY <1>1 DEF LockHeld, Critical
<1>6. \A w \in Popped : wq_item[w] \in allocated
  BY DEF NodeInv
<1> QED
  BY <1>1, <1>2, <1>3, <1>4, <1>5, <1>6 DEF NodeInv

LEMMA TakeKeepsNodes ==
  ASSUME NodeInv, LockHeld, NEW w \in Workers, Take(w)
  PROVE  NodeInv'
<1> w \in Runners /\ Workers \subseteq Runners
  BY DEF Runners
<1>1. /\ delete_head /\ head # NULL /\ pc' = [pc EXCEPT ![w] = "popped"]
      /\ wq_item' = [wq_item EXCEPT ![w] = head] /\ pc[w] = "take"
  BY DEF Take, Goto
<1>2. Links' /\ ListOK' /\ head \in Queued /\ Queued' = Queued \ {head} /\ allocated' = allocated
  BY <1>1, TakeList DEF NodeInv, delete_head
<1>3. w \notin Popped /\ Popped' = Popped \cup {w}
  BY <1>1 DEF NodeInv, Popped
<1>4. wq_item'[w] = head /\ \A v \in Popped : wq_item'[v] = wq_item[v]
  BY <1>1, <1>3 DEF NodeInv, Popped
<1>5. \A v \in Workers : pc'[v] # "take"
  BY <1>1 DEF LockHeld, Critical, NodeInv
<1>6. wq_item' \in [Workers -> Items \cup {NULL}]
  BY <1>1 DEF NodeInv, Links
<1>7. {wq_item'[v] : v \in Popped'} = {wq_item[v] : v \in Popped} \cup {head}
  BY <1>3, <1>4
<1> QED
  BY <1>1, <1>2, <1>3, <1>4, <1>5, <1>6, <1>7 DEF NodeInv

LEMMA FreeKeepsNodes ==
  ASSUME NodeInv, NEW w \in Workers, Free(w)
  PROVE  NodeInv'
<1> w \in Runners /\ Workers \subseteq Runners
  BY DEF Runners
<1>1. /\ allocated' = allocated \ {wq_item[w]} /\ pc' = [pc EXCEPT ![w] = "read"] /\ pc[w] = "free"
      /\ UNCHANGED <<head, next, prev, client_socket_fd, size, wq_item>>
  BY DEF Free, free, Goto, list
<1>2. w \in Popped /\ Popped' = Popped \ {w}
  BY <1>1 DEF NodeInv, Popped
<1>3. node' = node
  BY <1>1 DEF node
<1>4. Queued' = Queued
  BY <1>1, <1>3 DEF Queued
<1>5. allocated' = Queued \cup {wq_item[v] : v \in Popped'}
  BY <1>1, <1>2 DEF NodeInv
<1>6. ListOK'
  BY <1>1, <1>3, <1>4, <1>5 DEF NodeInv, ListOK
<1>7. Links'
  BY <1>1 DEF NodeInv, Links
<1>8. \A v \in Workers : pc'[v] = "take" => pc[v] = "take"
  BY <1>1 DEF NodeInv
<1> QED
  BY <1>1, <1>2, <1>4, <1>5, <1>6, <1>7, <1>8 DEF NodeInv
-----------------------------------------------------------------------------
(* Who answers for an open descriptor: a thread that has it in a variable, *)
(* or a node of the queue.                                                 *)
FileTypes ==
  /\ DOMAIN pc = Runners
  /\ fd \in [Runners -> FDs \cup {NULL}]
  /\ table \in [Runners -> [FDs -> Clients \cup {NULL}]]
  /\ DOMAIN conn = Clients /\ DOMAIN said = Clients
  /\ answers \in [Clients -> Nat]

HeldByThread ==
  up => \A r \in Runners : Holding(r) =>
          /\ fd[r] \in FDs /\ table[Main][fd[r]] # NULL
          /\ answers[table[Main][fd[r]]] = IF pc[r] = "close" THEN 1 ELSE 0

HeldByNode ==
  up => \A i \in Queued :
          /\ client_socket_fd[i] \in FDs /\ table[Main][client_socket_fd[i]] # NULL
          /\ answers[table[Main][client_socket_fd[i]]] = 0

HeldByOne ==
  up => /\ \A r, s \in Runners : Holding(r) /\ Holding(s) /\ fd[r] = fd[s] => r = s
        /\ \A i, j \in Queued : client_socket_fd[i] = client_socket_fd[j] => i = j
        /\ \A r \in Runners, i \in Queued : Holding(r) => fd[r] # client_socket_fd[i]

HeldBySome ==
  up => \A f \in FDs : table[Main][f] # NULL =>
          /\ conn[table[Main][f]] = "accepted"
          /\ \/ \E r \in Runners : Holding(r) /\ fd[r] = f
             \/ \E i \in Queued : client_socket_fd[i] = f

NoneLost ==
  up => \A c \in Clients : conn[c] = "accepted" =>
          answers[c] = 1 \/ \E f \in FDs : table[Main][f] = c

FileInv ==
  /\ FileTypes /\ HeldByThread /\ HeldByNode /\ HeldByOne /\ HeldBySome /\ Distinct
  /\ AtMostOnce /\ NoneLost

LEMMA FileStart == Init => FileInv
<1> SUFFICES ASSUME Init PROVE FileInv
  OBVIOUS
<1> Main \in Runners /\ Main \notin Workers /\ Workers \subseteq Runners
  BY RunnerAssumption DEF Runners
<1>1. \A r \in Runners : ~Holding(r)
  BY DEF Init, Holding
<1>2. Queued = {}
  BY DEF Init, wq_init, Queued
<1>3. \A f \in FDs : table[Main][f] = NULL
  BY DEF Init, NoFiles
<1>4. FileTypes
  BY DEF Init, FileTypes, NoFiles
<1>5. AtMostOnce /\ NoneLost
  BY DEF Init, AtMostOnce, NoneLost
<1> QED
  BY <1>1, <1>2, <1>3, <1>4, <1>5
  DEF FileInv, HeldByThread, HeldByNode, HeldByOne, HeldBySome, Distinct

(* Steps that move no descriptor and answer nobody.                        *)
FilesAlone ==
  /\ UNCHANGED <<up, table, fd, answers, failed>>
  /\ Queued' = Queued /\ client_socket_fd' = client_socket_fd
  /\ DOMAIN conn' = DOMAIN conn /\ DOMAIN said' = DOMAIN said /\ DOMAIN pc' = DOMAIN pc
  /\ \A c \in Clients : conn'[c] = conn[c] \/ (conn[c] # "accepted" /\ conn'[c] # "accepted")
  /\ \A r \in Runners :
       pc'[r] = pc[r] \/ (pc[r] # "close" /\ pc'[r] # "close" /\ (Holding(r) <=> Holding(r)'))

LEMMA AloneKeepsFiles ==
  ASSUME FileInv, FilesAlone
  PROVE  FileInv'
<1> Main \in Runners
  BY DEF Runners
<1> USE DEF FileInv
<1>1. /\ UNCHANGED <<up, table, fd, answers, failed, client_socket_fd>>
      /\ Queued' = Queued
      /\ \A c \in Clients : conn'[c] = "accepted" <=> conn[c] = "accepted"
  BY DEF FilesAlone
<1>2. \A r \in Runners : (Holding(r)' <=> Holding(r)) /\ (pc'[r] = "close" <=> pc[r] = "close")
  BY DEF FilesAlone, Holding
<1>3. FileTypes'
  BY <1>1 DEF FileTypes, FilesAlone
<1>4. HeldByThread' /\ HeldByNode' /\ HeldByOne'
  BY <1>1, <1>2 DEF HeldByThread, HeldByNode, HeldByOne
<1>5. HeldBySome'
  <2>1. \A f \in FDs : table[Main][f] # NULL => table[Main][f] \in Clients
    BY DEF FileTypes
  <2> QED
    BY <1>1, <1>2, <2>1 DEF HeldBySome
<1>6. Distinct' /\ AtMostOnce' /\ NoneLost'
  BY <1>1 DEF Distinct, AtMostOnce, NoneLost
<1> QED
  BY <1>3, <1>4, <1>5, <1>6

LEMMA ExitKeepsFiles ==
  ASSUME FileInv, Exit, UNCHANGED <<conn, said, fd, answers, failed>>
  PROVE  FileInv'
<1>1. up' = FALSE
  BY DEF Exit
<1>2. FileTypes'
  BY DEF FileInv, FileTypes, Exit, NoFiles, Runners
<1> QED
  BY <1>1, <1>2 DEF FileInv, HeldByThread, HeldByNode, HeldByOne, HeldBySome, Distinct,
    AtMostOnce, NoneLost

LEMMA AcceptKeepsFiles ==
  ASSUME FileInv, WithPool, NEW c \in Clients, Accept(c)
  PROVE  FileInv'
<1> Main \in Runners /\ Main \notin Workers /\ Workers \subseteq Runners
  BY RunnerAssumption DEF Runners
<1> USE DEF FileInv
<1>1. PICK f \in FDs :
        /\ table[Main][f] = NULL
        /\ fd' = [fd EXCEPT ![Main] = f]
        /\ table' = [table EXCEPT ![Main] = [@ EXCEPT ![f] = c]]
  BY DEF Accept, FreeFDs
<1>2. /\ up /\ pc[Main] = "accept" /\ conn[c] = "backlog" /\ c # NULL
      /\ pc' = [pc EXCEPT ![Main] = "dispatch"]
      /\ conn' = [conn EXCEPT ![c] = "accepted"]
      /\ UNCHANGED <<up, said, answers, failed, head, next, prev, client_socket_fd, size>>
  BY FDAssumption DEF Accept, Goto, Running, Proc, outcome, wq, WithPool, list
<1>3. Queued' = Queued
  <2>1. node' = node
    BY <1>2 DEF node
  <2> QED
    BY <1>2, <2>1 DEF Queued
<1>4. \A g \in FDs : table'[Main][g] = IF g = f THEN c ELSE table[Main][g]
  BY <1>1, <1>2 DEF FileTypes
<1>5. FileTypes'
  BY <1>1, <1>2 DEF FileTypes
<1>6. /\ fd'[Main] = f /\ pc'[Main] = "dispatch"
      /\ \A r \in Runners : r # Main => fd'[r] = fd[r] /\ pc'[r] = pc[r]
  BY <1>1, <1>2 DEF FileTypes
<1>7. /\ ~Holding(Main) /\ Holding(Main)'
      /\ \A r \in Runners : r # Main => (Holding(r)' <=> Holding(r))
  BY <1>2, <1>6 DEF Holding
<1>8. answers[c] = 0
  BY <1>2 DEF AtMostOnce
<1>9. \A r \in Runners : Holding(r) => fd[r] # f
  BY <1>1, <1>2 DEF HeldByThread
<1>10. \A i \in Queued : client_socket_fd[i] # f
  BY <1>1, <1>2 DEF HeldByNode
<1>11. HeldByThread'
  BY <1>1, <1>2, <1>4, <1>6, <1>7, <1>8, <1>9 DEF HeldByThread
<1>12. HeldByNode'
  BY <1>2, <1>3, <1>4, <1>10 DEF HeldByNode
<1>13. HeldByOne'
  BY <1>1, <1>2, <1>3, <1>6, <1>7, <1>9, <1>10 DEF HeldByOne
<1>14. HeldBySome'
  BY <1>2, <1>3, <1>4, <1>6, <1>7 DEF HeldBySome, FileTypes
<1>15. Distinct'
  BY <1>2, <1>4 DEF Distinct, HeldBySome, FileTypes
<1>16. AtMostOnce'
  BY <1>2 DEF AtMostOnce, FileTypes
<1>17. NoneLost'
  <2> SUFFICES ASSUME NEW d \in Clients, conn'[d] = "accepted"
               PROVE  answers[d] = 1 \/ \E g \in FDs : table'[Main][g] = d
    BY <1>2 DEF NoneLost
  <2>1. CASE d = c
    BY <1>4, <2>1
  <2>2. CASE d # c
    <3>1. conn[d] = "accepted"
      BY <1>2, <2>2 DEF FileTypes
    <3>2. CASE answers[d] = 1
      BY <3>2
    <3>3. ASSUME NEW g \in FDs, table[Main][g] = d PROVE table'[Main][g] = d
      BY <1>1, <1>4, <3>3, FDAssumption
    <3> QED
      BY <1>2, <3>1, <3>2, <3>3 DEF NoneLost
  <2> QED
    BY <2>1, <2>2
<1> QED
  BY <1>5, <1>11, <1>12, <1>13, <1>14, <1>15, <1>16, <1>17

(* The connection passes from main to the queue, from there to a worker.   *)
LEMMA AppendKeepsFiles ==
  ASSUME FileInv, NodeInv, Append(Main, "append", "broadcast"), up
  PROVE  FileInv'
<1> Main \in Runners /\ Main \notin Workers /\ Workers \subseteq Runners
  BY RunnerAssumption DEF Runners
<1> USE DEF FileInv
<1>1. /\ append(fd[Main]) /\ pc' = [pc EXCEPT ![Main] = "broadcast"] /\ pc[Main] = "append"
      /\ UNCHANGED <<up, conn, said, table, fd, answers, failed>>
  BY DEF Append, Goto, outcome
<1>2. Holding(Main) /\ fd[Main] \in FDs /\ table[Main][fd[Main]] # NULL
      /\ answers[table[Main][fd[Main]]] = 0
  BY <1>1 DEF HeldByThread, Holding
<1>3. PICK add \in Items \ allocated :
        /\ Queued' = Queued \cup {add}
        /\ client_socket_fd' = [client_socket_fd EXCEPT ![add] = fd[Main]]
  BY <1>1, <1>2, AppendList DEF NodeInv
<1>4. /\ add \notin Queued /\ client_socket_fd'[add] = fd[Main]
      /\ \A i \in Queued : client_socket_fd'[i] = client_socket_fd[i]
  BY <1>3 DEF NodeInv, Links, ListOK
<1>5. /\ ~Holding(Main)'
      /\ \A r \in Runners : r # Main => (Holding(r)' <=> Holding(r)) /\ pc'[r] = pc[r]
  BY <1>1 DEF Holding, FileTypes
<1>6. FileTypes'
  BY <1>1 DEF FileTypes
<1>7. HeldByThread'
  BY <1>1, <1>5 DEF HeldByThread
<1>8. HeldByNode'
  BY <1>1, <1>2, <1>3, <1>4 DEF HeldByNode
<1>9. HeldByOne'
  <2>1. \A i \in Queued : client_socket_fd[i] # fd[Main]
    BY <1>2 DEF HeldByOne
  <2>2. \A r \in Runners : r # Main /\ Holding(r) => fd[r] # fd[Main]
    BY <1>2 DEF HeldByOne
  <2> QED
    BY <1>1, <1>3, <1>4, <1>5, <2>1, <2>2 DEF HeldByOne
<1>10. HeldBySome'
  <2>1. ASSUME NEW f \in FDs, table[Main][f] # NULL
        PROVE  \/ \E r \in Runners : Holding(r)' /\ fd'[r] = f
               \/ \E i \in Queued' : client_socket_fd'[i] = f
    <3>1. CASE f = fd[Main]
      BY <1>3, <1>4, <3>1
    <3>2. CASE f # fd[Main]
      BY <1>1, <1>3, <1>4, <1>5, <2>1, <3>2 DEF HeldBySome
    <3> QED
      BY <3>1, <3>2
  <2> QED
    BY <1>1, <2>1 DEF HeldBySome
<1>11. Distinct' /\ AtMostOnce' /\ NoneLost'
  BY <1>1 DEF Distinct, AtMostOnce, NoneLost
<1> QED
  BY <1>6, <1>7, <1>8, <1>9, <1>10, <1>11

LEMMA TakeKeepsFiles ==
  ASSUME FileInv, NodeInv, NEW w \in Workers, Take(w), up
  PROVE  FileInv'
<1> w \in Runners /\ Main \in Runners /\ Workers \subseteq Runners
  BY DEF Runners
<1> USE DEF FileInv
<1>1. /\ delete_head /\ head # NULL /\ pc' = [pc EXCEPT ![w] = "popped"] /\ pc[w] = "take"
      /\ fd' = [fd EXCEPT ![w] = client_socket_fd[head]]
      /\ UNCHANGED <<up, conn, said, table, answers, failed, client_socket_fd>>
  BY DEF Take, Goto, outcome, delete_head
<1>2. head \in Queued /\ Queued' = Queued \ {head}
  BY <1>1, TakeList DEF NodeInv
<1>3. /\ client_socket_fd[head] \in FDs /\ table[Main][client_socket_fd[head]] # NULL
      /\ answers[table[Main][client_socket_fd[head]]] = 0
  BY <1>1, <1>2 DEF HeldByNode
<1>4. /\ ~Holding(w) /\ Holding(w)' /\ fd'[w] = client_socket_fd[head] /\ pc'[w] = "popped"
      /\ \A r \in Runners : r # w => (Holding(r)' <=> Holding(r)) /\ pc'[r] = pc[r] /\ fd'[r] = fd[r]
  BY <1>1 DEF Holding, FileTypes
<1>5. FileTypes'
  BY <1>1, <1>3 DEF FileTypes
<1>6. HeldByThread'
  BY <1>1, <1>3, <1>4 DEF HeldByThread
<1>7. HeldByNode'
  BY <1>1, <1>2 DEF HeldByNode
<1>8. HeldByOne'
  <2>1. \A i \in Queued : i # head => client_socket_fd[i] # client_socket_fd[head]
    BY <1>1, <1>2 DEF HeldByOne
  <2>2. \A r \in Runners : Holding(r) => fd[r] # client_socket_fd[head]
    BY <1>1, <1>2 DEF HeldByOne
  <2> QED
    BY <1>1, <1>2, <1>4, <2>1, <2>2 DEF HeldByOne
<1>9. HeldBySome'
  <2>1. ASSUME NEW f \in FDs, table[Main][f] # NULL
        PROVE  \/ \E r \in Runners : Holding(r)' /\ fd'[r] = f
               \/ \E i \in Queued' : client_socket_fd'[i] = f
    <3>1. CASE f = client_socket_fd[head]
      BY <1>4, <3>1
    <3>2. CASE f # client_socket_fd[head]
      BY <1>1, <1>2, <1>4, <2>1, <3>2 DEF HeldBySome
    <3> QED
      BY <3>1, <3>2
  <2> QED
    BY <1>1, <2>1 DEF HeldBySome
<1>10. Distinct' /\ AtMostOnce' /\ NoneLost'
  BY <1>1 DEF Distinct, AtMostOnce, NoneLost
<1> QED
  BY <1>5, <1>6, <1>7, <1>8, <1>9, <1>10

LEMMA AnswerKeepsFiles ==
  ASSUME FileInv, WithPool, NEW w \in Workers, Answer(w)
  PROVE  FileInv'
<1> w \in Runners /\ Main \in Runners /\ Workers \subseteq Runners
  BY DEF Runners
<1> USE DEF FileInv
<1>1. /\ up /\ pc[w] = "answer" /\ pc' = [pc EXCEPT ![w] = "close"]
      /\ answers' = [c \in Clients |-> IF c = table[Main][fd[w]] THEN answers[c] + 1 ELSE answers[c]]
      /\ UNCHANGED <<up, conn, said, table, fd, failed, head, next, prev, client_socket_fd, size>>
  BY DEF Answer, Goto, Running, Proc, Served, WithPool, wq, list
<1>2. Queued' = Queued
  <2>1. node' = node
    BY <1>1 DEF node
  <2> QED
    BY <1>1, <2>1 DEF Queued
<1> DEFINE c == table[Main][fd[w]]
<1>3. Holding(w) /\ fd[w] \in FDs /\ c \in Clients /\ answers[c] = 0 /\ conn[c] = "accepted"
  BY <1>1 DEF HeldByThread, HeldBySome, Holding, FileTypes
<1>4. /\ Holding(w)' /\ pc'[w] = "close"
      /\ \A r \in Runners : r # w => (Holding(r)' <=> Holding(r)) /\ pc'[r] = pc[r]
  BY <1>1 DEF Holding, FileTypes
<1>5. answers'[c] = 1 /\ \A d \in Clients : d # c => answers'[d] = answers[d]
  BY <1>1, <1>3
<1>6. \A f \in FDs : table[Main][f] # NULL => table[Main][f] \in Clients /\ (table[Main][f] = c => f = fd[w])
  <2>1. \A f \in FDs : table[Main][f] # NULL => table[Main][f] \in Clients
    BY DEF FileTypes
  <2>2. \A f \in FDs : table[Main][f] # NULL /\ table[Main][f] = c => f = fd[w]
    BY <1>1, <1>3 DEF Distinct
  <2> QED
    BY <2>1, <2>2
<1> HIDE DEF c
<1>7. FileTypes'
  BY <1>1 DEF FileTypes
<1>8. HeldByThread'
  <2>1. ASSUME NEW r \in Runners, Holding(r)'
        PROVE  /\ fd[r] \in FDs /\ table[Main][fd[r]] # NULL
               /\ answers'[table[Main][fd[r]]] = IF pc'[r] = "close" THEN 1 ELSE 0
    <3>1. CASE r = w
      BY <1>3, <1>4, <1>5, <1>1, <3>1 DEF HeldByThread, c
    <3>2. CASE r # w
      <4>1. Holding(r) /\ fd[r] # fd[w] /\ fd[r] \in FDs /\ table[Main][fd[r]] # NULL
        BY <1>1, <1>3, <1>4, <2>1, <3>2 DEF HeldByOne, HeldByThread
      <4> QED
        BY <1>1, <1>4, <1>5, <1>6, <3>2, <4>1 DEF HeldByThread
    <3> QED
      BY <3>1, <3>2
  <2> QED
    BY <1>1, <2>1 DEF HeldByThread
<1>9. HeldByNode'
  <2>1. \A i \in Queued : client_socket_fd[i] # fd[w]
    BY <1>1, <1>3 DEF HeldByOne
  <2> QED
    BY <1>1, <1>2, <1>5, <1>6, <2>1 DEF HeldByNode
<1>10. HeldByOne'
  BY <1>1, <1>2, <1>3, <1>4 DEF HeldByOne
<1>11. HeldBySome'
  BY <1>1, <1>2, <1>3, <1>4 DEF HeldBySome
<1>12. Distinct' /\ NoneLost'
  BY <1>1, <1>5 DEF Distinct, NoneLost
<1>13. AtMostOnce'
  BY <1>1, <1>3, <1>5 DEF AtMostOnce
<1> QED
  BY <1>7, <1>8, <1>9, <1>10, <1>11, <1>12, <1>13

LEMMA CloseKeepsFiles ==
  ASSUME FileInv, WithPool, NEW w \in Workers, close(w, "close", "pop")
  PROVE  FileInv'
<1> w \in Runners /\ Main \in Runners /\ Workers \subseteq Runners
  BY DEF Runners
<1> USE DEF FileInv
<1>1. /\ up /\ pc[w] = "close" /\ pc' = [pc EXCEPT ![w] = "pop"]
      /\ table' = [table EXCEPT ![Main] = [@ EXCEPT ![fd[w]] = NULL]]
      /\ UNCHANGED <<up, conn, said, answers, fd, failed, head, next, prev, client_socket_fd, size>>
  BY DEF close, Goto, Running, Proc, WithPool, wq, list, outcome
<1>2. Queued' = Queued
  <2>1. node' = node
    BY <1>1 DEF node
  <2> QED
    BY <1>1, <2>1 DEF Queued
<1>3. Holding(w) /\ fd[w] \in FDs /\ answers[table[Main][fd[w]]] = 1
  BY <1>1 DEF HeldByThread, Holding
<1>4. /\ ~Holding(w)'
      /\ \A r \in Runners : r # w => (Holding(r)' <=> Holding(r)) /\ pc'[r] = pc[r]
  BY <1>1 DEF Holding, FileTypes
<1>5. \A f \in FDs : table'[Main][f] = IF f = fd[w] THEN NULL ELSE table[Main][f]
  BY <1>1 DEF FileTypes
<1>6. FileTypes'
  BY <1>1 DEF FileTypes
<1>7. HeldByThread'
  <2>1. \A r \in Runners : r # w /\ Holding(r) => fd[r] # fd[w]
    BY <1>1, <1>3 DEF HeldByOne
  <2> QED
    BY <1>1, <1>4, <1>5, <2>1 DEF HeldByThread
<1>8. HeldByNode'
  <2>1. \A i \in Queued : client_socket_fd[i] # fd[w]
    BY <1>1, <1>3 DEF HeldByOne
  <2> QED
    BY <1>1, <1>2, <1>5, <2>1 DEF HeldByNode
<1>9. HeldByOne'
  BY <1>1, <1>2, <1>4 DEF HeldByOne
<1>10. HeldBySome'
  BY <1>1, <1>2, <1>4, <1>5 DEF HeldBySome
<1>11. Distinct'
  BY <1>1, <1>5 DEF Distinct
<1>12. AtMostOnce'
  BY <1>1 DEF AtMostOnce
<1>13. NoneLost'
  BY <1>1, <1>3, <1>5 DEF NoneLost
<1> QED
  BY <1>6, <1>7, <1>8, <1>9, <1>10, <1>11, <1>12, <1>13
-----------------------------------------------------------------------------
(* The steps that are none of wq_push and wq_pop, of any of the servers.   *)
LEMMA HandlerLeavesNodes ==
  ASSUME NodeInv, NEW r \in Runners, handle_files_request(r)
  PROVE  NodesAlone
BY DEF NodeInv, handle_files_request, http_request_parse, Answer, Crash, Exit, Goto, NodesAlone,
   Runners

LEMMA CloseLeavesNodes ==
  ASSUME NodeInv, NEW r \in Runners, close(r, "close", "accept") \/ close(r, "close", "none")
           \/ close(r, "close", "waitpid") \/ close(r, "close", "pop")
  PROVE  NodesAlone
BY DEF NodeInv, close, Goto, NodesAlone, Runners

LEMMA MainLeavesNodes ==
  ASSUME NodeInv, serve_forever, ~dispatch_pool
  PROVE  NodesAlone
<1> Main \in Runners /\ Main \notin Workers /\ Workers \subseteq Runners /\ Pool \subseteq Workers
  BY RunnerAssumption DEF Runners
<1>1. CASE new_dispatcher
  BY <1>1 DEF NodeInv, new_dispatcher, Untried, NodesAlone
<1>2. ASSUME NEW c \in Clients, Accept(c) \/ AcceptFails(c) PROVE NodesAlone
  BY <1>2 DEF NodeInv, Accept, AcceptFails, Goto, process, NodesAlone
<1>3. CASE dispatch_basic
  BY <1>3, HandlerLeavesNodes, CloseLeavesNodes DEF dispatch_basic
<1>4. ASSUME NEW w \in Workers, dispatch_thread(w) PROVE NodesAlone
  BY <1>4 DEF NodeInv, dispatch_thread, NodesAlone
<1>5. CASE dispatch_thread_fails
  BY <1>5 DEF NodeInv, dispatch_thread_fails, Exit, Goto, NodesAlone
<1>6. CASE dispatch_process
  <2>1. ASSUME NEW w \in Workers, fork(w) PROVE NodesAlone
    BY <2>1 DEF NodeInv, fork, NodesAlone
  <2>2. CASE fork_fails
    BY <2>2 DEF NodeInv, fork_fails, Goto, NodesAlone
  <2>3. ASSUME NEW S, waitpid(S, "waitpid", "waitany") \/ waitpid(S, "waitany", "accept")
        PROVE  NodesAlone
    BY <2>3 DEF NodeInv, waitpid, Zombies, NodesAlone
  <2> QED
    BY <1>6, <2>1, <2>2, <2>3, CloseLeavesNodes DEF dispatch_process
<1> QED
  BY <1>1, <1>2, <1>3, <1>4, <1>5, <1>6 DEF serve_forever

LEMMA PopKeepsNodes ==
  ASSUME NodeInv, LockHeld, NEW w \in Workers, wq_pop(w)
  PROVE  NodeInv'
<1> w \in Runners /\ Workers \subseteq Runners
  BY DEF Runners
<1>1. CASE \/ Lock(w, "pop", "test") \/ Test(w) \/ Sleep(w) \/ WakeUp(w)
           \/ Unlock(w, "popped", "free")
  <2>1. NodesAlone
    BY <1>1 DEF NodeInv, Lock, Test, Sleep, WakeUp, Unlock, Goto, NodesAlone
  <2> QED
    BY <2>1, AloneKeepsNodes
<1>2. CASE Take(w)
  BY <1>2, TakeKeepsNodes
<1>3. CASE Free(w)
  BY <1>3, FreeKeepsNodes
<1> QED
  BY <1>1, <1>2, <1>3 DEF wq_pop

LEMMA NodeStep ==
  ASSUME NodeInv, LockHeld, WithPool => FileInv, [Next]_vars
  PROVE  NodeInv'
<1> Main \in Runners /\ Main \notin Workers /\ Workers \subseteq Runners
  BY RunnerAssumption DEF Runners
<1>1. CASE UNCHANGED vars
  <2>1. NodesAlone
    BY <1>1 DEF NodesAlone, vars, process
  <2> QED
    BY <2>1, AloneKeepsNodes
<1>2. ASSUME NEW c \in Clients, Connect(c) \/ Say(c) PROVE NodeInv'
  <2>1. NodesAlone
    BY <1>2 DEF Connect, Say, NodesAlone, process
  <2> QED
    BY <2>1, AloneKeepsNodes
<1>3. CASE dispatch_pool
  <2>1. CASE Lock(Main, "dispatch", "append") \/ Broadcast(Main, "broadcast", "pushed")
             \/ Unlock(Main, "pushed", "accept")
    <3>1. NodesAlone
      BY <2>1 DEF NodeInv, Lock, Broadcast, Unlock, Goto, NodesAlone
    <3> QED
      BY <3>1, AloneKeepsNodes
  <2>2. CASE Append(Main, "append", "broadcast")
    <3>1. up /\ pc[Main] = "append"
      BY <1>3, <2>2 DEF dispatch_pool, Append, Goto, Running, Proc
    <3>2. fd[Main] \in FDs
      BY <1>3, <3>1 DEF dispatch_pool, WithPool, FileInv, HeldByThread, Holding
    <3> QED
      BY <2>2, <3>2, AppendKeepsNodes
  <2> QED
    BY <1>3, <2>1, <2>2 DEF dispatch_pool, wq_push
<1>4. CASE serve_forever
  BY <1>3, <1>4, MainLeavesNodes, AloneKeepsNodes
<1>5. ASSUME NEW w \in Workers, worker(w) PROVE NodeInv'
  <2>1. CASE handle_files_request(w) \/ close(w, "close", "none") \/ close(w, "close", "pop")
    BY <2>1, HandlerLeavesNodes, CloseLeavesNodes, AloneKeepsNodes
  <2>2. CASE Goto(w, "start", "read") /\ UNCHANGED <<wq_item, wq>>
    <3>1. NodesAlone
      BY <2>2 DEF NodeInv, Goto, NodesAlone
    <3> QED
      BY <3>1, AloneKeepsNodes
  <2>3. CASE child_exits(w)
    <3>1. NodesAlone
      BY <2>3 DEF NodeInv, child_exits, Goto, NodesAlone
    <3> QED
      BY <3>1, AloneKeepsNodes
  <2>4. CASE wq_pop(w)
    BY <2>4, PopKeepsNodes
  <2> QED
    BY <1>5, <2>1, <2>2, <2>3, <2>4 DEF worker, handle_client, child, handle_clients
<1>6. ASSUME NEW w \in Workers, Spurious(w) PROVE NodeInv'
  <2>1. NodesAlone
    BY <1>6 DEF Spurious, NodesAlone, process
  <2> QED
    BY <2>1, AloneKeepsNodes
<1>7. CASE signal_callback_handler
  <2>1. NodesAlone
    BY <1>7 DEF signal_callback_handler, Exit, NodesAlone
  <2> QED
    BY <2>1, AloneKeepsNodes
<1> QED
  BY <1>1, <1>2, <1>4, <1>5, <1>6, <1>7 DEF Next
-----------------------------------------------------------------------------
LEMMA SameQueue ==
  ASSUME UNCHANGED <<head, next, size>>
  PROVE  Queued' = Queued
<1>1. node' = node
  BY DEF node
<1> QED
  BY <1>1 DEF Queued

LEMMA PoolPopKeepsFiles ==
  ASSUME FileInv, NodeInv, WithPool, NEW w \in Workers, wq_pop(w)
  PROVE  FileInv'
<1> w \in Runners /\ Workers \subseteq Runners
  BY DEF Runners
<1>1. DOMAIN pc = Runners
  BY DEF NodeInv
<1>2. CASE \/ Lock(w, "pop", "test") \/ Test(w) \/ Sleep(w) \/ WakeUp(w)
           \/ Unlock(w, "popped", "free")
  <2>1. UNCHANGED wq
    BY <1>2 DEF Lock, Test, Sleep, WakeUp, Unlock
  <2>2. Queued' = Queued /\ client_socket_fd' = client_socket_fd
    BY <2>1, SameQueue DEF wq, list
  <2>3. FilesAlone
    BY <1>1, <1>2, <2>2 DEF Lock, Test, Sleep, WakeUp, Unlock, Goto, FilesAlone, Holding, outcome
  <2> QED
    BY <2>3, AloneKeepsFiles
<1>3. CASE Take(w)
  <2>1. up
    BY <1>3 DEF Take, Goto, Running, Proc, WithPool
  <2> QED
    BY <1>3, <2>1, TakeKeepsFiles
<1>4. CASE Free(w)
  <2>1. Queued' = Queued /\ client_socket_fd' = client_socket_fd
    BY <1>4, SameQueue DEF Free, free, list
  <2>2. FilesAlone
    BY <1>1, <1>4, <2>1 DEF Free, free, Goto, FilesAlone, Holding, outcome
  <2> QED
    BY <2>2, AloneKeepsFiles
<1> QED
  BY <1>2, <1>3, <1>4 DEF wq_pop

LEMMA PushKeepsFiles ==
  ASSUME FileInv, NodeInv, WithPool, wq_push(Main)
  PROVE  FileInv'
<1> Main \in Runners
  BY DEF Runners
<1>1. DOMAIN pc = Runners
  BY DEF NodeInv
<1>2. CASE Lock(Main, "dispatch", "append") \/ Broadcast(Main, "broadcast", "pushed")
           \/ Unlock(Main, "pushed", "accept")
  <2>1. UNCHANGED wq
    BY <1>2 DEF Lock, Broadcast, Unlock
  <2>2. Queued' = Queued /\ client_socket_fd' = client_socket_fd
    BY <2>1, SameQueue DEF wq, list
  <2>3. FilesAlone
    BY <1>1, <1>2, <2>2 DEF Lock, Broadcast, Unlock, Goto, FilesAlone, Holding, outcome
  <2> QED
    BY <2>3, AloneKeepsFiles
<1>3. CASE Append(Main, "append", "broadcast")
  <2>1. up
    BY <1>3 DEF Append, Goto, Running, Proc, WithPool
  <2> QED
    BY <1>3, <2>1, AppendKeepsFiles
<1> QED
  BY <1>2, <1>3 DEF wq_push

LEMMA FileStep ==
  ASSUME FileInv, NodeInv, WithPool, [Next]_vars
  PROVE  FileInv'
<1> Main \in Runners /\ Main \notin Workers /\ Workers \subseteq Runners /\ Pool \subseteq Workers
  BY RunnerAssumption DEF Runners
<1>1. DOMAIN pc = Runners /\ DOMAIN conn = Clients /\ DOMAIN said = Clients
  BY DEF FileInv, FileTypes
<1>2. CASE UNCHANGED vars
  <2>1. Queued' = Queued /\ client_socket_fd' = client_socket_fd
    BY <1>2, SameQueue DEF vars, wq, list
  <2>2. FilesAlone
    BY <1>2, <2>1 DEF FilesAlone, vars, process, outcome
  <2> QED
    BY <2>2, AloneKeepsFiles
<1>3. ASSUME NEW c \in Clients, Connect(c) \/ Say(c) \/ AcceptFails(c) PROVE FileInv'
  <2>1. Queued' = Queued /\ client_socket_fd' = client_socket_fd
    BY <1>3, SameQueue DEF Connect, Say, AcceptFails, wq, list
  <2>2. FilesAlone
    BY <1>1, <1>3, <2>1 DEF Connect, Say, AcceptFails, FilesAlone, process, outcome
  <2> QED
    BY <2>2, AloneKeepsFiles
<1>4. CASE new_dispatcher
  <2>1. Queued' = Queued /\ client_socket_fd' = client_socket_fd
    BY <1>4, SameQueue DEF new_dispatcher, wq, list
  <2>2. \A r \in Runners :
          pc'[r] = pc[r] \/ (pc[r] \in {"new", "none"} /\ pc'[r] \in {"pop", "missing", "accept"})
    BY <1>1, <1>4 DEF new_dispatcher, Untried
  <2>3. FilesAlone
    BY <1>1, <1>4, <2>1, <2>2 DEF new_dispatcher, FilesAlone, outcome, Holding
  <2> QED
    BY <2>3, AloneKeepsFiles
<1>5. CASE serve_forever
  BY <1>3, <1>4, <1>5, AcceptKeepsFiles, PushKeepsFiles DEF serve_forever, WithPool,
    dispatch_basic, dispatch_thread, dispatch_thread_fails, dispatch_process, dispatch_pool
<1>6. ASSUME NEW w \in Workers, worker(w) PROVE FileInv'
  <2>1. CASE http_request_parse(w)
    <3>1. Queued' = Queued /\ client_socket_fd' = client_socket_fd
      BY <2>1, SameQueue DEF http_request_parse, wq, list
    <3>2. FilesAlone
      BY <1>1, <2>1, <3>1 DEF http_request_parse, Goto, FilesAlone, outcome, Holding
    <3> QED
      BY <3>2, AloneKeepsFiles
  <2>2. CASE Answer(w)
    BY <2>2, AnswerKeepsFiles
  <2>3. CASE Crash(w)
    BY <2>3, ExitKeepsFiles DEF Crash, Proc, WithPool, outcome
  <2>4. CASE close(w, "close", "pop")
    BY <2>4, CloseKeepsFiles
  <2>5. CASE wq_pop(w)
    BY <2>5, PoolPopKeepsFiles
  <2> QED
    BY <1>6, <2>1, <2>2, <2>3, <2>4, <2>5
    DEF worker, handle_client, child, handle_clients, handle_files_request, WithPool
<1>7. ASSUME NEW w \in Workers, Spurious(w) PROVE FileInv'
  <2>1. Queued' = Queued /\ client_socket_fd' = client_socket_fd
    BY <1>7, SameQueue DEF Spurious, wq, list
  <2>2. FilesAlone
    BY <1>7, <2>1 DEF Spurious, FilesAlone, process, outcome
  <2> QED
    BY <2>2, AloneKeepsFiles
<1>8. CASE signal_callback_handler
  BY <1>8, ExitKeepsFiles DEF signal_callback_handler, outcome
<1> QED
  BY <1>2, <1>3, <1>5, <1>6, <1>7, <1>8 DEF Next

(* The invariant of the pool, and of the queue that the others never use.  *)
PoolInv == NodeInv /\ (WithPool => FileInv)

LEMMA PoolInvariance == Spec => [](WakeInv /\ PoolInv)
<1>1. Init => WakeInv /\ PoolInv
  BY WakeStart, NodeStart, FileStart DEF PoolInv
<1>2. WakeInv /\ PoolInv /\ [Next]_vars => (WakeInv /\ PoolInv)'
  <2> SUFFICES ASSUME WakeInv, PoolInv, [Next]_vars PROVE (WakeInv /\ PoolInv)'
    OBVIOUS
  <2>1. LockHeld
    BY DEF WakeInv
  <2>2. build' = build
    BY SameBuild
  <2> QED
    BY <2>1, <2>2, WakeStep, NodeStep, FileStep DEF PoolInv, WithPool
<1> QED
  BY <1>1, <1>2, PTL DEF Spec
-----------------------------------------------------------------------------
(* The executable is one of the four, from the start.                      *)
LEMMA KnownBuild == Spec => [](build \in EXECUTABLES)
<1>1. Init => build \in EXECUTABLES
  BY ServerAssumption DEF Init
<1>2. build \in EXECUTABLES /\ [Next]_vars => (build \in EXECUTABLES)'
  BY SameBuild
<1> QED
  BY <1>1, <1>2, PTL DEF Spec

(* The list of wq.c is well formed whatever is pushed and popped, size is  *)
(* its length, and each node is freed once and not used after that, for    *)
(* any number of workers and connections (wq.c:15-28, wq.c:31-40).         *)
THEOREM QueueSound == Spec => []QueueOK
<1>1. NodeInv => QueueOK
  <2> SUFFICES ASSUME NodeInv PROVE QueueOK
    OBVIOUS
  <2>1. Steps(node, head, next) /\ size \in Nat /\ Queued \subseteq Items
    BY Nodes DEF NodeInv, Links, ListOK
  <2>2. ASSUME size # 0 PROVE head # NULL
    <3>1. node[0] \in Queued
      BY <2>1, <2>2 DEF Queued
    <3> QED
      BY <2>1, <3>1, ItemsAssumption DEF Steps
  <2> QED
    BY <2>2 DEF NodeInv, QueueOK, Popped
<1> QED
  BY <1>1, PoolInvariance, PTL DEF PoolInv

LEMMA ServeCustody ==
  ASSUME NoPool, ServeInv
  PROVE  Custody
<1> USE DEF ServeInv
<1>1. Queued = {}
  BY DEF Types, Queued
<1>2. ASSUME up, NEW f \in FDs, table[Main][f] = NULL PROVE Keepers(f) = {}
  <2>1. \A r \in Runners : ~(Proc(r) = Main /\ Holding(r) /\ fd[r] = f)
    BY <1>2, FDAssumption DEF Held, Holder, Running, Served
  <2> QED
    BY <1>1, <2>1 DEF Keepers
<1>3. ASSUME up, NEW f \in FDs, build = "httpserver_thread" /\ table[Main][f] \in failed
      PROVE  Keepers(f) = {}
  <2>1. \A r \in Runners : ~(Proc(r) = Main /\ Holding(r) /\ fd[r] = f)
    BY <1>3 DEF Held, Holder, Running, Served
  <2> QED
    BY <1>1, <2>1 DEF Keepers
<1>4. ASSUME up, NEW f \in FDs, table[Main][f] # NULL,
             ~(build = "httpserver_thread" /\ table[Main][f] \in failed)
      PROVE  Cardinality(Keepers(f)) = 1
  <2>1. PICK r \in Runners : Proc(r) = Main /\ Holding(r) /\ fd[r] = f
    BY <1>4 DEF Kept
  <2>2. \A s \in Runners : Proc(s) = Main /\ Holding(s) /\ fd[s] = f => s = r
    <3> SUFFICES ASSUME NEW s \in Runners, Proc(s) = Main, Holding(s), fd[s] = f PROVE s = r
      OBVIOUS
    <3>1. CASE build = "httpserver_process"
      BY <2>1, <3>1 DEF Proc
    <3>2. CASE build # "httpserver_process"
      BY <1>4, <2>1, <3>2 DEF Alone, Holder, Running, Served, Parting
    <3> QED
      BY <3>1, <3>2
  <2>3. Keepers(f) = {r}
    BY <1>1, <2>1, <2>2 DEF Keepers
  <2> QED
    BY <2>3, FS_Singleton
<1>5. ASSUME NEW f \in FDs, up
      PROVE  CASE table[Main][f] = NULL -> Keepers(f) = {}
               [] build = "httpserver_thread" /\ table[Main][f] \in failed -> Keepers(f) = {}
               [] OTHER -> Cardinality(Keepers(f)) = 1
  BY <1>2, <1>3, <1>4, <1>5
<1> QED
  BY <1>5 DEF Custody, ChildHasOne

LEMMA PoolCustody == ASSUME WithPool, FileInv PROVE Custody
<1> USE DEF FileInv
<1>1. \A r \in Runners : Proc(r) = Main
  BY DEF Proc, WithPool
<1>2. ASSUME up, NEW f \in FDs, table[Main][f] = NULL PROVE Keepers(f) = {}
  BY <1>2 DEF HeldByThread, HeldByNode, Keepers
<1>3. ASSUME up, NEW f \in FDs, table[Main][f] # NULL PROVE Cardinality(Keepers(f)) = 1
  <2>1. CASE \E r \in Runners : Holding(r) /\ fd[r] = f
    <3>1. PICK r \in Runners : Holding(r) /\ fd[r] = f
      BY <2>1
    <3>2. \A s \in Runners : Holding(s) /\ fd[s] = f => s = r
      BY <1>3, <3>1 DEF HeldByOne
    <3>3. \A i \in Queued : client_socket_fd[i] # f
      BY <1>3, <3>1 DEF HeldByOne
    <3>4. Keepers(f) = {r}
      BY <1>1, <3>1, <3>2, <3>3 DEF Keepers
    <3> QED
      BY <3>4, FS_Singleton, Zenon
  <2>2. CASE ~\E r \in Runners : Holding(r) /\ fd[r] = f
    <3>1. PICK i \in Queued : client_socket_fd[i] = f
      BY <1>3, <2>2 DEF HeldBySome
    <3>2. \A j \in Queued : client_socket_fd[j] = f => j = i
      BY <1>3, <3>1 DEF HeldByOne
    <3>3. Keepers(f) = {i}
      BY <2>2, <3>1, <3>2 DEF Keepers
    <3> QED
      BY <3>3, FS_Singleton, Zenon
  <2> QED
    BY <2>1, <2>2
<1> QED
  BY <1>2, <1>3 DEF Custody, WithPool

(* Every open descriptor has exactly one who closes it, and a child has    *)
(* none but that of its connection, however many threads, children and     *)
(* clients there are (httpserver_thread.c:35, httpserver_process.c:20-27,  *)
(* httpserver_pool.c:23).                                                  *)
THEOREM Custodians == Spec => []Custody
<1>1. build \in EXECUTABLES => NoPool \/ WithPool
  BY DEF NoPool, WithPool
<1> QED
  BY <1>1, ServeCustody, PoolCustody, ServeInvariance, PoolInvariance, KnownBuild, PTL DEF PoolInv

LEMMA ServeAnswers ==
  ASSUME NoPool, ServeInv
  PROVE  ServedOnce
<1> SUFFICES ASSUME NEW c \in Clients
             PROVE  /\ answers[c] <= 1
                    /\ conn[c] = "accepted" /\ ~Open(c) /\ up =>
                         \/ answers[c] = 1
                         \/ build = "httpserver_process" /\ (c \in failed \/ said[c] # "request")
  BY DEF ServedOnce
<1> USE DEF ServeInv
<1>1. Due(c) => Open(c)
  <2>1. ASSUME NEW r \in Runners, Holder(r), Served(r) = c PROVE Open(c)
    BY <2>1 DEF Held, Served, Open, Proc, Runners
  <2> QED
    BY <2>1 DEF Due, Open, Runners
<1> QED
  BY <1>1 DEF AtMostOnce, NobodyLost

LEMMA PoolServedOnce == ASSUME WithPool, FileInv PROVE ServedOnce
<1> Main \in Runners
  BY DEF Runners
<1> QED
  BY DEF FileInv, AtMostOnce, NoneLost, ServedOnce, Open

(* And each connection is answered at most once, and before the server     *)
(* closes it, unless no child was made for it or the child died            *)
(* (httpserver_thread.c:18, httpserver_process.c:16-20,                    *)
(* httpserver_pool.c:22).                                                  *)
THEOREM Answered == Spec => []ServedOnce
<1>1. build \in EXECUTABLES => NoPool \/ WithPool
  BY DEF NoPool, WithPool
<1> QED
  BY <1>1, ServeAnswers, PoolServedOnce, ServeInvariance, PoolInvariance, KnownBuild, PTL
  DEF PoolInv
-----------------------------------------------------------------------------
(* What no other invariant says of the values of the variables.            *)
Shape ==
  /\ build \in Builds /\ up \in BOOLEAN
  /\ conn \in [Clients -> {"away", "backlog", "accepted", "aborted"}]
  /\ said \in [Clients -> Requests \cup {"nothing"}]
  /\ table \in [Runners -> [FDs -> Clients \cup {NULL}]]
  /\ pc \in [Runners -> PCs]
  /\ fd \in [Runners -> FDs \cup {NULL}]
  /\ cpid \in Workers \cup {Nobody}
  /\ answers \in [Clients -> Nat]
  /\ failed \subseteq Clients
  /\ owner \in Runners \cup {Nobody}
  /\ waiters \in [{CondVar} -> SUBSET Workers]

LEMMA ShapeStart == Init => Shape
<1> SUFFICES ASSUME Init PROVE Shape
  OBVIOUS
<1>1. build \in Builds /\ up \in BOOLEAN /\ failed \subseteq Clients
  BY DEF Init
<1>2. pc \in [Runners -> PCs]
  BY DEF Init, PCs
<1>3. table \in [Runners -> [FDs -> Clients \cup {NULL}]] /\ fd \in [Runners -> FDs \cup {NULL}]
  BY DEF Init, NoFiles
<1>4. conn \in [Clients -> {"away", "backlog", "accepted", "aborted"}]
  BY DEF Init
<1>5. said \in [Clients -> Requests \cup {"nothing"}]
  BY DEF Init
<1>6. answers \in [Clients -> Nat] /\ cpid \in Workers \cup {Nobody}
  BY DEF Init
<1>7. owner \in Runners \cup {Nobody} /\ waiters \in [{CondVar} -> SUBSET Workers]
  BY DEF Init, SyncInit
<1> QED
  BY <1>1, <1>2, <1>3, <1>4, <1>5, <1>6, <1>7 DEF Shape


LEMMA HandlerShape ==
  ASSUME Shape, NEW r \in Runners, handle_files_request(r)
  PROVE  Shape'
<1> Main \in Runners
  BY DEF Runners
<1>1. CASE http_request_parse(r)
  BY <1>1 DEF http_request_parse, Goto, Shape, PCs, outcome, sync
<1>2. CASE Answer(r)
  <2>1. pc' \in [Runners -> PCs]
    BY <1>2 DEF Answer, Goto, Shape, PCs
  <2>2. answers' \in [Clients -> Nat]
    BY <1>2 DEF Answer, Shape
  <2> QED
    BY <1>2, <2>1, <2>2 DEF Answer, Shape, sync
<1>3. CASE Crash(r)
  <2>1. NoFiles \in [FDs -> Clients \cup {NULL}] /\ "zombie" \in PCs
    BY DEF NoFiles, PCs
  <2>2. table' \in [Runners -> [FDs -> Clients \cup {NULL}]] /\ pc' \in [Runners -> PCs]
        /\ up' \in BOOLEAN
    BY <1>3, <2>1 DEF Crash, Exit, Shape
  <2> QED
    BY <1>3, <2>2 DEF Crash, Shape, outcome, sync
<1> QED
  BY <1>1, <1>2, <1>3 DEF handle_files_request

LEMMA CloseShape ==
  ASSUME Shape, NEW r \in Runners, NEW from, NEW to \in PCs, close(r, from, to)
  PROVE  Shape'
<1>1. pc' \in [Runners -> PCs]
  BY DEF close, Goto, Shape
<1>2. Proc(r) \in Runners
  BY DEF Proc, Runners
<1>3. table' \in [Runners -> [FDs -> Clients \cup {NULL}]]
  BY <1>2 DEF close, Shape
<1> QED
  BY <1>1, <1>3 DEF close, Shape, outcome, sync

LEMMA ExitShape ==
  ASSUME Shape, Exit, UNCHANGED <<build, conn, said, fd, cpid, answers, sync>>, failed' \subseteq Clients
  PROVE  Shape'
<1>1. NoFiles \in [FDs -> Clients \cup {NULL}]
  BY DEF NoFiles
<1>2. table' \in [Runners -> [FDs -> Clients \cup {NULL}]]
  BY <1>1 DEF Exit, Shape
<1> QED
  BY <1>2 DEF Exit, Shape, sync

LEMMA ClientShape ==
  ASSUME Shape, NEW c \in Clients, Connect(c) \/ Say(c) \/ AcceptFails(c)
  PROVE  Shape'
<1>1. CASE Connect(c)
  BY <1>1 DEF Connect, Shape, process, outcome, sync
<1>2. CASE Say(c)
  BY <1>2 DEF Say, Shape, process, outcome, sync
<1>3. CASE AcceptFails(c)
  BY <1>3 DEF AcceptFails, Shape, process, outcome, sync
<1> QED
  BY <1>1, <1>2, <1>3

LEMMA AcceptShape ==
  ASSUME Shape, NEW c \in Clients, Accept(c)
  PROVE  Shape'
<1> Main \in Runners
  BY DEF Runners
<1>1. PICK f \in FDs : fd' = [fd EXCEPT ![Main] = f]
                       /\ table' = [table EXCEPT ![Main] = [@ EXCEPT ![f] = c]]
  BY DEF Accept, FreeFDs
<1>2. table' \in [Runners -> [FDs -> Clients \cup {NULL}]] /\ fd' \in [Runners -> FDs \cup {NULL}]
  BY <1>1 DEF Shape
<1>3. pc' \in [Runners -> PCs]
  BY DEF Accept, Goto, Shape, PCs
<1> QED
  BY <1>2, <1>3 DEF Accept, Shape, outcome, sync

LEMMA ProcessShape ==
  ASSUME Shape, dispatch_process, fork_fails => Served(Main) \in Clients
  PROVE  Shape'
<1> Main \in Runners /\ Workers \subseteq Runners
  BY DEF Runners
<1> {"accept", "close", "read", "waitpid", "waitany", "none"} \subseteq PCs
  BY DEF PCs
<1>1. ASSUME NEW w \in Workers, fork(w) PROVE Shape'
  <2>1. pc' \in [Runners -> PCs]
    BY <1>1 DEF fork, Shape
  <2> QED
    BY <1>1, <2>1 DEF fork, Shape, outcome, sync
<1>2. CASE fork_fails
  BY <1>2 DEF dispatch_process, fork_fails, Goto, Shape, sync
<1>3. ASSUME NEW S, NEW from, NEW to \in PCs, waitpid(S, from, to) PROVE Shape'
  <2>1. pc' \in [Runners -> PCs]
    BY <1>3 DEF waitpid, Zombies, Shape
  <2> QED
    BY <1>3, <2>1 DEF waitpid, Shape, outcome, sync
<1> QED
  BY <1>1, <1>2, <1>3, CloseShape DEF dispatch_process

LEMMA MainShape ==
  ASSUME Shape, NoPool => ServeInv, build \in EXECUTABLES, serve_forever, ~dispatch_pool
  PROVE  Shape'
<1> Main \in Runners /\ Workers \subseteq Runners /\ Pool \subseteq Workers
  BY RunnerAssumption DEF Runners
<1> {"accept", "start", "pop", "missing"} \subseteq PCs
  BY DEF PCs
<1>1. ASSUME build \in {"httpserver_thread", "httpserver_process"}, up, pc[Main] = "dispatch"
      PROVE  Served(Main) \in Clients
  BY <1>1 DEF NoPool, ServeInv, Held, Holder, Holding, Running
<1>2. CASE new_dispatcher
  <2>1. pc' \in [Runners -> PCs]
    BY <1>2 DEF new_dispatcher, Untried, Shape
  <2> QED
    BY <1>2, <2>1 DEF new_dispatcher, Shape, outcome, sync
<1>3. CASE dispatch_basic
  BY <1>3, HandlerShape, CloseShape DEF dispatch_basic
<1>4. ASSUME NEW w \in Workers, dispatch_thread(w) PROVE Shape'
  <2>1. pc' \in [Runners -> PCs]
    BY <1>4 DEF dispatch_thread, Shape
  <2> QED
    BY <1>4, <2>1 DEF dispatch_thread, Shape, outcome, sync
<1>5. CASE dispatch_thread_fails
  <2>1. failed' \subseteq Clients
    BY <1>1, <1>5 DEF dispatch_thread_fails, Running, Proc, Shape
  <2>2. CASE Exit
    BY <1>5, <2>1, <2>2, ExitShape DEF dispatch_thread_fails
  <2>3. CASE Goto(Main, "dispatch", "accept") /\ UNCHANGED <<up, table>>
    BY <1>5, <2>1, <2>3 DEF dispatch_thread_fails, Goto, Shape, sync
  <2> QED
    BY <1>5, <2>2, <2>3 DEF dispatch_thread_fails
<1>6. CASE dispatch_process
  <2>1. ASSUME fork_fails PROVE Served(Main) \in Clients
    BY <1>1, <1>6, <2>1 DEF dispatch_process, fork_fails, Goto, Running, Proc
  <2> QED
    BY <1>6, <2>1, ProcessShape
<1> QED
  BY <1>2, <1>3, <1>4, <1>5, <1>6, ClientShape, AcceptShape DEF serve_forever

(* The steps of wq.c but wq_pop's taking the head.                         *)
LEMMA SyncShape ==
  ASSUME Shape, NEW r \in Runners, NEW from, NEW to \in PCs, Goto(r, from, to),
         owner' \in Runners \cup {Nobody}, waiters' \in [{CondVar} -> SUBSET Workers],
         UNCHANGED <<build, up, conn, said, table, fd, cpid, outcome>>
  PROVE  Shape'
<1>1. pc' \in [Runners -> PCs]
  BY DEF Goto, Shape
<1> QED
  BY <1>1 DEF Shape, outcome

LEMMA PushShape ==
  ASSUME Shape, wq_push(Main)
  PROVE  Shape'
<1> Main \in Runners
  BY DEF Runners
<1> {"append", "broadcast", "pushed", "accept"} \subseteq PCs
  BY DEF PCs
<1>1. owner \in Runners \cup {Nobody} /\ waiters \in [{CondVar} -> SUBSET Workers]
  BY DEF Shape
<1>2. CASE Lock(Main, "dispatch", "append")
  BY <1>1, <1>2, SyncShape DEF Lock, MutexLock
<1>3. CASE Append(Main, "append", "broadcast")
  BY <1>1, <1>3, SyncShape DEF Append, sync
<1>4. CASE Broadcast(Main, "broadcast", "pushed")
  BY <1>1, <1>4, SyncShape DEF Broadcast, CondBroadcast
<1>5. CASE Unlock(Main, "pushed", "accept")
  BY <1>1, <1>5, SyncShape DEF Unlock, MutexUnlock
<1> QED
  BY <1>2, <1>3, <1>4, <1>5 DEF wq_push

LEMMA PopShape ==
  ASSUME Shape, Links, NEW w \in Workers, wq_pop(w)
  PROVE  Shape'
<1> w \in Runners
  BY DEF Runners
<1> {"test", "wait", "take", "asleep", "popped", "free", "read"} \subseteq PCs
  BY DEF PCs
<1>1. owner \in Runners \cup {Nobody} /\ waiters \in [{CondVar} -> SUBSET Workers]
  BY DEF Shape
<1>2. CASE Lock(w, "pop", "test")
  BY <1>1, <1>2, SyncShape DEF Lock, MutexLock
<1>3. CASE Test(w)
  BY <1>1, <1>3, SyncShape DEF Test, sync
<1>4. CASE Sleep(w)
  <2>1. waiters' \in [{CondVar} -> SUBSET Workers]
    BY <1>1, <1>4 DEF Sleep, CondWait
  <2> QED
    BY <1>4, <2>1, SyncShape DEF Sleep, CondWait
<1>5. CASE WakeUp(w)
  BY <1>1, <1>5, SyncShape DEF WakeUp, CondReturn, MutexLock
<1>6. CASE Take(w)
  <2>1. fd' \in [Runners -> FDs \cup {NULL}]
    BY <1>6 DEF Take, Shape, Links
  <2>2. pc' \in [Runners -> PCs]
    BY <1>6 DEF Take, Goto, Shape
  <2> QED
    BY <1>6, <2>1, <2>2 DEF Take, Shape, outcome, sync
<1>7. CASE Unlock(w, "popped", "free")
  BY <1>1, <1>7, SyncShape DEF Unlock, MutexUnlock
<1>8. CASE Free(w)
  BY <1>1, <1>8, SyncShape DEF Free, sync
<1> QED
  BY <1>2, <1>3, <1>4, <1>5, <1>6, <1>7, <1>8 DEF wq_pop

LEMMA WorkerShape ==
  ASSUME Shape, Links, NEW w \in Workers, worker(w) \/ Spurious(w)
  PROVE  Shape'
<1> w \in Runners
  BY DEF Runners
<1> {"read", "none", "pop", "zombie"} \subseteq PCs
  BY DEF PCs
<1>1. owner \in Runners \cup {Nobody} /\ waiters \in [{CondVar} -> SUBSET Workers]
  BY DEF Shape
<1>2. CASE handle_client(w)
  <2>1. CASE Goto(w, "start", "read")
             /\ UNCHANGED <<build, up, conn, said, table, fd, wq_item, cpid, outcome, wq, sync>>
    BY <1>1, <2>1, SyncShape DEF sync
  <2> QED
    BY <1>2, <2>1, HandlerShape, CloseShape DEF handle_client
<1>3. CASE child(w)
  <2>1. CASE child_exits(w)
    <3>1. pc' \in [Runners -> PCs]
      BY <2>1 DEF child_exits, Goto, Shape
    <3>2. NoFiles \in [FDs -> Clients \cup {NULL}]
      BY DEF NoFiles
    <3>3. table' \in [Runners -> [FDs -> Clients \cup {NULL}]]
      BY <2>1, <3>2 DEF child_exits, Shape
    <3> QED
      BY <2>1, <3>1, <3>3 DEF child_exits, Shape, outcome, sync
  <2> QED
    BY <1>3, <2>1, HandlerShape DEF child
<1>4. CASE handle_clients(w)
  BY <1>4, PopShape, HandlerShape, CloseShape DEF handle_clients
<1>5. CASE Spurious(w)
  <2>1. waiters' \in [{CondVar} -> SUBSET Workers] /\ owner' = owner
    BY <1>1, <1>5 DEF Spurious, SpuriousWakeup
  <2> QED
    BY <1>5, <2>1 DEF Spurious, Shape, process, outcome
<1> QED
  BY <1>2, <1>3, <1>4, <1>5 DEF worker

LEMMA ShapeStep ==
  ASSUME Shape, NoPool => ServeInv, build \in EXECUTABLES, Links, [Next]_vars
  PROVE  Shape'
<1>1. CASE UNCHANGED vars
  BY <1>1 DEF vars, Shape, process, outcome, sync
<1>2. CASE serve_forever
  BY <1>2, MainShape, PushShape DEF dispatch_pool
<1>3. CASE signal_callback_handler
  BY <1>3, ExitShape DEF signal_callback_handler, outcome, Shape
<1> QED
  BY <1>1, <1>2, <1>3, ClientShape, WorkerShape DEF Next
-----------------------------------------------------------------------------
(* The queue has no more nodes than there are descriptors ...              *)
LEMMA FewWaiting ==
  ASSUME FileInv, NodeInv, up
  PROVE  size <= Cardinality(FDs)
<1> DEFINE f == [k \in 0 .. size - 1 |-> client_socket_fd[node[k]]]
<1>1. size \in Nat
  BY DEF NodeInv, Links
<1>2. \A k \in 0 .. size - 1 : node[k] \in Queued
  BY DEF Queued
<1>3. f \in Injection(0 .. size - 1, FDs)
  <2>1. \A k \in 0 .. size - 1 : f[k] \in FDs
    BY <1>2 DEF FileInv, HeldByNode
  <2>2. ASSUME NEW j \in 0 .. size - 1, NEW k \in 0 .. size - 1, f[j] = f[k] PROVE j = k
    <3>1. node[j] = node[k]
      BY <1>2, <2>2 DEF FileInv, HeldByOne
    <3> QED
      BY <3>1 DEF NodeInv, ListOK
  <2> QED
    BY <2>1, <2>2 DEF Injection, IsInjective
<1>4. Cardinality(0 .. size - 1) <= Cardinality(FDs)
  <2>1. IsFiniteSet(FDs)
    BY FDAssumption
  <2> HIDE DEF f
  <2> QED
    BY <1>3, <2>1, FS_Injection
<1>5. Cardinality(0 .. size - 1) = size
  BY <1>1, FS_Interval
<1> QED
  BY <1>4, <1>5
-----------------------------------------------------------------------------
(* The steps of the pool that change the queue or who took from it.        *)
LEMMA QueueSteps ==
  ASSUME WithPool, DOMAIN fd = Runners, [Next]_vars
  PROVE  \/ up /\ up' /\ Append(Main, "append", "broadcast")
         \/ \E w \in Workers : up /\ up' /\ Take(w)
         \/ UNCHANGED <<list, size>> /\ \A w \in Workers : fd'[w] = fd[w]
<1> DEFINE Aside == UNCHANGED <<list, size>> /\ \A w \in Workers : fd'[w] = fd[w]
<1> Main \notin Workers /\ Workers \subseteq Runners
  BY RunnerAssumption DEF Runners
<1>1. CASE UNCHANGED vars
  BY <1>1 DEF vars, wq
<1>2. ASSUME NEW c \in Clients, Connect(c) \/ Say(c) \/ Accept(c) \/ AcceptFails(c) PROVE Aside
  <2>1. CASE Accept(c)
    BY <2>1 DEF Accept, wq
  <2>2. CASE Connect(c) \/ Say(c) \/ AcceptFails(c)
    BY <2>2 DEF Connect, Say, AcceptFails, wq
  <2> QED
    BY <1>2, <2>1, <2>2
<1>3. CASE new_dispatcher
  BY <1>3 DEF new_dispatcher, wq
<1>4. CASE signal_callback_handler
  BY <1>4 DEF signal_callback_handler, wq
<1>5. ASSUME NEW w \in Workers, Spurious(w) PROVE Aside
  BY <1>5 DEF Spurious, wq
<1>6. CASE wq_push(Main)
  <2>1. CASE Append(Main, "append", "broadcast")
    BY <2>1 DEF Append, Goto, Running, Proc, WithPool
  <2>2. CASE ~Append(Main, "append", "broadcast")
    BY <1>6, <2>2 DEF wq_push, Lock, Broadcast, Unlock, wq
  <2> QED
    BY <2>1, <2>2
<1>7. CASE serve_forever
  BY <1>2, <1>3, <1>6, <1>7 DEF serve_forever, WithPool, dispatch_basic, dispatch_thread,
    dispatch_thread_fails, dispatch_process, dispatch_pool
<1>8. ASSUME NEW w \in Workers, worker(w) PROVE Aside \/ (up /\ up' /\ Take(w))
  <2>1. CASE handle_files_request(w) \/ close(w, "close", "pop")
    BY <2>1 DEF handle_files_request, http_request_parse, Answer, Crash, close, wq
  <2>2. CASE wq_pop(w) /\ ~Take(w)
    BY <2>2 DEF wq_pop, Lock, Test, Sleep, WakeUp, Unlock, Free, free, wq
  <2>3. CASE Take(w)
    BY <2>3 DEF Take, Goto, Running, Proc, WithPool
  <2> QED
    BY <1>8, <2>1, <2>2, <2>3 DEF worker, handle_client, child, handle_clients, WithPool
<1> QED
  BY <1>1, <1>2, <1>4, <1>5, <1>7, <1>8 DEF Next

(* ... and once the server has ended it stays as it was.                   *)
Typed == Shape /\ (~up => size <= Cardinality(FDs))

LEMMA TypedStep ==
  ASSUME Typed, NoPool => ServeInv, PoolInv, build \in EXECUTABLES, [Next]_vars
  PROVE  Typed'
<1>1. Shape' /\ Shape
  BY ShapeStep DEF Typed, PoolInv, NodeInv
<1>2. ASSUME ~up' PROVE size' <= Cardinality(FDs)
  <2>1. CASE NoPool
    <3>1. ServeInv'
      BY <2>1, ServeStep
    <3>2. size' = 0
      BY <3>1 DEF ServeInv, Types
    <3> QED
      BY <3>2, FDAssumption, FS_CardinalityType
  <2>2. CASE WithPool
    <3>1. size' = size
      BY <1>1, <1>2, <2>2, QueueSteps DEF Shape
    <3>2. CASE up
      BY <2>2, <3>1, <3>2, FewWaiting DEF PoolInv
    <3>3. CASE ~up
      BY <3>1, <3>3 DEF Typed
    <3> QED
      BY <3>2, <3>3
  <2> QED
    BY <2>1, <2>2 DEF NoPool, WithPool
<1> QED
  BY <1>1, <1>2 DEF Typed

LEMMA TypedInvariance == Spec => []Typed
<1>1. Init => Typed
  BY ShapeStart DEF Typed, Init
<1>2. /\ Typed /\ (NoPool => ServeInv) /\ PoolInv /\ build \in EXECUTABLES /\ [Next]_vars
      => Typed'
  BY TypedStep
<1> QED
  BY <1>1, <1>2, ServeInvariance, PoolInvariance, KnownBuild, PTL DEF Spec

(* Every variable keeps its type; the queue never has more nodes than the  *)
(* server has descriptors, and only connections that were accepted are     *)
(* counted as failed (server.c:203-217, wq.c:15-40).                       *)
THEOREM WellTyped == Spec => []TypeOK
<1>1. Typed /\ (NoPool => ServeInv) /\ PoolInv /\ build \in EXECUTABLES => TypeOK
  <2> SUFFICES ASSUME Typed, NoPool => ServeInv, PoolInv, build \in EXECUTABLES PROVE TypeOK
    OBVIOUS
  <2>1. Cardinality(FDs) \in Nat /\ size \in Nat
    BY FDAssumption, FS_CardinalityType DEF PoolInv, NodeInv, Links
  <2>2. size <= Cardinality(FDs)
    <3>1. CASE NoPool
      BY <2>1, <3>1 DEF ServeInv, Types
    <3>2. CASE WithPool
      BY <3>2, FewWaiting DEF PoolInv, Typed
    <3> QED
      BY <3>1, <3>2 DEF NoPool, WithPool
  <2> QED
    BY <2>1, <2>2 DEF TypeOK, Typed, Shape, PoolInv, NodeInv, Links
<1> QED
  BY <1>1, TypedInvariance, ServeInvariance, PoolInvariance, KnownBuild, PTL
-----------------------------------------------------------------------------
(* The list is not longer than there are addresses.                        *)
LEMMA RoomToAppend ==
  ASSUME NodeInv, NEW x \in FDs, append(x)
  PROVE  size < Cardinality(Items)
<1>1. PICK add \in Items \ allocated : TRUE
  BY DEF append
<1> DEFINE f == [k \in 0 .. size |-> IF k = size THEN add ELSE node[k]]
<1>2. size \in Nat /\ Queued \subseteq Items /\ add \in Items /\ add \notin Queued
  BY DEF NodeInv, Links, ListOK
<1>3. \A k \in 0 .. size : k # size => node[k] \in Queued /\ k \in 0 .. size - 1
  BY <1>2 DEF Queued
<1>4. f \in Injection(0 .. size, Items)
  <2>1. \A k \in 0 .. size : f[k] \in Items
    BY <1>2, <1>3
  <2>2. ASSUME NEW j \in 0 .. size, NEW k \in 0 .. size, f[j] = f[k] PROVE j = k
    <3>1. CASE j # size /\ k # size
      BY <1>3, <2>2, <3>1 DEF NodeInv, ListOK
    <3>2. CASE j = size \/ k = size
      BY <1>2, <1>3, <2>2, <3>2
    <3> QED
      BY <3>1, <3>2
  <2> QED
    BY <2>1, <2>2 DEF Injection, IsInjective
<1>5. Cardinality(0 .. size) <= Cardinality(Items)
  <2>1. IsFiniteSet(Items)
    BY ItemsAssumption
  <2> HIDE DEF f
  <2> QED
    BY <1>4, <2>1, FS_Injection
<1>6. Cardinality(0 .. size) = size + 1
  BY <1>2, FS_Interval
<1>7. Cardinality(Items) \in Nat
  BY ItemsAssumption, FS_CardinalityType
<1> QED
  BY <1>2, <1>5, <1>6, <1>7

LEMMA ContentsType ==
  ASSUME NodeInv
  PROVE  Contents \in Fifo!Seq(FDs \cup {NULL}) /\ Fifo!Len(Contents) = size
<1>1. size \in Nat
  BY DEF NodeInv, Links
<1>2. ASSUME NEW k \in 1 .. size PROVE client_socket_fd[node[k - 1]] \in FDs \cup {NULL}
  <2>1. k - 1 \in 0 .. size - 1
    BY <1>1
  <2>2. node[k - 1] \in Items
    BY <2>1 DEF Queued, NodeInv, ListOK, Links
  <2> QED
    BY <2>2 DEF NodeInv, Links
<1> QED
  BY <1>1, <1>2 DEF Contents

LEMMA AppendInserts ==
  ASSUME NodeInv, WithPool, up, DOMAIN fd = Runners, fd[Main] \in FDs,
         Append(Main, "append", "broadcast")
  PROVE  Fifo!Insert(fd[Main])
<1> Main \notin Workers /\ Workers \subseteq Runners
  BY RunnerAssumption DEF Runners
<1>1. append(fd[Main]) /\ UNCHANGED <<fd, build>>
  BY DEF Append
<1>2. size < Cardinality(Items)
  BY <1>1, RoomToAppend
<1>3. PICK add \in Items \ allocated :
        /\ size' = size + 1 /\ node'[size] = add
        /\ \A k \in 0 .. size - 1 : node'[k] = node[k]
        /\ client_socket_fd' = [client_socket_fd EXCEPT ![add] = fd[Main]]
  BY <1>1, AppendList DEF NodeInv
<1>4. size \in Nat /\ Contents \in Fifo!Seq(FDs \cup {NULL}) /\ Fifo!Len(Contents) = size
  BY ContentsType DEF NodeInv, Links
<1>5. \A k \in 1 .. size : client_socket_fd'[node'[k - 1]] = Contents[k]
  <2> SUFFICES ASSUME NEW k \in 1 .. size
               PROVE  client_socket_fd'[node'[k - 1]] = client_socket_fd[node[k - 1]]
    BY DEF Contents
  <2>1. k - 1 \in 0 .. size - 1
    BY <1>4
  <2>2. node[k - 1] # add
    BY <2>1 DEF Queued, NodeInv, ListOK
  <2>3. node[k - 1] \in Items
    BY <2>1 DEF Queued, NodeInv, ListOK, Links
  <2> QED
    BY <1>3, <2>1, <2>2, <2>3 DEF NodeInv, Links
<1>6. client_socket_fd'[node'[size]] = fd[Main]
  BY <1>3 DEF NodeInv, Links
<1>7. Contents' = [k \in 1 .. size + 1 |-> IF k = size + 1 THEN fd[Main] ELSE Contents[k]]
  <2>1. Contents' = [k \in 1 .. size + 1 |-> client_socket_fd'[node'[k - 1]]]
    BY <1>3 DEF Contents
  <2>2. \A k \in 1 .. size + 1 : k = size + 1 \/ k \in 1 .. size
    BY <1>4
  <2>3. (size + 1) - 1 = size
    BY <1>4
  <2> QED
    BY <1>5, <1>6, <2>1, <2>2, <2>3
<1>8. Contents' = Fifo!Append(Contents, fd[Main])
  BY <1>4, <1>7
<1> QED
  BY <1>1, <1>2, <1>4, <1>8 DEF Fifo!Insert

LEMMA TakeRemoves ==
  ASSUME NodeInv, WithPool, fd \in [Runners -> FDs \cup {NULL}], NEW w \in Workers, Take(w)
  PROVE  Fifo!Remove(w)
<1> Workers \subseteq Runners
  BY DEF Runners
<1>1. /\ delete_head /\ head # NULL /\ fd' = [fd EXCEPT ![w] = client_socket_fd[head]]
      /\ UNCHANGED <<build, client_socket_fd>>
  BY DEF Take, delete_head
<1>2. /\ size \in Nat \ {0} /\ size' = size - 1
      /\ \A k \in 0 .. size - 1 : node'[k] = node[k + 1]
  BY <1>1, TakeList DEF NodeInv
<1>3. Contents \in Fifo!Seq(FDs \cup {NULL}) /\ Fifo!Len(Contents) = size
  BY ContentsType
<1>4. node[0] = head
  BY Nodes DEF Steps, NodeInv
<1>5. Contents[1] = client_socket_fd[head]
  BY <1>2, <1>4 DEF Contents
<1>6. Contents' = [k \in 1 .. size - 1 |-> Contents[k + 1]]
  <2>1. Contents' = [k \in 1 .. size - 1 |-> client_socket_fd[node'[k - 1]]]
    BY <1>1, <1>2 DEF Contents
  <2>2. ASSUME NEW k \in 1 .. size - 1
        PROVE  client_socket_fd[node'[k - 1]] = Contents[k + 1]
    <3>1. k - 1 \in 0 .. size - 1 /\ (k - 1) + 1 = k /\ k + 1 \in 1 .. size /\ (k + 1) - 1 = k
      BY <1>2
    <3>2. node'[k - 1] = node[k]
      BY <1>2, <3>1
    <3> QED
      BY <3>1, <3>2 DEF Contents
  <2> QED
    BY <2>1, <2>2
<1>7. Contents' = Fifo!Tail(Contents) /\ Contents # <<>> /\ Fifo!Head(Contents) = client_socket_fd[head]
  <2> DEFINE c == Contents
  <2>1. c \in Fifo!Seq(FDs \cup {NULL}) /\ Fifo!Len(c) # 0 /\ Fifo!Len(c) = size
    BY <1>2, <1>3
  <2> HIDE DEF c
  <2>2. c # <<>> /\ Fifo!Head(c) = c[1]
    BY <2>1
  <2>3. Fifo!Tail(c) = [k \in 1 .. Fifo!Len(c) - 1 |-> c[k + 1]]
    <3>1. Fifo!Tail(c) \in Fifo!Seq(FDs \cup {NULL}) /\ Fifo!Len(Fifo!Tail(c)) = Fifo!Len(c) - 1
      BY <2>1
    <3>2. \A k \in 1 .. Fifo!Len(c) - 1 : Fifo!Tail(c)[k] = c[k + 1]
      BY <2>1
    <3> DEFINE t == Fifo!Tail(c)
    <3> HIDE DEF t
    <3>3. t \in Fifo!Seq(FDs \cup {NULL}) => t \in [1 .. Fifo!Len(t) -> FDs \cup {NULL}]
      OBVIOUS
    <3>4. t \in [1 .. Fifo!Len(c) - 1 -> FDs \cup {NULL}]
      BY <3>1, <3>3 DEF t
    <3>5. \A k \in 1 .. Fifo!Len(c) - 1 : t[k] = c[k + 1]
      BY <3>2 DEF t
    <3>6. t = [k \in 1 .. Fifo!Len(c) - 1 |-> c[k + 1]]
      BY <3>4, <3>5
    <3> QED
      BY <3>6 DEF t
  <2> QED
    BY <1>5, <1>6, <2>1, <2>2, <2>3 DEF c
<1>8. [v \in Workers |-> IF build = "httpserver_pool" THEN fd[v] ELSE NULL]'
        = [[v \in Workers |-> IF build = "httpserver_pool" THEN fd[v] ELSE NULL]
             EXCEPT ![w] = client_socket_fd[head]]
  BY <1>1 DEF WithPool
<1> QED
  BY <1>7, <1>8 DEF Fifo!Remove

LEMMA SameContents ==
  ASSUME UNCHANGED <<list, size>>
  PROVE  Contents' = Contents
<1>1. node' = node
  BY DEF node, list
<1> QED
  BY <1>1 DEF Contents, list

(* The work queue hands out each connection once, in the order in which    *)
(* they were accepted, however many workers compete for them: every step   *)
(* is an insertion into or a removal from SharedQueue, or neither          *)
(* (wq.c:15-28, wq.c:31-40).                                               *)
THEOREM Refinement == Spec => RefinesFifo
<1>1. Init => Fifo!Init
  <2> SUFFICES ASSUME Init PROVE Fifo!Init
    OBVIOUS
  <2>1. Contents \in Fifo!Seq(FDs \cup {NULL}) /\ Fifo!Len(Contents) = 0
    BY NodeStart, ContentsType DEF Init, wq_init
  <2>2. Contents = <<>>
    BY <2>1
  <2>3. [w \in Workers |-> IF build = "httpserver_pool" THEN fd[w] ELSE NULL] = [w \in Workers |-> NULL]
    BY DEF Init, Runners
  <2> QED
    BY <2>2, <2>3 DEF Fifo!Init
<1>2. /\ Typed /\ (NoPool => ServeInv) /\ (NoPool => ServeInv)' /\ PoolInv /\ PoolInv'
      /\ build \in EXECUTABLES /\ [Next]_vars
      => [Fifo!Next]_(Fifo!vars)
  <2> SUFFICES ASSUME Typed, NoPool => ServeInv, (NoPool => ServeInv)', PoolInv, PoolInv',
                      build \in EXECUTABLES, [Next]_vars
               PROVE  Fifo!Next \/ UNCHANGED Fifo!vars
    BY DEF Fifo!vars
  <2>1. build' = build /\ fd \in [Runners -> FDs \cup {NULL}] /\ NodeInv /\ NodeInv'
    BY SameBuild DEF Typed, Shape, PoolInv
  <2>2. CASE NoPool
    <3>1. size = 0 /\ size' = 0
      BY <2>1, <2>2 DEF NoPool, ServeInv, Types
    <3>2. Contents' = Contents
      BY <3>1 DEF Contents
    <3>3. [w \in Workers |-> IF build = "httpserver_pool" THEN fd[w] ELSE NULL]'
            = [w \in Workers |-> IF build = "httpserver_pool" THEN fd[w] ELSE NULL]
      BY <2>1, <2>2 DEF NoPool
    <3> QED
      BY <3>2, <3>3 DEF Fifo!vars
  <2>3. CASE WithPool
    <3>1. CASE up /\ up' /\ Append(Main, "append", "broadcast")
      <4>1. fd[Main] \in FDs
        BY <2>3, <3>1 DEF PoolInv, FileInv, HeldByThread, Holding, Append, Goto, Runners
      <4>2. Fifo!Insert(fd[Main])
        BY <2>1, <2>3, <3>1, <4>1, AppendInserts
      <4> QED
        BY <4>1, <4>2 DEF Fifo!Next
    <3>2. ASSUME NEW w \in Workers, Take(w) PROVE Fifo!Next
      BY <2>1, <2>3, <3>2, TakeRemoves DEF Fifo!Next
    <3>3. CASE UNCHANGED <<list, size>> /\ \A w \in Workers : fd'[w] = fd[w]
      <4>1. Contents' = Contents
        BY <3>3, SameContents
      <4>2. [w \in Workers |-> IF build = "httpserver_pool" THEN fd[w] ELSE NULL]'
              = [w \in Workers |-> IF build = "httpserver_pool" THEN fd[w] ELSE NULL]
        BY <2>1, <3>3
      <4> QED
        BY <4>1, <4>2 DEF Fifo!vars
    <3> QED
      BY <2>1, <2>3, <3>1, <3>2, <3>3, QueueSteps
  <2> QED
    BY <2>2, <2>3 DEF NoPool, WithPool
<1> QED
  BY <1>1, <1>2, TypedInvariance, ServeInvariance, PoolInvariance, KnownBuild, PTL
  DEF Spec, RefinesFifo, Fifo!Spec
=============================================================================
