----------------------------- MODULE HttpServer ----------------------------
(***************************************************************************)
(* The four HTTP servers of HTTP_Server/.  They share serve_forever, which *)
(* accepts connections, and handle_files_request, which answers one, and   *)
(* differ in dispatch, which is between the two: `build' is the executable *)
(* that runs.                                                              *)
(*                                                                         *)
(* A step is one call that other threads, processes or clients can see.    *)
(***************************************************************************)
EXTENDS Pthreads, WorkQueue

CONSTANTS Main,        \* the thread of the server process that runs main
          Workers,     \* its other threads, or its child processes
          Pool,        \* those that make the thread pool (--concurrency)
          Clients,     \* the connections: each client opens one
          FDs,         \* the descriptors a process may have for connections
          Builds,      \* the executables considered
          Requests,    \* what clients may say (see Says)
          Scarce       \* creating a thread or a process may fail

Runners == Workers \cup {Main}

EXECUTABLES == {"httpserver_basic", "httpserver_thread",
                "httpserver_process", "httpserver_pool"}

Says == {"request",      \* a request that gets some response
         "unreadable",   \* a request for a file that cannot be opened
         "hangup"}       \* whatever it said, the client closes its end

ASSUME RunnerAssumption == /\ Pool \subseteq Workers
                           /\ Main \notin Workers
                           /\ Nobody \notin Runners
ASSUME FDAssumption == FDs \subseteq Nat /\ IsFiniteSet(FDs) /\ NULL \notin FDs \cup Clients
ASSUME ServerAssumption == /\ Builds \subseteq EXECUTABLES
                           /\ Requests \subseteq Says
                           /\ Scarce \in BOOLEAN

VARIABLES
  build,
  up,        \* the server process runs
  conn,      \* conn[c]: away, in the backlog of the listening socket, accepted
  said,      \* said[c]: what client c said, or nothing
  table,     \* table[p][fd]: the connection fd stands for in process p
  pc,        \* where each thread or process is in its code
  fd,        \* fd[r]: the local client_socket_number (or cpid's copy of it)
  wq_item,   \* wq_item[w]: that local variable of wq_pop
  cpid,      \* the child dispatch has forked, Nobody if fork failed
  answers,   \* answers[c]: how many times c was answered
  failed     \* the connections whose thread or process was not created

process == <<up, table, pc>>
outcome == <<answers, failed>>
vars == <<build, process, conn, said, fd, wq_item, cpid, outcome, wq, sync>>

CondVar == "condvar"

(* The ids run out.                                                        *)
NoneLeft == \A w \in Workers : pc[w] # "none"

(* Threads share the table of the server; a child has a copy.              *)
Proc(r) == IF build = "httpserver_process" THEN r ELSE Main

NoFiles == [f \in FDs |-> NULL]

Running(r) == up \/ Proc(r) # Main

Goto(r, from, to) ==
  /\ Running(r)
  /\ pc[r] = from
  /\ pc' = [pc EXCEPT ![r] = to]

(* exit, or a signal that kills the process: its connections are closed.   *)
Exit ==
  /\ up' = FALSE
  /\ table' = [table EXCEPT ![Main] = NoFiles]
  /\ UNCHANGED pc

Init ==
  /\ build \in Builds
  /\ up = TRUE
  /\ conn = [c \in Clients |-> "away"]
  /\ said = [c \in Clients |-> "nothing"]
  /\ table = [r \in Runners |-> NoFiles]
  /\ pc = [r \in Runners |-> IF r = Main THEN "new" ELSE "none"]
  /\ fd = [r \in Runners |-> NULL]
  /\ wq_item = [w \in Workers |-> NULL]
  /\ cpid = Nobody
  /\ answers = [c \in Clients |-> 0]
  /\ failed = {}
  /\ wq_init
  /\ SyncInit({CondVar})
-----------------------------------------------------------------------------
(* The clients.  One may connect as soon as the server listens.            *)
Open(c) == \E r \in Runners, f \in FDs : table[r][f] = c

Connect(c) ==
  /\ up /\ pc[Main] # "new"
  /\ conn[c] = "away"
  /\ conn' = [conn EXCEPT ![c] = "backlog"]
  /\ UNCHANGED <<build, process, said, fd, wq_item, cpid, outcome, wq, sync>>

Say(c) ==
  /\ Open(c) \/ (conn[c] = "backlog" /\ up)
  /\ said[c] = "nothing"
  /\ \E m \in Requests : said' = [said EXCEPT ![c] = m]
  /\ UNCHANGED <<build, process, conn, fd, wq_item, cpid, outcome, wq, sync>>
-----------------------------------------------------------------------------
(* server.c: handle_files_request, and the close that follows it in every  *)
(* server.                                                                 *)
Served(r) == table[Proc(r)][fd[r]]

(* read returns when the client said something, or at once when the        *)
(* descriptor is closed.                                                   *)
http_request_parse(r) ==
  /\ Goto(r, "read", "answer")
  /\ Served(r) # NULL => said[Served(r)] # "nothing"
  /\ UNCHANGED <<build, up, conn, said, table, fd, wq_item, cpid, outcome, wq, sync>>

Answer(r) ==
  /\ Goto(r, "answer", "close")
  /\ Served(r) # NULL => said[Served(r)] # "unreadable"
  /\ answers' = [c \in Clients |->
                   IF c = Served(r) THEN answers[c] + 1 ELSE answers[c]]
  /\ UNCHANGED <<build, up, conn, said, table, fd, wq_item, cpid, failed, wq, sync>>

(* fopen returned NULL, or SIGPIPE: the peer is gone.  The process dies.   *)
Crash(r) ==
  /\ Running(r) /\ pc[r] = "answer"
  /\ Served(r) # NULL /\ said[Served(r)] \in {"unreadable", "hangup"}
  /\ IF Proc(r) = Main
     THEN Exit
     ELSE /\ table' = [table EXCEPT ![r] = NoFiles]
          /\ pc' = [pc EXCEPT ![r] = "zombie"]
          /\ UNCHANGED up
  /\ UNCHANGED <<build, conn, said, fd, wq_item, cpid, outcome, wq, sync>>

handle_files_request(r) == http_request_parse(r) \/ Answer(r) \/ Crash(r)

close(r, from, to) ==
  /\ Goto(r, from, to)
  /\ table' = [table EXCEPT ![Proc(r)] = [@ EXCEPT ![fd[r]] = NULL]]
  /\ UNCHANGED <<build, up, conn, said, fd, wq_item, cpid, outcome, wq, sync>>
-----------------------------------------------------------------------------
(* httpserver_basic.c: main itself answers.                                *)
dispatch_basic ==
  /\ build = "httpserver_basic"
  /\ handle_files_request(Main) \/ close(Main, "close", "accept")

(* httpserver_thread.c: the thread gets its own copy of the descriptor.    *)
dispatch_thread(w) ==
  /\ build = "httpserver_thread"
  /\ pc[w] = "none"
  /\ Running(Main) /\ pc[Main] = "dispatch"
  /\ pc' = [pc EXCEPT ![Main] = "accept", ![w] = "start"]
  /\ fd' = [fd EXCEPT ![w] = fd[Main]]
  /\ UNCHANGED <<build, up, conn, said, table, wq_item, cpid, outcome, wq, sync>>

(* The result of pthread_create is not looked at, and pthread_detach is    *)
(* called with an uninitialised t: it may return an error or crash.        *)
dispatch_thread_fails ==
  /\ build = "httpserver_thread"
  /\ Scarce \/ NoneLeft
  /\ Running(Main) /\ pc[Main] = "dispatch"
  /\ failed' = failed \cup {Served(Main)}
  /\ \/ Exit
     \/ Goto(Main, "dispatch", "accept") /\ UNCHANGED <<up, table>>
  /\ UNCHANGED <<build, conn, said, fd, wq_item, cpid, answers, wq, sync>>

(* Slip: the thread is given a pointer to the variable of serve_forever.   *)
handle_client_by_reference(w) ==
  /\ build = "httpserver_thread"
  /\ \/ /\ Goto(w, "start", "read")
        /\ fd' = [fd EXCEPT ![w] = fd[Main]]
        /\ UNCHANGED <<build, up, conn, said, table, wq_item, cpid, outcome, wq, sync>>
     \/ handle_files_request(w)
     \/ close(w, "close", "none")

handle_client(w) ==
  /\ build = "httpserver_thread"
  /\ \/ /\ Goto(w, "start", "read")
        /\ UNCHANGED <<build, up, conn, said, table, fd, wq_item, cpid, outcome, wq, sync>>
     \/ handle_files_request(w)
     \/ close(w, "close", "none")
-----------------------------------------------------------------------------
(* httpserver_process.c.                                                   *)
fork(w) ==
  /\ pc[w] = "none"
  /\ Running(Main) /\ pc[Main] = "dispatch"
  /\ pc' = [pc EXCEPT ![Main] = "close", ![w] = "read"]
  /\ table' = [table EXCEPT ![w] = table[Main]]
  /\ fd' = [fd EXCEPT ![w] = fd[Main]]
  /\ cpid' = w
  /\ UNCHANGED <<build, up, conn, said, wq_item, outcome, wq, sync>>

fork_fails ==
  /\ Scarce \/ NoneLeft
  /\ Goto(Main, "dispatch", "close")
  /\ cpid' = Nobody
  /\ failed' = failed \cup {Served(Main)}
  /\ UNCHANGED <<build, up, conn, said, table, fd, wq_item, answers, wq, sync>>

Zombies == {w \in Workers : pc[w] = "zombie"}

(* waitpid with WNOHANG reaps one child of those meant that has exited,    *)
(* and does nothing when there is none.                                    *)
waitpid(children, from, to) ==
  /\ Running(Main) /\ pc[Main] = from
  /\ IF Zombies \cap children = {}
     THEN pc' = [pc EXCEPT ![Main] = to]
     ELSE \E z \in Zombies \cap children :
            pc' = [pc EXCEPT ![Main] = to, ![z] = "none"]
  /\ UNCHANGED <<build, up, conn, said, table, fd, wq_item, cpid, outcome, wq, sync>>

(* Slip: the parent keeps its copy of the descriptor.                      *)
dispatch_process_keeps ==
  /\ build = "httpserver_process"
  /\ \/ \E w \in Workers : fork(w)
     \/ fork_fails
     \/ /\ Goto(Main, "close", "waitpid")
        /\ UNCHANGED <<build, up, conn, said, table, fd, wq_item, cpid, outcome, wq, sync>>
     \/ waitpid(IF cpid = Nobody THEN Workers ELSE {cpid}, "waitpid", "waitany")
     \/ waitpid(Workers, "waitany", "accept")

(* After a failed fork cpid is -1, which stands for every child.           *)
dispatch_process ==
  /\ build = "httpserver_process"
  /\ \/ \E w \in Workers : fork(w)
     \/ fork_fails
     \/ close(Main, "close", "waitpid")
     \/ waitpid(IF cpid = Nobody THEN Workers ELSE {cpid}, "waitpid", "waitany")
     \/ waitpid(Workers, "waitany", "accept")

(* The child answers, closes and leaves, which closes whatever it has.     *)
child_exits(w) ==
  /\ Goto(w, "close", "zombie")
  /\ table' = [table EXCEPT ![w] = NoFiles]
  /\ UNCHANGED <<build, up, conn, said, fd, wq_item, cpid, outcome, wq, sync>>

child(w) ==
  /\ build = "httpserver_process"
  /\ handle_files_request(w) \/ child_exits(w)
-----------------------------------------------------------------------------
(* httpserver_pool.c and the critical sections of wq.c.                    *)
Lock(r, from, to) ==
  /\ Goto(r, from, to)
  /\ MutexLock(r)
  /\ UNCHANGED <<build, up, conn, said, table, fd, wq_item, cpid, outcome, wq>>

Unlock(r, from, to) ==
  /\ Goto(r, from, to)
  /\ MutexUnlock
  /\ UNCHANGED <<build, up, conn, said, table, fd, wq_item, cpid, outcome, wq>>

Append(r, from, to) ==
  /\ Goto(r, from, to)
  /\ append(fd[r])
  /\ UNCHANGED <<build, up, conn, said, table, fd, wq_item, cpid, outcome, sync>>

Broadcast(r, from, to) ==
  /\ Goto(r, from, to)
  /\ CondBroadcast(CondVar)
  /\ UNCHANGED <<build, up, conn, said, table, fd, wq_item, cpid, outcome, wq>>

(* Slip: the workers are told before the item is there.                    *)
wq_push_late(r) ==
  \/ Goto(r, "dispatch", "broadcast")
     /\ UNCHANGED <<build, up, conn, said, table, fd, wq_item, cpid, outcome, wq, sync>>
  \/ Broadcast(r, "broadcast", "lock")
  \/ Lock(r, "lock", "append")
  \/ Append(r, "append", "pushed")
  \/ Unlock(r, "pushed", "accept")

wq_push(r) ==
  \/ Lock(r, "dispatch", "append")
  \/ Append(r, "append", "broadcast")
  \/ Broadcast(r, "broadcast", "pushed")
  \/ Unlock(r, "pushed", "accept")

Test(w) ==
  /\ Goto(w, "test", IF size = 0 THEN "wait" ELSE "take")
  /\ UNCHANGED <<build, up, conn, said, table, fd, wq_item, cpid, outcome, wq, sync>>

Sleep(w) ==
  /\ Goto(w, "wait", "asleep")
  /\ CondWait(w, CondVar)
  /\ UNCHANGED <<build, up, conn, said, table, fd, wq_item, cpid, outcome, wq>>

(* Slip: `if' in place of `while'.                                         *)
WakeUpNoRetest(w) ==
  /\ Goto(w, "asleep", "take")
  /\ CondReturn(w, CondVar)
  /\ UNCHANGED <<build, up, conn, said, table, fd, wq_item, cpid, outcome, wq>>

WakeUp(w) ==
  /\ Goto(w, "asleep", "test")
  /\ CondReturn(w, CondVar)
  /\ UNCHANGED <<build, up, conn, said, table, fd, wq_item, cpid, outcome, wq>>

Take(w) ==
  /\ Goto(w, "take", "popped")
  /\ head # NULL
  /\ wq_item' = [wq_item EXCEPT ![w] = head]
  /\ fd' = [fd EXCEPT ![w] = client_socket_fd[head]]
  /\ delete_head
  /\ UNCHANGED <<build, up, conn, said, table, cpid, outcome, sync>>

Free(w) ==
  /\ Goto(w, "free", "read")
  /\ free(wq_item[w])
  /\ UNCHANGED <<build, up, conn, said, table, fd, wq_item, cpid, outcome, sync>>

wq_pop(w) ==
  \/ Lock(w, "pop", "test")
  \/ Test(w)
  \/ Sleep(w)
  \/ WakeUp(w)
  \/ Take(w)
  \/ Unlock(w, "popped", "free")
  \/ Free(w)

handle_clients(w) ==
  /\ build = "httpserver_pool"
  /\ wq_pop(w) \/ handle_files_request(w) \/ close(w, "close", "pop")

dispatch_pool ==
  /\ build = "httpserver_pool"
  /\ wq_push(Main)

(* POSIX allows it at any time.                                            *)
Spurious(w) ==
  /\ up
  /\ SpuriousWakeup(w, CondVar)
  /\ UNCHANGED <<build, process, conn, said, fd, wq_item, cpid, outcome, wq>>
-----------------------------------------------------------------------------
(* server.c: main and serve_forever.                                       *)
Untried == {w \in Pool : pc[w] = "none"}

(* A worker of the pool that cannot be created is not noticed.             *)
new_dispatcher ==
  /\ Running(Main) /\ pc[Main] = "new"
  /\ IF build = "httpserver_pool" /\ Untried # {}
     THEN \E w \in Untried : \E to \in {"pop"} \cup (IF Scarce THEN {"missing"} ELSE {}) :
            pc' = [pc EXCEPT ![w] = to]
     ELSE pc' = [pc EXCEPT ![Main] = "accept"]
  /\ UNCHANGED <<build, up, conn, said, table, fd, wq_item, cpid, outcome, wq, sync>>

FreeFDs == {f \in FDs : table[Main][f] = NULL}

(* The connection gets the lowest free descriptor; with none free, accept  *)
(* fails and is called again.                                              *)
Accept(c) ==
  /\ Goto(Main, "accept", IF build = "httpserver_basic" THEN "read" ELSE "dispatch")
  /\ conn[c] = "backlog"
  /\ \E f \in FreeFDs :
       /\ \A g \in FreeFDs : f <= g
       /\ fd' = [fd EXCEPT ![Main] = f]
       /\ table' = [table EXCEPT ![Main] = [@ EXCEPT ![f] = c]]
  /\ conn' = [conn EXCEPT ![c] = "accepted"]
  /\ UNCHANGED <<build, up, said, wq_item, cpid, outcome, wq, sync>>

(* accept fails with ECONNABORTED and is called again.                     *)
AcceptFails(c) ==
  /\ Running(Main) /\ pc[Main] = "accept"
  /\ conn[c] = "backlog" /\ said[c] = "hangup"
  /\ conn' = [conn EXCEPT ![c] = "aborted"]
  /\ UNCHANGED <<build, process, said, fd, wq_item, cpid, outcome, wq, sync>>

(* SIGINT, sent to the server process.                                     *)
signal_callback_handler ==
  /\ up
  /\ Exit
  /\ UNCHANGED <<build, conn, said, fd, wq_item, cpid, outcome, wq, sync>>

serve_forever ==
  \/ new_dispatcher
  \/ \E c \in Clients : Accept(c) \/ AcceptFails(c)
  \/ dispatch_basic
  \/ \E w \in Workers : dispatch_thread(w)
  \/ dispatch_thread_fails
  \/ dispatch_process
  \/ dispatch_pool

worker(w) == handle_client(w) \/ child(w) \/ handle_clients(w)

Next ==
  \/ \E c \in Clients : Connect(c) \/ Say(c)
  \/ serve_forever
  \/ \E w \in Workers : worker(w) \/ Spurious(w)
  \/ signal_callback_handler

Spec == Init /\ [][Next]_vars

(* The server and its workers run on, and a thread that keeps trying gets  *)
(* the mutex in the end.  Nothing is asked of the clients.                 *)
Fairness ==
  /\ SF_vars(serve_forever)
  /\ \A w \in Workers : SF_vars(worker(w))

FairSpec == Spec /\ Fairness
-----------------------------------------------------------------------------
PCs == {"new", "none", "missing", "accept", "dispatch", "start", "read", "answer",
        "close", "waitpid", "waitany", "zombie", "append", "broadcast", "pushed",
        "pop", "test", "wait", "asleep", "take", "popped", "free"}

TypeOK ==
  /\ build \in Builds
  /\ up \in BOOLEAN
  /\ conn \in [Clients -> {"away", "backlog", "accepted", "aborted"}]
  /\ said \in [Clients -> Requests \cup {"nothing"}]
  /\ table \in [Runners -> [FDs -> Clients \cup {NULL}]]
  /\ pc \in [Runners -> PCs]
  /\ fd \in [Runners -> FDs \cup {NULL}]
  /\ wq_item \in [Workers -> Items \cup {NULL}]
  /\ cpid \in Workers \cup {Nobody}
  /\ answers \in [Clients -> Nat]
  /\ failed \in SUBSET Clients
  /\ head \in Items \cup {NULL}
  /\ next \in [Items -> Items \cup {NULL}]
  /\ prev \in [Items -> Items \cup {NULL}]
  /\ client_socket_fd \in [Items -> FDs \cup {NULL}]
  /\ size \in 0 .. Cardinality(FDs)
  /\ allocated \in SUBSET Items
  /\ owner \in Runners \cup {Nobody}
  /\ waiters \in [{CondVar} -> SUBSET Workers]

(* The list of wq.c stays well formed, size is its length, and its nodes   *)
(* and those the workers are about to free are all the live ones: no node  *)
(* is leaked, freed twice or used after its free.  wq_pop dereferences the *)
(* head only when there is one, on every path through the wait.            *)
QueueOK ==
  /\ ListOK
  /\ LET popped == {w \in Workers : pc[w] \in {"popped", "free"}}
     IN up => /\ allocated = Queued \cup {wq_item[w] : w \in popped}
              /\ \A w \in popped : wq_item[w] \notin Queued
              /\ \A v, w \in popped : wq_item[v] = wq_item[w] => v = w
              /\ \A w \in Workers : pc[w] = "take" => head # NULL

(* Who has to close descriptor f of the server process: the thread that    *)
(* has it in a variable, or the queue.                                     *)
Holding(r) == pc[r] \in {"dispatch", "append", "popped", "free", "start", "read",
                         "answer", "close"}

Keepers(f) == {r \in Runners : Proc(r) = Main /\ Holding(r) /\ fd[r] = f}
              \cup {i \in Queued : client_socket_fd[i] = f}

(* Every open descriptor of the server has exactly one keeper, from accept *)
(* to close, and a closed one has none: no connection is forgotten, served *)
(* by two threads, or closed by one while another one uses its descriptor. *)
(* (A thread that could not be created leaves its connection open.)  A     *)
(* child has nothing open but the connection it serves.                    *)
Custody ==
  /\ up => \A f \in FDs :
       CASE table[Main][f] = NULL -> Keepers(f) = {}
         [] build = "httpserver_thread" /\ table[Main][f] \in failed -> Keepers(f) = {}
         [] OTHER -> Cardinality(Keepers(f)) = 1
  /\ build = "httpserver_process" =>
       \A w \in Workers, f \in FDs :
          table[w][f] # NULL <=> pc[w] \in {"read", "answer", "close"} /\ f = fd[w]

(* A connection is answered at most once, and the server closes it only    *)
(* after that.  The exceptions are the failures: no child could be made,   *)
(* the child died, or the server ended.                                    *)
ServedOnce ==
  \A c \in Clients :
    /\ answers[c] <= 1
    /\ conn[c] = "accepted" /\ ~Open(c) /\ up =>
         \/ answers[c] = 1
         \/ build = "httpserver_process" /\ (c \in failed \/ said[c] # "request")

(* No worker sleeps while there is work that nobody has announced.         *)
NoLostWakeup ==
  up /\ size > 0 /\ waiters[CondVar] # {} => pc[Main] = "broadcast"

(* The work queue hands out the connections first come, first served.      *)
Fifo == INSTANCE SharedQueue
  WITH queue <- Contents, closed <- FALSE, Size <- Cardinality(Items),
       Strings <- FDs, Consumers <- Workers, Garbage <- NULL,
       taken <- [w \in Workers |-> IF build = "httpserver_pool" THEN fd[w] ELSE NULL]

RefinesFifo == Fifo!Spec

(* The connections that keep a thread waiting for what they will say.      *)
Silent == {c \in Clients : Open(c) /\ said[c] = "nothing"}

(* How many silent connections it takes to hold up all others.             *)
Room == LET fds == Cardinality(FDs)
        IN CASE build = "httpserver_basic" -> 1
             [] build = "httpserver_thread" -> fds
             [] build = "httpserver_process" -> Cardinality(Workers)
             [] build = "httpserver_pool" -> IF Cardinality(Pool) < fds
                                             THEN Cardinality(Pool) ELSE fds

(* A client that sends its request gets its connection closed, whatever    *)
(* the others do, unless so many of them keep silent that there is no      *)
(* thread, process or descriptor left.                                     *)
Attended ==
  \A c \in Clients :
    conn[c] \in {"backlog", "accepted"} /\ said[c] = "request" ~>
      \/ conn[c] = "accepted" /\ ~Open(c)
      \/ Cardinality(Silent) >= Room
      \/ ~up
=============================================================================
