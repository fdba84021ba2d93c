----------------------------- MODULE WorkQueue -----------------------------
(***************************************************************************)
(* wq.c: the queue of accepted connections of httpserver_pool, a doubly    *)
(* linked list made with utlist.h.  The nodes are addresses; a node that   *)
(* was freed may be the next one calloc returns.  As in utlist.h, the prev *)
(* of the head is the last node and the next of the last node is NULL.     *)
(* Each operation here is what wq.c does inside one critical section.      *)
(***************************************************************************)
EXTENDS Integers, FiniteSets

CONSTANTS Items,       \* the addresses calloc may return
          NULL

ASSUME ItemsAssumption == NULL \notin Items /\ IsFiniteSet(Items)

VARIABLES head, next, prev,
          client_socket_fd,   \* that field of every node
          size,
          allocated           \* the nodes not freed

list == <<head, next, prev, client_socket_fd>>
wq == <<list, size, allocated>>

wq_init ==
  /\ size = 0
  /\ head = NULL
  /\ next = [i \in Items |-> NULL]
  /\ prev = [i \in Items |-> NULL]
  /\ client_socket_fd = [i \in Items |-> NULL]
  /\ allocated = {}

(* Slip: DL_PREPEND.                                                       *)
DL_PREPEND(add) ==
  /\ head' = add
  /\ IF head # NULL
     THEN prev' = [prev EXCEPT ![add] = prev[head], ![head] = add]
     ELSE prev' = [prev EXCEPT ![add] = add]
  /\ next' = [next EXCEPT ![add] = head]

DL_APPEND(add) ==
  IF head # NULL
  THEN /\ prev' = [prev EXCEPT ![add] = prev[head], ![head] = add]
       /\ next' = [next EXCEPT ![prev[head]] = add, ![add] = NULL]
       /\ UNCHANGED head
  ELSE /\ head' = add
       /\ prev' = [prev EXCEPT ![add] = add]
       /\ next' = [next EXCEPT ![add] = NULL]

(* DL_DELETE of the head, the only node wq.c deletes.                      *)
DL_DELETE_head ==
  IF prev[head] = head
  THEN /\ head' = NULL
       /\ UNCHANGED <<next, prev>>
  ELSE /\ prev' = [prev EXCEPT ![next[head]] = prev[head]]
       /\ head' = next[head]
       /\ UNCHANGED next

append(fd) ==
  \E add \in Items \ allocated :
    /\ DL_APPEND(add)
    /\ client_socket_fd' = [client_socket_fd EXCEPT ![add] = fd]
    /\ allocated' = allocated \cup {add}
    /\ size' = size + 1

(* Slip: size is not decremented.                                          *)
delete_head_uncounted ==
  /\ DL_DELETE_head
  /\ UNCHANGED <<size, client_socket_fd, allocated>>

(* The head is what the caller keeps as wq_item.                           *)
delete_head ==
  /\ size' = size - 1
  /\ DL_DELETE_head
  /\ UNCHANGED <<client_socket_fd, allocated>>

free(item) ==
  /\ allocated' = allocated \ {item}
  /\ UNCHANGED <<list, size>>
-----------------------------------------------------------------------------
(* The nodes met from head along next.                                     *)
node[k \in Nat] == IF k = 0 THEN head
                   ELSE IF node[k - 1] = NULL THEN NULL ELSE next[node[k - 1]]

Queued == {node[k] : k \in 0 .. size - 1}

(* The connections in the order in which they are to be served.            *)
Contents == [k \in 1 .. size |-> client_socket_fd[node[k - 1]]]

(* The list is well formed and size is its length: size different live     *)
(* nodes, then NULL, linked alike in both directions, and the head knows   *)
(* the last.                                                               *)
ListOK ==
  /\ Queued \subseteq allocated
  /\ \A j, k \in 0 .. size - 1 : node[j] = node[k] => j = k
  /\ node[size] = NULL
  /\ \A k \in 0 .. size - 1 :
        prev[node[k]] = IF k = 0 THEN node[size - 1] ELSE node[k - 1]
=============================================================================
