\* Safety of the four servers: three connections on two descriptors, so that
\* numbers are used again, a pool of two, and failures of every kind.
SPECIFICATION Spec
CONSTANTS
  Main = main
  Workers = {w1, w2, w3}
  Pool = {w1, w2}
  Clients = {c1, c2, c3}
  FDs = {4, 5}
  Items = {i1, i2, i3}
  Builds = {"httpserver_basic", "httpserver_thread", "httpserver_process", "httpserver_pool"}
  Requests = {"request", "unreadable", "hangup"}
  Scarce = TRUE
  NULL = NULL
  Nobody = Nobody
SYMMETRY MCSymmetry
INVARIANTS
  TypeOK
  QueueOK
  Custody
  ServedOnce
  NoLostWakeup
PROPERTY RefinesFifo
CHECK_DEADLOCK FALSE
