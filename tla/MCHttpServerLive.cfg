\* Liveness: two clients, one of which may keep silent for ever.
SPECIFICATION FairSpec
CONSTANTS
  Main = main
  Workers = {w1, w2, w3}
  Pool = {w1, w2}
  Clients = {c1, c2}
  FDs = {4, 5}
  Items = {i1, i2}
  Builds = {"httpserver_basic", "httpserver_thread", "httpserver_process", "httpserver_pool"}
  Requests = {"request"}
  Scarce = FALSE
  NULL = NULL
  Nobody = Nobody
PROPERTY Attended
CHECK_DEADLOCK FALSE
