\* The counts of main.c behind a spool_t that was reserved too small.
SPECIFICATION Spec
CONSTANTS
  Producers = {p1, p2}
  Consumers = {c1, c2}
  NStrs = 2
  Size = 2
  Builds = {"spooler2", "spooler3", "spooler4"}
  Overlaps = {TRUE}
  Strings <- MCStrings
  NULL = NULL
  Garbage = Garbage
  Nobody = Nobody
INVARIANT AllPrintedAtExit
CHECK_DEADLOCK FALSE
