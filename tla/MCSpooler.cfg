\* The four threaded executables with a fair scheduler: two threads of each
\* kind, two strings each, the smallest buffer main.c accepts.  A finished
\* program stops.
SPECIFICATION FairSpec
CONSTANTS
  Producers = {p1, p2}
  Consumers = {c1, c2}
  NStrs = 2
  Size = 2
  Builds = {"spooler2", "spooler2_killed", "spooler3", "spooler4"}
  Overlaps = {FALSE}
  Strings <- MCStrings
  NULL = NULL
  Garbage = Garbage
  Nobody = Nobody
INVARIANTS
  TypeOK
  MutualExclusion
  NoOverwrite
  RingOK
  ExactlyOnce
  NullMeansDrained
  AllPrintedAtExit
  NoLostWakeup
PROPERTIES
  RefinesQueue
  AllPrinted
  Terminates
CHECK_DEADLOCK FALSE
