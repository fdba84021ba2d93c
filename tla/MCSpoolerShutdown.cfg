\* Two condition variables: the broadcast of an unlocked shutdown can pass a
\* consumer that has tested its condition and not yet slept.
SPECIFICATION FairSpec
CONSTANTS
  Producers = {p1}
  Consumers = {c1, c2}
  NStrs = 2
  Size = 2
  Builds = {"spooler4"}
  Overlaps = {FALSE}
  Strings <- MCStrings
  NULL = NULL
  Garbage = Garbage
  Nobody = Nobody
PROPERTY ShutdownReachesAll
CHECK_DEADLOCK FALSE
