\* Three threads and every small limit, one below zero among them.
SPECIFICATION FairSpec
CONSTANTS
  NThreads = 3
  Limits <- MCLimits
  MainThread = MainThread
  Nobody = Nobody
  Garbage = Garbage
CHECK_DEADLOCK FALSE
INVARIANTS
  TypeOK
  OvershootBounded
  CountsAddUp
PROPERTIES
  Terminates
