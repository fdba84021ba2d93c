\* All four programs, started with the three standard descriptors.
SPECIFICATION FairSpec
CONSTANTS
  Texts <- MCTexts
  NFiles = 3
  Inherited = {0, 1, 2}
  MaxFd = 9
  Capacity = 1
CHECK_DEADLOCK FALSE
INVARIANTS
  TypeOK
  Counted
  ReadEndsKept
  OutputOK
PROPERTIES
  Terminates
