\* One command without redirections.
SPECIFICATION Spec
CONSTANTS
  NMax = 4
  Samples = {}
  Seconds = {}
  Lines <- MCFew
  Files <- MCFiles
  Contents <- MCContents
  Programs <- MCPrograms
  MaxFd = 8
  MaxLines = 1
  Garbage <- MCZero
CHECK_DEADLOCK FALSE
INVARIANT
  ProgramRuns
