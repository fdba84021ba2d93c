\* Lines of every kind, on a terminal or from a script.
SPECIFICATION FairSpec
CONSTANTS
  NMax = 4
  Samples <- MCSamples
  Seconds <- MCSeconds
  Lines <- MCLines
  Files <- MCFiles
  Contents <- MCContents
  Programs <- MCPrograms
  MaxFd = 12
  MaxLines = 3
  Garbage <- MCGarbage
CHECK_DEADLOCK FALSE
INVARIANTS
  TypeOK
  TokensOK
  PromptReady
  RedirectKept
PROPERTY PromptReturns
