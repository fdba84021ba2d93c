\* Every kind of file, one change at any moment.
SPECIFICATION FairSpec
CONSTANTS
  Texts <- MCTexts
  LIBHTTP_REQUEST_MAX_SIZE = 7
  MaxSize = 3
  Stack = 2
  MaxChanges = 1
INVARIANTS
  TypeOK
  OneResponse
  
PROPERTY Returns
CHECK_DEADLOCK FALSE
