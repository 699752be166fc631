SPECIFICATION FairSpec
CONSTANTS
  Proc = {p1, p2}
  Creator = p1
  PIPE_SIZE = 1
  WORD = 4
  MaxLen = 2
  MaxBytes = 2
  MaxDup = 1
  MaxFork = 4
PROPERTIES EndsWhenAlone DataEndsRead
CHECK_DEADLOCK FALSE
