SPECIFICATION Spec
CONSTANTS
  Proc = {p1, p2, p3}
  Creator = p1
  PIPE_SIZE = 1
  WORD = 3
  MaxLen = 1
  MaxBytes = 0
  MaxDup = 0
  MaxFork = 4
INVARIANT NoFalseClose
CHECK_DEADLOCK FALSE
