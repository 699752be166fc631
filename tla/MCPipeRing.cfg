SPECIFICATION Spec
CONSTANTS
  Proc = {p1, p2}
  Creator = p1
  PIPE_SIZE = 2
  WORD = 6
  MaxLen = 2
  MaxBytes = 4
  MaxDup = 0
  MaxFork = 4
INVARIANT UnreadKept
CHECK_DEADLOCK FALSE
