SPECIFICATION Spec
CONSTANTS
  Proc = {p1, p2, p3}
  Creator = p1
  PIPE_SIZE = 1
  WORD = 3
  MaxLen = 1
  MaxBytes = 2
  MaxDup = 4
  MaxFork = 4
SYMMETRY Alike
INVARIANT UnreadKept
PROPERTY ClosedOrForking
CHECK_DEADLOCK FALSE
