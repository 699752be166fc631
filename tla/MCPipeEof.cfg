SPECIFICATION Spec
CONSTANTS
  Proc = {p1, p2}
  Creator = p1
  PIPE_SIZE = 1
  WORD = 3
  MaxLen = 1
  MaxBytes = 2
  MaxDup = 0
  MaxFork = 4
INVARIANT EofMeansDrained
CHECK_DEADLOCK FALSE
