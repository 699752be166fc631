SPECIFICATION ErrSpec
CONSTANTS
  Env = {e1, e2, e3, e4}
  HEAD = HEAD
  NULL = NULL
INVARIANT ListedIffRunnable
SYMMETRY Symmetry
CHECK_DEADLOCK FALSE
