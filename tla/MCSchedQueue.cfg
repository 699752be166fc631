SPECIFICATION Spec
CONSTANTS
  Env = {e1, e2, e3, e4}
  HEAD = HEAD
  NULL = NULL
INVARIANTS WellLinked ListedIffRunnable
PROPERTY ImplementsRunList
SYMMETRY Symmetry
CHECK_DEADLOCK FALSE
