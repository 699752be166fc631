SPECIFICATION FairSpec
CONSTANTS
  Env = {e1, e2}
  NoEnv = NoEnv
  Page = {1, 2, 3, 4}
  NoPage = 0
  Val = {0, 1}
INVARIANTS
  OwnMemory WritableIsPrivate LibraryShared HandlerReady
PROPERTIES
  ForkEnds
CHECK_DEADLOCK FALSE
