SPECIFICATION FairSpec
CONSTANTS
  NBLOCK = 7
  NDIRECT = 1
  NINDIRECT = 2
  FILE2BLK = 2
  BLOCK_SIZE = 1
  Name = {"a", "b"}
  LongName = {}
  Client = {"c1", "c2"}
  Begins <- MCBegins
  MAXOPEN = 2
  MAXFD = 2
  Items <- MCItems
  Path <- MCPath
  Mode <- MCMode
  Size = {0, 2}
  MaxOps = 4
INVARIANTS MapsItsFile ServerEndsOnlySo
PROPERTIES OpenSlotKept CloseIsDurable EveryRequestAnswered
CHECK_DEADLOCK FALSE
