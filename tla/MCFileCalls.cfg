SPECIFICATION Spec
CONSTANTS
  NBLOCK = 9
  NDIRECT = 1
  NINDIRECT = 2
  FILE2BLK = 2
  BLOCK_SIZE = 2
  Name = {"a", "d", "l"}
  LongName = {"l"}
  Items <- MCItems
  Path <- MCPath
  Size = {0, 1, 4}
  Val = {"w"}
  MaxCalls = 6
INVARIANTS OwnedOnce NamedIsUsed
PROPERTY OthersKept
CHECK_DEADLOCK FALSE
