SPECIFICATION ShellSpec
CONSTANTS
  NENV = 7
  NASID = 7
  Priorities = {1}
  Value <- MCValue
  MaxAlloc = 8
  Sessions <- MCSessions
INVARIANTS
  OnlyWhenDue NoneForgotten ConditionSeesStatus NoEarlyReturn DoneMeansEnded
CHECK_DEADLOCK FALSE
