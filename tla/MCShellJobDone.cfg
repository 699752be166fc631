SPECIFICATION ShellSpec
CONSTANTS
  NENV = 7
  NASID = 7
  Priorities = {1}
  Value <- MCValue
  MaxAlloc = 8
  Sessions <- OneJob
INVARIANTS
  RunningJobIsAlive
CHECK_DEADLOCK FALSE
