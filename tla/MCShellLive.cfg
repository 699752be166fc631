SPECIFICATION ShellFairSpec
CONSTANTS
  NENV = 7
  NASID = 7
  Priorities = {1}
  Value <- MCValue
  MaxAlloc = 8
  Sessions <- LiveSessions
PROPERTIES
  PromptOrStranded
CHECK_DEADLOCK FALSE
