SPECIFICATION FairSpec
CONSTANTS
  NENV = 3
  NASID = 3
  Priorities = {2}
  Value = {0}
  MaxAlloc = 4
INVARIANTS
  TypeOK SchedIffRunnable WaitFlags AsidExact
  CurenvRuns PanicOnlyIfIdle
PROPERTIES
  DeadStaysDead NoOvertaking MessageStable RunnableRuns
CHECK_DEADLOCK FALSE
