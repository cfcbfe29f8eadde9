CONSTANTS
  MAX_PCB = 4
  MaxProcs = 3
  SLICE = 1
  Sleeptime = 1
  INT_MAX = 1
  SleepArgs = {1}
  Sems = {s1}
  NoSem = NoSem
  InitValues = {0, 1}
  MaxValue = 2
SPECIFICATION Spec
INVARIANTS SchedulingSound CountMatchesValue MutexHandover
