CONSTANTS
  MAX_PCB = 5
  MaxProcs = 4
  SLICE = 2
  Sleeptime = 5
  INT_MAX = 5
  SleepArgs = {}
  mutex = mutex
  empty = empty
  full = full
  Sems = {mutex, empty, full}
  NoSem = NoSem
  InitValues = {0}
  MaxValue = 3
  item_num = 2
SPECIFICATION CalmPCSpec
INVARIANTS MutualExclusion NoOverwrite NoUnderflow NoDeadlock
