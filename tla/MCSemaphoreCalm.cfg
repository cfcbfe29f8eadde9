CONSTANTS
  MAX_PCB = 5
  MaxProcs = 4
  SLICE = 1
  Sleeptime = 2
  INT_MAX = 2
  SleepArgs = {1}
  Sems = {s1, s2}
  NoSem = NoSem
  InitValues = {0, 1}
  MaxValue = 2
SPECIFICATION CalmSpec
INVARIANT WaitersAccounted
PROPERTY ImplementsDijkstra
SYMMETRY Symmetry
