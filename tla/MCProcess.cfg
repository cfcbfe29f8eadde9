CONSTANTS
  MAX_PCB = 5
  MaxProcs = 4
  SLICE = 1
  Sleeptime = 1
  INT_MAX = 2
  SleepArgs = {0, 1, 2}
SPECIFICATION FairSpec
INVARIANTS TypeOK OneRunning AddressSpaceLoaded SlotsBelowLimit
PROPERTIES ReadyRuns SleeperWakes
