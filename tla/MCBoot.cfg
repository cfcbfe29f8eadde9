CONSTANTS
  NPages = 20
  NR_PTE = 2
  Procs = {1,2,3}
  NFrames = 4
  KOFFSET = 6
  MAX_PCB = 4
  MaxProcs = 3
  SLICE = 2
  Sleeptime = 1
  INT_MAX = 2
SPECIFICATION BootSpec
INVARIANTS HandsOver AddressesReached FreeListSound Isolation NoLeak
