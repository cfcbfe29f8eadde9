CONSTANTS
  NR_DIR_ENTRY = 3
  NR_INODE_ENTRY = 2
  NInodes = 5
  NBlocks = 24
  Sizes = {1, 2, 4}
  MaxFiles = 4
  SECTSIZE = 2
  PGSIZE = 4
  MemSize = 14
  Layouts <- Programs
SPECIFICATION Spec
INVARIANTS RecordedFilesIntact ProgramsLoaded
