CONSTANTS
  NR_FILE = 2
  Procs = {1, 2}
  Files = {a, b, c}
  Absent = absent
  Modes = {rw}
  FILE_OPEN = 1
  MaxCount = 3
SPECIFICATION Spec
INVARIANTS DescriptorNamesFile NoDangling OneFcbPerFile
SYMMETRY Symmetry
