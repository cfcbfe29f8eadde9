CONSTANTS
  BLOCK = 2
  NBlocks = 3
  Chars = {1}
  MaxCount = 5
  Junk = {0, 1, 2}
  WORD = 2
  INT_BITS = 6
  LL_BITS = 8
SPECIFICATION Spec
INVARIANTS WriteCorrect ReadCorrect SeekEndCorrect MovesCorrect StringsCorrect NumbersReadBack FormatsPrinted
