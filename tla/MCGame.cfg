CONSTANTS
  NBoxes = 9
  Centre = 4
  Lines <- AllLines
SPECIFICATION Spec
INVARIANTS FairPlay BoardSaved WinnerStands
