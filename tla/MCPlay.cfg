CONSTANTS
  NR_KEYS = 6
  MaxCodes = 2
  Presses = 3
  NBoxes = 5
  Centre = 2
  Lines <- OneLine
SPECIFICATION PlaySpec
INVARIANTS NoStuckKey DriverKnows
PROPERTIES CatchesUp MoveKept ImplementsGame
