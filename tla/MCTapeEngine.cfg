SPECIFICATION TapeSpec
CONSTANTS
  ReelCap = 2
  Lengths = {3, 4}
  Floor = 2
  MaxTurns = 4
INVARIANTS
  ShapeFollowsTape
PROPERTIES
  TapesEnd
