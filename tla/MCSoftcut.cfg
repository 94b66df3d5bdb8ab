SPECIFICATION LooperSpec
CONSTANTS
  Cap = 2
  Read = 1
  Clips <- TwoClips
  Preload = FALSE
  Hands = {"rev", "record", "trim"}
  Torn = FALSE
  MaxPads = 8
INVARIANTS
  StreamIsOwned
  TransfersWhole
PROPERTIES
  TransfersEnd
