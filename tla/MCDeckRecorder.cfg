SPECIFICATION MCSpec
CONSTANTS
  Cap = 3
  Fade = 3
  Wrap = 5
  SameScan = TRUE
  Switching = TRUE
  Loads = {0, 1}
INVARIANTS
  LoopClosed
  TakeIsOneRun
  FadesInTable
PROPERTIES
  HeadReturns
  OverdubKeepsLength
  ClockActs
