SPECIFICATION MCSpec
CONSTANTS
  SliceLength = 2
  Slices = 2
  MaxCount = 5
INVARIANTS
  TrackConsistent
  PatternsKeepLength
PROPERTIES
  NoDoubleHits
  ClockServes
