SPECIFICATION Spec
CONSTANTS
  SliceLength = 2
  Slices = 3
  MaxCount = 7
INVARIANTS
  RecordingSetsLength
