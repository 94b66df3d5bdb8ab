SPECIFICATION MCSpec
CONSTANTS
  Top = 2
  Near = 0
  Kinds = {"sos", "pitch", "select", "size", "mod"}
  Pads = {"alt", "grit"}
  Fresh <- Uniform
  Habits = {}
INVARIANTS
  PanelConsistent
PROPERTIES
  TakesOver
  LocksOnce
