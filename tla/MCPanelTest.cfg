\* The player turns SOS while the terminal has frozen the panel: TakesOver fails.
SPECIFICATION MCSpec
CONSTANTS
  Top = 2
  Near = 0
  Kinds = {"sos"}
  Pads = {"alt", "grit"}
  Fresh <- Uniform
  Habits = {"test"}
PROPERTIES
  TakesOver
