\* The player fits the tempo to a slice with Tap and SIZE: TakesOver fails.
SPECIFICATION MCSpec
CONSTANTS
  Top = 2
  Near = 0
  Kinds = {"size"}
  Pads = {"alt", "grit"}
  Fresh <- Uniform
  Habits = {"fit"}
PROPERTIES
  TakesOver
