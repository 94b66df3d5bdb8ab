SPECIFICATION Spec
CONSTANTS
  Cap = 4
  Fade = 3
  Wrap = 5
  SameScan = FALSE
  Switching = FALSE
  Loads = {}
PROPERTIES StartsArmed
