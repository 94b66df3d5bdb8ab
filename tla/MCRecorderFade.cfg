SPECIFICATION Spec
CONSTANTS
  Cap = 4
  Fade = 3
  Wrap = 5
  SameScan = TRUE
  Switching = FALSE
  Loads = {}
INVARIANTS FadeInTable
