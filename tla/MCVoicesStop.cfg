SPECIFICATION Spec
CONSTANTS
    N = 3
    Modes = {"Reel", "Slice", "Drift"}
    Sequenced = FALSE
    Torn = FALSE
PROPERTIES
    StopSilences
