SPECIFICATION VoicesSpec
CONSTANTS
    N = 2
    Modes = {"Reel", "Slice", "Drift"}
    Sequenced = TRUE
    Torn = FALSE
    MaxCalls = 2
INVARIANTS
    VoicesConsistent
PROPERTIES
    SwitchesHappen
