SPECIFICATION FairSpec
CONSTANTS
    N = 3
    Modes = {"Reel"}
    Sequenced = FALSE
    Torn = FALSE
PROPERTIES
    PlaysOn
