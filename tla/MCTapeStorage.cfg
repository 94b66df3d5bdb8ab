\* A user who lets one deck finish before using the other, and a card that
\* never fails.
CONSTANTS
    NTapes = 2
    NSlots = 1
    Chunks = 2
    BootTries = 1
    OpenTries = 5
    PreloadOn = TRUE
    Faults = FALSE
    Full = FALSE
    Waits = {"open", "load", "save"}
    MaxOps = 5
SPECIFICATION MCSpec
INVARIANTS
    StorageConsistent
    ShownIsThere
    BuffersWhole
PROPERTIES
    NothingCutShort
    OperationsEnd
