CONSTANTS
    NDecks = 1
    RingCap = 3
    ScratchCap = 2
    StageCap = 2
    Files <- MCLibrary
    Faults = FALSE
    KeepsUp = FALSE
    Block = 2
    Preempt = 1
    MaxTake = 4
    MaxOps = 5
SPECIFICATION MCSpec
INVARIANTS
    DecksConsistent
    DecksFaithful
PROPERTIES
    StreamsUndisturbed
    StreamsEnd
