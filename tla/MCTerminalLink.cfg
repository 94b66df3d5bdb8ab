SPECIFICATION MCSpec
CONSTANTS
    RxCap = 8
    TxCap = 4
    LineMax = 2
    Chunk = 2
    Scratch = 3
    Timeout = 1
    Packets <- Lines
    MaxSent = 3
    Synchronous = TRUE
INVARIANTS
    InFlightStable
    RepliesInTurn
PROPERTIES
    LinkRecovers
