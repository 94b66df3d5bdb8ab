CONSTANTS
    PPQN = 8
    Ts4 = 1
    Midi = 2
    Resolution = 4
    Quarters = 2
    KeyIntervals <- ShortAndLong
    Recent = 2
    Gone = 4
    Preempt = 1
SPECIFICATION MCSpec
INVARIANTS
    ClockConsistent
    KeysFallOnQuarters
    PulsesCount
PROPERTIES
    ClocksAreHeard
