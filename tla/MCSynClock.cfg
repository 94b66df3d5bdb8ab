CONSTANTS
    PPQNOut = 8
    Interval = 1
    BlockTime = 1
    PPQNIns <- BothClocks
    Tempos <- TwoTempi
    Thresh = 24
    MaxGap = 7
SPECIFICATION ClockSpec
INVARIANTS
    PulsesPaid
PROPERTIES
    TempoIsRight
