\* A short song is stopped.
CONSTANTS
    Songs <- MCShort
    TimeDivision <- MCShortUnit
    DefaultTempo = 1
    Fastest <- MCShortUnit
    RestartDelay = 1
    OPL_SECOND = 3
    mixing_freq = 2
    MaxBuffer = 2
    WildWaits = {0}
    MaxPause = 0
    MaxPlays = 2
    MAX_OPL_QUEUE = 4
    AdjustError = 0
    None = None
SPECIFICATION Spec
INVARIANTS
    StopIsFinal
