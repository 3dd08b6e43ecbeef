\* Two songs of three played, one after the other, with pauses and roundings.
CONSTANTS
    Songs <- MCSongs
    TimeDivision <- MCSongsDivision
    DefaultTempo = 6
    Fastest <- MCSongsFastest
    RestartDelay = 1
    OPL_SECOND = 5
    mixing_freq = 2
    MaxBuffer = 2
    WildWaits = {0}
    MaxPause = 3
    MaxPlays = 2
    MAX_OPL_QUEUE = 4
    AdjustError = 1
    None = None
SPECIFICATION FairSpec
INVARIANTS
    TypeOK
    EarliestFirst
    NothingLate
    OneCallbackEach
    InStep
PROPERTIES
    PlaysOn
