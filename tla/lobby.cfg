\* Three players for two places, a drone and one with another game; handshakes
\* do not overlap, a player may die and the drone leave.
CONSTANTS
    Node = {"a", "b", "c", "d", "e"}
    Drones = {"d"}
    Game <- MCTwoGames
    MAXNETNODES = 3
    NET_MAXPLAYERS = 2
    MaxConnects = 3
    MaxQueue = 1
    Leavers = {"d"}
    Silent = {"a"}
    Orderly = TRUE
SPECIFICATION FairSpec
INVARIANTS
    TypeOK
    PlayersFit
    SameGame
    NobodyLate
    NumbersAgree
PROPERTIES
    StartupEnds
    EverybodyStarts
    ControllerChose
    StartsWithAll
CHECK_DEADLOCK FALSE
