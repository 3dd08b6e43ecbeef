\* Two players, and two packets to the server are lost.
CONSTANTS
    Player <- MCTwoPlayers
    Drone = {}
    NET_MAXPLAYERS = 2
    BACKUPTICS = 2
    ExtraTics = 1
    MaxAhead = 1
    AckLag = 1
    RunAhead = 1
    FirstTic = 254
    LastTic = 256
    MaxNet = 2
    MaxLoss = 2
    MaxDup = 0
    Lossy = {"UP"}
    Leavers = {}
    Silent = {}
    Prompt = TRUE
SPECIFICATION FairSpec
PROPERTIES
    TicsRun
CHECK_DEADLOCK FALSE
