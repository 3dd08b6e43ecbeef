\* Player 1 quits a game that player 0 plays and client 2 watches.
CONSTANTS
    Player <- MCTwoPlayers
    Drone = {2}
    NET_MAXPLAYERS = 2
    BACKUPTICS = 2
    ExtraTics = 1
    MaxAhead = 1
    AckLag = 1
    RunAhead = 1
    FirstTic = 254
    LastTic = 256
    MaxNet = 3
    MaxLoss = 0
    MaxDup = 0
    Lossy = {}
    Leavers = {1}
    Silent = {}
    Prompt = TRUE
SPECIFICATION Spec
INVARIANTS
    Agreement
CHECK_DEADLOCK FALSE
