\* Two players across a byte boundary, with more tics than a ring has slots;
\* player 1 may quit.
CONSTANTS
    Player <- MCTwoPlayers
    Drone = {}
    NET_MAXPLAYERS = 2
    BACKUPTICS = 2
    ExtraTics = 1
    MaxAhead = 1
    AckLag = 1
    RunAhead = 1
    FirstTic = 254
    LastTic = 257
    MaxNet = 2
    MaxLoss = 0
    MaxDup = 0
    Lossy = {}
    Leavers = {1}
    Silent = {}
    Prompt = TRUE
SPECIFICATION Spec
INVARIANTS
    TypeOK
    LockStep
    ServerBehindClients
CHECK_DEADLOCK FALSE
