\* A game of one player, and a drone that watches it and may leave; a packet is
\* lost, and one duplicated.
CONSTANTS
    Player <- MCOnePlayer
    Drone = {2}
    NET_MAXPLAYERS = 2
    BACKUPTICS = 2
    ExtraTics = 1
    MaxAhead = 1
    AckLag = 1
    RunAhead = 1
    FirstTic = 254
    LastTic = 256
    MaxNet = 2
    MaxLoss = 1
    MaxDup = 1
    Lossy = {"UP", "DOWN"}
    Leavers = {2}
    Silent = {2}
    Prompt = TRUE
SPECIFICATION Spec
INVARIANTS
    Agreement
    SendQueueHolds
CHECK_DEADLOCK FALSE
