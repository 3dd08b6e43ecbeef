\* One lost ACK costs an accepted client its connection.
CONSTANTS
    MAX_RETRIES = 5
    SeqMod = 2
    MaxReliable <- MCNone
    MaxLoss = 1
    MaxDup = 0
    MaxNet = 2
    MaxBegins <- MCOnce
    MaxFaults = 4
    Crashes = {}
    Prompt = TRUE
SPECIFICATION Spec
INVARIANT HandshakeSurvivesOneLoss
CHECK_DEADLOCK FALSE
