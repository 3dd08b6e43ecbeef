\* One connection, and one more begun in its place, with any timing.
CONSTANTS
    MAX_RETRIES = 1
    SeqMod = 2
    MaxReliable <- MCTwoFromServer
    MaxLoss = 1
    MaxDup = 1
    MaxNet = 2
    MaxBegins <- MCTwice
    MaxFaults = 2
    Crashes = {"client"}
    Prompt = FALSE
SPECIFICATION FairSpec
INVARIANTS
    TypeOK
    AckedIsDelivered
    ChannelInv
    NoHalfAccepted
    RemoteIsRemote
PROPERTIES
    NeverReopened
    FifoSpec
    ReliableDelivered
    DisconnectEnds
CHECK_DEADLOCK FALSE
