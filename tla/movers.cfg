\* Three switches or doors pressed, something in the way for one tic, one load.
CONSTANTS
    numsectors = 3
    Tag <- MCTag
    Surround <- MCSurround
    Height = {0, 4}
    FloorHeight <- MCFloor
    CeilingHeight <- MCCeiling
    TaggedLine <- MCTaggedLine
    DoorLine <- MCDoorLine
    CloseIn30 = {1}
    RaiseIn5Mins = {2}
    Mover = {1, 2, 3, 4, 5, 6, 7}
    FRACUNIT = 2
    MAXCEILINGS = 1
    MAXPLATS = 1
    PLATWAIT = 1
    VDOORWAIT = 1
    LONGWAIT = 2
    MaxUses = 3
    MaxBlocked = 1
    MaxLoads = 1
SPECIFICATION FairSpec
INVARIANT MoversOwned
PROPERTIES
    SaveKeeps
    MoversRest
CHECK_DEADLOCK FALSE
