------------------------------ MODULE MCMovers ------------------------------
(* Movers on a small instance: a hall (0), a room whose door closes after  *)
(* 30 seconds and whose floor is a plat (1), and one whose door opens      *)
(* after five minutes and whose ceiling and floor move, also as a plat (2).*)
EXTENDS Movers

MCTag == [s \in Sector |-> s]
MCSurround == [s \in Sector |-> IF s = 0 THEN {1, 2} ELSE {0}]
MCFloor == [s \in Sector |-> IF s = 0 THEN 0 ELSE 2]
MCCeiling == [s \in Sector |-> IF s = 0 THEN 6 ELSE 4]
MCTaggedLine ==
    {[event |-> e, tag |-> 1] :
        e \in PlatEvent \cup {"EV_StopPlat", "vld_close30ThenOpen", "vld_close"}}
    \cup {[event |-> e, tag |-> 2] :
        e \in {"crushAndRaise", "EV_CeilingCrushStop", "lowerToFloor", "raiseFloor",
              "raiseToNearestAndChange"}}
MCDoorLine == {[special |-> d, sector |-> 1] : d \in {"DR", "D1"}}
=============================================================================
