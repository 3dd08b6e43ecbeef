------------------------------- MODULE Movers -------------------------------
(***************************************************************************)
(* The moving sectors of the Doom simulation (src/doom/p_doors.c,          *)
(* p_plats.c, p_ceilng.c, p_floor.c), the list of thinkers that runs them  *)
(* (p_tick.c), and how a game is saved and loaded in the middle of a       *)
(* movement (p_saveg.c).                                                   *)
(*                                                                         *)
(* A door, plat, ceiling or floor in motion is a mover: a thinker that     *)
(* its sector's specialdata points to, and that the array activeplats or   *)
(* activeceilings points to if it is of these kinds. `map` is the level as *)
(* the simulation keeps it; the operators below take a level to a level.   *)
(*                                                                         *)
(* Heights are fixed-point numbers, FRACUNIT to a whole one, and every     *)
(* mover goes one step of them in a tic: the several speeds of the code    *)
(* are left out.  Things do not appear: whether a sector holds one that    *)
(* does not fit (P_ChangeSector) is an input of the tic.  What a malloc    *)
(* leaves uninitialised, and what P_Random gives, is chosen for each       *)
(* sector.                                                                 *)
(***************************************************************************)
EXTENDS Integers, SequencesExt

CONSTANTS numsectors,    \* sectors of the level
          Tag,           \* Tag[s]: the tag of sector s
          Surround,      \* Surround[s]: sectors on the other side of its lines
          Height,        \* heights, what an uninitialised field may hold too
          FloorHeight, CeilingHeight,   \* heights at the start of the level
          TaggedLine,    \* lines that act on the sectors of a tag
          DoorLine,      \* lines that act on the door behind them
          CloseIn30, RaiseIn5Mins,      \* sectors with special 10 and 14
          Mover,         \* addresses of thinkers
          FRACUNIT,      \* steps of a whole height
          MAXCEILINGS, MAXPLATS,   \* movers activeceilings and activeplats hold
          PLATWAIT, VDOORWAIT, LONGWAIT, \* tics to wait; LONGWAIT: 30 s, 5 min
          MaxUses, MaxBlocked, MaxLoads  \* bounds of a run

Null == 0
Sector == 0 .. numsectors - 1

\* A line names what it does. Where a door can be opened by hand only doors and
\* plats move: EV_VerticalDoor takes any mover for a door.
DoorEvent == {"vld_normal", "vld_open", "vld_close", "vld_close30ThenOpen"}
PlatEvent == {"perpetualRaise", "downWaitUpStay", "raiseToNearestAndChange"}
CeilingEvent == {"crushAndRaise", "lowerAndCrush", "lowerToFloor", "raiseToHighest"}
FloorEvent == {"raiseFloor", "lowerFloorToLowest"}
StopEvent == {"EV_StopPlat", "EV_CeilingCrushStop"}

ASSUME MoverAssumption ==
    /\ numsectors \in Nat /\ MAXCEILINGS \in Nat /\ MAXPLATS \in Nat
    /\ FRACUNIT \in Nat \ {0}
    /\ Mover \subseteq Nat \ {Null} /\ IsFiniteSet(Mover)
    /\ numsectors <= Cardinality(Mover) /\ Height \subseteq Int
    /\ FloorHeight \in [Sector -> Int] /\ CeilingHeight \in [Sector -> Int]
    /\ \A s \in Sector : Surround[s] \subseteq Sector \ {s} /\ Surround[s] # {}
    /\ \A l \in TaggedLine :
         l.event \in DoorEvent \cup PlatEvent \cup CeilingEvent \cup FloorEvent
                        \cup StopEvent
    /\ \A l \in DoorLine : l.special \in {"DR", "D1"} /\ l.sector \in Sector
    /\ \A l \in TaggedLine, d \in DoorLine :
         l.tag = Tag[d.sector] => l.event \notin CeilingEvent \cup FloorEvent

\* Every ceiling that can be in motion finds a place in the array.
CeilingSector(s) == \E l \in TaggedLine : l.event \in CeilingEvent /\ l.tag = Tag[s]
CeilingsFit == Cardinality({s \in Sector : CeilingSector(s)}) <= MAXCEILINGS

VARIABLES map,      \* the level
          leveltime,   \* tics run, modulo 2: the tics are the steps that change it
          uses, blockings, loads    \* what the bounds count

vars == <<map, leveltime, uses, blockings, loads>>

----------------------------------------------------------------------------
(* Sectors                                                                 *)

P_FindLowestFloorSurrounding(w, s) ==
    Min({w.floor[o] : o \in Surround[s] \cup {s}})
P_FindHighestFloorSurrounding(w, s) == Max({w.floor[o] : o \in Surround[s]})
P_FindNextHighestFloor(w, s) ==
    LET higher == {h \in {w.floor[o] : o \in Surround[s]} : h > w.floor[s]}
    IN IF higher = {} THEN w.floor[s] ELSE Min(higher)
P_FindLowestCeilingSurrounding(w, s) == Min({w.ceiling[o] : o \in Surround[s]})
P_FindHighestCeilingSurrounding(w, s) == Max({w.ceiling[o] : o \in Surround[s]})

\* Four whole units below the lowest ceiling, here one.
DoorTop(w, s) == P_FindLowestCeilingSurrounding(w, s) - FRACUNIT

\* P_FindSectorFromLineTag finds s, and it has no mover yet.  (A wrong version
\* takes a sector that has one.)
TaggedAny(w, s, tag) == Tag[s] = tag
TaggedIdle(w, s, tag) == Tag[s] = tag /\ w.data[s] = Null

----------------------------------------------------------------------------
(* Thinkers                                                                *)

NoMover == [kind |-> "none"]

\* Thinkers that are neither freed nor waiting to be.
Live(w) == {m \in Mover : w.mover[m].kind # "none" /\ w.mover[m].function # "removed"}
Unused(w) == {m \in Mover : w.mover[m].kind = "none"}

\* A new mover of sector m.sector: Z_Malloc, P_AddThinker, specialdata, and the
\* list of its kind, where a ceiling finds no room without anybody noticing; a
\* plat that finds none is the end of the program.
Spawn(w, m) ==
    LET a == Min(Unused(w))
    IN [w EXCEPT !.mover[a] = m,
                 !.thinkers = Append(@, a),
                 !.data[m.sector] = a,
                 !.activeplats = IF m.kind = "plat" THEN @ \cup {a} ELSE @,
                 !.activeceilings =
                     IF m.kind = "ceiling" /\ Cardinality(@) < MAXCEILINGS
                     THEN @ \cup {a} ELSE @]

\* specialdata = NULL; P_RemoveThinker, which leaves the thinker in the list.
Removed(w, a) ==
    [w EXCEPT !.mover[a].function = "removed", !.data[w.mover[a].sector] = Null]

\* The I_Error of P_AddActivePlat.
Ended(w) == Cardinality(w.activeplats) > MAXPLATS

P_RemoveActivePlat(w, a) == [Removed(w, a) EXCEPT !.activeplats = @ \ {a}]
P_RemoveActiveCeiling(w, a) ==
    IF a \in w.activeceilings
    THEN [Removed(w, a) EXCEPT !.activeceilings = @ \ {a}] ELSE w

----------------------------------------------------------------------------
(* Movement                                                                *)

\* T_MovePlane: one unit towards dest, and how it went.  A thing that does not
\* fit stops a plane that goes on, unless it may be crushed; a rising ceiling is
\* not stopped.  The last bit of the way counts as done even when it is stopped.
T_MovePlane(here, dest, plane, dir, crush, blocked) ==
    LET next == IF dir = "up" THEN here + 1 ELSE here - 1
        past == IF dir = "up" THEN next > dest ELSE next < dest
        closing == <<plane, dir>> \in {<<"floor", "up">>, <<"ceiling", "down">>}
    IN CASE past -> [height |-> IF blocked THEN here ELSE dest, res |-> "pastdest"]
         [] ~past /\ blocked /\ <<plane, dir>> # <<"ceiling", "up">> ->
              [height |-> IF closing /\ crush THEN next ELSE here, res |-> "crushed"]
         [] OTHER -> [height |-> next, res |-> "ok"]

\* --counter.  Below -1 it takes two years to get back to 0.
CountDown(n) == IF n < -1 THEN n ELSE n - 1

\* The types of doors that are done when they are shut, and when they are open.
\* (A wrong version forgets doors that only close.)
DoneShutForgetful == {"vld_normal"}
DoneShut == {"vld_normal", "vld_close"}
DoneOpen == {"vld_open", "vld_close30ThenOpen"}

T_VerticalDoor(w, a, blocked) ==
    LET m == w.mover[a]
        s == m.sector
        left == CountDown(m.count)
        dest == IF m.dir = "down" THEN w.floor[s] ELSE m.high
        move == T_MovePlane(w.ceiling[s], dest, "ceiling", m.dir, FALSE, s \in blocked)
        moved == [w EXCEPT !.ceiling[s] = move.height]
    IN CASE m.dir = "waiting" ->
              [w EXCEPT !.mover[a].count = left,
                        !.mover[a].dir =
                            IF left # 0 THEN @
                            ELSE CASE m.type = "vld_normal" -> "down"
                                   [] m.type = "vld_close30ThenOpen" -> "up"
                                   [] OTHER -> @]
         [] m.dir = "initial" ->
              [w EXCEPT !.mover[a] =
                  IF left = 0 /\ m.type = "vld_raiseIn5Mins"
                  THEN [@ EXCEPT !.count = left, !.dir = "up", !.type = "vld_normal"]
                  ELSE [@ EXCEPT !.count = left]]
         [] m.dir = "down" /\ move.res = "pastdest" ->
              CASE m.type \in DoneShut -> Removed(moved, a)
                [] m.type = "vld_close30ThenOpen" ->
                     [moved EXCEPT !.mover[a].dir = "waiting", !.mover[a].count = LONGWAIT]
                [] OTHER -> moved
         [] m.dir = "down" /\ move.res = "crushed" /\ m.type # "vld_close" ->
              [moved EXCEPT !.mover[a].dir = "up"]
         [] m.dir = "up" /\ move.res = "pastdest" ->
              CASE m.type \in DoneOpen -> Removed(moved, a)
                [] m.type = "vld_normal" ->
                     [moved EXCEPT !.mover[a].dir = "waiting", !.mover[a].count = m.wait]
                [] OTHER -> moved
         [] OTHER -> moved

T_PlatRaise(w, a, blocked) ==
    LET m == w.mover[a]
        s == m.sector
        left == CountDown(m.count)
        dest == IF m.dir = "up" THEN m.high ELSE m.low
        move == T_MovePlane(w.floor[s], dest, "floor", m.dir, FALSE, s \in blocked)
        moved == [w EXCEPT !.floor[s] = move.height]
    IN CASE m.dir = "waiting" ->
              [w EXCEPT !.mover[a].count = left,
                        !.mover[a].dir =
                            IF left # 0 THEN @
                            ELSE IF w.floor[s] = m.low THEN "up" ELSE "down"]
         [] m.dir = "up" /\ move.res = "crushed" ->
              [moved EXCEPT !.mover[a].dir = "down", !.mover[a].count = m.wait]
         [] m.dir = "up" /\ move.res = "pastdest" /\ m.type # "perpetualRaise" ->
              P_RemoveActivePlat(moved, a)
         [] /\ move.res = "pastdest" /\ m.dir \in {"up", "down"}
            /\ m.dir = "up" => m.type = "perpetualRaise" ->
              [moved EXCEPT !.mover[a].dir = "waiting", !.mover[a].count = m.wait]
         [] OTHER -> moved

T_MoveCeiling(w, a, blocked) ==
    LET m == w.mover[a]
        s == m.sector
        dest == IF m.dir = "up" THEN m.high ELSE m.low
        crush == m.type = "crushAndRaise" /\ m.dir = "down"
        move == T_MovePlane(w.ceiling[s], dest, "ceiling", m.dir, crush, s \in blocked)
        moved == [w EXCEPT !.ceiling[s] = move.height]
    IN CASE move.res = "pastdest" /\ m.type = "crushAndRaise" ->
              [moved EXCEPT !.mover[a].dir = IF m.dir = "up" THEN "down" ELSE "up"]
         [] move.res = "pastdest" /\ m.type # "crushAndRaise" ->
              P_RemoveActiveCeiling(moved, a)
         [] OTHER -> moved

T_MoveFloor(w, a, blocked) ==
    LET m == w.mover[a]
        s == m.sector
        move == T_MovePlane(w.floor[s], m.high, "floor", m.dir, FALSE, s \in blocked)
        moved == [w EXCEPT !.floor[s] = move.height]
    IN IF move.res = "pastdest" THEN Removed(moved, a) ELSE moved

\* One thinker's turn.  A removed one is taken off the list and freed only now.
Unlinked(q, a) == RemoveAt(q, CHOOSE i \in DOMAIN q : q[i] = a)
Think(w, a, blocked) ==
    LET m == w.mover[a]
    IN CASE m.function = "removed" ->
              [w EXCEPT !.thinkers = Unlinked(@, a), !.mover[a] = NoMover]
         [] m.function = "none" -> w
         [] m.function = "think" ->
              CASE m.kind = "door" -> T_VerticalDoor(w, a, blocked)
                [] m.kind = "plat" -> T_PlatRaise(w, a, blocked)
                [] m.kind = "ceiling" -> T_MoveCeiling(w, a, blocked)
                [] m.kind = "floor" -> T_MoveFloor(w, a, blocked)

P_RunThinkers(w, blocked) ==
    LET v[i \in 0 .. Len(w.thinkers)] ==
            IF i = 0 THEN w ELSE Think(v[i - 1], w.thinkers[i], blocked)
    IN v[Len(w.thinkers)]

----------------------------------------------------------------------------
(* Lines                                                                   *)

\* What every mover has; tag is the sector's.
Fresh(s, kind, type) ==
    [kind |-> kind, type |-> type, sector |-> s, tag |-> Tag[s], function |-> "think",
     dir |-> "up", old |-> "up", low |-> 0, high |-> 0, wait |-> 0, count |-> 0]

\* EV_DoDoor, also EV_VerticalDoor.
Door(w, s, type) ==
    [Fresh(s, "door", type) EXCEPT
        !.dir = IF type \in {"vld_close", "vld_close30ThenOpen"} THEN "down" ELSE "up",
        !.high = IF type = "vld_close30ThenOpen" THEN w.ceiling[s] ELSE DoorTop(w, s),
        !.wait = VDOORWAIT]

\* EV_DoPlat.  No plat is given a count, and one that is to stay up no low: they
\* hold what the memory held, where only a count of -1 is ever told from others
\* before a wait sets it.  P_Random says which way a perpetual one goes first.
Luck == [low : Height, count : {-1, 0}, dir : {"up", "down"}]
Plat(w, s, type, luck) ==
    LET here == w.floor[s]
    IN [Fresh(s, "plat", type) EXCEPT
        !.dir = CASE type = "downWaitUpStay" -> "down"
                  [] type = "perpetualRaise" -> luck.dir
                  [] OTHER -> "up",
        !.count = luck.count,
        !.low = IF type = "raiseToNearestAndChange" THEN luck.low
                ELSE Min({here, P_FindLowestFloorSurrounding(w, s)}),
        !.high = CASE type = "downWaitUpStay" -> here
                   [] type = "perpetualRaise" ->
                        Max({here, P_FindHighestFloorSurrounding(w, s)})
                   [] OTHER -> P_FindNextHighestFloor(w, s),
        !.wait = IF type = "raiseToNearestAndChange" THEN 0 ELSE PLATWAIT]

\* EV_DoCeiling.
Ceiling(w, s, type) ==
    [Fresh(s, "ceiling", type) EXCEPT
        !.dir = IF type = "raiseToHighest" THEN "up" ELSE "down",
        !.low = w.floor[s] + (IF type = "lowerToFloor" THEN 0 ELSE FRACUNIT),
        !.high = IF type = "raiseToHighest" THEN P_FindHighestCeilingSurrounding(w, s)
                 ELSE w.ceiling[s]]

\* EV_DoFloor.
Floor(w, s, type) ==
    [Fresh(s, "floor", type) EXCEPT
        !.dir = IF type = "raiseFloor" THEN "up" ELSE "down",
        !.high = IF type = "raiseFloor"
                 THEN Min({w.ceiling[s], P_FindLowestCeilingSurrounding(w, s)})
                 ELSE P_FindLowestFloorSurrounding(w, s)]

\* EV_StopPlat, EV_CeilingCrushStop: what moves of the active ones is put in
\* stasis.
Stop(w, active, tag) ==
    [w EXCEPT !.mover = [a \in Mover |->
        IF a \in active /\ w.mover[a].tag = tag /\ w.mover[a].dir # "stasis"
        THEN [@[a] EXCEPT !.old = w.mover[a].dir, !.dir = "stasis", !.function = "none"]
        ELSE @[a]]]

\* P_ActivateInStasis, P_ActivateInStasisCeiling.
Activate(w, active, tag) ==
    [w EXCEPT !.mover = [a \in Mover |->
        IF a \in active /\ w.mover[a].tag = tag /\ w.mover[a].dir = "stasis"
        THEN [@[a] EXCEPT !.dir = w.mover[a].old, !.function = "think"]
        ELSE @[a]]]

\* What a line gives to sector s.
NewMover(w, s, event, luck) ==
    CASE event \in DoorEvent -> Door(w, s, event)
      [] event \in PlatEvent -> Plat(w, s, event, luck)
      [] event \in CeilingEvent -> Ceiling(w, s, event)
      [] event \in FloorEvent -> Floor(w, s, event)
Given(w, s, l, luck) ==
    IF TaggedIdle(w, s, l.tag) THEN Spawn(w, NewMover(w, s, l.event, luck[s])) ELSE w

\* A line with a tag: EV_DoDoor, EV_DoPlat, EV_DoCeiling, EV_DoFloor, which go
\* through the sectors in order, and the two that stop.
EV_Do(w, l, luck) ==
    LET awake == CASE l.event = "perpetualRaise" -> Activate(w, w.activeplats, l.tag)
                   [] l.event = "crushAndRaise" -> Activate(w, w.activeceilings, l.tag)
                   [] OTHER -> w
        v[n \in 0 .. numsectors] ==
            IF n = 0 THEN awake ELSE Given(v[n - 1], n - 1, l, luck)
    IN CASE l.event = "EV_StopPlat" -> Stop(w, w.activeplats, l.tag)
         [] l.event = "EV_CeilingCrushStop" -> Stop(w, w.activeceilings, l.tag)
         [] OTHER -> v[numsectors]

\* A line that opens the door behind it, again and again ("DR") or once ("D1"),
\* pressed by a player or a monster.  What moves in the sector is taken for a
\* door.  If it is a plat, door->direction reads the plat's count (in the layout
\* of 64-bit builds), and to close it the code stops the plat's wait from ending,
\* or the wait it is in, if it is in stasis.
\* A D1 line gets a door of its own, whatever moves there.
EV_VerticalDoor(w, l, player) ==
    LET a == w.data[l.sector]
        m == w.mover[a]
    IN CASE l.special = "D1" ->
              [Spawn(w, Door(w, l.sector, "vld_open")) EXCEPT !.spent = @ \cup {l}]
         [] l.special = "DR" /\ a = Null -> Spawn(w, Door(w, l.sector, "vld_normal"))
         [] l.special = "DR" /\ a # Null ->
              CASE m.kind = "door" /\ m.dir = "down" -> [w EXCEPT !.mover[a].dir = "up"]
                [] m.kind = "plat" /\ m.count = -1 -> [w EXCEPT !.mover[a].count = 1]
                [] m.kind = "door" /\ m.dir # "down" /\ player ->
                     [w EXCEPT !.mover[a].dir = "down"]
                [] m.kind = "plat" /\ m.count # -1 /\ player ->
                     IF m.function = "think" THEN [w EXCEPT !.mover[a].wait = -1]
                     ELSE [w EXCEPT !.mover[a].count = -1]
                [] OTHER -> w

----------------------------------------------------------------------------
(* Saving and loading                                                      *)

\* P_ArchiveSpecials writes what thinks, and what is in stasis.  (A wrong version
\* forgets plats in stasis.)
SavedCeilings(w, a) ==
    \/ w.mover[a].function = "think"
    \/ w.mover[a].function = "none" /\ a \in w.activeceilings
Saved(w, a) ==
    \/ w.mover[a].function = "think"
    \/ w.mover[a].function = "none" /\ a \in w.activeceilings \cup w.activeplats

\* P_ArchiveWorld writes what is left of >> FRACBITS.
Whole(h) == FRACUNIT * (h \div FRACUNIT)
Rounded(heights) == [s \in Sector |-> Whole(heights[s])]

\* P_UnArchiveWorld, P_UnArchiveThinkers and P_UnArchiveSpecials in a level just
\* set up: sectors and lines as saved, and the movers that were saved allocated
\* anew, in the order of the list.
Cleared(w) == [w EXCEPT !.floor = Rounded(@), !.ceiling = Rounded(@),
                        !.mover = [a \in Mover |-> NoMover], !.thinkers = <<>>,
                        !.data = [s \in Sector |-> Null],
                        !.activeplats = {}, !.activeceilings = {}]
Restored(v, w, a) == IF Saved(w, a) THEN Spawn(v, w.mover[a]) ELSE v
Unarchived(w) ==
    LET v[i \in 0 .. Len(w.thinkers)] ==
            IF i = 0 THEN Cleared(w) ELSE Restored(v[i - 1], w, w.thinkers[i])
    IN v[Len(w.thinkers)]

----------------------------------------------------------------------------
(* The simulation                                                          *)

\* P_SpawnDoorCloseIn30 and P_SpawnDoorRaiseIn5Mins.  The first gives the door no
\* topheight and no topwait.
SpawnedDoor(w, s, luck) ==
    IF s \in CloseIn30
    THEN [Door(w, s, "vld_normal") EXCEPT !.dir = "waiting", !.count = LONGWAIT,
                                          !.high = luck[s].high, !.wait = luck[s].wait]
    ELSE [Door(w, s, "vld_raiseIn5Mins") EXCEPT !.dir = "initial", !.count = LONGWAIT]

\* P_SpawnSpecials goes through the sectors of a level with no movers.
Still == [floor |-> FloorHeight, ceiling |-> CeilingHeight,
          data |-> [s \in Sector |-> Null],
          mover |-> [a \in Mover |-> NoMover], thinkers |-> <<>>,
          activeplats |-> {}, activeceilings |-> {}, spent |-> {}]
Special(w, s, luck) ==
    IF s \in CloseIn30 \cup RaiseIn5Mins THEN Spawn(w, SpawnedDoor(w, s, luck)) ELSE w
P_SpawnSpecials(luck) ==
    LET v[n \in 0 .. numsectors] ==
            IF n = 0 THEN Still ELSE Special(v[n - 1], n - 1, luck)
    IN v[numsectors]

\* P_SetupLevel.
Init ==
    /\ \E luck \in [CloseIn30 -> [high : Height, wait : {-1, 1}]] :
         map = P_SpawnSpecials(luck)
    /\ leveltime = 0 /\ uses = 0 /\ blockings = 0 /\ loads = 0

Running == ~Ended(map)
Room == Cardinality(Sector) <= Cardinality(Unused(map))

P_CrossSpecialLine(l) ==
    /\ Running /\ uses < MaxUses /\ Room
    /\ \E luck \in [{s \in Sector : Tag[s] = l.tag} -> Luck] : map' = EV_Do(map, l, luck)
    /\ uses' = uses + 1
    /\ UNCHANGED <<leveltime, blockings, loads>>

P_UseSpecialLine(l) ==
    /\ Running /\ uses < MaxUses /\ Room
    /\ l \notin map.spent
    /\ \E player \in BOOLEAN : map' = EV_VerticalDoor(map, l, player)
    /\ uses' = uses + 1
    /\ UNCHANGED <<leveltime, blockings, loads>>

P_Ticker(blocked) ==
    /\ Running /\ (blocked # {} => blockings < MaxBlocked)
    /\ blockings' = blockings + Cardinality(blocked)
    /\ map' = P_RunThinkers(map, blocked)
    /\ leveltime' = (leveltime + 1) % 2
    /\ UNCHANGED <<uses, loads>>

\* G_DoSaveGame, and G_DoLoadGame of what it wrote.
SaveAndLoad ==
    /\ Running /\ loads < MaxLoads
    /\ map' = Unarchived(map)
    /\ loads' = loads + 1
    /\ UNCHANGED <<leveltime, uses, blockings>>

Next ==
    \/ \E l \in TaggedLine : P_CrossSpecialLine(l)
    \/ \E l \in DoorLine : P_UseSpecialLine(l)
    \/ P_Ticker({}) \/ \E s \in Sector : P_Ticker({s})
    \/ SaveAndLoad

Spec == Init /\ [][Next]_vars

\* Tics go on while the program does, and nothing stands in the way for ever:
\* what stands in the way is bounded by MaxBlocked.  A tic is always possible
\* then, so that this is weak fairness of tics.
FairSpec == Spec /\ (<>Ended(map) \/ []<><<leveltime' # leveltime>>_vars)

----------------------------------------------------------------------------
(* Properties                                                              *)

\* Sectors that a D1 line may have given a second mover.
Shared(w) == {l.sector : l \in w.spent}

\* A thinker is in the list exactly once until it is freed.
Listed(w) ==
    /\ IsInjective(w.thinkers)
    /\ ToSet(w.thinkers) = {a \in Mover : w.mover[a].kind # "none"}

\* specialdata is Null or a live mover of that sector, and the movers of a sector
\* are one, the one it points to, unless a D1 line was used.
Pointed(w) ==
    /\ \A s \in Sector : w.data[s] # Null =>
         w.data[s] \in Live(w) /\ w.mover[w.data[s]].sector = s
    /\ \A a \in Live(w) :
         w.mover[a].sector \in Shared(w) \/ w.data[w.mover[a].sector] = a

\* The active lists hold the live plats, and ceilings, and nothing that is gone.
Entered(w) ==
    /\ w.activeplats = {a \in Live(w) : w.mover[a].kind = "plat"}
    /\ w.activeceilings \subseteq {a \in Live(w) : w.mover[a].kind = "ceiling"}
    /\ Cardinality(w.activeceilings) <= MAXCEILINGS
    /\ \A a \in Live(w) : w.mover[a].function = "none" <=> w.mover[a].dir = "stasis"

\* What is in stasis is in one of them, or nothing could wake it.
Wakeable(w) ==
    \A a \in Live(w) : w.mover[a].dir = "stasis" => a \in w.activeplats \cup w.activeceilings

\* Type invariant, and who points to whom, which is what the tests of specialdata
\* in the EV_ functions and the searches of the active lists are for.
MoversOwned ==
    /\ DOMAIN map.floor = Sector /\ DOMAIN map.ceiling = Sector
    /\ \A a \in Mover : map.mover[a].kind \in {"none", "door", "plat", "ceiling", "floor"}
    /\ Listed(map) /\ Pointed(map) /\ Entered(map) /\ Wakeable(map)

\* What a level means to somebody who does not see addresses.
MoverOf(w, s) == IF w.data[s] = Null THEN NoMover ELSE w.mover[w.data[s]]
Met(movers, w, a) == IF a \in Live(w) THEN Append(movers, w.mover[a]) ELSE movers
Order(w, n) ==    \* the live ones of the first n thinkers
    LET movers[i \in 0 .. Len(w.thinkers)] ==
            IF i = 0 THEN <<>> ELSE Met(movers[i - 1], w, w.thinkers[i])
    IN movers[n]
Seen(w) ==
    [spent |-> w.spent,
     movers |-> Order(w, Len(w.thinkers)),
     active |-> {w.mover[a] : a \in w.activeplats \cup w.activeceilings},
     data |-> [s \in Sector \ Shared(w) |-> MoverOf(w, s)]]

\* A game that is loaded goes on where it was saved: every mover on its way,
\* waiting or in stasis, in the same order (the comment "Things to handle" at
\* p_saveg.c:1783-1794).  The heights of the sectors, but not those a mover goes
\* to, are rounded down to whole ones (p_saveg.c:1566-1567, 1614-1615).
SaveKeeps ==
    [][loads' # loads => /\ Seen(map') = Seen(map)
                         /\ map'.floor = Rounded(map.floor)
                         /\ map'.ceiling = Rounded(map.ceiling)]_vars

\* Movers that the code lets come to an end: not those that go up and down for
\* ever, nor those in stasis, nor those for which the code has no way out: a plat
\* whose wait a door line has made endless, a raised plat that met something and
\* goes down to a low it never had, a door with no time to wait at the top, one
\* closed by hand before its five minutes are over, or one that only closes, or
\* only opens, and was turned round by hand; nor two in one sector.
Transient(a) ==
    LET m == map.mover[a]
    IN /\ a \in Live(map) /\ m.dir # "stasis" /\ m.sector \notin Shared(map)
       /\ CASE m.kind = "door" ->
                 /\ m.wait > 0
                 /\ m.type = "vld_raiseIn5Mins" => m.dir = "initial"
                 /\ m.type = "vld_close" => m.dir = "down"
                 /\ m.type = "vld_open" => m.dir = "up"
            [] m.kind = "plat" ->
                 \/ /\ m.type = "downWaitUpStay" /\ m.wait > 0
                    /\ m.dir = "waiting" => m.count >= 0
                 \/ m.type = "raiseToNearestAndChange" /\ m.dir = "up"
            [] m.kind = "ceiling" -> m.type # "crushAndRaise"
            [] m.kind = "floor" -> TRUE

\* Once nobody presses a switch and nothing is in the way, these come to rest,
\* and their sectors can be moved again, unless a plat too many ended the program.
MoversRest == <>[](Ended(map) \/ \A a \in Mover : ~Transient(a))
=============================================================================
