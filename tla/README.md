# A TLA+ model of Crispy Doom

This directory holds TLA+ specifications of Crispy Doom, the configurations that
check them with TLC on small instances, and theorems about them checked by TLAPS.
Paths are relative to the repository; `net_common.c` and the other sources without
a directory are in `src/`.

## 1. The system

Crispy Doom is a port of the Doom engine: four deterministic game simulations
driven 35 times a second, by the same sequence of *ticcmds* on every machine, and
the support around them: networking, memory, files, sound, video. What is hard to
get right and hard to test sits mostly in the support: in the network code nothing is
concurrent within a process but everything is between processes; memory is
purged under the feet of those who use it; music is played by a second thread. In
the simulation itself it is the things that go on for many tics, and that a saved
game must find again.

| Component | State it keeps | Operations | Interacts with | Hard behaviour | Correct when |
|---|---|---|---|---|---|
| Connection (`net_common.c`) | state and reason, retries and timers, list of unacknowledged reliable packets, two sequence numbers of a byte | `NET_Conn_Packet` (ACK, REJECTED, DISCONNECT, DISCONNECT_ACK, RELIABLE_ACK, reliable packets), `NET_Conn_NewReliable`, `NET_Conn_Disconnect`, `NET_Conn_Run` | called by client and server for every packet and every tic | loss, duplication, reordering, retries, killed peers | messages pass exactly once and in order; closing is final; every disconnect ends |
| Server, lobby (`net_server.c`) | `server_state`, client slots, `sv_players`, `sv_settings`, game mode | SYN, LAUNCH, GAMESTART, waiting data, end of a connection, end of a game | its connections; clients | overlapping handshakes, players leaving while a game starts | one game, not overfull, begun by all with one set of numbers |
| Server, game (`net_server.c`) | `recvwindow`, per client `sendqueue`, `sendseq`, `acknowledged` | GAMEDATA, GAMEDATA_ACK, GAMEDATA_RESEND, `NET_SV_AdvanceWindow`, `NET_SV_CheckResends`, `NET_SV_PumpSendQueue`, `NET_SV_CheckDeadlock` | clients | loss, rings and windows that wrap, players leaving | every client gets everybody's commands, the same for all, and gets them in the end |
| Client (`net_client.c`) | `send_queue`, `recvwindow`, `client_state` | GAMEDATA, GAMEDATA_RESEND, `NET_CL_SendTiccmd`, `NET_CL_AdvanceWindow`, `NET_CL_CheckResends` | tic loop (`D_ReceiveTic`), server | the same | the same |
| Tic loop (`d_loop.c`) | `ticdata` ring, `maketic`, `recvtic`, `gametic` | `BuildNewTic`, `D_ReceiveTic`, `GetLowTic`, `TryRunTics` | client, game | the ring, `ticdup`, `new_sync`, stalls | a tic is run once, complete, with the commands built for it |
| Network modules (`net_io.c`, `net_sdl.c`, `net_loop.c`) | address tables, loopback rings | send, receive, resolve | connection code | rings that drop | no packet is corrupted |
| Discovery (`net_query.c`, `net_dedicated.c`, `net_gui.c`) | query targets | queries, master server | server | timeouts | lists what answers |
| Packets (`net_packet.c`, `net_structrw.c`) | growing buffers | read and write | all of the above | short packets, tic diffs | reading gives what was written |
| Zone (`z_zone.c`; `z_native.c` for the setup program) | list of blocks, rover, owners' pointers | `Z_Malloc`, `Z_Free`, `Z_ChangeTag`, `Z_FreeTags`, `AutoAllocMemory` | lump cache, game | purging while scanning, merging under a sweep, a second arena | blocks tile the zone; an owner's pointer is exact; only what may be purged is |
| WADs (`w_wad.c`, `w_merge.c`, `w_file*.c`) | lump directory, cache | open, merge, cache, release | zone; renderer, level loader, intermission, status bar | pointers held while memory is allocated | a held lump stays |
| OPL (`opl/`) | callback heap, pause offset, timer or audio thread | set, adjust, clear callbacks, lock, pause | music code | two locks, pause, a heap of 64 | callbacks in order, none lost, none after clear |
| Sound, music (`i_*sound.c`, `i_oplmusic.c`, `mus2mid.c`, ...) | tracks, tempo, voices, channels | play, pause, stop, repeat, mix | OPL, zone | audio threads | tracks stay in step but for roundings, a song goes on |
| Moving sectors, saved games (`doom/p_doors.c`, `p_plats.c`, `p_ceilng.c`, `p_floor.c`, `p_tick.c`, `p_saveg.c`) | thinkers, `specialdata`, active lists | lines pressed and crossed, tics, save, load | simulation | a mover in the middle of its way, in stasis, met by a thing, saved | a sector has one mover; a loaded game goes on where it was |
| Events (`d_event.c`) | ring of 64 events | post, pop | video, joystick, game | overrun | no event is repeated |
| Simulations (`doom/`, `heretic/`, `hexen/`, `strife/`) | the game world | one tic | tic loop | determinism | |
| Configuration, DeHackEd, setup, text screens, PC speaker | settings | parse, edit, save | all | | |

`doomlib/` and `stm32/` hold older copies of the same code, third-party SDKs and
a Java port. OPL3 emulation (`opl/opl3.c`) is third-party.

## 2. The modules

| Module | What it is |
|---|---|
| `NetFifo` | What the reliable channel promises: two FIFO pipes. |
| `NetConn` | One connection, both ends, over a bad network. Implements `NetFifo`. |
| `MCNetConn` | Its instances. |
| `ByteArith`, `NetConnProofs` | Arithmetic of sequence numbers; the proofs about `NetConn`. |
| `ExpandTicNum` | `NET_ExpandTicNum`. |
| `TicSync`, `MCTicSync` | The game in progress: tic loops, clients and server. Uses `ExpandTicNum` for every tic number on the wire. |
| `TicSyncProofs` | The proofs about `ExpandTicNum` and `TicSync`. |
| `Lobby`, `MCLobby` | From the first SYN to the start of the game and back. |
| `LobbyProofs` | The proofs about `Lobby`. |
| `Heap` | What an allocator promises: disjoint allocations and owners' pointers. |
| `Zone` | The zone allocator. Implements `Heap`. |
| `ZoneProofs` | What the operations of `Zone` do to the blocks, and the inductive invariant they keep. |
| `LumpCache`, `MCLumpCache` | The lump cache and the callers that hold memory, over `Zone`. |
| `LumpCacheProofs` | The proofs about both: invariants of the whole, and that it implements `Heap`. |
| `OplQueue` | The heap of OPL callbacks. |
| `OplMusic`, `MCOplMusic` | The player of OPL music and the SDL driver that calls it, over `OplQueue`. |
| `OplMusicProofs` | The proofs about `OplQueue` and `OplMusic`. |
| `Movers`, `MCMovers` | Doors, plats, ceilings and floors of `doom/`, saved and loaded. |
| `MoversProofs` | The proofs about `Movers`. |

The network's three state machines are layers. `NetConn` is the connection alone.
`Lobby` uses it as reliable pipes, which `NetConn` is proved to implement, and
keeps of its states what the server's slot goes through. `TicSync` begins where
`Lobby` ends, with a started game and its players and drones, and keeps of the
connection whether the server still has it. `LumpCache` extends `Zone`, and
`OplMusic` extends `OplQueue`: each is one state machine with the operations of
the lower layer as parts of its actions. `Movers` stands alone; of the rest
of the program it needs that tics run.

Some definitions have a second one before them with a longer name and a comment that
says "a wrong version". These are what a slip in that code would look like. No
specification uses them; a property is worth its run if putting the wrong version
in the place of the right one violates it.

### NetConn

A variable per field of `net_connection_t`, for both ends; `running` is
`net_client_connected` of the client and the `active` flag of the server's slot.
There is one action for each packet handler, for `NET_CL_Connect`, its sending of a
SYN and its giving up, for `NET_Conn_NewReliable` and `NET_Conn_Disconnect`, and
`Run` is `NET_Conn_Run` with what `NET_CL_Run` or `NET_SV_RunClient` does after it
(`Settle`). Packets are a set: `Send` may find the packet there already, receiving
may leave it there (duplication), `Lose` drops it.

* Sequence numbers are taken modulo `SeqMod`, 256 in the code and 2 in the runs,
  so that the wrap happens. A stop-and-wait protocol with wrapping numbers is right
  only if a packet does not outlive a whole cycle of them. `Fresh` states this as the
  network's maximum packet lifetime, and is the one assumption about the network.
* A connection may be begun again (`Connect`, and `ParseSYN` on a slot that is free or
  DISCONNECTED), up to `MaxBegins` times at each end, while packets of the one before
  are still on their way. Nothing on the wire tells two connections of one address
  apart, so `ChannelInv`, `AckedIsDelivered`, the refinement of `NetFifo`,
  `ReliableDelivered` and `DisconnectEnds` are stated until an end begins a second time
  (`First`); what is stated without that is the handshake, the reasons given, and that
  closing is final. `MaxFaults` bounds losses, duplicates and connections of the client
  together.
* Every timer may or may not have expired each time it is looked at. With `Prompt`
  a resend timer expires only when nothing is in flight.
* `submitted` and `delivered` are history: messages handed over and passed up.

### TicSync

A ticcmd is named by the tic it was built for, so a command in the wrong tic is
seen. The windows the code moves down with `memmove` are functions from tic
numbers; the rings (`ticdata`, `sendqueue`) keep their `% BACKUPTICS`. Tic numbers
cross the network as bytes and come back through `NET_ExpandTicNum`; `FirstTic` =
254 makes the runs cross a byte boundary. `CL_Run` is `NET_CL_Run` after its
packets (`NET_CL_AdvanceWindow` with all the `D_ReceiveTic` calls, then
`NET_CL_CheckResends`); `SV_Run` is `NET_SV_Run` after its packets (pumping of and
deadlock checks for each client, then the window, then resend requests).
Booleans and sets in the actions' parameters say which timers have expired.
`ran` is history: what each client ran. Abstracted: tic diffs (the code sends what
changed in a ticcmd; the model names the ticcmd), latencies and clock adjustment.

### Lobby

`clients` is the server's array, with the fields that matter before a game.
`ParseSYN` is the whole of `NET_SV_ParseSYN` for a client of the right version: it
renumbers the players as a side effect, as does the waiting data that
`NET_SV_RunClient` sends. `Run` and `RunExpired` are `NET_SV_Run` without and with a
connection that ends. The latter keeps the order of slots, which decides who is
renumbered before and after. Two connections that end in one `NET_SV_Run` are two
steps of the model. A client's numbers and settings are the ones it read last.
Messages are on reliable pipes, `up` and `down`, that a new connection begins empty:
`NET_Conn_InitServer` clears the server's list, `NET_CL_Connect` both ends of a client
that begins again. `Freed` keeps what the code keeps of a slot that is given up: its
`player_number`.

With `Orderly` = TRUE no two handshakes overlap and no launch overlaps a handshake.
This is a restriction of the environment and not of the code: without it
`PlayersFit`, `SameGame` and `NobodyLate` are false (section 5).

### Zone and LumpCache

`block` is the list of `memblock_t`, by address; `zone` and `rover` are
`mainzone` and its rover; `pointer[u]` is the variable of an owner, a lump's
`cache` or a texture's entry in `texturecomposite`. Addresses count headers (40
bytes); `MINFRAGMENT`, 64 bytes, is one unit too. `Z_Malloc` and `Z_FreeTags` are
loops over the list that change it as they go: one pass of the loop is one step, so
that the invariants hold also while a call is under way, and `malloc` and `sweep`
are the calls' locals. `FreeBlock` has the merging with the neighbours on both
sides and the moving of the rover. When a scan comes round to where it began,
`AutoAllocMemory` gives the zone a new arena and abandons the old one, as the code
does, or the program ends.

`Heap` is what callers believe in: intervals that do not overlap, pointers that are
where the allocation is, and nothing that vanishes but what was freed, swept or
purgable. `HeapSpec`, in `Zone`, is `Heap` with a refinement mapping: `live` are
the blocks with a tag other than `PU_FREE`, fragments and headers are not seen.
A step that only moves the scan on is a stutter.

In `LumpCache` `job` is the caller that is in the middle of something while the
allocator runs: `R_GenerateComposite`, which holds a block while the patches it caches
push each other out; the level loader, which takes level memory, then a lump
as PU_STATIC, and releases it; `WI_loadData`; and one who keeps a lump for good, as
`ST_loadGraphics` does. A lump that is cached already only changes its tag.

### OplQueue and OplMusic

`OPL_Queue_Push` and `OPL_Queue_Pop` sift the heap as the code does: `Rise` and `Sink`
say where the loop goes on from each place, `Holes` are the places it comes by, and
`Percolated` moves the entries along them and puts the new one where it ends. `.time` of
an entry is how long it still has to wait, so that there is no clock to bound.
`AdjustCallbacks` scales it from `current_time`, without `pause_offset`, as the code
does; its quotient is truncated, and as it is computed in `float` it may be wrong by
`AdjustError` besides.

Time is counted in us. What the code converts, the model converts: the samples to the
next callback are rounded up (`SamplesFor`, `opl_sdl.c:206-207`), the us that samples take
are rounded down (`TimeOf`, `opl_sdl.c:116`), so that a callback may come up to a sample late
and its track waits from then on, and `Wait` drops the rest of its division by
`ticks_per_beat` (`i_oplmusic.c:1435`).

Two threads. The audio thread's `step` says where it is in `OPL_Mix_Callback` and
`AdvanceTime`: it counts the samples to the next callback, lets time pass and pops
what is due, calls it, looks for the next. Between any two of these the game's
thread may act: the callback is popped under one mutex and called under another,
and `held` is the one that is out of the queue and not called yet. The game's thread
starts the tracks of a song one by one, each in two steps (the tempo is read,
then `OPL_SetCallback` locks), pauses, resumes and stops. A song is a sequence of
tracks of events with a tempo; notes and instruments are left out. A track
that `I_OPL_StopSong` has freed may, when its callback is called all the same, do what a
live one does or nothing (`StaleCallback`).

`RestartSong` schedules all tracks of the file. In a race with `I_OPL_PlaySong` or
`I_OPL_StopSong` some of them have no iterator yet, or one that was freed, and wait for
what the memory holds (`WildWaits`).

`races` is history: "apart", time or tempo moved while a song was being started, so
that its tracks do not begin together; "skewed", a tempo changed after a pause;
"overtaken", a song was stopped with a callback held. `InStep` is stated for
behaviours without any of these, `OneCallbackEach` and `PlaysOn` for those without the
last (section 5). `InStep` bounds how far tracks come apart by what the roundings add up to:
for each event a track has read a sample and a us, and for each change of tempo the error of
its scaling.

### Movers

`map` is the level: heights of floors and ceilings, `specialdata` of the sectors,
the list of thinkers, a record for each mover's struct, the two active lists. The
operators follow the source's functions: `T_VerticalDoor`, `T_PlatRaise`,
`T_MoveCeiling`, `T_MoveFloor` with `T_MovePlane`, and the `EV_` functions that a
line calls. `P_RunThinkers` runs a tic: all thinkers in order, with those freed that
were removed a tic ago. `Saved` are the movers `P_ArchiveSpecials` writes, with its
rule for thinkers that have no function, and `Unarchived` what `P_UnArchiveSpecials`
makes of them, one after the other (`Restored`), in a level that `P_SetupLevel` has set
up afresh. The code's loops, over thinkers or sectors, are recursive functions of the
number of rounds. Whether a sector holds a
thing that does not fit is an input. Heights are fixed-point numbers with `FRACUNIT` steps
to a whole, and every mover goes one step in a tic; `P_ArchiveWorld` saves whole heights
only (`Rounded`). A field that the code leaves uninitialised, and what `P_Random` gives,
has any value, another one in each sector of a line. When a plat finds no room in
`activeplats` the program is at its end (`Ended`: the `I_Error` of `P_AddActivePlat`).

## 3. The runs

| Run | Question | Result |
|---|---|---|
| `conn` | Is the channel exactly-once and in order, closing final, and the reason given true, for any timing, with a lost or a duplicated packet, a killed client and a second connection? Does everything submitted arrive, and does a disconnect end? | holds |
| `conn_handshake` | Does an accepted client survive one lost packet? | violated |
| `tics` | Do two players run the same complete tics, and does the server keep what they still lack, when one of them quits? | holds |
| `tics_watch` | Do a player and a drone run the same, with a packet lost and one duplicated, when the server makes tics ahead and drops the drone while it goes on? Do its send queues hold what may be asked for again? | holds |
| `tics_live` | Does the game go on after two packets to the server are lost? | holds |
| `tics_deadlock` | And after two packets of the server are lost? | violated |
| `tics_desync` | Do all clients see the same of a player that quits? | violated |
| `lobby` | Does a game begin with the right players, numbers and settings? Does a startup end, and does everybody get in? | holds |
| `memory` | Do blocks tile the arena at every moment, are owners' pointers exact, does what a caller holds stay, does every call return, and is all that what `Heap` promises? | holds |
| `opl` | When samples are no whole us and divisions leave a rest: does the earliest callback come first and none too late, has every track one, do tracks drift no further apart than the roundings of their events, and does a looping song go on, through changes of tempo, pauses, stops and repeats? | holds |
| `opl_stop` | Is no callback of a song called after it was stopped? | violated |
| `movers` | Has a sector one mover and a mover its place in the lists, does a loaded game go on as it was saved, and does what can come to rest do so? | holds |

### Bounds, and why they are enough

* **Connection.** `SeqMod` = 2 is the smallest modulus with which stop-and-wait
  can work; whatever goes wrong with a wrap goes wrong here first. Two messages
  of the server wrap it; the client has none. `MAX_RETRIES` = 1 has a first try, a
  retry and a giving up.
  One loss or one duplicate or one more connection of the client, anywhere, with two
  packets in flight. The two directions of the channel are the same code; the theorems
  have none of these bounds.
* **Game.** `BACKUPTICS` = 2 is the smallest ring for players that may be one tic
  ahead (`MaxAhead` = 1; `TicAssumption` asks for twice as many slots as tics ahead,
  as 128 is for 5). The three tics of `tics` are more than the ring holds, so it
  wraps, and cross from 255 to 256. `AckLag` and `RunAhead` are 1 instead of 40 and 10.
  Neither `tics` nor `tics_desync` loses packets; `tics_watch`, `tics_live` and
  `tics_deadlock` do. `tics_watch` spans two tics; see the drone's ring in section 6.
  So does `tics_live`, with two losses: a tic is sent twice (`ExtraTics` = 1), and
  one loss is repaired without anybody asking. `tics_deadlock` has the tics and
  losses of `tics_live` and a ring of four, since `NET_SV_CheckDeadlock` (section 6)
  may miss a tic in a ring of two, as it does not in one of 128; the counterexample
  owes nothing to the small ring.
* **Lobby.** Three connects among five clients (two fit, a third too many, a drone,
  and one with another game) let slots be freed and taken again by a younger client,
  so that the order of slots is not the order of age.
* **Memory.** An arena of four units is the list head and room for one block; the
  second, twice as big, has room for a few. Two patches, a graphic of the
  intermission, one it shares with the status bar, a texture of two patches that is
  larger than each, and two blocks of level memory are more than fits: purging,
  merging on either side, splitting with and without a fragment left over, growth
  and the end of memory happen in many orders.
* **OPL.** Two and a half us to a sample and divisions that leave a rest. Three songs: one
  of two tracks that speeds up and slows down again, one of notes that are each played
  late, and one of four tracks with events at the same time, which fills the queue of
  four and in which either child of a heap's entry sinks. Two are played, with buffers of
  up to two samples and three us of pause. The code has 44100 samples to a second, so
  that an event is late by less than 23 us, and `float`s with 24 bits, so that
  `AdjustError` is 1 us for what waits less than four seconds. `opl_stop` needs one song
  of one track.
* **Movers.** Three uses of lines, one tic with something in the way, and one save
  and load, in three sectors: a hall, a room with a door and a plat that closes after
  30 seconds, one with a ceiling and a floor, also raised as a plat, that opens after five
  minutes. Two steps to a whole height, so that what is saved is rounded.
  Three uses start, stop and wake a mover, or start one, turn it round and
  start another. Way and waits are a few tics. `MAXCEILINGS` is one, the
  number of ceilings there can be in this map; `MAXPLATS` is one as well, and a second
  plat ends the program.

Distinct states, for orientation: `conn` 528,754; `lobby` 264,692;
`memory` 161,662; `opl` 1,573,744; `movers` 1,160,132.

### Fairness

The main loop of every process calls `NetUpdate` and `TryRunTics` for ever
(`D_DoomLoop`), and through them `NET_CL_Run` and `NET_SV_Run`: weak fairness of the
`Run` actions and of building and running tics. Timers are compared with a clock
that advances: weak fairness of runs in which they have expired. Packets that the
network does not lose arrive: weak fairness of delivery, while losses are bounded.
In `TicSync` what sends a packet is strongly fair: the bound `MaxNet`
switches such an action off and on again, which the real network does not.
In `LumpCache` the program executes the calls it makes: weak fairness of `Call`.
In `OplMusic` SDL goes on asking for buffers: weak fairness of the audio thread
(except in a pause at its bound), and of the game's thread while it starts the
tracks of a song. In `Movers` tics go on while the program does; a tic is always
possible then, so that infinitely many of them is the same as weak fairness.
Nothing is fair that a person decides: connecting, launching, quitting, playing
and stopping a song, pressing a switch.

## 4. What is proved

`NetConnProofs` proves, for every modulus greater than 1, every number of retries,
messages, losses and duplicates, from `ConnAssumption` alone:

* `TypeCorrect`: `Spec => []TypeOK`.
* `ChannelCorrect`: `Spec => []ChannelInv`. `ChannelInv` is the inductive invariant,
  while neither end has begun a second time, for each direction: the list holds exactly
  the submitted messages that are not acknowledged; the counters are the history's
  counts modulo `SeqMod`; the receiver is at most one message ahead of what the sender
  knows; a reliable packet in flight carries the number of its message, which was
  submitted and is at most the first unacknowledged one; an acknowledgement in flight
  counts no more than was delivered. The properties below do not follow from themselves
  by induction: that the right packet is freed depends on what the acknowledgements in
  flight can say, which depends on which packets in flight can still be taken for new
  ones, which depends on the counters.
* `AckedCorrect`: `AckedIsDelivered`, from `ChannelInv`.
* `FifoCorrect`: `NetConn` implements `NetFifo`. Every step submits a message,
  delivers the next one, changes nothing a user of the channel sees, or begins the
  connection anew, with which the promise of the old one ends.

That a SYN which opens the slot for the first time finds it as `NET_Conn_Init` leaves it
is an invariant of its own, `Unbegun`.

The step that carries the argument is `ExpectedIsNext`: a packet that has the
expected byte, and is fresh, carries the next message. It needs that two numbers
less than `SeqMod` apart with the same remainder are equal (`ByteArith`).

* `NoHalfAcceptedCorrect`, `RemoteCorrect`: the two invariants about opening and
  closing, neither of them inductive alone. `HandshakeInv`: only a client that was
  accepted ever sends an ACK, so one on its way to the server, like a CONNECTED server,
  means that the client has left CONNECTING; for that, only the server may ever be
  WAITING_ACK and repeat one. `ClosingInv`: a DISCONNECT in flight, and an end that
  repeats one, come from an end that asked; a REJECTED from the server's refusal;
  an end sleeps only when its peer asked. Both hold however often the ends begin again,
  but that `NoHalfAccepted` says nothing of a client's second connection: an ACK of its first
  one may complete the handshake of its second.
* `NeverReopenedCorrect`: an action property, from the types and `ClosingStays`, which
  follows a closing or closed end through every action: it stays, or a connection
  begins that keeps no message, counter or retry of the old one.

### Memory

From `ZoneAssumption`, `CacheAssumption` and `UsesAssumption`, for arenas of any sizes
and any number of them, any lumps, textures and callers. `ZoneProofs` has what each
operation does; `LumpCacheProofs` the theorems of the specification.

* `ZoneInv`: the blocks of an arena tile it from one address to the next
  (`Tiling`, `Growth`), a call in progress keeps what its loop relies on (`Scanning`,
  `Sweeping`), and owners' pointers are exact (`OwnersExact`). `HeapIntact` alone is
  not inductive: that merging two blocks leaves no free neighbours needs that there
  were none but where the call is at work, and that the scan does not fall off the list
  needs that its cursors are blocks, which freeing may take away under them.
* `CacheInv` adds what callers hold: `Keeping` (what is kept is allocated under a tag
  that no purge takes), `Waiting` (where a job is, and what it has so far), `Returned`.
  `HeldKept` alone is not inductive either: what a job holds while the allocator runs
  on its behalf depends on the step it is in, and the sizes of what is allocated.
* `TypeCorrect`, `HeapIntactCorrect`, `OwnersExactCorrect`, `CursorsLiveCorrect`,
  `HeldKeptCorrect`: the run's invariants, from these.
* `HeapRefined`: the specification implements `Heap`. `TakeRefines` has the step that
  takes a block, `SweepEnd` that a sweep has freed all it must when it ends: the
  blocks it has passed are not of its tags any more, and it has passed all.

`UsesAssumption` is what the callers of the code do: what the intermission holds is not
drawn from the cache meanwhile, and neither that nor a static lump is a patch of a
texture or a lump of a map. A static lump may be drawn (section 5).
Two WADs fall outside. One whose DeHackEd patch replaces the title page by the
intermission's background (`DEH_AddStringReplacement("TITLEPIC", "INTERPIC")`,
`doom/d_main.c:1332`, does just that for one game) has one lump with two uses; that is
harmless, since the title is not drawn in an intermission. One whose `PNAMES` lists a
graphic of the status bar or the intermission as a patch would make it purgable.

### The game

`TicSyncProofs` begins with `ExpandCorrect`: `NET_ExpandTicNum` gives back every tic
number within 64 of the receiver's, for all natural numbers. The rest is from
`TicAssumption` (rings of up to 128 tics, as many as the code's `BACKUPTICS`, and twice
as many as a client may be ahead), for any number of players and drones, any losses and
duplicates.

* `TicInvCorrect`: `Spec => []TicInv`. Its parts: every position is where the others
  allow it (`WindowTypes`, `Ordered`); every copy of a command, in the windows
  (`Stored`), the send queues (`Queued`), the packets in flight (`Packets`) and the
  players' rings (`Ring`), is kept under the tic it was built for; and what was run
  was complete (`History`). None of them is inductive alone: a packet's tic is a byte,
  and that it is expanded to the right number depends on how far sender and receiver
  are apart, which depends on what is acknowledged, which depends on what was stored.
  The chain is `sendseq[q] <= maketic[p]` for a connected player `p` and any other
  player `q`: nobody is sent a tic before all others have made it, and nobody makes one
  `MaxAhead` tics past the one it runs next. A number that is not expanded to the
  right one is at least 256 too low, and is dropped.
* `TypeCorrect`, `ServerBehindCorrect`, `SendQueueCorrect`: the run's invariants. The
  last one says that the `I_Error` of `NET_SV_SendTics` cannot be reached.
* `PlayersInStep`: players run complete tics whatever drones do. `LockStepCorrect` has
  the same for everybody while `DronesKeepUp`: no drone has received more than a ring
  of tics that it has not run. Players keep up because of `MaxAhead`; nothing in the
  code holds a drone to it (section 6). `DroneInv`, inductive with `TicInv` under
  that condition, says what a drone holds: the tics it has received and not run
  are in its ring, each with the commands of the connected players.
* `AgreementCorrect`: any two clients run the same when only drones leave or are given
  up and drones keep up. `tics_watch` is an instance of it, with `DronesKeepUp` because
  its tics are no more than the ring's slots; `tics_desync` shows why players may not
  leave.

`Fresh`, in the model, is the network's maximum packet lifetime in tics: a GAMEDATA
packet is received while its numbers are at most 64 tics behind the receiver's, as
`ExpandCorrect` asks; for numbers that are further ahead `ExpandBelow` has all the
argument needs. The code has no such test.

### The lobby

`LobbyProofs`, from `LobbyAssumption`, for any number of clients, slots and places.

* Numbering. `NumberRange`, `NumberGrows`, `NumberOne`: players are numbered without
  gaps or repetitions in the order of slots. `AssignedPlayers`: `sv_players` is the
  inverse. `AllNumbered`: when `NET_SV_NumPlayers` is below the maximum it has counted
  everybody, though it looks only at `sv_players`.
* `LobbyInvCorrect`: `Spec => []LobbyInv`, with no restriction on who overlaps or
  leaves. An address has one slot, which knows whether it is a drone's; `sv_players`
  has no drones; nobody is ready before the launch; a connection that is being
  made has no past (`Young`), which is why a late ACK cannot make a ready player.
* `ControllerChoseCorrect`, `StartsWithAllCorrect`: the two action properties, when
  `Leavers` are drones, and however handshakes overlap. `Startup` is inductive with
  `LobbyInv`: there is a controller; once it is ready the settings are its own; the
  players numbered at the launch are connected. Its two delicate steps: a
  handshake that ends after the launch may make a new controller, which is not ready,
  and a node that is lost is a drone or aborts the startup.
* `TypeCorrect`, `NumbersAgreeCorrect`, when `Orderly` is TRUE. `OrderlyInv` is
  inductive with `LobbyInv`: there is one handshake at most, of one client and one slot,
  and none with a launch on its way (`OneHandshake`, `NoneCut`); players connected or
  about to be are no more than `NET_MAXPLAYERS` (`Room`); and in a game the numbers in
  every GAMESTART still on its way, and in the settings of every client that has read
  one, are those of the server's slots (`Numbers`).
* No theorem has `PlayersFit`, `SameGame` or `NobodyLate`: with overlapping handshakes
  they are false (section 5), and what would be left is a check in one function.

### The music

`OplMusicProofs`, from `QueueAssumption`, `MusicAssumption` and `SongAssumption`, for any
size of queue and any songs, buffers and pauses.

* The queue. `PushIs` and `PopIs` say what a push and a pop leave in every place,
  `PushHeap` and `PopHeap` that each entry is no earlier than its parent still, `HeapTop`
  that the first is the earliest. `HolesClosed` and `HoleFrom` stand for the loops: a place
  is come by when it is the first, or the next of one that is.
* `AdjustKeeps`: a change of tempo keeps the order, although it rounds, with whatever
  error that keeps order and sign, and counts from the wrong time (section 5).
* `MusicInvCorrect`: `Spec => []MusicInv`. The queue is a heap (`Sound`); its callbacks
  are of started tracks, or of songs that were stopped (`CurrentTo`), and the one that is
  held as well; the track that is being started is one of the song's (`Reading`); tracks
  are read to their ends at most; and when the next samples are counted, all that
  waits is yet to come (`Coming`). `NothingLate` is not inductive
  alone: that the audio thread stops popping at the first entry that is not due says
  something of the others only because of the heap.
* `EarliestFirstCorrect`, `NothingLateCorrect`, `TypeCorrect`: the run's invariants.
* `OneCallbackEachCorrect`, for songs that `Fits`: as many tracks at most as the queue
  has places. `EachInv` is inductive with `MusicInv`: the keys of the queue's callbacks (a
  track, or `None` for the restart) are distinct, and with the callback that is held they are
  those that are `Due`; a queue that holds one for each of the other tracks has room
  for one more (`RoomForOne`). `PushKeys` and `PopKeys` are what this needs of the heap: a
  push adds its entry to those there were, a pop takes away the first and no other. They
  rest on `PercolatedFrom`: the moves along the way are a permutation.

`SongAssumption` is what `midifile.c` reads: a track ends with its one END_OF_TRACK. A tempo
of 0, which a file may have, is excluded: `MetaSetTempo` divides by it.

### The movers

`MoversProofs`, from `MoverAssumption` (a finite number of sectors and movers, at least one
mover for each sector, lines that do what lines can do, and neither ceilings nor
floors where a door can be opened by hand), for any level, heights, waits, lines, things
in the way, saves and loads.

* `LevelInvCorrect`: `Spec => []LevelInv(map)`. Its parts `Listed`, `Pointed` and `Entered`
  are those of `MoversOwned`; `Sound` says besides that only plats and ceilings are in
  stasis, so that whatever sleeps is of a kind that has an active list, and that a
  ceiling is where some line makes ceilings, so that one more finds its place.
* One lemma for each function of the code: `DoorKeeps`, `PlatKeeps`, `CeilingKeeps` and
  `FloorKeeps` for the thinkers, `StopKeeps` and `ActivateKeeps` for stasis, `DoKeeps` and
  `VerticalDoorKeeps` for lines, `LoadKeeps`. They rest on what the few ways to
  change a level do to it: a new mover (`WithKeeps`), movers changed in place
  (`MovedKeeps`), one that ends (`FinishedKeeps`) and one that is freed (`FreedKeeps`).
* The loops are one induction, `CourseKeeps`; `Good` says what holds after so many rounds.
  For a tic: the thinkers still to come are still there. For a line, a load and the
  start of a level: there is room for one mover in each round to come. For a load besides:
  a sector that has a mover got it from one restored before, so that no sector
  gets two, although the code never looks.
* `MoversOwnedCorrect`, when `CeilingsFit`: no more sectors for ceilings than `MAXCEILINGS`.
  `Full`, each live ceiling is in the array, is inductive with `LevelInv`. The condition
  cannot be left out (section 5).
* `SaveKeepsCorrect`, under the same condition. What is saved is what is alive
  (`SavedLive`), as whatever is in stasis is in an active list. `Copied` says what a load has
  done after so many rounds: the new list, whose thinkers are all alive, has the
  movers that the saved list had alive so far, in their order. That all sectors and
  active lists come out the same follows from `LevelInv` and `Full` of both
  levels (`SameMover`, `SameActive`): they say who moves in a sector, and who is
  active, by the movers alone, not by their addresses. Heights are those that were saved,
  rounded down to whole ones.

### Only model-checked

Liveness (the prover has none): `ReliableDelivered`, `DisconnectEnds`, `TicsRun`,
`StartupEnds`, `EverybodyStarts`, `CallReturns`, `PlaysOn`, `MoversRest`. `InStep`, whose
bound is a sum over the events read. `PlayersFit`, `SameGame` and `NobodyLate`, which
`lobby` checks where handshakes do not overlap. Every other property of a passing run is a
theorem. The hypotheses of `LockStepCorrect` and
`AgreementCorrect` are what the code does not ensure: a drone may fall behind, and
with a player that leaves `Agreement` is false.

## 5. Where code and comments disagree

* `conn_handshake`. The server repeats its ACK for want of a reply, but a client
  that has answered once is CONNECTED and ignores the repetition. One lost answer
  and the server drops a client it accepted.
* `tics_deadlock`. `NET_SV_CheckDeadlock` is there to "prevent against deadlock". It
  asks clients for what the server lacks. When what is lost are the server's packets
  and no later one follows, the server lacks nothing and the clients do not ask.
* `tics_desync`. GAMEDATA after its sender's DISCONNECT is accepted. Clients
  whose tic is put together before it arrives lack the leaver's commands, the others
  have them.
* `opl_stop`. `OPL_ClearCallbacks` is to clear all callbacks that have been set
  (`opl.h:131`), and `OPL_Lock` to keep callbacks from being invoked
  (`opl_sdl.c:137-140`). `AdvanceTime` has popped a callback and waits for the lock
  while `I_OPL_StopSong` clears a queue that no longer holds it, and frees its track.

Some properties are true only of part of what the code allows. They say so, and here is
what lies outside; where a comment of the code promises more, it is quoted.

**Connection.** A client that comes again at the same address can be taken for the one
before: its SYN forces the old connection's ACK again, if that has not been confirmed, and is
ignored if it has; and reliable packets of the old connection that are still on their way are
taken by the new one when their numbers fit. "If this is a recently-disconnected client,
deactivate to allow immediate reconnection" (`net_server.c:697-698`) is said of a slot that is
DISCONNECTED, but a slot whose client has disconnected sleeps for five seconds and is freed
right after them; in the five seconds a SYN is neither accepted nor refused.

**Lobby.** `PlayersFit`, `SameGame` and `NobodyLate` hold while handshakes do not overlap.
`NET_SV_ParseSYN` is to check that a slot is free and that all play the same game
(`net_server.c:712-713`, `744-745`), but counts connected clients only: with `Orderly` FALSE TLC
finds handshakes that are all accepted, although there is one place, or although their games
differ. Too many players make `NET_SV_AssignPlayers` write past `sv_players`. A game is to start
when all nodes are ready (`813-814`, `881`); a client whose last handshake packet arrives after
that becomes connected to a running game it was not ready for, and holds up the acknowledged
tic. `StartsWithAll` holds while only drones quit. "If we were about to start a game, any
player disconnecting should cause an abort" (`1667-1668`), but a player that quits sleeps for
five seconds, in which it is neither connected nor disconnected: the others, if they are ready,
start without it, and when it was the only one a game of nobody starts. While it sleeps the
server may count no players although a drone is connected; the next player's game is
adopted then, and `SameGame` is false even if nothing overlaps.

**Lump cache.** A lump that is kept as PU_STATIC and also drawn with PU_CACHE becomes
purgable with the first drawing, and the pointer dangles after a purge. `HeldKept`
excludes it: it is the crosshair of `r_things.c`, kept by `R_DrawLSprite` (line 773) and
drawn by `R_DrawVisSprite` (453). After growth `Z_FreeTags` sweeps
the new arena only, so the level's blocks of the old one are never freed; and
`Z_Malloc` never looks at the block its scan starts from again when it comes round
to it (`z_zone.c:284-287`). `Heap` allows the first and says nothing of the second.

**OPL.** Tracks drift apart: a track waits from when its callback was called, which is up to
a sample after it was due, and times are rounded at each event. `InStep` says by how much.
`RestartSong` keeps the tempo the song ended with.
`I_OPL_PlaySong` schedules its tracks while the audio thread plays the first ones, so that
they may begin apart, and a tempo set by the first is missed by the next; `InStep` leaves
such a song out. After a pause `AdjustCallbacks` scales times that `pause_offset` has left
behind, although what remains is counted with it: tracks fall out of step at the next
change of tempo, and what waits is not scaled as `opl.h:126-127` says. That comment also
has it that a factor of 0.5 halves the times; the code divides by the factor, and its only
caller counts on that. A file
with more tracks than the 64 places of the queue loses callbacks: `OPL_Queue_Push` writes a
line and returns, those tracks are silent, and the song, whose count of running tracks never
reaches 0, is not repeated.

**Movers.** A line of kind D1 (31 to 34, 118) gives a sector a second mover while one
is at work (`p_doors.c:413`: the comment of line 402, "if the sector has an active thinker, use
it", is kept for DR lines only); the two fight for ever, and `MoversOwned` leaves such sectors
out. A plat that raises to the next floor and
meets something turns down to a `low` that was never set, and waits 0 tics, which
counts down past zero for ever. A door turned round by hand, of a type that only
closes or only opens, comes to a `default` case and is never removed. Using a door
on a plat sets the plat's `wait` or `count` to -1. With `MAXCEILINGS` ceilings
active, one more is entered nowhere and never stops at the end; a load gives the places to
the ceilings that come first in the list of thinkers, so that one in stasis may be left
without, and nothing wakes it (`MoversOwned` is false with two ceilings, one place and
four lines crossed before a load). `P_SpawnDoorCloseIn30`
leaves `topheight` and `topwait` uninitialised, and `EV_DoPlat` `count`. Heights of sectors
are saved in whole units (`p_saveg.c:1566-1567`, read at `1614-1615`), so a mover at a fraction
is not kept exactly; `SaveKeeps` says what is. A plat more than `MAXPLATS` ends the
program, in the middle of the line's sectors.

## 6. What is not modelled, and why

* Out of `TicSync`: `ticdup` > 1, `new_sync`, the frame skipping of `OldNetSync`, and
  the return from `TryRunTics` after a stall. Tic diffs: the base of a diff is
  the previous tic's command, and goes wrong only with what `LockStep` excludes
  or with a player that is missing for a tic.
* A drone acknowledges tics it received, not tics it ran. When it falls more than
  `BACKUPTICS` behind, `D_ReceiveTic` overwrites commands it has not run. The runs
  with a drone span no more tics than the ring has slots.
* Packets more than 64 tics old, which `NET_ExpandTicNum` takes for new ones (`Fresh` in
  `TicSync`).
* `NET_SV_CheckDeadlock` reads `recvwindow[player][i]` from an array
  `[tic][player]`. The model reads what the code reads.
* `NET_CL_Run` shuts down a client as soon as it sleeps, so it never repeats a lost
  DISCONNECT_ACK. `NetConn` does the same, and `DisconnectEnds` holds all the same:
  the server runs out of retries.
* `NET_CL_Disconnect` sets `client_state` to WAITING_START on a timeout although it
  shuts down (`net_client.c:1057`). `NET_CL_Shutdown` follows, and
  the next `NET_CL_Connect` sets it anew.
* Below connections: UDP is the network of the models. The loopback ring drops
  packets when 15 are queued, as a network does, and leaks them (`net_loop.c:52`).
  Addresses, packet buffers, tic diffs' bits.
* `Zone`: `Z_ChangeUser`, dumps and heap checks. `LumpCache`: opening and merging of
  WADs, a sequential computation at startup; memory-mapped WADs, whose lumps are
  never in the zone.
* `OplMusic`: voices, volumes and instruments; the timer thread of the drivers for
  hardware (`opl_timer.c`), which pops and calls like the SDL driver; writes to
  registers that `I_OPL_PauseSong` and `I_OPL_SetMusicVolume` make without the lock.
  Sound effects, and the other music devices.
* `Movers`: `EV_BuildStairs`, `EV_DoDonut`, `EV_DoGoobers` (a cheat, which leaves
  the active lists pointing at what it removed), lights, things, the several speeds,
  sounds. The same mechanisms in `heretic/`, `hexen/` and
  `strife/` are near copies and are not mapped.
* `D_PostEvent` does not test for a full ring: 64 unread events empty it
  (`d_event.c:37`). Nothing runs concurrently with it.
* The rest of the simulations (things, weapons, monsters) and the devices: the first are
  sequential and deterministic functions of the commands, the others
  input and output. Configuration, DeHackEd, setup program and text screens parse
  and draw.
* Most of the repository's lines: of about 1.6 million, `doomlib/` has close to half,
  in copies of the engine, tutorials and a Java port, and `stm32/` is a vendor's SDK with
  register definitions. These are not the program this directory is about.

## 7. Plan

Models stand, and every property of a passing run is a theorem but for those of
"Only model-checked".

Models that could follow: `ticdup` and `new_sync` on top of `TicSync`'s loop,
`EV_BuildStairs` and `EV_DoDonut` in `Movers`, MUS to MIDI channel allocation.
