------------------------------- MODULE Lobby -------------------------------
(***************************************************************************)
(* From the first SYN to the running game (src/net_server.c,               *)
(* net_client.c, d_loop.c): clients take slots of the server, the          *)
(* controller launches, everybody reports ready, the server numbers the    *)
(* players and starts the game, and it returns to waiting when the last    *)
(* player is gone.                                                         *)
(*                                                                         *)
(* The connections are those of NetConn, reduced to what the server's slot *)
(* goes through; the reliable channel is the pair of FIFO pipes NetConn    *)
(* implements, and it loses its contents with the connection.  Console     *)
(* messages and waiting data change no state at the receiver that matters  *)
(* here; that sending waiting data renumbers the players does matter.      *)
(***************************************************************************)
EXTENDS Integers, Sequences, FiniteSetsExt

CONSTANTS
    Node,           \* addresses of clients
    Drones,         \* those that connect with -drone
    Game,           \* Game[n]: the game mode and mission n plays
    MAXNETNODES,    \* client slots of the server
    NET_MAXPLAYERS, \* players in a game, and everybody's max_players
    MaxConnects,    \* bound: NET_CL_Connect calls
    MaxQueue,       \* bound: reliable messages on their way from a client
    Leavers,        \* clients that may quit, with a DISCONNECT
    Silent,         \* clients that may die without a word
    Orderly         \* whether no two handshakes, and no launch, overlap

None == "none"
NoSlot == -1
Slot == 0 .. MAXNETNODES - 1
PlayerNum == 0 .. NET_MAXPLAYERS - 1

\* NET_SV_AssignPlayers writes past sv_players when more players than fit are
\* connected; the model does not.
ASSUME LobbyAssumption ==
    /\ None \notin Node /\ IsFiniteSet(Node) /\ Drones \subseteq Node
    /\ Leavers \subseteq Node /\ Silent \subseteq Node
    /\ MAXNETNODES \in Nat \ {0} /\ NET_MAXPLAYERS \in Nat \ {0}
    /\ MaxConnects \in Nat /\ MaxQueue \in Nat
    /\ Orderly \in BOOLEAN
    /\ \A n \in Node : Game[n] # None

VARIABLES
    server_state, clients, sv_players, sv_settings, sv_game,
    client_state,   \* of net_client.c; "OUT" when not connected
    settings,       \* the settings a client read last
    sent,           \* clients that sent their GAMESTART
    up, down,       \* reliable messages to and from the server
    ack, bye,       \* clients with an ACK, a DISCONNECT in flight
    connects        \* history: NET_CL_Connect calls

serverVars == <<server_state, clients, sv_players, sv_settings, sv_game>>
clientVars == <<client_state, settings, sent, connects>>
vars == <<serverVars, clientVars, up, down, ack, bye>>

NoSettings == [from |-> None, num_players |-> 0, consoleplayer |-> 0]
Free == [addr |-> None, conn |-> None, drone |-> FALSE, ready |-> FALSE,
         last_send_time |-> "PAST", connect_time |-> 0, player_number |-> 0]

\* NET_SV_Init
Init ==
    /\ server_state = "WAITING_LAUNCH"
    /\ clients = [i \in Slot |-> Free]
    /\ sv_players = [p \in PlayerNum |-> NoSlot]
    /\ sv_settings = NoSettings
    /\ sv_game = None
    /\ client_state = [n \in Node |-> "OUT"]
    /\ settings = [n \in Node |-> NoSettings]
    /\ sent = {} /\ ack = {} /\ bye = {}
    /\ up = [n \in Node |-> <<>>]
    /\ down = [n \in Node |-> <<>>]
    /\ connects = 0

----------------------------------------------------------------------------
(* Who is there.  cl is the array of clients at some point of a handler.   *)

Active(cl, i) == cl[i].addr # None
ClientConnected(cl, i) == cl[i].conn = "CONNECTED"
Connected(cl) == {i \in Slot : ClientConnected(cl, i)}
PlayerSlots(cl) == {i \in Connected(cl) : ~cl[i].drone}

\* Slot i is deactivated (NET_SV_RunClient, NET_SV_ParseSYN); what it was numbered
\* stays.
Freed(cl, i) == [cl EXCEPT ![i] = [Free EXCEPT !.player_number = cl[i].player_number]]

\* NET_SV_FindClient
SlotsOf(cl, n) == {i \in Slot : cl[i].addr = n}

\* NET_SV_AssignPlayers: players are numbered in the order of their slots.
Number(cl, i) == Cardinality({j \in PlayerSlots(cl) : j < i})
Numbered(cl) ==
    [i \in Slot |->
        IF i \notin Connected(cl) THEN cl[i]
        ELSE [cl[i] EXCEPT !.player_number =
                IF cl[i].drone THEN -1 ELSE Number(cl, i)]]
AssignPlayers(cl) ==
    [p \in PlayerNum |->
        LET is == {i \in PlayerSlots(cl) : Number(cl, i) = p}
        IN IF is = {} THEN NoSlot ELSE CHOOSE i \in is : TRUE]

\* NET_SV_NumPlayers, by the assignment pl.
NumPlayers(cl, pl) ==
    Cardinality({p \in PlayerNum : pl[p] # NoSlot /\ ClientConnected(cl, pl[p])})

\* NET_SV_Controller: the oldest connected player (the first slot of equals).
Controller(cl) ==
    {i \in PlayerSlots(cl) : \A j \in PlayerSlots(cl) :
        \/ cl[i].connect_time < cl[j].connect_time
        \/ cl[i].connect_time = cl[j].connect_time /\ i <= j}

\* Is a handshake open?
Handshaking ==
    \/ \E n \in Node : client_state[n] = "CONNECTING"
    \/ \E i \in Slot : clients[i].conn = "WAITING_ACK"

\* msg[i] is put on the reliable pipe to every connected client i.
ToAll(cl, msg) ==
    [n \in Node |->
        IF \E i \in Connected(cl) : cl[i].addr = n
        THEN Append(down[n], msg[CHOOSE i \in Connected(cl) : cl[i].addr = n])
        ELSE down[n]]

----------------------------------------------------------------------------
(* Connecting                                                              *)

\* NET_CL_Connect
Connect(n) ==
    /\ client_state[n] = "OUT" /\ n \notin bye /\ connects < MaxConnects
    /\ Orderly => ~Handshaking /\ \A m \in Node : up[m] = <<>>
    /\ client_state' = [client_state EXCEPT ![n] = "CONNECTING"]
    /\ connects' = connects + 1
    /\ up' = [up EXCEPT ![n] = <<>>] /\ down' = [down EXCEPT ![n] = <<>>]
    /\ sent' = sent \ {n} /\ ack' = ack \ {n}
    /\ UNCHANGED <<serverVars, settings, bye>>

\* NET_SV_SendReject and NET_Conn_ParseReject
Reject(n) == client_state' = [client_state EXCEPT ![n] = "OUT"]

\* The slot NET_SV_ParseSYN gives to n: its own once that is disconnected, or
\* the first free one.  (A wrong version does not look for n's own.)
FreeSlot ==
    LET free == {i \in Slot : ~Active(clients, i)}
    IN IF free = {} THEN {} ELSE {Min(free)}
SlotForNew(n) == FreeSlot
SlotFor(n) ==
    IF SlotsOf(clients, n) = {} THEN FreeSlot
    ELSE {i \in SlotsOf(clients, n) : clients[i].conn = "DISCONNECTED"}

\* Is there room for n?  (A wrong version does not count the players.)
FitsAny(cl, n) == Cardinality(Connected(cl)) < MAXNETNODES
Fits(cl, n) ==
    /\ n \in Drones \/ NumPlayers(cl, AssignPlayers(cl)) < NET_MAXPLAYERS
    /\ Cardinality(Connected(cl)) < MAXNETNODES

\* The game mode the server has once n was considered: that of the first
\* player.  (A wrong version adopts everybody's.)
AdoptedAny(cl, n) == Game[n]
Adopted(cl, n) ==
    IF NumPlayers(cl, AssignPlayers(cl)) = 0 /\ n \notin Drones
    THEN Game[n] ELSE sv_game

\* NET_SV_InitNewClient
NewClient(n, number) ==
    [addr |-> n, conn |-> "WAITING_ACK", drone |-> n \in Drones, ready |-> FALSE,
     last_send_time |-> "NEVER", connect_time |-> connects, player_number |-> number]

\* NET_SV_ParseSYN, for a client of the server's version.  Of connect_time only
\* the order matters.  NET_Conn_InitServer begins an empty reliable channel.
ParseSYN(n) ==
    /\ client_state[n] = "CONNECTING"
    /\ IF server_state # "WAITING_LAUNCH"
       THEN Reject(n) /\ UNCHANGED <<clients, sv_players, sv_game, down, ack>>
       ELSE \E i \in SlotFor(n) :
              LET cl == Freed(clients, i)
              IN /\ sv_players' = AssignPlayers(cl)
                 /\ sv_game' = IF Fits(cl, n) THEN Adopted(cl, n) ELSE sv_game
                 /\ IF Fits(cl, n) /\ Game[n] = sv_game'
                    THEN /\ clients' = [Numbered(cl) EXCEPT ![i] =
                                NewClient(n, cl[i].player_number)]
                         /\ down' = [down EXCEPT ![n] = <<>>]
                         /\ UNCHANGED client_state
                    ELSE /\ clients' = Numbered(cl)
                         /\ Reject(n) /\ UNCHANGED down
                 /\ ack' = ack \ {n}
    /\ UNCHANGED <<server_state, sv_settings, settings, sent, connects, up, bye>>

\* NET_Conn_ParseACK at the client, which answers with an ACK.
CL_ParseACK(n) ==
    /\ client_state[n] = "CONNECTING"
    /\ \E i \in SlotsOf(clients, n) : clients[i].conn = "WAITING_ACK"
    /\ client_state' = [client_state EXCEPT ![n] = "WAITING_LAUNCH"]
    /\ ack' = ack \cup {n}
    /\ UNCHANGED <<serverVars, settings, sent, connects, up, down, bye>>

\* NET_Conn_ParseACK at the server
SV_ParseACK(n) ==
    /\ n \in ack /\ ack' = ack \ {n}
    /\ \E i \in SlotsOf(clients, n) :
         /\ clients[i].conn = "WAITING_ACK"
         /\ clients' = [clients EXCEPT ![i].conn = "CONNECTED"]
    /\ UNCHANGED <<server_state, sv_players, sv_settings, sv_game, clientVars,
                   up, down, bye>>

----------------------------------------------------------------------------
(* Launching and starting                                                  *)

\* NET_CL_LaunchGame, which the GUI offers the controller.
CL_LaunchGame(n) ==
    /\ client_state[n] = "WAITING_LAUNCH" /\ Len(up[n]) < MaxQueue
    /\ \E i \in Controller(clients) : clients[i].addr = n
    /\ Orderly => ~Handshaking
    /\ up' = [up EXCEPT ![n] = Append(@, "LAUNCH")]
    /\ UNCHANGED <<serverVars, clientVars, down, ack, bye>>

\* NET_SV_ParseLaunch
SV_ParseLaunch(n) ==
    /\ up[n] # <<>> /\ Head(up[n]) = "LAUNCH" /\ SlotsOf(clients, n) # {}
    /\ up' = [up EXCEPT ![n] = Tail(@)]
    /\ IF /\ server_state = "WAITING_LAUNCH"
          /\ \E i \in Controller(clients) : clients[i].addr = n
       THEN /\ clients' = Numbered(clients)
            /\ sv_players' = AssignPlayers(clients)
            /\ down' = ToAll(clients, [i \in Slot |-> [type |-> "LAUNCH"]])
            /\ server_state' = "WAITING_START"
       ELSE UNCHANGED <<clients, sv_players, down, server_state>>
    /\ UNCHANGED <<sv_settings, sv_game, clientVars, ack, bye>>

\* NET_CL_ParseLaunch
CL_ParseLaunch(n) ==
    /\ down[n] # <<>> /\ Head(down[n]).type = "LAUNCH"
    /\ client_state[n] \notin {"OUT", "CONNECTING"}
    /\ down' = [down EXCEPT ![n] = Tail(@)]
    /\ client_state' = [client_state EXCEPT ![n] =
           IF @ = "WAITING_LAUNCH" THEN "WAITING_START" ELSE @]
    /\ UNCHANGED <<serverVars, settings, sent, connects, up, ack, bye>>

\* D_StartNetGame: every client proposes settings, which say it is ready.
CL_StartGame(n) ==
    /\ client_state[n] = "WAITING_START" /\ n \notin sent
    /\ up' = [up EXCEPT ![n] = Append(@, "GAMESTART")]
    /\ sent' = sent \cup {n}
    /\ UNCHANGED <<serverVars, client_state, settings, connects, down, ack, bye>>

\* AllNodesReady (wrong versions ask the players only, or the free slots too).
AllNodesReadySlots(cl) == \A i \in Slot : cl[i].ready
AllNodesReadyPlayers(cl) == \A i \in PlayerSlots(cl) : cl[i].ready
AllNodesReady(cl) == \A i \in Connected(cl) : cl[i].ready

\* The consoleplayer of slot i in its GAMESTART.  (A wrong version counts from the
\* controller on.)
ConsolePlayerByAge(cl, i) ==
    IF cl[i].drone THEN -1
    ELSE Cardinality({j \in PlayerSlots(cl) : cl[j].connect_time < cl[i].connect_time})
ConsolePlayer(cl, i) == cl[i].player_number

\* CheckStartGame and StartGame, with the settings s
CheckStartGame(cl, s) ==
    IF AllNodesReady(cl)
    THEN LET numbered == Numbered(cl)
             start == [s EXCEPT !.num_players = Cardinality(PlayerSlots(cl))]
         IN /\ clients' = numbered
            /\ sv_players' = AssignPlayers(cl)
            /\ server_state' = "IN_GAME"
            /\ sv_settings' = start
            /\ down' = ToAll(cl, [i \in Slot |-> [type |-> "GAMESTART",
                   settings |-> [start EXCEPT !.consoleplayer =
                                   ConsolePlayer(numbered, i)]]])
    ELSE /\ clients' = cl
         /\ sv_settings' = s
         /\ UNCHANGED <<sv_players, server_state, down>>

\* The clients once that of slot i said it is ready.
Readied(i) == [clients EXCEPT ![i].ready = TRUE]

\* NET_SV_ParseGameStart (the waiting data it sends in the end renumbers the
\* same clients as CheckStartGame).
SV_ParseGameStart(n) ==
    /\ up[n] # <<>> /\ Head(up[n]) = "GAMESTART"
    /\ up' = [up EXCEPT ![n] = Tail(@)]
    /\ \E i \in SlotsOf(clients, n) :
         IF server_state = "WAITING_START"
         THEN CheckStartGame(Readied(i),
                IF i \in Controller(clients)
                THEN [NoSettings EXCEPT !.from = n] ELSE sv_settings)
         ELSE UNCHANGED <<server_state, clients, sv_players, sv_settings, down>>
    /\ UNCHANGED <<sv_game, clientVars, ack, bye>>

\* Are the settings s fit for client n?  (A wrong version does not know the last
\* player.)
ValidLess(n, s) ==
    /\ s.num_players <= NET_MAXPLAYERS
    /\ s.consoleplayer < s.num_players - 1
    /\ (n \in Drones) <=> (s.consoleplayer < 0)
Valid(n, s) ==
    /\ s.num_players <= NET_MAXPLAYERS
    /\ s.consoleplayer < s.num_players
    /\ (n \in Drones) <=> (s.consoleplayer < 0)

\* NET_CL_ParseGameStart
CL_ParseGameStart(n) ==
    /\ down[n] # <<>> /\ Head(down[n]).type = "GAMESTART"
    /\ client_state[n] \notin {"OUT", "CONNECTING"}
    /\ LET s == Head(down[n]).settings
       IN /\ settings' = [settings EXCEPT ![n] = s]
          /\ client_state' = [client_state EXCEPT ![n] =
                 IF @ = "WAITING_START" /\ Valid(n, s) THEN "IN_GAME" ELSE @]
    /\ down' = [down EXCEPT ![n] = Tail(@)]
    /\ UNCHANGED <<serverVars, sent, connects, up, ack, bye>>

----------------------------------------------------------------------------
(* Leaving                                                                 *)

\* The client is gone: NET_CL_Shutdown, or the process.
Gone(n) ==
    /\ client_state' = [client_state EXCEPT ![n] = "OUT"]
    /\ UNCHANGED <<settings, sent, connects>>

\* D_QuitNetGame, or an error exit
Leave(n) ==
    /\ client_state[n] # "OUT" /\ n \in Leavers
    /\ Gone(n) /\ bye' = bye \cup {n}
    /\ UNCHANGED <<serverVars, up, down, ack>>

\* A client gives up connecting, notices that its slot is gone, or dies.
Lost(n) ==
    /\ client_state[n] # "OUT"
    /\ \/ client_state[n] = "CONNECTING" \/ SlotsOf(clients, n) = {} \/ n \in Silent
    /\ Gone(n)
    /\ UNCHANGED <<serverVars, up, down, ack, bye>>

\* NET_Conn_ParseDisconnect at the server
SV_ParseDisconnect(n) ==
    /\ n \in bye /\ bye' = bye \ {n}
    /\ IF SlotsOf(clients, n) = {} THEN UNCHANGED clients
       ELSE \E i \in SlotsOf(clients, n) :
              clients' = [clients EXCEPT ![i].conn = "SLEEP"]
    /\ UNCHANGED <<server_state, sv_players, sv_settings, sv_game, clientVars,
                   up, down, ack>>

\* A client is disconnected by NET_SV_GameEnded, and its DISCONNECT_ACK
\* arrives.
Disconnected(n) ==
    /\ client_state[n] # "OUT"
    /\ \E i \in SlotsOf(clients, n) :
         /\ clients[i].conn = "DISCONNECTING"
         /\ clients' = [clients EXCEPT ![i].conn = "DISCONNECTED"]
    /\ Gone(n)
    /\ UNCHANGED <<server_state, sv_players, sv_settings, sv_game, up, down, ack,
                   bye>>

----------------------------------------------------------------------------
(* NET_SV_Run                                                              *)

\* May NET_Conn_Run find that the connection of slot i has ended?
MayExpire(i) ==
    \/ clients[i].conn \in {"DISCONNECTED", "DISCONNECTING", "SLEEP", "WAITING_ACK"}
    \/ /\ clients[i].conn = "CONNECTED"
       /\ client_state[clients[i].addr] \in {"OUT", "CONNECTING"}

\* NET_SV_RunClient sends waiting data to a slot of is, and so renumbers.
Renumbers(cl, is, late) ==
    /\ server_state = "WAITING_LAUNCH"
    /\ \E i \in is \cap Connected(cl) : cl[i].last_send_time = "NEVER" \/ late
Waiting(cl, is, late) ==
    IF ~Renumbers(cl, is, late) THEN cl
    ELSE [i \in Slot |-> IF i \in is \cap Connected(cl)
            THEN [Numbered(cl)[i] EXCEPT !.last_send_time = "PAST"]
            ELSE Numbered(cl)[i]]
Players(cl, is, late, pl) == IF Renumbers(cl, is, late) THEN AssignPlayers(cl) ELSE pl

\* NET_SV_GameEnded disconnects everybody.
GameEnded(cl) ==
    [i \in Slot |->
        IF cl[i].conn \in {"WAITING_ACK", "CONNECTED"}
        THEN [cl[i] EXCEPT !.conn = "DISCONNECTING"] ELSE cl[i]]

\* Does the end of slot e's connection end the game (with the assignment pl)?
\* A wrong version does not abort a startup.
EndsGameNever(cl, pl, e) == NumPlayers(cl, pl) <= 0
EndsGame(cl, pl, e) ==
    \/ server_state = "WAITING_START" /\ ~clients[e].drone
    \/ NumPlayers(cl, pl) <= 0

\* NET_SV_Run when no connection ends: NET_SV_RunClient for everybody, and
\* CheckStartGame.
Run(late) ==
    /\ \A i \in Slot : clients[i].conn # "DISCONNECTED"
    /\ IF server_state = "WAITING_START"
       THEN CheckStartGame(clients, sv_settings)
       ELSE /\ clients' = Waiting(clients, Slot, late)
            /\ sv_players' = Players(clients, Slot, late, sv_players)
            /\ UNCHANGED <<server_state, sv_settings, down>>
    /\ UNCHANGED <<sv_game, clientVars, up, ack, bye>>

\* NET_SV_Run when the connection of slot e ends: the slots before e are run,
\* e is freed, then the slots behind it.
RunExpired(e, late) ==
    /\ MayExpire(e)
    /\ LET before == {i \in Slot : i < e}
           cl1 == Waiting(clients, before, late)
           pl1 == Players(clients, before, late, sv_players)
           cl2 == Freed(cl1, e)
           cl3 == Waiting(cl2, Slot \ before, late)
       IN IF EndsGame(cl2, pl1, e)
          THEN /\ clients' = GameEnded(cl2)
               /\ sv_players' = pl1
               /\ server_state' = "WAITING_LAUNCH"
               /\ sv_game' = None
               /\ UNCHANGED <<sv_settings, down>>
          ELSE /\ UNCHANGED sv_game
               /\ IF server_state = "WAITING_START"
                  THEN CheckStartGame(cl2, sv_settings)
                  ELSE /\ clients' = cl3
                       /\ sv_players' = Players(cl2, Slot \ before, late, pl1)
                       /\ UNCHANGED <<server_state, sv_settings, down>>
    /\ ack' = ack \ {clients[e].addr} /\ bye' = bye \ {clients[e].addr}
    /\ UNCHANGED <<clientVars, up>>

Next ==
    \/ \E n \in Node :
         \/ Connect(n) \/ ParseSYN(n) \/ CL_ParseACK(n) \/ SV_ParseACK(n)
         \/ CL_LaunchGame(n) \/ SV_ParseLaunch(n) \/ CL_ParseLaunch(n)
         \/ CL_StartGame(n) \/ SV_ParseGameStart(n) \/ CL_ParseGameStart(n)
         \/ Leave(n) \/ Lost(n) \/ SV_ParseDisconnect(n) \/ Disconnected(n)
    \/ \E late \in BOOLEAN :
         Run(late) \/ \E e \in Slot : RunExpired(e, late)

Spec == Init /\ [][Next]_vars

(***************************************************************************)
(* The server and the clients keep running, reliable messages arrive, a    *)
(* launched client goes on to D_StartNetGame, and connections that are     *)
(* closing or have nobody at the other end do end.  Nobody has to connect, *)
(* launch or leave.                                                        *)
(***************************************************************************)
Fairness ==
    /\ WF_vars(\E late \in BOOLEAN : Run(late))
    /\ \A e \in Slot : WF_vars(\E late \in BOOLEAN : RunExpired(e, late))
    /\ \A n \in Node :
         /\ WF_vars(SV_ParseLaunch(n) \/ SV_ParseGameStart(n))
         /\ WF_vars(CL_ParseLaunch(n) \/ CL_ParseGameStart(n))
         /\ WF_vars(CL_StartGame(n))

FairSpec == Spec /\ Fairness

----------------------------------------------------------------------------
(* Properties                                                              *)

Settings == [from : Node \cup {None}, num_players : 0 .. Cardinality(Node),
             consoleplayer : -1 .. Cardinality(Node)]

\* Type invariant of the lobby; an address has one slot, and a slot that is
\* numbered by sv_players is one of a player.
TypeOK ==
    /\ server_state \in {"WAITING_LAUNCH", "WAITING_START", "IN_GAME"}
    /\ \A i \in Slot :
         /\ clients[i].addr \in Node \cup {None}
         /\ clients[i].conn \in {None, "WAITING_ACK", "CONNECTED", "DISCONNECTING",
                                 "SLEEP", "DISCONNECTED"}
         /\ (clients[i].addr = None) <=> (clients[i].conn = None)
         /\ clients[i].player_number \in -1 .. NET_MAXPLAYERS - 1
    /\ sv_players \in [PlayerNum -> Slot \cup {NoSlot}]
    /\ sv_settings \in Settings /\ settings \in [Node -> Settings]
    /\ client_state \in [Node -> {"OUT", "CONNECTING", "WAITING_LAUNCH",
                                  "WAITING_START", "IN_GAME"}]
    /\ sent \subseteq Node /\ ack \subseteq Node /\ bye \subseteq Node
    /\ \A n \in Node : Cardinality(SlotsOf(clients, n)) <= 1

\* NET_SV_ParseSYN lets no more players in than there is room for ("Server is
\* full!", net_server.c:708-720): so it is as long as handshakes do not overlap.
PlayersFit == Cardinality(PlayerSlots(clients)) <= NET_MAXPLAYERS

\* ... and none that plays another game (net_server.c:744-751): likewise.
SameGame ==
    \A i, j \in Connected(clients) : Game[clients[i].addr] = Game[clients[j].addr]

\* Nobody is connected to a running game without having been ready for it: a
\* client that is would hold NET_SV_LatestAcknowledged at 0 and stop the game
\* ("Returns true when all nodes have indicated readiness", net_server.c:881).
\* Likewise.
NobodyLate ==
    server_state = "IN_GAME" => \A i \in Connected(clients) : clients[i].ready

\* Server and client agree on who is who: a client in the game plays the player
\* whose commands the server takes from its slot, of as many players.
NumbersAgree ==
    \A n \in Node : \A i \in SlotsOf(clients, n) :
        server_state = "IN_GAME" /\ client_state[n] = "IN_GAME"
          /\ ClientConnected(clients, i) =>
            /\ settings[n].consoleplayer = clients[i].player_number
            /\ settings[n].num_players = sv_settings.num_players
            /\ n \notin Drones => sv_players[settings[n].consoleplayer] = i

\* A game starts with the settings of the client that controls it, not with
\* those of an earlier game or with none (net_server.c:937-955).
ControllerChose ==
    [][server_state = "WAITING_START" /\ server_state' = "IN_GAME" =>
         \E i \in Controller(clients) : clients[i].addr = sv_settings'.from]_vars

\* The comment at net_server.c:1667-1668: "If we were about to start a game, any
\* player disconnecting should cause an abort."
StartsWithAll ==
    [][server_state = "WAITING_START" /\ server_state' = "IN_GAME" =>
         \A p \in PlayerNum : sv_players[p] # NoSlot =>
             ClientConnected(clients', sv_players[p])]_vars

\* A startup ends: in a game, or in an abort.
StartupEnds == server_state = "WAITING_START" ~> server_state # "WAITING_START"

\* n is in the server's game and has not started it.
Waits(n) ==
    /\ server_state = "IN_GAME"
    /\ client_state[n] \in {"WAITING_LAUNCH", "WAITING_START"}
    /\ \E i \in SlotsOf(clients, n) : ClientConnected(clients, i)

\* Whoever the server started a game with gets into the game, unless it leaves
\* or the game ends before.
EverybodyStarts == server_state = "IN_GAME" ~> \A n \in Node : ~Waits(n)
=============================================================================
