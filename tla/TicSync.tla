------------------------------ MODULE TicSync ------------------------------
(***************************************************************************)
(* The game in progress: every player builds a ticcmd per tic and sends it *)
(* to the server (net_client.c), the server collects a full set for each   *)
(* client and sends it on (net_server.c), and a client runs a tic when it  *)
(* has the commands of all players for it (d_loop.c, with the default old  *)
(* synchronisation and ticdup 1).                                          *)
(*                                                                         *)
(* A ticcmd is named by the tic it was built for, so a command stored      *)
(* under, sent as, or run in another tic is visible.  The windows, which   *)
(* the code shifts down with memmove, are kept by tic number.  Time is     *)
(* abstracted to whether each timer has expired.                           *)
(***************************************************************************)
EXTENDS ExpandTicNum, FiniteSetsExt, Sequences

CONSTANTS
    Player,         \* player numbers, 0 .. NET_MAXPLAYERS - 1
    Drone,          \* connected clients that only watch
    NET_MAXPLAYERS, \* 8: the width of the server's receive window
    BACKUPTICS,     \* 128: the length of every window and ring
    ExtraTics,      \* settings.extratics: earlier tics sent along
    MaxAhead,       \* 5: unrun tics a player may have built
    AckLag,         \* 40: unacknowledged tics the server may send
    RunAhead,       \* 10: the same when no other player sends any
    FirstTic,       \* bound: the tic the model starts at
    LastTic,        \* bound: no tics are built from here on
    MaxNet,         \* bound: packets in flight
    MaxLoss,        \* bound: packets the network loses
    MaxDup,         \* bound: packets the network delivers twice
    Lossy,          \* directions that lose packets: "UP", "DOWN"
    Leavers,        \* clients that may quit
    Silent,         \* clients the server may time out
    Prompt          \* whether round trips take less than the shortest timer

Client == Player \cup Drone
Slot == 0 .. BACKUPTICS - 1

ASSUME TicAssumption ==
    /\ Player \subseteq 0 .. NET_MAXPLAYERS - 1 /\ Player # {}
    /\ Drone \cap Player = {} /\ IsFiniteSet(Drone)
    /\ NET_MAXPLAYERS \in Nat /\ BACKUPTICS \in 1 .. 128
    /\ ExtraTics \in 0 .. BACKUPTICS - 1
    /\ MaxAhead \in Nat \ {0} /\ 2 * MaxAhead <= BACKUPTICS
    /\ AckLag \in 0 .. BACKUPTICS - 1 /\ RunAhead \in Nat
    /\ FirstTic \in Nat /\ LastTic \in Nat /\ FirstTic <= LastTic
    /\ MaxNet \in Nat /\ MaxLoss \in Nat /\ MaxDup \in Nat
    /\ Lossy \subseteq {"UP", "DOWN"}
    /\ Leavers \subseteq Client /\ Silent \subseteq Client
    /\ Prompt \in BOOLEAN

VARIABLES
    maketic, gametic,   \* d_loop.c, per client
    recvtic,            \* recvtic, and recvwindow_start of net_client.c
    ticdata,            \* ticdata[c][slot]: the commands of the players in game
    window,             \* recvwindow of a client: full ticcmds by tic
    requested,          \* its tics with a resend_time
    need_ack,           \* clients with need_to_acknowledge set
    status,             \* the server's connection to each client
    recvwindow_start,   \* of net_server.c
    recvwindow,         \* recvwindow[p]: commands received, by tic
    sv_requested,       \* tics the server asked p for
    acknowledged,       \* net_client_t.acknowledged
    sendseq,            \* net_client_t.sendseq
    sendqueue,          \* net_client_t.sendqueue
    net,                \* packets in flight
    left,               \* clients that quit
    ran,                \* history: the commands each client ran, tic by tic
    lost, dups          \* history: packets lost, packets delivered twice

loopVars == <<maketic, gametic, ticdata, ran>>
clientVars == <<recvtic, window, requested, need_ack>>
serverVars == <<recvwindow_start, recvwindow, sv_requested, acknowledged,
                sendseq, sendqueue>>
faults == <<lost, dups>>
vars == <<loopVars, clientVars, serverVars, status, left, net, faults>>

(***************************************************************************)
(* Packets.  tic and acktic are the numbers that the bytes seq and ack     *)
(* stand for; no handler reads them, only Fresh.                           *)
(***************************************************************************)

\* NET_CL_SendTics: the tics start .. end of send_queue, and a piggybacked
\* acknowledgement.
CL_GameData(c, start, end) ==
    [type |-> "CL_GAMEDATA", client |-> c,
     ack |-> Byte(recvtic[c]), acktic |-> recvtic[c],
     seq |-> Byte(start), tic |-> start,
     cmds |-> [i \in 1 .. end - start + 1 |-> start + i - 1]]

\* NET_CL_SendGameDataACK, from receive position start.
CL_GameDataACK(c, start) ==
    [type |-> "CL_GAMEDATA_ACK", client |-> c, ack |-> Byte(start), acktic |-> start]

\* NET_CL_SendResendRequest and NET_SV_SendResendRequest
Resend(type, c, start, end) ==
    [type |-> type, client |-> c, start |-> start, num_tics |-> end - start + 1]

\* NET_SV_SendTics: the tics start .. end of a send queue.
SV_GameData(c, queue, start, end) ==
    [type |-> "SV_GAMEDATA", client |-> c, seq |-> Byte(start), tic |-> start,
     cmds |-> [i \in 1 .. end - start + 1 |->
                 queue[(start + i - 1) % BACKUPTICS].cmds]]

Up(p) == p.type \in {"CL_GAMEDATA", "CL_GAMEDATA_ACK", "CL_RESEND", "DISCONNECT"}

\* The packets ps of one step enter the network.
Send(ps) ==
    /\ net' = net \cup ps
    /\ Cardinality(net \cup ps) <= MaxNet
    /\ UNCHANGED faults

\* The one assumption on the network, its maximum packet lifetime: no packet
\* arrives more than 64 tics, almost two seconds, behind its receiver's
\* position. NET_ExpandTicNum may take it for one to come.
Fresh(p, position) ==
    /\ p.type \in {"CL_GAMEDATA", "SV_GAMEDATA"} => position <= p.tic + 64
    /\ p.type \in {"CL_GAMEDATA", "CL_GAMEDATA_ACK"} => position <= p.acktic + 64

\* p is delivered, perhaps not for the last time, and the answers are sent.
Exchange(p, answers) ==
    \/ /\ net' = (net \ {p}) \cup answers
       /\ Cardinality((net \ {p}) \cup answers) <= MaxNet
       /\ UNCHANGED faults
    \/ /\ dups < MaxDup
       /\ net' = net \cup answers
       /\ Cardinality(net \cup answers) <= MaxNet
       /\ dups' = dups + 1 /\ UNCHANGED lost

----------------------------------------------------------------------------
(***************************************************************************)
(* The game starts at FirstTic: everything before it was received, run and *)
(* acknowledged.  FirstTic = 0 is the state StartGame and                  *)
(* NET_CL_ParseGameStart leave; a later one is where the game gets when no *)
(* packet is lost.                                                         *)
(***************************************************************************)
PastTic(s) == FirstTic - 1 - ((FirstTic - 1 - s) % BACKUPTICS)
Past(c, s) ==
    IF PastTic(s) < 0 THEN [seq |-> -1, cmds |-> <<>>]
    ELSE [seq |-> PastTic(s), cmds |-> [p \in Player \ {c} |-> PastTic(s)]]

Init ==
    /\ maketic = [c \in Client |-> FirstTic]
    /\ gametic = [c \in Client |-> FirstTic]
    /\ recvtic = [c \in Client |-> FirstTic]
    /\ ticdata = [c \in Client |-> [s \in Slot |-> <<>>]]
    /\ window = [c \in Client |-> <<>>]
    /\ requested = [c \in Client |-> {}]
    /\ need_ack = {}
    /\ status = [c \in Client |-> "CONNECTED"]
    /\ recvwindow_start = FirstTic
    /\ recvwindow = [p \in Player |-> <<>>]
    /\ sv_requested = [p \in Player |-> {}]
    /\ acknowledged = [c \in Client |-> FirstTic]
    /\ sendseq = [c \in Client |-> FirstTic]
    /\ sendqueue = [c \in Client |-> [s \in Slot |-> Past(c, s)]]
    /\ net = {}
    /\ left = {}
    /\ ran = [c \in Client |-> <<>>]
    /\ lost = 0 /\ dups = 0

----------------------------------------------------------------------------
(* Windows                                                                 *)

\* A wrong version: nothing is said of where the tics fall.
StoreAnywhere(f, start, seq, cmds) ==
    [t \in DOMAIN f \cup seq .. seq + Len(cmds) - 1 |->
       IF t \in seq .. seq + Len(cmds) - 1 THEN cmds[t - seq + 1] ELSE f[t]]

\* f with the commands cmds, for the tics from seq on, stored where they fall
\* into the window that begins at start.
Store(f, start, seq, cmds) ==
    LET stored == {t \in seq .. seq + Len(cmds) - 1 : t - start \in Slot}
    IN [t \in DOMAIN f \cup stored |->
          IF t \in stored THEN cmds[t - seq + 1] ELSE f[t]]

\* The run of tics before seq that are neither received nor asked for.
Gap(start, seq, known) ==
    LET end == IF seq - start >= BACKUPTICS THEN start + BACKUPTICS - 1 ELSE seq
    IN {t \in start .. end - 1 : \A u \in t .. end - 1 : u \notin known}

\* The requests for a set of tics, one for each run of them.
Requests(type, c, tics) ==
    {Resend(type, c, r[1], r[2]) : r \in
       {r \in tics \X tics : /\ r[1] .. r[2] \subseteq tics /\ r[1] <= r[2]
                             /\ r[1] - 1 \notin tics /\ r[2] + 1 \notin tics}}

\* f from tic start on.
From(f, start) == [t \in {u \in DOMAIN f : u >= start} |-> f[t]]

AtLeast(a, b) == IF a >= b THEN a ELSE b

----------------------------------------------------------------------------
(* d_loop.c                                                                *)

\* The bound BuildNewTic keeps.
BuiltAhead(p) == maketic[p] - gametic[p] < MaxAhead

\* BuildNewTic and NET_CL_SendTiccmd
BuildNewTic(p) ==
    /\ p \notin left /\ BuiltAhead(p) /\ maketic[p] < LastTic
    /\ ticdata' = [ticdata EXCEPT ![p][maketic[p] % BACKUPTICS] =
           [q \in DOMAIN @ \cup {p} |-> IF q = p THEN maketic[p] ELSE @[q]]]
    /\ maketic' = [maketic EXCEPT ![p] = @ + 1]
    /\ Send({CL_GameData(p, AtLeast(maketic[p] - ExtraTics, 0), maketic[p])})
    /\ need_ack' = need_ack \ {p}
    /\ UNCHANGED <<gametic, ran, recvtic, window, requested, serverVars,
                   status, left>>

\* GetLowTic (a wrong version forgets the other players).
GetLowTicLocal(c) == IF c \in Drone THEN recvtic[c] ELSE maketic[c]
GetLowTic(c) ==
    IF c \in Drone \/ recvtic[c] < maketic[c] THEN recvtic[c] ELSE maketic[c]

\* TryRunTics: run one tic.
RunTic(c) ==
    /\ c \notin left /\ gametic[c] < GetLowTic(c)
    /\ ran' = [ran EXCEPT ![c] = Append(@, ticdata[c][gametic[c] % BACKUPTICS])]
    /\ gametic' = [gametic EXCEPT ![c] = @ + 1]
    /\ UNCHANGED <<maketic, ticdata, clientVars, serverVars, status, left, net,
                   faults>>

\* D_ReceiveTic: the slot keeps the local player's own command.
D_ReceiveTic(c, slot, cmds) ==
    [p \in (DOMAIN cmds \ {c}) \cup (DOMAIN slot \cap {c}) |->
       IF p = c THEN slot[c] ELSE cmds[p]]

----------------------------------------------------------------------------
(* net_client.c                                                            *)

CL_Expand(c, b) == NET_ExpandTicNum(recvtic[c], b)

CL_ParseGameData(c, p) ==
    /\ p.type = "SV_GAMEDATA"
    /\ LET seq == CL_Expand(c, p.seq)
           w == Store(window[c], recvtic[c], seq, p.cmds)
           gap == Gap(recvtic[c], seq, DOMAIN w \cup requested[c])
       IN /\ window' = [window EXCEPT ![c] = w]
          /\ requested' = [requested EXCEPT ![c] = (@ \cup gap) \ DOMAIN w]
          /\ Exchange(p, Requests("CL_RESEND", c, gap))
    /\ need_ack' = need_ack \cup {c}
    /\ UNCHANGED <<loopVars, recvtic, serverVars, status, left>>

\* Does send_queue[tic % BACKUPTICS] still hold tic?
InSendQueue(c, tic) == tic < maketic[c] /\ maketic[c] <= tic + BACKUPTICS

CL_ParseResendRequest(c, p) ==
    /\ p.type = "SV_RESEND"
    /\ LET have == {t \in p.start .. p.start + p.num_tics - 1 : InSendQueue(c, t)}
       IN IF c \in Drone \/ have = {}
          THEN Exchange(p, {}) /\ UNCHANGED need_ack
          ELSE /\ Exchange(p, {CL_GameData(c, Min(have), Max(have))})
               /\ need_ack' = need_ack \ {c}
    /\ UNCHANGED <<loopVars, recvtic, window, requested, serverVars, status, left>>

\* NET_CL_ParsePacket
CL_ParsePacket(c, p) ==
    /\ p.client = c /\ Fresh(p, recvtic[c])
    /\ CL_ParseGameData(c, p) \/ CL_ParseResendRequest(c, p)

\* Where NET_CL_AdvanceWindow moves the window.
CL_AdvancedStart(c) ==
    Min({t \in recvtic[c] .. recvtic[c] + BACKUPTICS : t \notin DOMAIN window[c]})

\* NET_CL_ExpandFullTiccmd and D_ReceiveTic for each tic before start.
CL_Received(c, start) ==
    [s \in Slot |->
        LET t == {u \in recvtic[c] .. start - 1 : u % BACKUPTICS = s}
        IN IF t = {} THEN ticdata[c][s]
           ELSE D_ReceiveTic(c, ticdata[c][s], window[c][Max(t)])]

\* NET_CL_CheckResends: what is sent when the 300 ms of the open requests or
\* the 200 ms of an acknowledgement are over.
CL_CheckResends(c, start, resend, ack) ==
    (IF resend THEN Requests("CL_RESEND", c, {t \in requested[c] : t >= start})
     ELSE {})
    \cup (IF ack /\ c \in need_ack THEN {CL_GameDataACK(c, start)} ELSE {})

\* NET_CL_Run after the packets: NET_CL_AdvanceWindow, NET_CL_CheckResends.
CL_Run(c, resend, ack) ==
    /\ Prompt /\ (resend \/ ack) => net = {}
    /\ LET start == CL_AdvancedStart(c)
       IN /\ ticdata' = [ticdata EXCEPT ![c] = CL_Received(c, start)]
          /\ recvtic' = [recvtic EXCEPT ![c] = start]
          /\ window' = [window EXCEPT ![c] = From(@, start)]
          /\ requested' = [requested EXCEPT ![c] = {t \in @ : t >= start}]
          /\ Send(CL_CheckResends(c, start, resend, ack))
    /\ need_ack' = IF ack THEN need_ack \ {c} ELSE need_ack
    /\ UNCHANGED <<maketic, gametic, ran, serverVars, status, left>>

----------------------------------------------------------------------------
(* net_server.c: receiving                                                 *)

SV_Expand(b) == NET_ExpandTicNum(recvwindow_start, b)

ClientConnected(c) == status[c] = "CONNECTED"

\* The latest tic all connected clients have acknowledged (a wrong version
\* asks only one of them).
NET_SV_LatestAcknowledgedAny == Max({acknowledged[c] : c \in {d \in Client : ClientConnected(d)}})
NET_SV_LatestAcknowledged ==
    Min({acknowledged[c] : c \in {d \in Client : ClientConnected(d)}})

SV_ParseGameData(c, p) ==
    /\ p.type = "CL_GAMEDATA"
    /\ LET seq == SV_Expand(p.seq)
           w == Store(recvwindow[c], recvwindow_start, seq, p.cmds)
           gap == Gap(recvwindow_start, seq, DOMAIN w \cup sv_requested[c])
       IN /\ recvwindow' = [recvwindow EXCEPT ![c] = w]
          /\ sv_requested' = [sv_requested EXCEPT ![c] = (@ \cup gap) \ DOMAIN w]
          /\ Exchange(p, Requests("SV_RESEND", c, gap))
    /\ acknowledged' = [acknowledged EXCEPT ![c] = AtLeast(@, SV_Expand(p.ack))]
    /\ UNCHANGED <<recvwindow_start, sendseq, sendqueue, status>>

SV_ParseGameDataACK(c, p) ==
    /\ p.type = "CL_GAMEDATA_ACK"
    /\ Exchange(p, {})
    /\ acknowledged' = [acknowledged EXCEPT ![c] = AtLeast(@, SV_Expand(p.ack))]
    /\ UNCHANGED <<recvwindow_start, recvwindow, sv_requested, sendseq, sendqueue,
                   status>>

\* NET_SV_ParseResendRequest: all of the tics asked for, or nothing.
SV_ParseResendRequest(c, p) ==
    /\ p.type = "CL_RESEND"
    /\ LET last == p.start + p.num_tics - 1
       IN IF \A t \in p.start .. last : sendqueue[c][t % BACKUPTICS].seq = t
          THEN Exchange(p, {SV_GameData(c, sendqueue[c], p.start, last)})
          ELSE Exchange(p, {})
    /\ UNCHANGED <<serverVars, status>>

\* A DISCONNECT, whatever NetConn does to deliver it: the client's slot stays
\* active while the connection sleeps.
SV_ParseDisconnect(c, p) ==
    /\ p.type = "DISCONNECT"
    /\ Exchange(p, {})
    /\ status' = [status EXCEPT ![c] = "SLEEP"]
    /\ UNCHANGED serverVars

\* NET_SV_Packet: packets are taken from active clients, connected or not.
SV_Packet(c, p) ==
    /\ p.client = c /\ Up(p) /\ Fresh(p, recvwindow_start)
    /\ IF status[c] = "GONE"
       THEN Exchange(p, {}) /\ UNCHANGED <<serverVars, status>>
       ELSE \/ SV_ParseGameData(c, p)
            \/ SV_ParseGameDataACK(c, p)
            \/ SV_ParseResendRequest(c, p)
            \/ SV_ParseDisconnect(c, p)
    /\ UNCHANGED <<loopVars, clientVars, left>>

----------------------------------------------------------------------------
(* net_server.c: NET_SV_Run                                                *)

\* The players c must wait for.
Others(c) == {p \in Player \ {c} : ClientConnected(p)}

\* Has the server what it takes to make tic sendseq[c] for c?
CanPumpPartial(c) ==
    /\ sendseq[c] - NET_SV_LatestAcknowledged \in 0 .. AckLag
    /\ sendseq[c] - recvwindow_start \in Slot
CanPump(c) ==
    /\ sendseq[c] - NET_SV_LatestAcknowledged \in 0 .. AckLag
    /\ sendseq[c] - recvwindow_start \in Slot
    /\ \A p \in Others(c) : sendseq[c] \in DOMAIN recvwindow[p]
    /\ Others(c) = {} => sendseq[c] <= recvwindow_start + RunAhead

\* The full ticcmd for c: every other player whose command is there.
FullTiccmd(c) ==
    LET t == sendseq[c]
        ingame == {p \in Player \ {c} : t \in DOMAIN recvwindow[p]}
    IN [seq |-> t, cmds |-> [p \in ingame |-> recvwindow[p][t]]]

\* NET_SV_CheckDeadlock looks for the first tic it misses from player c, but
\* with the indices of recvwindow exchanged: entry i of row c of the window is
\* player i's command, and the rows run on behind NET_MAXPLAYERS.
DeadlockCandidates(c) ==
    {i \in Slot : LET tic == recvwindow_start + c + (i \div NET_MAXPLAYERS)
                      player == i % NET_MAXPLAYERS
                  IN player \notin Player \/ tic \notin DOMAIN recvwindow[player]}

\* The request it makes (a wrong version makes none).
DeadlockRequestNone(c) == {}
DeadlockRequest(c) ==
    IF c \in Drone \/ DeadlockCandidates(c) = {} THEN {}
    ELSE LET first == recvwindow_start + Min(DeadlockCandidates(c))
         IN first .. first + 5

\* Tic t has come from every connected player.
Complete(t) ==
    \A p \in Player : ClientConnected(p) => t \in DOMAIN recvwindow[p]

\* Where NET_SV_AdvanceWindow moves the window.
AdvancedStart ==
    LET low == AtLeast(NET_SV_LatestAcknowledged, recvwindow_start)
    IN Min({t \in recvwindow_start .. low : t = low \/ ~Complete(t)})

\* The requests to p that are still open for NET_SV_CheckResends then.
SV_Late(p) == {t \in sv_requested[p] : t >= AdvancedStart}

\* What a request for the tics in asked marks in p's window.
Marked(p, asked) ==
    {t \in asked : /\ t >= AdvancedStart
                   /\ t - recvwindow_start \in Slot
                   /\ t \notin DOMAIN recvwindow[p]}

\* NET_SV_Run after the packets: NET_SV_RunClient for every connected client
\* (NET_SV_PumpSendQueue and, for the players in silent, from whom nothing came
\* for a second, NET_SV_CheckDeadlock), then NET_SV_AdvanceWindow and, when its
\* 300 ms are over, NET_SV_CheckResends.
SV_Run(silent, resend) ==
    /\ \E p \in Player : ClientConnected(p)
    /\ \A p \in silent : ClientConnected(p)
    /\ Prompt /\ (silent # {} \/ resend) => net = {}
    /\ LET pumped == {c \in Client : ClientConnected(c) /\ CanPump(c)}
           queue == [c \in pumped |->
               [sendqueue[c] EXCEPT ![sendseq[c] % BACKUPTICS] = FullTiccmd(c)]]
           asked == [p \in silent |-> DeadlockRequest(p)]
           resent == {p \in Player : resend /\ ClientConnected(p)}
       IN /\ sendqueue' = [c \in Client |->
                 IF c \in pumped THEN queue[c] ELSE sendqueue[c]]
          /\ sendseq' = [c \in Client |->
                 IF c \in pumped THEN sendseq[c] + 1 ELSE sendseq[c]]
          /\ sv_requested' = [p \in Player |->
                 SV_Late(p) \cup (IF p \in silent THEN Marked(p, asked[p]) ELSE {})]
          /\ recvwindow_start' = AdvancedStart
          /\ recvwindow' = [p \in Player |-> From(recvwindow[p], AdvancedStart)]
          /\ Send({SV_GameData(c, queue[c], AtLeast(sendseq[c] - ExtraTics, 0),
                               sendseq[c]) : c \in pumped}
                  \cup (UNION {Requests("SV_RESEND", p, asked[p]) : p \in silent})
                  \cup (UNION {Requests("SV_RESEND", p, SV_Late(p)) : p \in resent}))
    /\ UNCHANGED <<loopVars, clientVars, acknowledged, status, left>>

----------------------------------------------------------------------------
(* Leaving, and the network                                                *)

\* D_QuitNetGame
Quit(c) ==
    /\ c \in Leavers \ left
    /\ left' = left \cup {c}
    /\ Send({[type |-> "DISCONNECT", client |-> c]})
    /\ UNCHANGED <<loopVars, clientVars, serverVars, status>>

\* The slot is freed when the connection has slept or timed out.
Free(c) ==
    /\ status[c] = "SLEEP" \/ (status[c] = "CONNECTED" /\ c \in Silent)
    /\ \E p \in Player \ {c} : ClientConnected(p)
    /\ status' = [status EXCEPT ![c] = "GONE"]
    /\ UNCHANGED <<loopVars, clientVars, serverVars, left, net, faults>>

Lose(p) ==
    /\ lost < MaxLoss
    /\ (IF Up(p) THEN "UP" ELSE "DOWN") \in Lossy
    /\ net' = net \ {p}
    /\ lost' = lost + 1 /\ UNCHANGED dups
    /\ UNCHANGED <<loopVars, clientVars, serverVars, status, left>>

Next ==
    \/ \E p \in Player : BuildNewTic(p)
    \/ \E c \in Client :
         \/ RunTic(c) \/ Quit(c) \/ Free(c)
         \/ \E resend, ack \in BOOLEAN : CL_Run(c, resend, ack)
         \/ \E p \in net : CL_ParsePacket(c, p) \/ SV_Packet(c, p)
    \/ \E silent \in SUBSET Player, resend \in BOOLEAN : SV_Run(silent, resend)
    \/ \E p \in net : Lose(p)

Spec == Init /\ [][Next]_vars

(***************************************************************************)
(* Every process keeps calling NetUpdate and TryRunTics, timers do expire, *)
(* and what the network does not lose arrives.  What sends is strongly     *)
(* fair only because the bound MaxNet may switch it off.                   *)
(***************************************************************************)
Fairness ==
    /\ \A p \in Player :
         /\ SF_vars(BuildNewTic(p))
         /\ SF_vars(SV_Run({p}, FALSE))
    /\ \A c \in Client :
         /\ WF_vars(RunTic(c))
         /\ SF_vars(CL_Run(c, TRUE, TRUE))
    /\ WF_vars(\E c \in Client, p \in net : CL_ParsePacket(c, p) \/ SV_Packet(c, p))
    /\ SF_vars(SV_Run({}, FALSE)) /\ SF_vars(SV_Run({}, TRUE))

FairSpec == Spec /\ Fairness

----------------------------------------------------------------------------
(* Properties                                                              *)

Tic == FirstTic .. LastTic

\* Type invariant of the game in progress.
TypeOK ==
    /\ \A c \in Client :
         /\ maketic[c] \in Tic /\ gametic[c] \in Nat /\ recvtic[c] \in Nat
         /\ sendseq[c] \in Nat /\ acknowledged[c] \in Nat
         /\ requested[c] \subseteq Nat /\ status[c] \in {"CONNECTED", "SLEEP", "GONE"}
         /\ \A s \in Slot : DOMAIN ticdata[c][s] \subseteq Player
         /\ DOMAIN window[c] \subseteq recvtic[c] .. recvtic[c] + BACKUPTICS - 1
    /\ recvwindow_start \in Nat
    /\ \A p \in Player :
         DOMAIN recvwindow[p] \subseteq
             recvwindow_start .. recvwindow_start + BACKUPTICS - 1
    /\ need_ack \subseteq Client /\ left \subseteq Client
    /\ Cardinality(net) <= MaxNet

\* Nobody runs a tic without the commands of all players (the comment at
\* d_loop.c:71-72), and a command is run in the tic it was built for: no ring
\* slot is overwritten before its tic is run, no window or byte names another
\* tic.  Only players the server gave up may be missing.
InStep(c) ==
    \A i \in DOMAIN ran[c] :
        LET t == FirstTic + i - 1
        IN /\ \A p \in Player : p \in DOMAIN ran[c][i] \/ ~ClientConnected(p)
           /\ \A p \in DOMAIN ran[c][i] : ran[c][i][p] = t /\ t < maketic[p]
LockStep == \A c \in Client : InStep(c)

\* Any two clients in the game ran the same commands in the same tic; it is
\* what the game's "consistency failure" check (doom/g_game.c:1126-1131) is for.
Agreement ==
    \A c, d \in {e \in Client : ClientConnected(e) /\ e \notin left} :
        \A i \in DOMAIN ran[c] \cap DOMAIN ran[d] : ran[c][i] = ran[d][i]

\* NET_SV_SendTics never finds another tic in its slot (I_Error,
\* net_server.c:1257-1260), neither when it sends a new tic with ExtraTics
\* before it nor when the client asks for what it has not received.
SendQueueHolds ==
    \A c \in Client : ClientConnected(c) =>
        \A t \in Min({AtLeast(sendseq[c] - ExtraTics, 0), recvtic[c]}) .. sendseq[c] - 1 :
            sendqueue[c][t % BACKUPTICS].seq = t

\* The server never believes a client to be further than it is, drops nothing
\* that a client still needs, and never runs so far behind that it could not
\* pump (net_server.c:469-524, 1467-1480).
ServerBehindClients ==
    \A c \in Client : ClientConnected(c) =>
        /\ recvwindow_start <= acknowledged[c]
        /\ acknowledged[c] <= recvtic[c]
        /\ recvtic[c] <= sendseq[c]
        /\ sendseq[c] - recvwindow_start <= BACKUPTICS

\* A game from which nobody drops out goes on: the comment at
\* net_server.c:1580-1585 says that NET_SV_CheckDeadlock prevents a deadlock
\* after a whole load of packets is missed.  The last MaxAhead tics are left
\* out: no later packet follows them here, as it does in the program.
TicsRun ==
    <>(\A c \in Client : gametic[c] >= LastTic - MaxAhead)
=============================================================================
