---------------------------- MODULE LobbyProofs ----------------------------
(***************************************************************************)
(* Theorems about Lobby.                                                   *)
(***************************************************************************)
EXTENDS Lobby, ByteArith, FiniteSetTheorems, TLAPS

----------------------------------------------------------------------------
(* What holds whatever overlaps and whoever leaves                         *)

ConnState == {None, "WAITING_ACK", "CONNECTED", "DISCONNECTING", "SLEEP",
              "DISCONNECTED"}
ClientRecord ==
    [addr : Node \cup {None}, conn : ConnState, drone : BOOLEAN, ready : BOOLEAN,
     last_send_time : {"PAST", "NEVER"}, connect_time : Nat, player_number : Int]
UpMessage == {"LAUNCH", "GAMESTART"}
DownMessage == [type : {"LAUNCH"}]
                 \cup [type : {"GAMESTART"}, settings : Settings]

LobbyTypes ==
    /\ server_state \in {"WAITING_LAUNCH", "WAITING_START", "IN_GAME"}
    /\ sv_players \in [PlayerNum -> Slot \cup {NoSlot}]
    /\ sv_settings \in Settings /\ settings \in [Node -> Settings]
    /\ client_state \in [Node -> {"OUT", "CONNECTING", "WAITING_LAUNCH",
                                  "WAITING_START", "IN_GAME"}]
    /\ sent \subseteq Node /\ ack \subseteq Node
    /\ bye \subseteq Leavers
    /\ connects \in Nat
    /\ up \in [Node -> Seq(UpMessage)]
    /\ down \in [Node -> Seq(DownMessage)]

\* Of the array of clients at any point of a handler: a slot has an address as
\* long as it has a connection, an address has one slot, and the slot knows
\* whether it is a drone's.
Consistent(cl) ==
    /\ cl \in [Slot -> ClientRecord]
    /\ \A i \in Slot : (cl[i].addr = None) <=> (cl[i].conn = None)
    /\ \A i, j \in Slot : cl[i].addr = cl[j].addr /\ i # j => cl[i].addr = None
    /\ \A i \in Slot : cl[i].drone <=> cl[i].addr \in Drones

\* No drone has a player's number in pl.
Undroned(cl, pl) == \A p \in PlayerNum : pl[p] # NoSlot => ~cl[pl[p]].drone

Slots == Consistent(clients) /\ Undroned(clients, sv_players)

\* A connection that is being made has a past on neither side.
Young ==
    /\ \A n \in Node : client_state[n] = "CONNECTING" => up[n] = <<>>
    /\ \A i \in Slot : clients[i].conn = "WAITING_ACK" =>
         /\ ~clients[i].ready
         /\ client_state[clients[i].addr] \notin {"WAITING_START", "IN_GAME"}
         /\ down[clients[i].addr] = <<>>
         /\ \A k \in DOMAIN up[clients[i].addr] : up[clients[i].addr][k] # "GAMESTART"

\* Nobody is ready before the launch.
NotReady ==
    server_state = "WAITING_LAUNCH" => \A i \in Connected(clients) : ~clients[i].ready

LobbyInv == LobbyTypes /\ Slots /\ Young /\ NotReady

----------------------------------------------------------------------------
(* What holds of a startup as long as no player can leave it               *)

Startup ==
    server_state = "WAITING_START" =>
      /\ Controller(clients) # {}
      /\ \A i \in Controller(clients) :
           clients[i].ready => sv_settings.from = clients[i].addr
      /\ \A p \in PlayerNum : sv_players[p] # NoSlot =>
           ClientConnected(clients, sv_players[p])

----------------------------------------------------------------------------
(* What holds when neither handshakes nor launches overlap                 *)

Seats(cl) == {i \in Slot : cl[i].conn \in {"CONNECTED", "WAITING_ACK"}}
PlayerSeats(cl) == {i \in Seats(cl) : ~cl[i].drone}

OneHandshake ==
    /\ \A n, m \in Node :
         client_state[n] = "CONNECTING" /\ client_state[m] = "CONNECTING" => n = m
    /\ \A i, j \in Slot :
         clients[i].conn = "WAITING_ACK" /\ clients[j].conn = "WAITING_ACK" => i = j
    /\ \A n \in Node, i \in Slot :
         client_state[n] = "CONNECTING" /\ clients[i].conn = "WAITING_ACK" =>
           clients[i].addr = n

NoneCut ==
    /\ server_state # "WAITING_LAUNCH" =>
         \A i \in Slot : clients[i].conn # "WAITING_ACK"
    /\ \A n \in Node : \A k \in DOMAIN up[n] : up[n][k] = "LAUNCH" => ~Handshaking

Room ==
    /\ Cardinality(PlayerSeats(clients)) <= NET_MAXPLAYERS
    /\ \A i \in Slot : clients[i].player_number \in -1 .. NET_MAXPLAYERS - 1

\* The numbers of slot i and of the players are those of the settings s.
Agreed(i, s) ==
    /\ s.consoleplayer = clients[i].player_number
    /\ s.num_players = sv_settings.num_players

Numbers ==
    /\ server_state = "IN_GAME" => \A i \in Connected(clients) :
         /\ clients[i].ready
         /\ ~clients[i].drone => /\ clients[i].player_number \in PlayerNum
                                 /\ sv_players[clients[i].player_number] = i
         /\ \A k \in DOMAIN down[clients[i].addr] :
              down[clients[i].addr][k].type = "GAMESTART" =>
                Agreed(i, down[clients[i].addr][k].settings)
         /\ client_state[clients[i].addr] = "IN_GAME" =>
              Agreed(i, settings[clients[i].addr])
    /\ server_state # "IN_GAME" => \A i \in Connected(clients) :
         /\ client_state[clients[i].addr] # "IN_GAME"
         /\ \A k \in DOMAIN down[clients[i].addr] :
              down[clients[i].addr][k].type # "GAMESTART"

OrderlyInv == OneHandshake /\ NoneCut /\ Room /\ Numbers

----------------------------------------------------------------------------
(* Numbering players                                                       *)

LEMMA SlotsFinite ==
  /\ Slot \subseteq Nat /\ IsFiniteSet(Slot) /\ NoSlot \notin Slot
  /\ \A S \in SUBSET Slot : IsFiniteSet(S) /\ Cardinality(S) \in Nat
<1>1. MAXNETNODES \in Nat /\ 0 \in Int /\ MAXNETNODES - 1 \in Int
  BY LobbyAssumption
<1>2. IsFiniteSet(0 .. MAXNETNODES - 1)
  BY <1>1, FS_Interval
<1>3. Slot \subseteq Nat /\ IsFiniteSet(Slot) /\ NoSlot \notin Slot
  BY <1>1, <1>2 DEF Slot, NoSlot
<1>4. ASSUME NEW S \in SUBSET Slot PROVE IsFiniteSet(S) /\ Cardinality(S) \in Nat
  BY <1>3, FS_Subset, FS_CardinalityType
<1>. QED
  BY <1>3, <1>4

LEMMA PlayerSlotsSlots ==
  ASSUME NEW cl
  PROVE  /\ PlayerSlots(cl) \subseteq Slot /\ Connected(cl) \subseteq Slot
         /\ PlayerSlots(cl) \subseteq Connected(cl)
         /\ \A i \in PlayerSlots(cl) : i \in Nat
  BY SlotsFinite DEF PlayerSlots, Connected

\* Numbers grow with the slots, and stay below the number of players.
LEMMA NumberRange ==
  ASSUME NEW cl, NEW i \in PlayerSlots(cl)
  PROVE  /\ Number(cl, i) \in Nat
         /\ Cardinality(PlayerSlots(cl)) \in Nat
         /\ Number(cl, i) < Cardinality(PlayerSlots(cl))
<1>. DEFINE S == PlayerSlots(cl)
            T == {j \in PlayerSlots(cl) : j < i}
<1>1. S \in SUBSET Slot /\ T \in SUBSET S /\ T \in SUBSET Slot
  BY PlayerSlotsSlots
<1>2. i \in S /\ i \notin T
  <2>1. i \in Nat
    BY PlayerSlotsSlots
  <2>2. ~(i < i)
    BY <2>1
  <2>. QED
    BY <2>2
<1>. HIDE DEF S, T
<1>3. IsFiniteSet(S) /\ Cardinality(S) \in Nat /\ Cardinality(T) \in Nat
  BY <1>1, SlotsFinite
<1>4. Cardinality(T) <= Cardinality(S) /\ (Cardinality(S) = Cardinality(T) => S = T)
  BY <1>1, <1>3, FS_Subset
<1>5. Cardinality(T) < Cardinality(S)
  BY <1>2, <1>3, <1>4
<1>. QED
  BY <1>3, <1>5 DEF Number, S, T

LEMMA NumberGrows ==
  ASSUME NEW cl, NEW i \in PlayerSlots(cl), NEW j \in PlayerSlots(cl), i < j
  PROVE  Number(cl, i) < Number(cl, j)
<1>. DEFINE S == {k \in PlayerSlots(cl) : k < i}
            T == {k \in PlayerSlots(cl) : k < j}
<1>0. i \in Nat /\ j \in Nat /\ \A k \in PlayerSlots(cl) : k \in Nat /\ k \in Slot
  BY PlayerSlotsSlots
<1>1. S \in SUBSET T /\ T \in SUBSET Slot /\ S \in SUBSET Slot /\ i \in T /\ i \notin S
  <2>1. ~(i < i) /\ \A k \in PlayerSlots(cl) : k < i => k < j
    BY <1>0
  <2>2. i \in T /\ i \notin S
    BY <2>1
  <2>. QED
    BY <1>0, <2>1, <2>2
<1>. HIDE DEF S, T
<1>2. IsFiniteSet(T) /\ Cardinality(S) \in Nat /\ Cardinality(T) \in Nat
  BY <1>1, SlotsFinite
<1>3. Cardinality(S) <= Cardinality(T) /\ (Cardinality(T) = Cardinality(S) => T = S)
  BY <1>1, <1>2, FS_Subset
<1>4. Cardinality(S) < Cardinality(T)
  BY <1>1, <1>2, <1>3
<1>. QED
  BY <1>4 DEF Number, S, T

LEMMA NumberOne ==
  ASSUME NEW cl, NEW i \in PlayerSlots(cl), NEW j \in PlayerSlots(cl),
         Number(cl, i) = Number(cl, j)
  PROVE  i = j
<1>1. i \in Nat /\ j \in Nat /\ Number(cl, i) \in Nat /\ Number(cl, j) \in Nat
  BY PlayerSlotsSlots, SlotsFinite, NumberRange
<1>2. ~(i < j) /\ ~(j < i)
  BY <1>1, NumberGrows
<1>. QED
  BY <1>1, <1>2

\* sv_players is the inverse of the numbering.
LEMMA AssignedPlayers ==
  ASSUME NEW cl
  PROVE  /\ AssignPlayers(cl) \in [PlayerNum -> Slot \cup {NoSlot}]
         /\ \A p \in PlayerNum : AssignPlayers(cl)[p] # NoSlot =>
              AssignPlayers(cl)[p] \in PlayerSlots(cl)
         /\ \A i \in PlayerSlots(cl) : Number(cl, i) \in PlayerNum =>
              AssignPlayers(cl)[Number(cl, i)] = i
<1>. DEFINE Is(p) == {i \in PlayerSlots(cl) : Number(cl, i) = p}
            Pl(p) == IF Is(p) = {} THEN NoSlot ELSE CHOOSE i \in Is(p) : TRUE
<1>1. AssignPlayers(cl) = [p \in PlayerNum |-> Pl(p)]
  BY DEF AssignPlayers
<1>2. ASSUME NEW p \in PlayerNum
      PROVE  Pl(p) = NoSlot \/ Pl(p) \in PlayerSlots(cl)
  OBVIOUS
<1>3. ASSUME NEW i \in PlayerSlots(cl), Number(cl, i) \in PlayerNum
      PROVE  Pl(Number(cl, i)) = i
  <2>1. i \in Is(Number(cl, i))
    OBVIOUS
  <2>2. \A j \in Is(Number(cl, i)) : j = i
    BY NumberOne
  <2>. QED
    BY <2>1, <2>2
<1>. HIDE DEF Pl
<1>4. \A i \in PlayerSlots(cl) : i \in Slot
  BY PlayerSlotsSlots
<1>. QED
  BY <1>1, <1>2, <1>3, <1>4

\* When NET_SV_NumPlayers is below the maximum, sv_players has all players.
LEMMA AllNumbered ==
  ASSUME NEW cl, NumPlayers(cl, AssignPlayers(cl)) < NET_MAXPLAYERS
  PROVE  Cardinality(PlayerSlots(cl)) < NET_MAXPLAYERS
<1>. DEFINE S == PlayerSlots(cl)
            N == Cardinality(S)
            T == 0 .. N - 1
            f == [i \in S |-> Number(cl, i)]
            Ps == {p \in PlayerNum : /\ AssignPlayers(cl)[p] # NoSlot
                                     /\ ClientConnected(cl, AssignPlayers(cl)[p])}
<1>1. S \in SUBSET Slot /\ IsFiniteSet(S) /\ N \in Nat
  BY PlayerSlotsSlots, SlotsFinite
<1>2. IsFiniteSet(T) /\ Cardinality(T) = N
  <2>. HIDE DEF N
  <2>1. 0 \in Int /\ N - 1 \in Int
    BY <1>1
  <2>. QED
    BY <1>1, <2>1, FS_Interval
<1>3. f \in Injection(S, T)
  <2>1. \A i \in S : Number(cl, i) \in T
    BY NumberRange
  <2>2. \A i, j \in S : f[i] = f[j] => i = j
    BY NumberOne
  <2>. QED
    BY <2>1, <2>2 DEF Injection, IsInjective
<1>. HIDE DEF f, T
<1>4. f \in Surjection(S, T)
  BY <1>1, <1>2, <1>3, FS_Injection
<1>5. SUFFICES ASSUME ~(N < NET_MAXPLAYERS) PROVE FALSE
  OBVIOUS
<1>6. NET_MAXPLAYERS \in Nat \ {0}
  BY LobbyAssumption
<1>7. \A p \in PlayerNum : p \in T
  <2>. HIDE DEF N
  <2>. QED
    BY <1>1, <1>5, <1>6 DEF PlayerNum, T
<1>8. ASSUME NEW p \in PlayerNum PROVE p \in Ps
  <2>1. PICK i \in S : f[i] = p
    BY <1>4, <1>7 DEF Surjection
  <2>2. AssignPlayers(cl)[p] = i
    BY <2>1, AssignedPlayers DEF f
  <2>3. i \in Slot /\ ClientConnected(cl, i)
    BY <2>1 DEF PlayerSlots, Connected
  <2>. QED
    BY <2>2, <2>3, SlotsFinite
<1>9. Ps = PlayerNum
  BY <1>8
<1>10. Cardinality(PlayerNum) = NET_MAXPLAYERS
  <2>1. 0 \in Int /\ NET_MAXPLAYERS - 1 \in Int
    BY <1>6
  <2>. QED
    BY <1>6, <2>1, FS_Interval DEF PlayerNum
<1>. QED
  BY <1>6, <1>9, <1>10 DEF NumPlayers

----------------------------------------------------------------------------
(* What numbering leaves alone                                             *)

\* The records a and b of a slot differ at most in what numbering and waiting
\* data change.
Same(a, b) ==
    /\ a.addr = b.addr /\ a.conn = b.conn /\ a.drone = b.drone
    /\ a.ready = b.ready /\ a.connect_time = b.connect_time
Alike(cl, dl) == \A i \in Slot : Same(cl[i], dl[i])

LEMMA AlikeViews ==
  ASSUME NEW cl, NEW dl, Alike(cl, dl)
  PROVE  /\ Connected(cl) = Connected(dl)
         /\ PlayerSlots(cl) = PlayerSlots(dl)
         /\ Seats(cl) = Seats(dl) /\ PlayerSeats(cl) = PlayerSeats(dl)
         /\ Controller(cl) = Controller(dl)
         /\ AssignPlayers(cl) = AssignPlayers(dl)
<1>1. Connected(cl) = Connected(dl) /\ Seats(cl) = Seats(dl)
  BY DEF Alike, Same, Connected, ClientConnected, Seats
<1>2. PlayerSlots(cl) = PlayerSlots(dl)
  BY <1>1, PlayerSlotsSlots DEF Alike, Same, PlayerSlots
<1>3. /\ PlayerSeats(cl) = PlayerSeats(dl)
      /\ \A i \in PlayerSlots(cl) : cl[i].connect_time = dl[i].connect_time
  BY <1>1, PlayerSlotsSlots DEF Alike, Same, PlayerSeats, Seats
<1>4. Controller(cl) = Controller(dl)
  BY <1>2, <1>3 DEF Controller
<1>5. \A i : Number(cl, i) = Number(dl, i)
  BY <1>2 DEF Number
<1>6. AssignPlayers(cl) = AssignPlayers(dl)
  <2>. DEFINE Is(c, p) == {i \in PlayerSlots(c) : Number(c, i) = p}
  <2>1. \A p : Is(cl, p) = Is(dl, p)
    BY <1>2, <1>5
  <2>. DEFINE Pl(S) == IF S = {} THEN NoSlot ELSE CHOOSE i \in S : TRUE
  <2>2. /\ AssignPlayers(cl) = [p \in PlayerNum |-> Pl(Is(cl, p))]
        /\ AssignPlayers(dl) = [p \in PlayerNum |-> Pl(Is(dl, p))]
    BY DEF AssignPlayers
  <2>. HIDE DEF Is, Pl
  <2>. QED
    BY <2>1, <2>2
<1>. QED
  BY <1>1, <1>2, <1>3, <1>4, <1>6

LEMMA AlikeConsistent ==
  ASSUME NEW cl, NEW dl, Alike(cl, dl), Consistent(dl),
         cl \in [Slot -> ClientRecord]
  PROVE  Consistent(cl)
  BY DEF Alike, Same, Consistent

LEMMA NumberedAlike ==
  ASSUME NEW cl \in [Slot -> ClientRecord]
  PROVE  /\ Numbered(cl) \in [Slot -> ClientRecord]
         /\ Alike(Numbered(cl), cl)
         /\ \A i \in Connected(cl) : Numbered(cl)[i].player_number =
              IF cl[i].drone THEN -1 ELSE Number(cl, i)
         /\ \A i \in Slot \ Connected(cl) : Numbered(cl)[i] = cl[i]
<1>. DEFINE N(i) == IF cl[i].drone THEN -1 ELSE Number(cl, i)
<1>1. ASSUME NEW i \in Connected(cl) PROVE N(i) \in Int
  <2>1. ~cl[i].drone => i \in PlayerSlots(cl)
    BY DEF PlayerSlots
  <2>. QED
    BY <2>1, NumberRange
<1>2. \A i \in Slot : Numbered(cl)[i] =
        IF i \notin Connected(cl) THEN cl[i] ELSE [cl[i] EXCEPT !.player_number = N(i)]
  BY DEF Numbered
<1>3. Numbered(cl) = [i \in Slot |-> Numbered(cl)[i]]
  BY DEF Numbered
<1>. HIDE DEF N
<1>4. \A i \in Slot : /\ Numbered(cl)[i] \in ClientRecord
                      /\ Same(Numbered(cl)[i], cl[i])
                      /\ i \in Connected(cl) => Numbered(cl)[i].player_number = N(i)
  <2>. TAKE i \in Slot
  <2>1. CASE i \notin Connected(cl)
    BY <1>2, <2>1 DEF Same
  <2>2. CASE i \in Connected(cl)
    <3>. DEFINE r == cl[i]
    <3>1. r \in ClientRecord /\ N(i) \in Int
      BY <1>1, <2>2
    <3>2. Numbered(cl)[i] = [r EXCEPT !.player_number = N(i)]
      BY <1>2, <2>2
    <3>. HIDE DEF r
    <3>3. /\ [r EXCEPT !.player_number = N(i)] \in ClientRecord
          /\ Same([r EXCEPT !.player_number = N(i)], r)
          /\ [r EXCEPT !.player_number = N(i)].player_number = N(i)
      BY <3>1 DEF ClientRecord, Same
    <3>. QED
      BY <3>2, <3>3 DEF r
  <2>. QED
    BY <2>1, <2>2
<1>5. Numbered(cl) \in [Slot -> ClientRecord]
  BY <1>3, <1>4
<1>. QED
  BY <1>2, <1>4, <1>5, PlayerSlotsSlots DEF N, Alike

LEMMA WaitingAlike ==
  ASSUME NEW cl \in [Slot -> ClientRecord], NEW is, NEW late
  PROVE  /\ Waiting(cl, is, late) \in [Slot -> ClientRecord]
         /\ Alike(Waiting(cl, is, late), cl)
         /\ \A i \in Slot : Waiting(cl, is, late)[i].player_number
              \in {cl[i].player_number, Numbered(cl)[i].player_number}
         /\ server_state # "WAITING_LAUNCH" => Waiting(cl, is, late) = cl
<1>1. CASE ~Renumbers(cl, is, late)
  BY <1>1 DEF Waiting, Alike, Same
<1>2. CASE Renumbers(cl, is, late)
  <2>. DEFINE nl == Numbered(cl)
              W(i) == IF i \in is \cap Connected(cl)
                      THEN [nl[i] EXCEPT !.last_send_time = "PAST"] ELSE nl[i]
  <2>1. Waiting(cl, is, late) = [i \in Slot |-> W(i)]
    BY <1>2 DEF Waiting
  <2>2. nl \in [Slot -> ClientRecord] /\ Alike(nl, cl)
    BY NumberedAlike
  <2>3. server_state = "WAITING_LAUNCH"
    BY <1>2 DEF Renumbers
  <2>. HIDE DEF nl
  <2>4. \A i \in Slot : /\ W(i) \in ClientRecord /\ Same(W(i), nl[i])
                        /\ W(i).player_number = nl[i].player_number
    BY <2>2 DEF ClientRecord, Same
  <2>. HIDE DEF W
  <2>5. Alike(Waiting(cl, is, late), cl)
    BY <2>1, <2>2, <2>4 DEF Alike, Same
  <2>. QED
    BY <2>1, <2>3, <2>4, <2>5 DEF nl
<1>. QED
  BY <1>1, <1>2

LEMMA AlikeRefl == \A a : Alike(a, a)
  BY DEF Alike, Same

----------------------------------------------------------------------------
(* Messages                                                                *)

LEMMA AppendElements ==
  ASSUME NEW S, NEW s \in Seq(S), NEW e \in S
  PROVE  /\ Append(s, e) \in Seq(S)
         /\ \A k \in DOMAIN Append(s, e) :
              \/ k \in DOMAIN s /\ Append(s, e)[k] = s[k]
              \/ Append(s, e)[k] = e
<1>1. Append(s, e) \in Seq(S)
  OBVIOUS
<1>2. DOMAIN Append(s, e) = 1 .. Len(s) + 1 /\ DOMAIN s = 1 .. Len(s) /\ Len(s) \in Nat
  OBVIOUS
<1>3. \A k \in 1 .. Len(s) + 1 : k \in 1 .. Len(s) \/ k = Len(s) + 1
  BY <1>2
<1>. QED
  BY <1>1, <1>2, <1>3

LEMMA TailElements ==
  ASSUME NEW S, NEW s \in Seq(S), s # <<>>
  PROVE  /\ Tail(s) \in Seq(S)
         /\ Head(s) \in S /\ 1 \in DOMAIN s /\ Head(s) = s[1]
         /\ \A k \in DOMAIN Tail(s) : k + 1 \in DOMAIN s /\ Tail(s)[k] = s[k + 1]
<1>1. Len(s) \in Nat /\ Len(s) # 0 /\ DOMAIN s = 1 .. Len(s)
  OBVIOUS
<1>2. /\ Tail(s) \in Seq(S) /\ DOMAIN Tail(s) = 1 .. Len(s) - 1
      /\ \A k \in 1 .. Len(s) - 1 : Tail(s)[k] = s[k + 1]
  BY <1>1
<1>. QED
  BY <1>1, <1>2

\* A message to everybody is appended for each connected client.
LEMMA ToAllIs ==
  ASSUME NEW cl, Consistent(cl), NEW msg, \A i \in Connected(cl) : msg[i] \in DownMessage,
         LobbyTypes
  PROVE  /\ ToAll(cl, msg) \in [Node -> Seq(DownMessage)]
         /\ \A i \in Connected(cl) : /\ cl[i].addr \in Node
              /\ ToAll(cl, msg)[cl[i].addr] = Append(down[cl[i].addr], msg[i])
         /\ \A n \in Node : (\A i \in Connected(cl) : cl[i].addr # n) =>
              ToAll(cl, msg)[n] = down[n]
<1>. DEFINE One(n) == CHOOSE i \in Connected(cl) : cl[i].addr = n
            To(n) == IF \E i \in Connected(cl) : cl[i].addr = n
                     THEN Append(down[n], msg[One(n)]) ELSE down[n]
<1>1. ToAll(cl, msg) = [n \in Node |-> To(n)]
  BY DEF ToAll
<1>2. ASSUME NEW i \in Connected(cl)
      PROVE  cl[i].addr \in Node /\ One(cl[i].addr) = i
  <2>1. i \in Slot /\ cl[i].conn # None
    BY DEF Connected, ClientConnected, None
  <2>2. cl[i].addr \in Node
    BY <2>1 DEF Consistent, ClientRecord
  <2>3. \A j \in Connected(cl) : cl[j].addr = cl[i].addr => j = i
    BY <2>1, <2>2, LobbyAssumption DEF Consistent, Connected
  <2>. QED
    BY <2>2, <2>3
<1>3. ASSUME NEW n \in Node PROVE To(n) \in Seq(DownMessage)
  <2>1. down[n] \in Seq(DownMessage)
    BY DEF LobbyTypes
  <2>2. CASE \E i \in Connected(cl) : cl[i].addr = n
    <3>1. PICK i \in Connected(cl) : cl[i].addr = n
      BY <2>2
    <3>2. One(n) = i /\ msg[i] \in DownMessage
      BY <3>1, <1>2
    <3>3. To(n) = Append(down[n], msg[i])
      BY <3>1, <3>2
    <3>. QED
      BY <2>1, <3>2, <3>3, AppendElements
  <2>. QED
    BY <2>1, <2>2
<1>. HIDE DEF One
<1>. QED
  BY <1>1, <1>2, <1>3

----------------------------------------------------------------------------
(* The start of a game                                                     *)

\* There are no more players than addresses.
LEMMA PlayersAreNodes ==
  ASSUME NEW cl, Consistent(cl)
  PROVE  /\ Cardinality(Node) \in Nat
         /\ Cardinality(PlayerSlots(cl)) \in 0 .. Cardinality(Node)
<1>. DEFINE S == PlayerSlots(cl)
            f == [i \in S |-> cl[i].addr]
<1>1. \A i \in S : i \in Slot /\ cl[i].conn = "CONNECTED"
  BY DEF PlayerSlots, Connected, ClientConnected
<1>2. \A i \in S : cl[i].addr \in Node
  BY <1>1 DEF Consistent, ClientRecord, None
<1>3. \A i, j \in S : cl[i].addr = cl[j].addr => i = j
  BY <1>1, <1>2, LobbyAssumption DEF Consistent
<1>4. f \in Injection(S, Node)
  BY <1>2, <1>3 DEF Injection, IsInjective
<1>5. IsFiniteSet(Node)
  BY LobbyAssumption
<1>. HIDE DEF S, f
<1>6. IsFiniteSet(S) /\ Cardinality(S) <= Cardinality(Node)
  BY <1>4, <1>5, FS_Injection
<1>7. Cardinality(S) \in Nat /\ Cardinality(Node) \in Nat
  BY <1>5, <1>6, FS_CardinalityType
<1>. QED
  BY <1>6, <1>7 DEF S

LEMMA SettingsOf ==
  ASSUME NEW s \in Settings, NEW k \in 0 .. Cardinality(Node),
         NEW c \in -1 .. Cardinality(Node)
  PROVE  /\ [s EXCEPT !.num_players = k] \in Settings
         /\ [s EXCEPT !.num_players = k].num_players = k
         /\ [s EXCEPT !.num_players = k].from = s.from
         /\ [s EXCEPT !.consoleplayer = c] \in Settings
         /\ [s EXCEPT !.consoleplayer = c].consoleplayer = c
         /\ [s EXCEPT !.consoleplayer = c].num_players = s.num_players
  BY DEF Settings

\* What CheckStartGame does, with the clients cl and the settings s: nothing but
\* to store them, or everybody's GAMESTART has the number of its slot.
LEMMA StartIs ==
  ASSUME LobbyTypes, NEW cl, Consistent(cl), NEW s \in Settings, CheckStartGame(cl, s)
  PROVE  /\ Consistent(clients') /\ Alike(clients', cl)
         /\ sv_settings' \in Settings /\ sv_settings'.from = s.from
         /\ \/ /\ ~AllNodesReady(cl) /\ clients' = cl /\ sv_settings' = s
               /\ UNCHANGED <<sv_players, server_state, down>>
            \/ /\ AllNodesReady(cl) /\ clients' = Numbered(cl)
               /\ sv_players' = AssignPlayers(cl) /\ server_state' = "IN_GAME"
               /\ down' \in [Node -> Seq(DownMessage)]
               /\ \A i \in Connected(cl) :
                    /\ cl[i].addr \in Node
                    /\ \E m \in DownMessage :
                         /\ m.type = "GAMESTART"
                         /\ m.settings.consoleplayer = clients'[i].player_number
                         /\ m.settings.num_players = sv_settings'.num_players
                         /\ down'[cl[i].addr] = Append(down[cl[i].addr], m)
               /\ \A n \in Node : (\A i \in Connected(cl) : cl[i].addr # n) =>
                    down'[n] = down[n]
<1>1. cl \in [Slot -> ClientRecord]
  BY DEF Consistent
<1>2. CASE ~AllNodesReady(cl)
  BY <1>2, AlikeRefl DEF CheckStartGame
<1>3. CASE AllNodesReady(cl)
  <2>. DEFINE start == [s EXCEPT !.num_players = Cardinality(PlayerSlots(cl))]
              nl == Numbered(cl)
              msg == [i \in Slot |-> [type |-> "GAMESTART",
                        settings |-> [start EXCEPT !.consoleplayer = ConsolePlayer(nl, i)]]]
  <2>1. /\ clients' = nl /\ sv_players' = AssignPlayers(cl)
        /\ server_state' = "IN_GAME" /\ sv_settings' = start
        /\ down' = ToAll(cl, msg)
    BY <1>3 DEF CheckStartGame
  <2>2. start \in Settings /\ start.from = s.from
    <3>1. Cardinality(PlayerSlots(cl)) \in 0 .. Cardinality(Node)
          /\ -1 \in -1 .. Cardinality(Node)
      BY PlayersAreNodes
    <3>. QED
      BY <3>1, SettingsOf
  <2>3. nl \in [Slot -> ClientRecord] /\ Alike(nl, cl)
    BY <1>1, NumberedAlike
  <2>4. Consistent(nl)
    BY <2>3, AlikeConsistent
  <2>5. ASSUME NEW i \in Connected(cl)
        PROVE  /\ msg[i] \in DownMessage /\ msg[i].type = "GAMESTART"
               /\ msg[i].settings.consoleplayer = nl[i].player_number
               /\ msg[i].settings.num_players = start.num_players
    <3>. DEFINE c == ConsolePlayer(nl, i)
    <3>1. c = IF cl[i].drone THEN -1 ELSE Number(cl, i)
      BY <1>1, NumberedAlike DEF ConsolePlayer
    <3>2. ~cl[i].drone => i \in PlayerSlots(cl)
      BY DEF PlayerSlots
    <3>3. c \in -1 .. Cardinality(Node)
      <4>1. CASE cl[i].drone
        BY <4>1, <3>1, PlayersAreNodes
      <4>2. CASE ~cl[i].drone
        BY <4>2, <3>1, <3>2, NumberRange, PlayersAreNodes
      <4>. QED
        BY <4>1, <4>2
    <3>4. i \in Slot
      BY PlayerSlotsSlots
    <3>5. msg[i] = [type |-> "GAMESTART", settings |-> [start EXCEPT !.consoleplayer = c]]
      BY <3>4
    <3>6. c = nl[i].player_number
      BY DEF ConsolePlayer
    <3>. HIDE DEF start, c, msg, nl
    <3>7. /\ [start EXCEPT !.consoleplayer = c] \in Settings
          /\ [start EXCEPT !.consoleplayer = c].consoleplayer = c
          /\ [start EXCEPT !.consoleplayer = c].num_players = start.num_players
      <4>1. 0 \in 0 .. Cardinality(Node)
        BY PlayersAreNodes
      <4>. QED
        BY <4>1, <2>2, <3>3, SettingsOf
    <3>8. \A t \in Settings : [type |-> "GAMESTART", settings |-> t] \in DownMessage
      BY DEF DownMessage
    <3>9. PICK t \in Settings : /\ t = [start EXCEPT !.consoleplayer = c]
                                /\ t.consoleplayer = c /\ t.num_players = start.num_players
      BY <3>7
    <3>10. msg[i] = [type |-> "GAMESTART", settings |-> t]
      BY <3>5, <3>9
    <3>11. msg[i].type = "GAMESTART" /\ msg[i].settings = t /\ msg[i] \in DownMessage
      BY <3>8, <3>10
    <3>. QED
      BY ONLY <3>6, <3>9, <3>11
  <2>. HIDE DEF start, nl, msg
  <2>6. /\ ToAll(cl, msg) \in [Node -> Seq(DownMessage)]
        /\ \A i \in Connected(cl) : /\ cl[i].addr \in Node
              /\ ToAll(cl, msg)[cl[i].addr] = Append(down[cl[i].addr], msg[i])
        /\ \A n \in Node : (\A i \in Connected(cl) : cl[i].addr # n) =>
              ToAll(cl, msg)[n] = down[n]
    BY <2>5, ToAllIs
  <2>7. ASSUME NEW i \in Connected(cl)
        PROVE  \E m \in DownMessage :
                 /\ m.type = "GAMESTART"
                 /\ m.settings.consoleplayer = clients'[i].player_number
                 /\ m.settings.num_players = sv_settings'.num_players
                 /\ down'[cl[i].addr] = Append(down[cl[i].addr], m)
    BY <2>1, <2>5, <2>6
  <2>8. /\ Consistent(clients') /\ Alike(clients', cl)
        /\ sv_settings' \in Settings /\ sv_settings'.from = s.from
        /\ clients' = Numbered(cl)
    BY <2>1, <2>2, <2>3, <2>4 DEF nl
  <2>. QED
    BY <1>3, <2>1, <2>6, <2>7, <2>8
<1>. QED
  BY <1>2, <1>3

----------------------------------------------------------------------------
(* Slots that become free                                                  *)

LEMMA FreeIs ==
  ASSUME NEW k \in Int
  PROVE  LET r == [Free EXCEPT !.player_number = k]
         IN  /\ r \in ClientRecord /\ r.addr = None /\ r.conn = None
             /\ r.drone = FALSE /\ r.ready = FALSE /\ r.player_number = k
             /\ r.connect_time = 0
  BY DEF Free, ClientRecord, ConnState

LEMMA FreedIs ==
  ASSUME NEW cl, Consistent(cl), NEW i \in Slot
  PROVE  /\ Consistent(Freed(cl, i))
         /\ \A j \in Slot \ {i} : Freed(cl, i)[j] = cl[j]
         /\ Freed(cl, i)[i].addr = None /\ Freed(cl, i)[i].conn = None
         /\ Freed(cl, i)[i].drone = FALSE /\ Freed(cl, i)[i].ready = FALSE
         /\ Freed(cl, i)[i].player_number = cl[i].player_number
         /\ Freed(cl, i)[i].connect_time = 0
<1>. DEFINE dl == Freed(cl, i)
            r == [Free EXCEPT !.player_number = cl[i].player_number]
<1>1. cl \in [Slot -> ClientRecord] /\ cl[i].player_number \in Int
  BY DEF Consistent, ClientRecord
<1>2. /\ r \in ClientRecord /\ r.addr = None /\ r.conn = None /\ r.connect_time = 0
      /\ r.drone = FALSE /\ r.ready = FALSE /\ r.player_number = cl[i].player_number
  BY <1>1, FreeIs
<1>3. dl = [cl EXCEPT ![i] = r]
  BY DEF Freed
<1>. HIDE DEF r, dl
<1>4. /\ dl \in [Slot -> ClientRecord] /\ dl[i] = r
      /\ \A j \in Slot \ {i} : dl[j] = cl[j]
  BY <1>1, <1>2, <1>3
<1>5. None \notin Drones
  BY LobbyAssumption
<1>6. Consistent(dl)
  BY <1>2, <1>4, <1>5 DEF Consistent
<1>. QED
  BY <1>2, <1>4, <1>6 DEF dl

LEMMA FreedViews ==
  ASSUME NEW cl, Consistent(cl), NEW i \in Slot
  PROVE  /\ Connected(Freed(cl, i)) = Connected(cl) \ {i}
         /\ PlayerSlots(Freed(cl, i)) = PlayerSlots(cl) \ {i}
         /\ Seats(Freed(cl, i)) = Seats(cl) \ {i}
         /\ PlayerSeats(Freed(cl, i)) = PlayerSeats(cl) \ {i}
<1>. DEFINE dl == Freed(cl, i)
<1>1. dl[i].conn = None /\ \A j \in Slot \ {i} : dl[j] = cl[j]
  BY FreedIs
<1>. HIDE DEF dl
<1>2. Connected(dl) = Connected(cl) \ {i} /\ Seats(dl) = Seats(cl) \ {i}
  BY <1>1 DEF Connected, ClientConnected, Seats, None
<1>3. PlayerSlots(dl) = PlayerSlots(cl) \ {i} /\ PlayerSeats(dl) = PlayerSeats(cl) \ {i}
  BY <1>1, <1>2, PlayerSlotsSlots DEF PlayerSlots, PlayerSeats, Seats
<1>. QED
  BY <1>2, <1>3 DEF dl

LEMMA AssignedUndroned ==
  ASSUME NEW cl
  PROVE  /\ AssignPlayers(cl) \in [PlayerNum -> Slot \cup {NoSlot}]
         /\ Undroned(cl, AssignPlayers(cl))
  BY AssignedPlayers DEF Undroned, PlayerSlots

LEMMA AlikeUndroned ==
  ASSUME NEW cl, NEW dl, Alike(cl, dl), NEW pl \in [PlayerNum -> Slot \cup {NoSlot}],
         Undroned(dl, pl)
  PROVE  Undroned(cl, pl)
  BY DEF Alike, Same, Undroned

\* The slot a SYN gets is free, or the disconnected one of its sender; it is
\* the only one the sender has afterwards.
LEMMA SlotForIs ==
  ASSUME NEW n \in Node, NEW i \in SlotFor(n), Consistent(clients)
  PROVE  /\ i \in Slot
         /\ clients[i].conn \in {None, "DISCONNECTED"}
         /\ \A j \in Slot \ {i} : clients[j].addr # n
<1>1. CASE SlotsOf(clients, n) # {}
  <2>1. i \in Slot /\ clients[i].addr = n /\ clients[i].conn = "DISCONNECTED"
    BY <1>1 DEF SlotFor, SlotsOf
  <2>2. n # None
    BY LobbyAssumption
  <2>. QED
    BY <2>1, <2>2 DEF Consistent
<1>2. CASE SlotsOf(clients, n) = {}
  <2>. DEFINE free == {j \in Slot : ~Active(clients, j)}
  <2>1. free # {} /\ i = Min(free)
    BY <1>2 DEF SlotFor, FreeSlot
  <2>2. free \subseteq Nat
    BY SlotsFinite
  <2>. HIDE DEF free
  <2>3. i \in free
    <3>1. \E x \in free : \A y \in free : x <= y
      BY <2>1, <2>2, LeastNatural
    <3>. QED
      BY <2>1, <3>1 DEF Min
  <2>4. i \in Slot /\ clients[i].addr = None
    BY <2>3 DEF free, Active
  <2>. QED
    BY <1>2, <2>4 DEF Consistent, SlotsOf
<1>. QED
  BY <1>1, <1>2

----------------------------------------------------------------------------
(* LobbyInv is inductive                                                   *)

LEMMA LobbyInit == Init => LobbyInv
<1>. SUFFICES ASSUME Init PROVE LobbyInv
  OBVIOUS
<1>1. Free \in ClientRecord /\ Free.addr = None /\ Free.conn = None /\ Free.drone = FALSE
  BY DEF Free, ClientRecord, ConnState
<1>2. NoSettings \in Settings
  <2>1. Cardinality(Node) \in Nat
    BY LobbyAssumption, FS_CardinalityType
  <2>. QED
    BY <2>1 DEF NoSettings, Settings
<1>3. \A i \in Slot : clients[i] = Free
  BY DEF Init
<1>4. clients \in [Slot -> ClientRecord]
  BY <1>1 DEF Init
<1>5. None \notin Drones
  BY LobbyAssumption
<1>6. Consistent(clients)
  BY <1>1, <1>3, <1>4, <1>5 DEF Consistent
<1>7. LobbyTypes
  BY <1>2 DEF Init, LobbyTypes
<1>8. Slots
  BY <1>6 DEF Init, Slots, Undroned
<1>9. Young
  BY <1>1, <1>3 DEF Init, Young, None
<1>10. NotReady
  BY <1>1, <1>3 DEF NotReady, Connected, ClientConnected, None
<1>. QED
  BY <1>7, <1>8, <1>9, <1>10 DEF LobbyInv

\* The array cl with the connection of slot i in the state c
WithConn(cl, i, c) == [cl EXCEPT ![i].conn = c]

LEMMA ConnIs ==
  ASSUME NEW cl, Consistent(cl), NEW i \in Slot, cl[i].addr # None,
         NEW c \in ConnState \ {None}
  PROVE  /\ Consistent(WithConn(cl, i, c))
         /\ \A j \in Slot \ {i} : WithConn(cl, i, c)[j] = cl[j]
         /\ WithConn(cl, i, c)[i].conn = c
         /\ WithConn(cl, i, c)[i].addr = cl[i].addr
         /\ WithConn(cl, i, c)[i].drone = cl[i].drone
         /\ WithConn(cl, i, c)[i].ready = cl[i].ready
         /\ WithConn(cl, i, c)[i].connect_time = cl[i].connect_time
         /\ WithConn(cl, i, c)[i].player_number = cl[i].player_number
<1>. DEFINE r == cl[i]
            q == [r EXCEPT !.conn = c]
            dl == WithConn(cl, i, c)
<1>1. cl \in [Slot -> ClientRecord] /\ r \in ClientRecord
  BY DEF Consistent
<1>2. dl = [cl EXCEPT ![i] = q]
  BY <1>1 DEF WithConn
<1>3. r.addr # None
  OBVIOUS
<1>. HIDE DEF r, dl
<1>4. /\ q \in ClientRecord
      /\ q.conn = c /\ q.addr = r.addr /\ q.drone = r.drone
      /\ q.ready = r.ready /\ q.connect_time = r.connect_time
      /\ q.player_number = r.player_number
  BY <1>1 DEF ClientRecord
<1>. HIDE DEF q
<1>5. dl \in [Slot -> ClientRecord] /\ dl[i] = q /\ \A j \in Slot \ {i} : dl[j] = cl[j]
  BY <1>1, <1>2, <1>4
<1>6. cl[i] = r
  BY DEF r
<1>7. Consistent(dl)
  BY <1>3, <1>4, <1>5, <1>6 DEF Consistent
<1>. QED
  BY <1>4, <1>5, <1>6, <1>7 DEF dl

LEMMA ConnectStep ==
  ASSUME LobbyInv, NEW n \in Node, Connect(n)
  PROVE  LobbyInv'
<1>. USE DEF LobbyInv
<1>1. LobbyTypes'
  BY DEF LobbyTypes, Connect, serverVars
<1>2. Slots'
  BY DEF Slots, Connect, serverVars, Consistent, Undroned
<1>3. Young'
  <2>1. /\ clients' = clients
        /\ client_state' = [client_state EXCEPT ![n] = "CONNECTING"]
        /\ up' = [up EXCEPT ![n] = <<>>] /\ down' = [down EXCEPT ![n] = <<>>]
    BY DEF Connect, serverVars
  <2>2. ASSUME NEW m \in Node
        PROVE  /\ m # n => /\ client_state'[m] = client_state[m]
                           /\ up'[m] = up[m] /\ down'[m] = down[m]
               /\ m = n => /\ client_state'[m] = "CONNECTING"
                           /\ up'[m] = <<>> /\ down'[m] = <<>>
    BY <2>1 DEF LobbyTypes
  <2>3. \A i \in Slot : clients[i].conn = "WAITING_ACK" => clients[i].addr \in Node
    BY DEF Slots, Consistent, ClientRecord, None
  <2>4. \A i \in Slot : clients[i].conn = "WAITING_ACK" =>
         /\ ~clients[i].ready
         /\ client_state'[clients[i].addr] \notin {"WAITING_START", "IN_GAME"}
         /\ down'[clients[i].addr] = <<>>
         /\ \A k \in DOMAIN up'[clients[i].addr] : up'[clients[i].addr][k] # "GAMESTART"
    BY <2>2, <2>3 DEF Young
  <2>. QED
    BY <2>1, <2>2, <2>4 DEF Young
<1>4. NotReady'
  BY DEF NotReady, Connect, serverVars
<1>. QED
  BY <1>1, <1>2, <1>3, <1>4

LEMMA WaitingIsNode ==
  ASSUME Slots, NEW i \in Slot, clients[i].conn # None
  PROVE  clients[i].addr \in Node /\ clients[i].addr # None
  BY LobbyAssumption DEF Slots, Consistent, ClientRecord

LEMMA CL_ParseACKStep ==
  ASSUME LobbyInv, NEW n \in Node, CL_ParseACK(n)
  PROVE  LobbyInv'
<1>. USE DEF LobbyInv
<1>1. LobbyTypes'
  BY DEF LobbyTypes, CL_ParseACK, serverVars
<1>2. Slots'
  BY DEF Slots, CL_ParseACK, serverVars
<1>3. Young'
  <2>1. /\ clients' = clients /\ up' = up /\ down' = down
        /\ \A m \in Node : client_state'[m] =
             IF m = n THEN "WAITING_LAUNCH" ELSE client_state[m]
    BY DEF CL_ParseACK, serverVars, LobbyTypes
  <2>2. \A i \in Slot : clients[i].conn = "WAITING_ACK" => clients[i].addr \in Node
    BY WaitingIsNode DEF None
  <2>. QED
    BY <2>1, <2>2 DEF Young
<1>4. NotReady'
  BY DEF NotReady, CL_ParseACK, serverVars
<1>. QED
  BY <1>1, <1>2, <1>3, <1>4

LEMMA SV_ParseACKStep ==
  ASSUME LobbyInv, NEW n \in Node, SV_ParseACK(n)
  PROVE  LobbyInv'
<1>. USE DEF LobbyInv
<1>1. PICK i \in Slot : /\ clients[i].addr = n /\ clients[i].conn = "WAITING_ACK"
                        /\ clients' = [clients EXCEPT ![i].conn = "CONNECTED"]
  BY DEF SV_ParseACK, SlotsOf
<1>2. clients[i].addr # None /\ "CONNECTED" \in ConnState \ {None} /\ Consistent(clients)
  BY <1>1, LobbyAssumption DEF ConnState, None, Slots
<1>3. /\ Consistent(clients')
      /\ \A j \in Slot \ {i} : clients'[j] = clients[j]
      /\ clients'[i].conn = "CONNECTED" /\ clients'[i].addr = clients[i].addr
      /\ clients'[i].drone = clients[i].drone /\ clients'[i].ready = clients[i].ready
  <2>1. clients' = WithConn(clients, i, "CONNECTED")
    BY <1>1 DEF WithConn
  <2>. QED
    BY <1>2, <2>1, ConnIs
<1>4. /\ UNCHANGED <<server_state, sv_players, client_state, up, down>>
  BY DEF SV_ParseACK, clientVars
<1>5. LobbyTypes'
  BY DEF LobbyTypes, SV_ParseACK, clientVars
<1>6. Slots'
  BY <1>3, <1>4 DEF Slots, Undroned, LobbyTypes
<1>7. Young'
  BY <1>3, <1>4 DEF Young
<1>8. NotReady'
  BY <1>1, <1>3, <1>4 DEF NotReady, Young, Connected, ClientConnected
<1>. QED
  BY <1>5, <1>6, <1>7, <1>8

LEMMA CL_LaunchGameStep ==
  ASSUME LobbyInv, NEW n \in Node, CL_LaunchGame(n)
  PROVE  LobbyInv'
<1>. USE DEF LobbyInv
<1>1. /\ UNCHANGED <<serverVars, clientVars, down, ack, bye>>
      /\ client_state[n] = "WAITING_LAUNCH"
      /\ up' = [up EXCEPT ![n] = Append(@, "LAUNCH")]
  BY DEF CL_LaunchGame
<1>2. up[n] \in Seq(UpMessage) /\ "LAUNCH" \in UpMessage
  BY DEF LobbyTypes, UpMessage
<1>3. /\ Append(up[n], "LAUNCH") \in Seq(UpMessage)
      /\ \A k \in DOMAIN Append(up[n], "LAUNCH") :
              \/ k \in DOMAIN up[n] /\ Append(up[n], "LAUNCH")[k] = up[n][k]
              \/ Append(up[n], "LAUNCH")[k] = "LAUNCH"
  BY <1>2, AppendElements
<1>4. /\ up' \in [Node -> Seq(UpMessage)] /\ up'[n] = Append(up[n], "LAUNCH")
      /\ \A m \in Node \ {n} : up'[m] = up[m]
  BY <1>1, <1>3 DEF LobbyTypes
<1>5. LobbyTypes'
  BY <1>1, <1>4 DEF LobbyTypes, serverVars, clientVars
<1>6. Slots' /\ NotReady'
  BY <1>1 DEF Slots, NotReady, serverVars
<1>7. Young'
  <2>1. \A i \in Slot : clients[i].conn = "WAITING_ACK" => clients[i].addr \in Node
    BY WaitingIsNode DEF None
  <2>2. clients' = clients /\ client_state' = client_state /\ down' = down
    BY <1>1 DEF serverVars, clientVars
  <2>3. \A m \in Node : \A k \in DOMAIN up'[m] :
          up'[m][k] = "GAMESTART" => k \in DOMAIN up[m] /\ up[m][k] = "GAMESTART"
    BY <1>3, <1>4
  <2>4. \A m \in Node : client_state[m] = "CONNECTING" => up'[m] = <<>>
    BY <1>1, <1>4 DEF Young
  <2>. QED
    BY <2>1, <2>2, <2>3, <2>4 DEF Young
<1>. QED
  BY <1>5, <1>6, <1>7

\* What keeps connections young: no new one begins, no packet of the game goes
\* to or comes from one.
LEMMA YoungKeeps ==
  ASSUME LobbyInv,
         \A i \in Slot : clients'[i].conn = "WAITING_ACK" =>
           /\ clients[i].conn = "WAITING_ACK" /\ clients'[i].addr = clients[i].addr
           /\ clients'[i].ready = clients[i].ready,
         \A m \in Node : client_state'[m] = "CONNECTING" => client_state[m] = "CONNECTING",
         \A m \in Node : client_state'[m] \in {"WAITING_START", "IN_GAME"} =>
           client_state[m] \in {"WAITING_START", "IN_GAME"} \/ down[m] # <<>>,
         \A m \in Node : client_state[m] = "CONNECTING" /\ up[m] = <<>> => up'[m] = <<>>,
         \A m \in Node : \A k \in DOMAIN up'[m] : up'[m][k] = "GAMESTART" =>
           \/ client_state[m] = "WAITING_START"
           \/ \E l \in DOMAIN up[m] : up[m][l] = "GAMESTART",
         \A i \in Slot : clients[i].conn = "WAITING_ACK" /\ down[clients[i].addr] = <<>> =>
           down'[clients[i].addr] = <<>>
  PROVE  Young'
<1>1. \A m \in Node : client_state'[m] = "CONNECTING" => up'[m] = <<>>
  BY DEF LobbyInv, Young
<1>2. ASSUME NEW i \in Slot, clients'[i].conn = "WAITING_ACK"
      PROVE  /\ ~clients'[i].ready
             /\ client_state'[clients'[i].addr] \notin {"WAITING_START", "IN_GAME"}
             /\ down'[clients'[i].addr] = <<>>
             /\ \A k \in DOMAIN up'[clients'[i].addr] :
                  up'[clients'[i].addr][k] # "GAMESTART"
  <2>1. /\ clients[i].conn = "WAITING_ACK" /\ clients'[i].addr = clients[i].addr
        /\ clients'[i].ready = clients[i].ready
    BY <1>2
  <2>2. PICK m \in Node : m = clients[i].addr
    BY <2>1, WaitingIsNode DEF LobbyInv, None
  <2>3. /\ ~clients[i].ready /\ client_state[m] \notin {"WAITING_START", "IN_GAME"}
        /\ down[m] = <<>> /\ \A k \in DOMAIN up[m] : up[m][k] # "GAMESTART"
    BY <2>1, <2>2 DEF LobbyInv, Young
  <2>4. client_state'[m] \notin {"WAITING_START", "IN_GAME"} /\ down'[m] = <<>>
    BY <2>1, <2>2, <2>3
  <2>5. \A k \in DOMAIN up'[m] : up'[m][k] # "GAMESTART"
    BY <2>3
  <2>. QED
    BY <2>1, <2>2, <2>3, <2>4, <2>5
<1>. QED
  BY <1>1, <1>2 DEF Young

\* A message that was read
LEMMA UpRead ==
  ASSUME LobbyTypes, NEW n \in Node, up[n] # <<>>, up' = [up EXCEPT ![n] = Tail(@)]
  PROVE  /\ up' \in [Node -> Seq(UpMessage)]
         /\ \A m \in Node \ {n} : up'[m] = up[m]
         /\ \A m \in Node : up[m] = <<>> => up'[m] = <<>>
         /\ 1 \in DOMAIN up[n] /\ Head(up[n]) = up[n][1]
         /\ \A m \in Node : \A k \in DOMAIN up'[m] :
              \E l \in DOMAIN up[m] : up'[m][k] = up[m][l]
<1>1. up[n] \in Seq(UpMessage) /\ up \in [Node -> Seq(UpMessage)]
  BY DEF LobbyTypes
<1>2. /\ Tail(up[n]) \in Seq(UpMessage) /\ 1 \in DOMAIN up[n] /\ Head(up[n]) = up[n][1]
      /\ \A k \in DOMAIN Tail(up[n]) : k + 1 \in DOMAIN up[n] /\ Tail(up[n])[k] = up[n][k + 1]
  BY <1>1, TailElements
<1>3. up'[n] = Tail(up[n]) /\ \A m \in Node \ {n} : up'[m] = up[m]
  BY <1>1
<1>4. up' \in [Node -> Seq(UpMessage)]
  BY <1>1, <1>2
<1>. QED
  BY <1>2, <1>3, <1>4

LEMMA DownRead ==
  ASSUME LobbyTypes, NEW n \in Node, down[n] # <<>>, down' = [down EXCEPT ![n] = Tail(@)]
  PROVE  /\ down' \in [Node -> Seq(DownMessage)]
         /\ \A m \in Node \ {n} : down'[m] = down[m]
         /\ \A m \in Node : down[m] = <<>> => down'[m] = <<>>
         /\ 1 \in DOMAIN down[n] /\ Head(down[n]) = down[n][1]
         /\ Head(down[n]) \in DownMessage
         /\ \A m \in Node : \A k \in DOMAIN down'[m] :
              \E l \in DOMAIN down[m] : down'[m][k] = down[m][l]
<1>1. down[n] \in Seq(DownMessage) /\ down \in [Node -> Seq(DownMessage)]
  BY DEF LobbyTypes
<1>2. /\ Tail(down[n]) \in Seq(DownMessage) /\ 1 \in DOMAIN down[n]
      /\ Head(down[n]) = down[n][1] /\ Head(down[n]) \in DownMessage
      /\ \A k \in DOMAIN Tail(down[n]) :
           k + 1 \in DOMAIN down[n] /\ Tail(down[n])[k] = down[n][k + 1]
  BY <1>1, TailElements
<1>3. down'[n] = Tail(down[n]) /\ \A m \in Node \ {n} : down'[m] = down[m]
  BY <1>1
<1>4. down' \in [Node -> Seq(DownMessage)]
  BY <1>1, <1>2
<1>. QED
  BY <1>2, <1>3, <1>4

LEMMA SV_ParseLaunchStep ==
  ASSUME LobbyInv, NEW n \in Node, SV_ParseLaunch(n)
  PROVE  LobbyInv'
<1>. USE DEF LobbyInv
<1>1. /\ up[n] # <<>> /\ up' = [up EXCEPT ![n] = Tail(@)]
      /\ UNCHANGED <<sv_settings, sv_game, client_state, settings, sent, connects, ack, bye>>
  BY DEF SV_ParseLaunch, clientVars
<1>2. /\ up' \in [Node -> Seq(UpMessage)]
      /\ \A m \in Node : up[m] = <<>> => up'[m] = <<>>
      /\ \A m \in Node : \A k \in DOMAIN up'[m] :
              \E l \in DOMAIN up[m] : up'[m][k] = up[m][l]
  BY <1>1, UpRead
<1>3. Consistent(clients) /\ clients \in [Slot -> ClientRecord]
  BY DEF Slots, Consistent
<1>4. \/ UNCHANGED <<clients, sv_players, down, server_state>>
      \/ /\ clients' = Numbered(clients) /\ sv_players' = AssignPlayers(clients)
         /\ down' = ToAll(clients, [i \in Slot |-> [type |-> "LAUNCH"]])
         /\ server_state' = "WAITING_START"
  BY DEF SV_ParseLaunch
<1>5. Alike(clients', clients) /\ Consistent(clients')
  <2>1. Alike(Numbered(clients), clients) /\ Consistent(Numbered(clients))
    BY <1>3, NumberedAlike, AlikeConsistent
  <2>. QED
    BY <1>3, <1>4, <2>1, AlikeRefl
<1>6. /\ down' \in [Node -> Seq(DownMessage)]
      /\ \A i \in Slot : clients[i].conn = "WAITING_ACK" =>
           down'[clients[i].addr] = down[clients[i].addr]
  <2>1. CASE down' = down
    BY <2>1 DEF LobbyTypes
  <2>2. CASE down' = ToAll(clients, [i \in Slot |-> [type |-> "LAUNCH"]])
    <3>. DEFINE msg == [i \in Slot |-> [type |-> "LAUNCH"]]
    <3>1. \A i \in Connected(clients) : msg[i] \in DownMessage
      BY PlayerSlotsSlots DEF DownMessage
    <3>. HIDE DEF msg
    <3>2. /\ ToAll(clients, msg) \in [Node -> Seq(DownMessage)]
          /\ \A m \in Node : (\A i \in Connected(clients) : clients[i].addr # m) =>
               ToAll(clients, msg)[m] = down[m]
      BY <1>3, <3>1, ToAllIs
    <3>3. ASSUME NEW i \in Slot, clients[i].conn = "WAITING_ACK"
          PROVE  /\ clients[i].addr \in Node
                 /\ \A j \in Connected(clients) : clients[j].addr # clients[i].addr
      <4>1. clients[i].addr \in Node /\ clients[i].addr # None
        BY <3>3, WaitingIsNode DEF None
      <4>2. \A j \in Connected(clients) : j \in Slot /\ j # i
        BY <3>3 DEF Connected, ClientConnected
      <4>. QED
        BY <4>1, <4>2, <1>3 DEF Consistent
    <3>. QED
      BY <2>2, <3>2, <3>3 DEF msg
  <2>. QED
    BY <1>4, <2>1, <2>2
<1>7. Undroned(clients', sv_players') /\ sv_players' \in [PlayerNum -> Slot \cup {NoSlot}]
  <2>1. Undroned(clients, sv_players') /\ sv_players' \in [PlayerNum -> Slot \cup {NoSlot}]
    BY <1>4, AssignedUndroned DEF Slots, LobbyTypes, Undroned
  <2>. QED
    BY <1>5, <2>1 DEF Alike, Same, Undroned
<1>8. LobbyTypes'
  BY <1>1, <1>2, <1>4, <1>6, <1>7 DEF LobbyTypes
<1>9. Slots'
  BY <1>5, <1>7 DEF Slots
<1>10. Young'
  <2>1. \A i \in Slot : clients'[i].conn = "WAITING_ACK" =>
           /\ clients[i].conn = "WAITING_ACK" /\ clients'[i].addr = clients[i].addr
           /\ clients'[i].ready = clients[i].ready
    BY <1>5 DEF Alike, Same
  <2>. QED
    BY <1>1, <1>2, <1>6, <2>1, YoungKeeps
<1>11. NotReady'
  <2>1. CASE UNCHANGED <<clients, server_state>>
    BY <2>1 DEF NotReady
  <2>2. CASE server_state' = "WAITING_START"
    BY <2>2 DEF NotReady
  <2>. QED
    BY <1>4, <2>1, <2>2
<1>. QED
  BY <1>8, <1>9, <1>10, <1>11

LEMMA CL_ParseLaunchStep ==
  ASSUME LobbyInv, NEW n \in Node, CL_ParseLaunch(n)
  PROVE  LobbyInv'
<1>. USE DEF LobbyInv
<1>1. /\ down[n] # <<>> /\ down' = [down EXCEPT ![n] = Tail(@)]
      /\ client_state[n] \notin {"OUT", "CONNECTING"}
      /\ client_state' = [client_state EXCEPT ![n] =
           IF @ = "WAITING_LAUNCH" THEN "WAITING_START" ELSE @]
      /\ UNCHANGED <<server_state, clients, sv_players, sv_settings, settings, sent,
                     connects, up, ack, bye>>
  BY DEF CL_ParseLaunch, serverVars
<1>2. /\ down' \in [Node -> Seq(DownMessage)]
      /\ \A m \in Node : down[m] = <<>> => down'[m] = <<>>
  BY <1>1, DownRead
<1>3. \A m \in Node : m # n => client_state'[m] = client_state[m]
  BY <1>1 DEF LobbyTypes
<1>4. client_state'[n] \notin {"OUT", "CONNECTING"}
  BY <1>1 DEF LobbyTypes
<1>5. LobbyTypes'
  BY <1>1, <1>2 DEF LobbyTypes
<1>6. Slots' /\ NotReady'
  BY <1>1 DEF Slots, NotReady
<1>7. Young'
  <2>1. \A m \in Node : client_state'[m] = "CONNECTING" => client_state[m] = "CONNECTING"
    BY <1>3, <1>4
  <2>2. \A m \in Node : client_state'[m] \in {"WAITING_START", "IN_GAME"} =>
           client_state[m] \in {"WAITING_START", "IN_GAME"} \/ down[m] # <<>>
    BY <1>1, <1>3
  <2>3. \A i \in Slot : clients[i].conn = "WAITING_ACK" => clients[i].addr \in Node
    BY WaitingIsNode DEF None
  <2>. QED
    BY <1>1, <1>2, <2>1, <2>2, <2>3, YoungKeeps
<1>. QED
  BY <1>5, <1>6, <1>7

LEMMA CL_StartGameStep ==
  ASSUME LobbyInv, NEW n \in Node, CL_StartGame(n)
  PROVE  LobbyInv'
<1>. USE DEF LobbyInv
<1>1. /\ client_state[n] = "WAITING_START"
      /\ up' = [up EXCEPT ![n] = Append(@, "GAMESTART")] /\ sent' = sent \cup {n}
      /\ UNCHANGED <<server_state, clients, sv_players, sv_settings, client_state,
                     settings, connects, down, ack, bye>>
  BY DEF CL_StartGame, serverVars
<1>2. up[n] \in Seq(UpMessage) /\ "GAMESTART" \in UpMessage
  BY DEF LobbyTypes, UpMessage
<1>3. Append(up[n], "GAMESTART") \in Seq(UpMessage)
  BY <1>2
<1>4. up' \in [Node -> Seq(UpMessage)] /\ \A m \in Node \ {n} : up'[m] = up[m]
  BY <1>1, <1>3 DEF LobbyTypes
<1>5. LobbyTypes'
  BY <1>1, <1>4 DEF LobbyTypes
<1>6. Slots' /\ NotReady'
  BY <1>1 DEF Slots, NotReady
<1>7. Young'
  <2>1. \A m \in Node : client_state[m] = "CONNECTING" /\ up[m] = <<>> => up'[m] = <<>>
    BY <1>1, <1>4
  <2>2. \A m \in Node : \A k \in DOMAIN up'[m] : up'[m][k] = "GAMESTART" =>
           \/ client_state[m] = "WAITING_START"
           \/ \E l \in DOMAIN up[m] : up[m][l] = "GAMESTART"
    BY <1>1, <1>4
  <2>. QED
    BY <1>1, <2>1, <2>2, YoungKeeps
<1>. QED
  BY <1>5, <1>6, <1>7

LEMMA CL_ParseGameStartStep ==
  ASSUME LobbyInv, NEW n \in Node, CL_ParseGameStart(n)
  PROVE  LobbyInv'
<1>. USE DEF LobbyInv
<1>. DEFINE m == Head(down[n])
<1>1. /\ down[n] # <<>> /\ m.type = "GAMESTART"
      /\ down' = [down EXCEPT ![n] = Tail(@)]
      /\ client_state[n] \notin {"OUT", "CONNECTING"}
      /\ settings' = [settings EXCEPT ![n] = m.settings]
      /\ client_state' = [client_state EXCEPT ![n] =
           IF @ = "WAITING_START" /\ Valid(n, m.settings) THEN "IN_GAME" ELSE @]
      /\ UNCHANGED <<server_state, clients, sv_players, sv_settings, sent,
                     connects, up, ack, bye>>
  BY DEF CL_ParseGameStart, serverVars
<1>2. /\ down' \in [Node -> Seq(DownMessage)] /\ m \in DownMessage
      /\ \A k \in Node : down[k] = <<>> => down'[k] = <<>>
  BY <1>1, DownRead
<1>3. m.settings \in Settings
  BY <1>1, <1>2 DEF DownMessage
<1>. HIDE DEF m
<1>4. \A k \in Node : k # n => client_state'[k] = client_state[k]
  BY <1>1 DEF LobbyTypes
<1>5. /\ client_state'[n] \notin {"OUT", "CONNECTING"}
      /\ client_state' \in [Node -> {"OUT", "CONNECTING", "WAITING_LAUNCH",
                                     "WAITING_START", "IN_GAME"}]
  <2>. DEFINE new == IF client_state[n] = "WAITING_START" /\ Valid(n, m.settings)
                     THEN "IN_GAME" ELSE client_state[n]
  <2>1. new \in {"WAITING_LAUNCH", "WAITING_START", "IN_GAME"}
    BY <1>1 DEF LobbyTypes
  <2>2. client_state' = [client_state EXCEPT ![n] = new]
    BY <1>1
  <2>. HIDE DEF new
  <2>. QED
    BY <2>1, <2>2 DEF LobbyTypes
<1>6. LobbyTypes'
  BY <1>1, <1>2, <1>3, <1>5 DEF LobbyTypes
<1>7. Slots' /\ NotReady'
  BY <1>1 DEF Slots, NotReady
<1>8. Young'
  <2>1. \A k \in Node : client_state'[k] = "CONNECTING" => client_state[k] = "CONNECTING"
    BY <1>4, <1>5
  <2>2. \A k \in Node : client_state'[k] \in {"WAITING_START", "IN_GAME"} =>
           client_state[k] \in {"WAITING_START", "IN_GAME"} \/ down[k] # <<>>
    BY <1>1, <1>4
  <2>3. \A i \in Slot : clients[i].conn = "WAITING_ACK" => clients[i].addr \in Node
    BY WaitingIsNode DEF None
  <2>. QED
    BY <1>1, <1>2, <2>1, <2>2, <2>3, YoungKeeps
<1>. QED
  BY <1>6, <1>7, <1>8

\* A client that is gone
LEMMA GoneStep ==
  ASSUME LobbyInv, NEW n \in Node, Gone(n), UNCHANGED <<serverVars, up, down, ack>>,
         bye' \subseteq Leavers
  PROVE  LobbyInv'
<1>. USE DEF LobbyInv
<1>1. /\ client_state' = [client_state EXCEPT ![n] = "OUT"]
      /\ UNCHANGED <<server_state, clients, sv_players, sv_settings, settings, sent,
                     connects, up, down, ack>>
  BY DEF Gone, serverVars
<1>2. LobbyTypes'
  BY <1>1 DEF LobbyTypes
<1>3. Slots' /\ NotReady'
  BY <1>1 DEF Slots, NotReady
<1>4. Young'
  <2>1. \A m \in Node : client_state'[m] = IF m = n THEN "OUT" ELSE client_state[m]
    BY <1>1 DEF LobbyTypes
  <2>. QED
    BY <1>1, <2>1, YoungKeeps
<1>. QED
  BY <1>2, <1>3, <1>4

LEMMA LeaveStep ==
  ASSUME LobbyInv, NEW n \in Node, Leave(n)
  PROVE  LobbyInv'
<1>1. n \in Leavers /\ Gone(n) /\ bye' = bye \cup {n} /\ UNCHANGED <<serverVars, up, down, ack>>
  BY DEF Leave
<1>2. bye' \subseteq Leavers
  BY <1>1 DEF LobbyInv, LobbyTypes
<1>. QED
  BY <1>1, <1>2, GoneStep

LEMMA LostStep ==
  ASSUME LobbyInv, NEW n \in Node, Lost(n)
  PROVE  LobbyInv'
<1>1. Gone(n) /\ bye' = bye /\ UNCHANGED <<serverVars, up, down, ack>>
  BY DEF Lost
<1>2. bye' \subseteq Leavers
  BY <1>1 DEF LobbyInv, LobbyTypes
<1>. QED
  BY <1>1, <1>2, GoneStep

\* A connection that ends, in whatever way
LEMMA ConnEndsStep ==
  ASSUME LobbyInv, NEW i \in Slot, clients[i].addr # None,
         NEW c \in {"SLEEP", "DISCONNECTED"},
         clients' = WithConn(clients, i, c),
         bye' \subseteq Leavers, NEW n \in Node,
         client_state' \in {client_state, [client_state EXCEPT ![n] = "OUT"]},
         UNCHANGED <<server_state, sv_players, sv_settings, settings, sent, connects,
                     up, down, ack>>
  PROVE  LobbyInv'
<1>. USE DEF LobbyInv
<1>1. Consistent(clients) /\ c \in ConnState \ {None}
  BY DEF Slots, ConnState, None
<1>2. /\ Consistent(clients')
      /\ \A j \in Slot \ {i} : clients'[j] = clients[j]
      /\ clients'[i].conn = c /\ clients'[i].addr = clients[i].addr
      /\ clients'[i].drone = clients[i].drone
  BY <1>1, ConnIs
<1>3. \A m \in Node : client_state'[m] \in {"OUT", client_state[m]}
  BY DEF LobbyTypes
<1>4. LobbyTypes'
  BY DEF LobbyTypes
<1>5. Slots'
  BY <1>2 DEF Slots, Undroned, LobbyTypes
<1>6. Young'
  <2>1. \A j \in Slot : clients'[j].conn = "WAITING_ACK" =>
           /\ clients[j].conn = "WAITING_ACK" /\ clients'[j].addr = clients[j].addr
           /\ clients'[j].ready = clients[j].ready
    BY <1>2
  <2>2. \A m \in Node : client_state'[m] = "CONNECTING" => client_state[m] = "CONNECTING"
    BY <1>3
  <2>3. \A m \in Node : client_state'[m] \in {"WAITING_START", "IN_GAME"} =>
           client_state[m] \in {"WAITING_START", "IN_GAME"} \/ down[m] # <<>>
    BY <1>3
  <2>. QED
    BY <2>1, <2>2, <2>3, YoungKeeps
<1>7. NotReady'
  BY <1>2 DEF NotReady, Connected, ClientConnected
<1>. QED
  BY <1>4, <1>5, <1>6, <1>7

LEMMA SV_ParseDisconnectStep ==
  ASSUME LobbyInv, NEW n \in Node, SV_ParseDisconnect(n)
  PROVE  LobbyInv'
<1>1. /\ bye' = bye \ {n}
      /\ UNCHANGED <<server_state, sv_players, sv_settings, client_state, settings,
                     sent, connects, up, down, ack>>
  BY DEF SV_ParseDisconnect, clientVars
<1>2. bye' \subseteq Leavers
  BY <1>1 DEF LobbyInv, LobbyTypes
<1>3. CASE clients' = clients
  <2>1. LobbyTypes' /\ Slots' /\ NotReady'
    BY <1>1, <1>2, <1>3 DEF LobbyInv, LobbyTypes, Slots, NotReady
  <2>2. Young'
    BY <1>1, <1>3, YoungKeeps
  <2>. QED
    BY <2>1, <2>2 DEF LobbyInv
<1>4. CASE \E i \in SlotsOf(clients, n) : clients' = [clients EXCEPT ![i].conn = "SLEEP"]
  <2>1. PICK i \in Slot : clients[i].addr = n /\ clients' = WithConn(clients, i, "SLEEP")
    BY <1>4 DEF SlotsOf, WithConn
  <2>2. clients[i].addr # None
    BY <2>1, LobbyAssumption
  <2>. QED
    BY <1>1, <1>2, <2>1, <2>2, ConnEndsStep
<1>. QED
  BY <1>3, <1>4 DEF SV_ParseDisconnect

LEMMA DisconnectedStep ==
  ASSUME LobbyInv, NEW n \in Node, Disconnected(n)
  PROVE  LobbyInv'
<1>1. /\ client_state' = [client_state EXCEPT ![n] = "OUT"]
      /\ UNCHANGED <<server_state, sv_players, sv_settings, settings,
                     sent, connects, up, down, ack, bye>>
  BY DEF Disconnected, Gone
<1>2. bye' \subseteq Leavers
  BY <1>1 DEF LobbyInv, LobbyTypes
<1>3. PICK i \in Slot : clients[i].addr = n /\ clients' = WithConn(clients, i, "DISCONNECTED")
  BY DEF Disconnected, SlotsOf, WithConn
<1>4. clients[i].addr # None
  BY <1>3, LobbyAssumption
<1>. QED
  BY <1>1, <1>2, <1>3, <1>4, ConnEndsStep

\* CheckStartGame, called while a game is being started, with the clients cl
LEMMA StartKeeps ==
  ASSUME LobbyInv, NEW cl, Consistent(cl), NEW s \in Settings, CheckStartGame(cl, s),
         Undroned(cl, sv_players), server_state = "WAITING_START",
         \A i \in Slot : cl[i].conn = "WAITING_ACK" =>
           /\ clients[i].conn = "WAITING_ACK" /\ cl[i].addr = clients[i].addr
           /\ cl[i].ready = clients[i].ready,
         \A i \in Slot : clients[i].conn = "WAITING_ACK" => cl[i].conn # "CONNECTED",
         \A i \in Slot : cl[i].addr \in {None, clients[i].addr},
         UNCHANGED <<client_state, settings, sent, connects>>,
         bye' \subseteq Leavers, ack' \subseteq Node,
         up' \in [Node -> Seq(UpMessage)],
         \A m \in Node : up[m] = <<>> => up'[m] = <<>>,
         \A m \in Node : \A k \in DOMAIN up'[m] :
           \E l \in DOMAIN up[m] : up'[m][k] = up[m][l]
  PROVE  LobbyInv'
<1>. USE DEF LobbyInv
<1>1. /\ Consistent(clients') /\ Alike(clients', cl)
      /\ sv_settings' \in Settings
      /\ \/ UNCHANGED <<sv_players, server_state, down>>
         \/ /\ sv_players' = AssignPlayers(cl) /\ server_state' = "IN_GAME"
            /\ down' \in [Node -> Seq(DownMessage)]
            /\ \A n \in Node : (\A i \in Connected(cl) : cl[i].addr # n) =>
                 down'[n] = down[n]
  BY StartIs
<1>2. /\ down' \in [Node -> Seq(DownMessage)]
      /\ \A i \in Slot : clients[i].conn = "WAITING_ACK" =>
           down'[clients[i].addr] = down[clients[i].addr]
  <2>1. CASE down' = down
    BY <2>1 DEF LobbyTypes
  <2>2. CASE /\ down' \in [Node -> Seq(DownMessage)]
             /\ \A n \in Node : (\A i \in Connected(cl) : cl[i].addr # n) =>
                  down'[n] = down[n]
    <3>1. ASSUME NEW i \in Slot, clients[i].conn = "WAITING_ACK"
          PROVE  /\ clients[i].addr \in Node
                 /\ \A j \in Connected(cl) : cl[j].addr # clients[i].addr
      <4>1. clients[i].addr \in Node /\ clients[i].addr # None
        BY <3>1, WaitingIsNode DEF None
      <4>2. \A j \in Connected(cl) : j \in Slot /\ j # i
        BY <3>1 DEF Connected, ClientConnected
      <4>3. \A j \in Slot \ {i} : clients[j].addr # clients[i].addr
        BY <4>1 DEF Slots, Consistent
      <4>. QED
        BY <4>1, <4>2, <4>3
    <3>. QED
      BY <2>2, <3>1
  <2>. QED
    BY <1>1, <2>1, <2>2
<1>3. Undroned(clients', sv_players') /\ sv_players' \in [PlayerNum -> Slot \cup {NoSlot}]
  <2>1. Undroned(cl, sv_players') /\ sv_players' \in [PlayerNum -> Slot \cup {NoSlot}]
    BY <1>1, AssignedUndroned DEF LobbyTypes, Undroned
  <2>. QED
    BY <1>1, <2>1 DEF Alike, Same, Undroned
<1>4. LobbyTypes'
  BY <1>1, <1>2, <1>3 DEF LobbyTypes
<1>5. Slots'
  BY <1>1, <1>3 DEF Slots
<1>6. Young'
  <2>1. \A i \in Slot : clients'[i].conn = "WAITING_ACK" =>
           /\ clients[i].conn = "WAITING_ACK" /\ clients'[i].addr = clients[i].addr
           /\ clients'[i].ready = clients[i].ready
    BY <1>1 DEF Alike, Same
  <2>. QED
    BY <1>2, <2>1, YoungKeeps
<1>7. NotReady'
  BY <1>1 DEF NotReady
<1>. QED
  BY <1>4, <1>5, <1>6, <1>7

\* The array cl with slot i ready
WithReady(cl, i) == [cl EXCEPT ![i].ready = TRUE]

LEMMA ReadyIs ==
  ASSUME NEW cl, Consistent(cl), NEW i \in Slot
  PROVE  /\ Consistent(WithReady(cl, i))
         /\ \A j \in Slot \ {i} : WithReady(cl, i)[j] = cl[j]
         /\ WithReady(cl, i)[i].ready = TRUE
         /\ WithReady(cl, i)[i].conn = cl[i].conn
         /\ WithReady(cl, i)[i].addr = cl[i].addr
         /\ WithReady(cl, i)[i].drone = cl[i].drone
         /\ WithReady(cl, i)[i].connect_time = cl[i].connect_time
         /\ WithReady(cl, i)[i].player_number = cl[i].player_number
<1>. DEFINE r == cl[i]
            q == [r EXCEPT !.ready = TRUE]
            dl == WithReady(cl, i)
<1>1. cl \in [Slot -> ClientRecord] /\ r \in ClientRecord
  BY DEF Consistent
<1>2. dl = [cl EXCEPT ![i] = q]
  BY <1>1 DEF WithReady
<1>. HIDE DEF r, dl
<1>4. /\ q \in ClientRecord
      /\ q.ready = TRUE /\ q.addr = r.addr /\ q.drone = r.drone
      /\ q.conn = r.conn /\ q.connect_time = r.connect_time
      /\ q.player_number = r.player_number
  BY <1>1 DEF ClientRecord
<1>. HIDE DEF q
<1>5. dl \in [Slot -> ClientRecord] /\ dl[i] = q /\ \A j \in Slot \ {i} : dl[j] = cl[j]
  BY <1>1, <1>2, <1>4
<1>6. cl[i] = r
  BY DEF r
<1>7. Consistent(dl)
  BY <1>4, <1>5, <1>6 DEF Consistent
<1>. QED
  BY <1>4, <1>5, <1>6, <1>7 DEF dl

LEMMA SV_ParseGameStartStep ==
  ASSUME LobbyInv, NEW n \in Node, SV_ParseGameStart(n)
  PROVE  LobbyInv'
<1>. USE DEF LobbyInv
<1>1. /\ up[n] # <<>> /\ up' = [up EXCEPT ![n] = Tail(@)] /\ Head(up[n]) = "GAMESTART"
      /\ UNCHANGED <<client_state, settings, sent, connects, ack, bye>>
  BY DEF SV_ParseGameStart, clientVars
<1>2. /\ up' \in [Node -> Seq(UpMessage)]
      /\ \A m \in Node : up[m] = <<>> => up'[m] = <<>>
      /\ 1 \in DOMAIN up[n] /\ up[n][1] = "GAMESTART"
      /\ \A m \in Node : \A k \in DOMAIN up'[m] :
              \E l \in DOMAIN up[m] : up'[m][k] = up[m][l]
  BY <1>1, UpRead
<1>3. CASE UNCHANGED <<server_state, clients, sv_players, sv_settings, down>>
  <2>1. LobbyTypes' /\ Slots' /\ NotReady'
    BY <1>1, <1>2, <1>3 DEF LobbyTypes, Slots, NotReady
  <2>2. Young'
    BY <1>1, <1>2, <1>3, YoungKeeps
  <2>. QED
    BY <2>1, <2>2
<1>4. CASE \E i \in SlotsOf(clients, n) :
              /\ server_state = "WAITING_START"
              /\ CheckStartGame(Readied(i),
                    IF i \in Controller(clients)
                    THEN [NoSettings EXCEPT !.from = n] ELSE sv_settings)
  <2>1. PICK i \in Slot :
           /\ clients[i].addr = n /\ server_state = "WAITING_START"
           /\ CheckStartGame(Readied(i), IF i \in Controller(clients)
                THEN [NoSettings EXCEPT !.from = n] ELSE sv_settings)
    BY <1>4 DEF SlotsOf
  <2>2. PICK cl : cl = WithReady(clients, i)
    OBVIOUS
  <2>3. PICK s : s = IF i \in Controller(clients)
                     THEN [NoSettings EXCEPT !.from = n] ELSE sv_settings
    OBVIOUS
  <2>4. CheckStartGame(cl, s)
    BY <2>1, <2>2, <2>3 DEF CheckStartGame, Readied, WithReady
  <2>5. s \in Settings
    <3>1. Cardinality(Node) \in Nat
      BY LobbyAssumption, FS_CardinalityType
    <3>2. [NoSettings EXCEPT !.from = n] \in Settings
      BY <3>1 DEF NoSettings, Settings
    <3>. QED
      BY <2>3, <3>2 DEF LobbyTypes
  <2>6. /\ Consistent(cl)
        /\ \A j \in Slot \ {i} : cl[j] = clients[j]
        /\ cl[i].conn = clients[i].conn /\ cl[i].addr = clients[i].addr
        /\ cl[i].drone = clients[i].drone
    BY <2>2, ReadyIs DEF Slots
  <2>7. clients[i].conn # "WAITING_ACK"
    BY <1>2, <2>1 DEF Young
  <2>8. Undroned(cl, sv_players)
    BY <2>6 DEF Slots, LobbyTypes, Undroned
  <2>9. /\ \A j \in Slot : cl[j].conn = "WAITING_ACK" =>
             /\ clients[j].conn = "WAITING_ACK" /\ cl[j].addr = clients[j].addr
             /\ cl[j].ready = clients[j].ready
        /\ \A j \in Slot : clients[j].conn = "WAITING_ACK" => cl[j].conn # "CONNECTED"
        /\ \A j \in Slot : cl[j].addr \in {None, clients[j].addr}
    BY <2>6, <2>7
  <2>10. bye' \subseteq Leavers /\ ack' \subseteq Node
    BY <1>1 DEF LobbyTypes
  <2>. QED
    BY <1>1, <1>2, <2>1, <2>4, <2>5, <2>6, <2>8, <2>9, <2>10, StartKeeps
<1>. QED
  BY <1>3, <1>4 DEF SV_ParseGameStart

\* Waiting data renumbers the clients and nothing else.
LEMMA PlayersIs ==
  ASSUME NEW cl, NEW is, NEW late, NEW pl \in [PlayerNum -> Slot \cup {NoSlot}],
         Undroned(cl, pl)
  PROVE  /\ Players(cl, is, late, pl) \in [PlayerNum -> Slot \cup {NoSlot}]
         /\ Undroned(cl, Players(cl, is, late, pl))
  BY AssignedUndroned DEF Players

\* A run of the server outside a startup leaves an array alike cl.
LEMMA QuietKeeps ==
  ASSUME LobbyInv, NEW cl, Consistent(cl), Alike(clients', cl),
         clients' \in [Slot -> ClientRecord],
         sv_players' \in [PlayerNum -> Slot \cup {NoSlot}], Undroned(cl, sv_players'),
         \A i \in Slot : cl[i].conn \in {"WAITING_ACK", "CONNECTED"} =>
           /\ cl[i].conn = clients[i].conn /\ cl[i].addr = clients[i].addr
           /\ cl[i].ready = clients[i].ready,
         server_state' = server_state \/ \A i \in Slot : cl[i].conn # "CONNECTED",
         server_state' \in {"WAITING_LAUNCH", server_state},
         UNCHANGED <<sv_settings, client_state, settings, sent, connects, up, down>>,
         bye' \subseteq Leavers, ack' \subseteq Node
  PROVE  LobbyInv'
<1>. USE DEF LobbyInv
<1>1. LobbyTypes'
  BY DEF LobbyTypes
<1>2. Consistent(clients')
  BY AlikeConsistent
<1>3. Undroned(clients', sv_players')
  BY DEF Alike, Same, Undroned
<1>4. Slots'
  BY <1>2, <1>3 DEF Slots
<1>5. Young'
  <2>1. \A i \in Slot : clients'[i].conn = "WAITING_ACK" =>
           /\ clients[i].conn = "WAITING_ACK" /\ clients'[i].addr = clients[i].addr
           /\ clients'[i].ready = clients[i].ready
    BY DEF Alike, Same
  <2>. QED
    BY <2>1, YoungKeeps
<1>6. NotReady'
  <2>1. ASSUME server_state' = "WAITING_LAUNCH", NEW i \in Slot,
               clients'[i].conn = "CONNECTED"
        PROVE  ~clients'[i].ready
    <3>1. cl[i].conn = "CONNECTED" /\ clients'[i].ready = cl[i].ready
      BY <2>1 DEF Alike, Same
    <3>2. clients[i].conn = "CONNECTED" /\ cl[i].ready = clients[i].ready
      BY <3>1
    <3>3. server_state = "WAITING_LAUNCH"
      BY <2>1, <3>1
    <3>. QED
      BY <3>1, <3>2, <3>3 DEF NotReady, Connected, ClientConnected
  <2>. QED
    BY <2>1 DEF NotReady, Connected, ClientConnected
<1>. QED
  BY <1>1, <1>4, <1>5, <1>6

LEMMA RunStep ==
  ASSUME LobbyInv, NEW late \in BOOLEAN, Run(late)
  PROVE  LobbyInv'
<1>. USE DEF LobbyInv
<1>1. UNCHANGED <<client_state, settings, sent, connects, up, ack, bye>>
  BY DEF Run, clientVars
<1>2. PICK cl : cl = clients
  OBVIOUS
<1>3. /\ Consistent(cl) /\ cl \in [Slot -> ClientRecord] /\ Undroned(cl, sv_players)
      /\ sv_players \in [PlayerNum -> Slot \cup {NoSlot}]
      /\ bye' \subseteq Leavers /\ ack' \subseteq Node
  BY <1>1, <1>2 DEF Slots, Consistent, LobbyTypes
<1>4. CASE server_state = "WAITING_START"
  <2>1. PICK s : s = sv_settings
    OBVIOUS
  <2>2. CheckStartGame(cl, s) /\ s \in Settings
    BY <1>2, <1>4, <2>1 DEF Run, CheckStartGame, LobbyTypes
  <2>3. /\ up' \in [Node -> Seq(UpMessage)]
        /\ \A m \in Node : up[m] = <<>> => up'[m] = <<>>
        /\ \A m \in Node : \A k \in DOMAIN up'[m] :
              \E l \in DOMAIN up[m] : up'[m][k] = up[m][l]
    BY <1>1 DEF LobbyTypes
  <2>. QED
    BY <1>1, <1>2, <1>3, <1>4, <2>2, <2>3, StartKeeps
<1>5. CASE server_state # "WAITING_START"
  <2>1. /\ clients' = Waiting(cl, Slot, late)
        /\ sv_players' = Players(cl, Slot, late, sv_players)
        /\ UNCHANGED <<server_state, sv_settings, down>>
    BY <1>2, <1>5 DEF Run, Waiting, Players, Renumbers
  <2>2. Alike(clients', cl) /\ clients' \in [Slot -> ClientRecord]
    BY <1>3, <2>1, WaitingAlike
  <2>3. /\ sv_players' \in [PlayerNum -> Slot \cup {NoSlot}] /\ Undroned(cl, sv_players')
    BY <1>3, <2>1, PlayersIs
  <2>. QED
    BY <1>1, <1>2, <1>3, <2>1, <2>2, <2>3, QuietKeeps
<1>. QED
  BY <1>4, <1>5

\* NET_SV_GameEnded leaves nobody connected.
LEMMA GameEndedIs ==
  ASSUME NEW cl, Consistent(cl)
  PROVE  /\ Consistent(GameEnded(cl))
         /\ \A i \in Slot : /\ GameEnded(cl)[i].conn \notin {"CONNECTED", "WAITING_ACK"}
                            /\ GameEnded(cl)[i].drone = cl[i].drone
                            /\ GameEnded(cl)[i].addr = cl[i].addr
                            /\ GameEnded(cl)[i].player_number = cl[i].player_number
<1>. DEFINE G(r) == IF r.conn \in {"WAITING_ACK", "CONNECTED"}
                    THEN [r EXCEPT !.conn = "DISCONNECTING"] ELSE r
<1>1. GameEnded(cl) = [i \in Slot |-> G(cl[i])]
  BY DEF GameEnded
<1>2. ASSUME NEW r \in ClientRecord
      PROVE  /\ G(r) \in ClientRecord /\ G(r).addr = r.addr /\ G(r).drone = r.drone
             /\ G(r).player_number = r.player_number
             /\ G(r).conn \notin {"CONNECTED", "WAITING_ACK"}
             /\ G(r).conn = None <=> r.conn = None
  BY DEF ClientRecord, ConnState, None
<1>3. cl \in [Slot -> ClientRecord]
  BY DEF Consistent
<1>. HIDE DEF G
<1>4. \A i \in Slot : /\ GameEnded(cl)[i] \in ClientRecord
                      /\ GameEnded(cl)[i].addr = cl[i].addr
                      /\ GameEnded(cl)[i].drone = cl[i].drone
                      /\ GameEnded(cl)[i].player_number = cl[i].player_number
                      /\ GameEnded(cl)[i].conn \notin {"CONNECTED", "WAITING_ACK"}
                      /\ GameEnded(cl)[i].conn = None <=> cl[i].conn = None
  BY <1>1, <1>2, <1>3
<1>5. GameEnded(cl) \in [Slot -> ClientRecord]
  BY <1>1, <1>4
<1>6. Consistent(GameEnded(cl))
  BY <1>4, <1>5 DEF Consistent
<1>. QED
  BY <1>4, <1>6

LEMMA FreedAlike ==
  ASSUME NEW cl, NEW dl, Consistent(cl), Consistent(dl), Alike(cl, dl), NEW i \in Slot
  PROVE  Alike(Freed(cl, i), Freed(dl, i))
<1>1. \A j \in Slot \ {i} : Freed(cl, i)[j] = cl[j] /\ Freed(dl, i)[j] = dl[j]
  BY FreedIs
<1>2. \A j \in Slot \ {i} : Same(Freed(cl, i)[j], Freed(dl, i)[j])
  BY <1>1 DEF Alike
<1>3. Same(Freed(cl, i)[i], Freed(dl, i)[i])
  <2>1. /\ Freed(cl, i)[i].addr = None /\ Freed(cl, i)[i].conn = None
        /\ Freed(cl, i)[i].drone = FALSE /\ Freed(cl, i)[i].connect_time = 0
        /\ Freed(cl, i)[i].ready = FALSE
    BY FreedIs
  <2>2. /\ Freed(dl, i)[i].addr = None /\ Freed(dl, i)[i].conn = None
        /\ Freed(dl, i)[i].drone = FALSE /\ Freed(dl, i)[i].connect_time = 0
        /\ Freed(dl, i)[i].ready = FALSE
    BY FreedIs
  <2>. QED
    BY <2>1, <2>2 DEF Same
<1>. QED
  BY <1>2, <1>3 DEF Alike

\* What NET_SV_Run does when the connection of slot e ends: cl are the clients
\* and pl the players when e is free.
ExpiredTo(e, cl, pl) ==
    /\ Consistent(cl) /\ Alike(cl, Freed(clients, e))
    /\ pl \in [PlayerNum -> Slot \cup {NoSlot}] /\ Undroned(cl, pl)
    /\ \A i \in Slot : cl[i].player_number \in
         {clients[i].player_number, Numbered(clients)[i].player_number}
    /\ server_state # "WAITING_LAUNCH" => pl = sv_players /\ cl = Freed(clients, e)

Expired(e, cl, pl) ==
    \/ /\ EndsGame(cl, pl, e)
       /\ clients' = GameEnded(cl) /\ sv_players' = pl
       /\ server_state' = "WAITING_LAUNCH" /\ sv_game' = None
       /\ UNCHANGED <<sv_settings, down>>
    \/ /\ ~EndsGame(cl, pl, e) /\ sv_game' = sv_game
       /\ server_state = "WAITING_START" /\ CheckStartGame(cl, sv_settings)
    \/ /\ ~EndsGame(cl, pl, e) /\ sv_game' = sv_game
       /\ server_state # "WAITING_START"
       /\ clients' \in [Slot -> ClientRecord] /\ Alike(clients', cl)
       /\ \A i \in Slot : clients'[i].player_number \in
            {cl[i].player_number, Numbered(cl)[i].player_number}
       /\ sv_players' \in [PlayerNum -> Slot \cup {NoSlot}] /\ Undroned(cl, sv_players')
       /\ server_state # "WAITING_LAUNCH" => clients' = cl /\ sv_players' = pl
       /\ UNCHANGED <<server_state, sv_settings, down>>

LEMMA RunExpiredIs ==
  ASSUME LobbyInv, NEW e \in Slot, NEW late \in BOOLEAN, RunExpired(e, late)
  PROVE  /\ clients[e].conn # None /\ clients[e].addr # None
         /\ UNCHANGED <<client_state, settings, sent, connects, up>>
         /\ ack' \subseteq ack /\ bye' \subseteq bye
         /\ \E cl, pl : ExpiredTo(e, cl, pl) /\ Expired(e, cl, pl)
<1>1. clients[e].conn # None /\ clients[e].addr # None
  BY DEF RunExpired, MayExpire, LobbyInv, Slots, Consistent, None
<1>2. /\ UNCHANGED <<client_state, settings, sent, connects, up>>
      /\ ack' \subseteq ack /\ bye' \subseteq bye
  BY DEF RunExpired, clientVars
<1>3. PICK before : before = {i \in Slot : i < e}
  OBVIOUS
<1>4. PICK cl1 : cl1 = Waiting(clients, before, late)
  OBVIOUS
<1>5. PICK pl1 : pl1 = Players(clients, before, late, sv_players)
  OBVIOUS
<1>6. PICK cl2 : cl2 = Freed(cl1, e)
  OBVIOUS
<1>7. /\ Consistent(clients) /\ clients \in [Slot -> ClientRecord]
      /\ sv_players \in [PlayerNum -> Slot \cup {NoSlot}] /\ Undroned(clients, sv_players)
  BY DEF LobbyInv, LobbyTypes, Slots, Consistent
<1>8. /\ cl1 \in [Slot -> ClientRecord] /\ Alike(cl1, clients)
      /\ \A i \in Slot : cl1[i].player_number \in
           {clients[i].player_number, Numbered(clients)[i].player_number}
      /\ server_state # "WAITING_LAUNCH" => cl1 = clients
  BY <1>4, <1>7, WaitingAlike
<1>9. Consistent(cl1)
  BY <1>7, <1>8, AlikeConsistent
<1>10. Consistent(cl2) /\ Alike(cl2, Freed(clients, e))
  BY <1>6, <1>7, <1>8, <1>9, FreedIs, FreedAlike
<1>11. \A i \in Slot : cl2[i].player_number = cl1[i].player_number
  <2>1. /\ \A i \in Slot \ {e} : Freed(cl1, e)[i] = cl1[i]
        /\ Freed(cl1, e)[e].player_number = cl1[e].player_number
    BY <1>9, FreedIs
  <2>. QED
    BY <1>6, <2>1
<1>12. pl1 \in [PlayerNum -> Slot \cup {NoSlot}] /\ Undroned(clients, pl1)
  BY <1>5, <1>7, PlayersIs
<1>13. Undroned(cl2, pl1)
  <2>1. Undroned(cl1, pl1)
    BY <1>8, <1>12, AlikeUndroned
  <2>2. cl2[e].drone = FALSE /\ \A i \in Slot \ {e} : cl2[i] = cl1[i]
    BY <1>6, <1>9, FreedIs
  <2>. QED
    BY <1>12, <2>1, <2>2 DEF Undroned
<1>14. server_state # "WAITING_LAUNCH" => pl1 = sv_players /\ cl2 = Freed(clients, e)
  BY <1>5, <1>6, <1>8 DEF Players, Renumbers
<1>15. ExpiredTo(e, cl2, pl1)
  BY <1>8, <1>10, <1>11, <1>12, <1>13, <1>14 DEF ExpiredTo
<1>16. PICK cl3 : cl3 = Waiting(cl2, Slot \ before, late)
  OBVIOUS
<1>17. /\ cl3 \in [Slot -> ClientRecord] /\ Alike(cl3, cl2)
       /\ \A i \in Slot : cl3[i].player_number \in
            {cl2[i].player_number, Numbered(cl2)[i].player_number}
       /\ server_state # "WAITING_LAUNCH" => cl3 = cl2
  <2>1. cl2 \in [Slot -> ClientRecord]
    BY <1>10 DEF Consistent
  <2>. QED
    BY <1>16, <2>1, WaitingAlike
<1>18. PICK pl3 : pl3 = Players(cl2, Slot \ before, late, pl1)
  OBVIOUS
<1>19. pl3 \in [PlayerNum -> Slot \cup {NoSlot}] /\ Undroned(cl2, pl3)
  BY <1>12, <1>13, <1>18, PlayersIs
<1>20. server_state # "WAITING_LAUNCH" => pl3 = pl1
  BY <1>18 DEF Players, Renumbers
<1>21. IF EndsGame(cl2, pl1, e)
       THEN /\ clients' = GameEnded(cl2) /\ sv_players' = pl1
            /\ server_state' = "WAITING_LAUNCH" /\ sv_game' = None
            /\ UNCHANGED <<sv_settings, down>>
       ELSE /\ UNCHANGED sv_game
            /\ IF server_state = "WAITING_START"
               THEN CheckStartGame(cl2, sv_settings)
               ELSE /\ clients' = cl3 /\ sv_players' = pl3
                    /\ UNCHANGED <<server_state, sv_settings, down>>
  BY <1>3, <1>4, <1>5, <1>6, <1>16, <1>18
     DEF RunExpired, CheckStartGame, EndsGame
<1>22. Expired(e, cl2, pl1)
  BY <1>17, <1>19, <1>20, <1>21 DEF Expired
<1>. QED
  BY <1>1, <1>2, <1>15, <1>22

LEMMA RunExpiredStep ==
  ASSUME LobbyInv, NEW e \in Slot, NEW late \in BOOLEAN, RunExpired(e, late)
  PROVE  LobbyInv'
<1>1. /\ UNCHANGED <<client_state, settings, sent, connects, up>>
      /\ ack' \subseteq ack /\ bye' \subseteq bye
  BY RunExpiredIs
<1>2. PICK cl, pl : ExpiredTo(e, cl, pl) /\ Expired(e, cl, pl)
  BY RunExpiredIs
<1>3. /\ bye' \subseteq Leavers /\ ack' \subseteq Node
      /\ up' \in [Node -> Seq(UpMessage)]
      /\ \A m \in Node : up[m] = <<>> => up'[m] = <<>>
      /\ \A m \in Node : \A k \in DOMAIN up'[m] :
           \E l \in DOMAIN up[m] : up'[m][k] = up[m][l]
  BY <1>1 DEF LobbyInv, LobbyTypes
<1>4. /\ Consistent(cl) /\ Alike(cl, Freed(clients, e))
      /\ pl \in [PlayerNum -> Slot \cup {NoSlot}] /\ Undroned(cl, pl)
  BY <1>2 DEF ExpiredTo
<1>5. /\ \A i \in Slot \ {e} : Same(cl[i], clients[i])
      /\ cl[e].conn = None /\ cl[e].addr = None
  <2>1. Consistent(clients)
    BY DEF LobbyInv, Slots
  <2>2. /\ \A i \in Slot \ {e} : Freed(clients, e)[i] = clients[i]
        /\ Freed(clients, e)[e].addr = None /\ Freed(clients, e)[e].conn = None
    BY <2>1, FreedIs
  <2>3. \A i \in Slot : Same(cl[i], Freed(clients, e)[i])
    BY <1>4 DEF Alike
  <2>. QED
    BY <2>2, <2>3 DEF Same
<1>6. /\ \A i \in Slot : cl[i].conn \in {"WAITING_ACK", "CONNECTED"} =>
           /\ cl[i].conn = clients[i].conn /\ cl[i].addr = clients[i].addr
           /\ cl[i].ready = clients[i].ready
      /\ \A i \in Slot : cl[i].conn \in {None, clients[i].conn}
      /\ \A i \in Slot : cl[i].addr \in {None, clients[i].addr}
  BY <1>5 DEF Same, None
<1>7. CASE /\ clients' = GameEnded(cl) /\ sv_players' = pl
           /\ server_state' = "WAITING_LAUNCH"
           /\ UNCHANGED <<sv_settings, down>>
  <2>1. PICK dl : dl = GameEnded(cl)
    OBVIOUS
  <2>2. /\ Consistent(dl) /\ Undroned(dl, sv_players')
        /\ \A i \in Slot : dl[i].conn \notin {"CONNECTED", "WAITING_ACK"}
    <3>1. /\ Consistent(dl)
          /\ \A i \in Slot : /\ dl[i].conn \notin {"CONNECTED", "WAITING_ACK"}
                             /\ dl[i].drone = cl[i].drone
      BY <1>4, <2>1, GameEndedIs
    <3>. QED
      BY <1>4, <1>7, <3>1 DEF Undroned
  <2>3. Alike(clients', dl) /\ clients' \in [Slot -> ClientRecord]
    BY <1>7, <2>1, <2>2, AlikeRefl DEF Consistent
  <2>. QED
    BY <1>1, <1>3, <1>4, <1>7, <2>2, <2>3, QuietKeeps
<1>8. CASE server_state = "WAITING_START" /\ CheckStartGame(cl, sv_settings)
  <2>1. PICK s : s = sv_settings
    OBVIOUS
  <2>2. CheckStartGame(cl, s) /\ s \in Settings
    BY <1>8, <2>1 DEF CheckStartGame, LobbyInv, LobbyTypes
  <2>3. pl = sv_players
    BY <1>2, <1>8 DEF ExpiredTo
  <2>4. /\ \A i \in Slot : cl[i].conn = "WAITING_ACK" =>
           /\ clients[i].conn = "WAITING_ACK" /\ cl[i].addr = clients[i].addr
           /\ cl[i].ready = clients[i].ready
        /\ \A i \in Slot : clients[i].conn = "WAITING_ACK" => cl[i].conn # "CONNECTED"
    BY <1>6 DEF None
  <2>. QED
    BY <1>1, <1>3, <1>4, <1>6, <1>8, <2>2, <2>3, <2>4, StartKeeps
<1>9. CASE /\ clients' \in [Slot -> ClientRecord] /\ Alike(clients', cl)
           /\ sv_players' \in [PlayerNum -> Slot \cup {NoSlot}] /\ Undroned(cl, sv_players')
           /\ UNCHANGED <<server_state, sv_settings, down>>
  BY <1>1, <1>3, <1>4, <1>6, <1>9, QuietKeeps
<1>. QED
  BY <1>2, <1>7, <1>8, <1>9 DEF Expired

\* What NET_SV_ParseSYN does once it has the slot i for n: the slot is freed, the
\* others are numbered, and n gets the slot or is rejected.
Seated(n, i) ==
    LET cl == Freed(clients, i)
    IN /\ sv_players' = AssignPlayers(cl)
       /\ sv_game' = IF Fits(cl, n) THEN Adopted(cl, n) ELSE sv_game
       /\ \A j \in Slot \ {i} :
            /\ Same(clients'[j], clients[j])
            /\ clients'[j] = Numbered(cl)[j]
       /\ clients'[i].player_number = clients[i].player_number
       /\ \/ /\ Fits(cl, n) /\ Game[n] = sv_game'
             /\ clients'[i].addr = n /\ clients'[i].conn = "WAITING_ACK"
             /\ clients'[i].drone = (n \in Drones) /\ ~clients'[i].ready
             /\ down' = [down EXCEPT ![n] = <<>>]
             /\ UNCHANGED client_state
          \/ /\ ~(Fits(cl, n) /\ Game[n] = sv_game')
             /\ clients'[i].addr = None /\ clients'[i].conn = None
             /\ clients'[i].drone = FALSE
             /\ client_state' = [client_state EXCEPT ![n] = "OUT"]
             /\ UNCHANGED down

LEMMA ParseSYNIs ==
  ASSUME LobbyTypes, Slots, NEW n \in Node, ParseSYN(n)
  PROVE  /\ client_state[n] = "CONNECTING" /\ ack' \subseteq ack
         /\ UNCHANGED <<server_state, sv_settings, settings, sent, connects, up, bye>>
         /\ \/ /\ server_state # "WAITING_LAUNCH"
               /\ client_state' = [client_state EXCEPT ![n] = "OUT"]
               /\ UNCHANGED <<clients, sv_players, sv_game, down>>
            \/ /\ server_state = "WAITING_LAUNCH"
               /\ clients' \in [Slot -> ClientRecord]
               /\ \E i \in SlotFor(n) : Seated(n, i)
<1>1. /\ client_state[n] = "CONNECTING" /\ ack' \subseteq ack
      /\ UNCHANGED <<server_state, sv_settings, settings, sent, connects, up, bye>>
  BY DEF ParseSYN
<1>2. CASE server_state # "WAITING_LAUNCH"
  BY <1>1, <1>2 DEF ParseSYN, Reject
<1>3. CASE server_state = "WAITING_LAUNCH"
  <2>1. PICK i \in SlotFor(n) :
          LET cl == Freed(clients, i)
          IN /\ sv_players' = AssignPlayers(cl)
             /\ sv_game' = IF Fits(cl, n) THEN Adopted(cl, n) ELSE sv_game
             /\ IF Fits(cl, n) /\ Game[n] = sv_game'
                THEN /\ clients' = [Numbered(cl) EXCEPT ![i] =
                            NewClient(n, cl[i].player_number)]
                     /\ down' = [down EXCEPT ![n] = <<>>]
                     /\ UNCHANGED client_state
                ELSE /\ clients' = Numbered(cl)
                     /\ Reject(n) /\ UNCHANGED down
    BY <1>3 DEF ParseSYN
  <2>2. Consistent(clients) /\ i \in Slot
    BY SlotForIs DEF Slots
  <2>3. PICK cl : cl = Freed(clients, i)
    OBVIOUS
  <2>4. /\ Consistent(cl) /\ \A j \in Slot \ {i} : cl[j] = clients[j]
        /\ cl[i].addr = None /\ cl[i].conn = None
        /\ cl[i].drone = FALSE /\ cl[i].player_number = clients[i].player_number
    BY <2>2, <2>3, FreedIs
  <2>5. PICK nl : nl = Numbered(cl)
    OBVIOUS
  <2>6. nl \in [Slot -> ClientRecord] /\ Alike(nl, cl) /\ nl[i] = cl[i]
    <3>1. cl \in [Slot -> ClientRecord]
      BY <2>4 DEF Consistent
    <3>2. i \notin Connected(cl)
      BY <2>4 DEF Connected, ClientConnected, None
    <3>. QED
      BY <2>2, <2>5, <3>1, <3>2, NumberedAlike
  <2>7. CASE Fits(cl, n) /\ Game[n] = sv_game'
    <3>. DEFINE r == NewClient(n, cl[i].player_number)
    <3>1. cl[i].player_number \in Int /\ connects \in Nat
      BY <2>2, <2>4 DEF Consistent, ClientRecord, LobbyTypes
    <3>2. /\ clients' = [nl EXCEPT ![i] = r] /\ down' = [down EXCEPT ![n] = <<>>]
          /\ UNCHANGED client_state
      BY <2>1, <2>3, <2>5, <2>7
    <3>3. /\ r \in ClientRecord /\ r.addr = n /\ r.conn = "WAITING_ACK"
          /\ r.drone = (n \in Drones) /\ r.ready = FALSE
          /\ r.player_number = cl[i].player_number
      <4>1. ASSUME NEW b \in BOOLEAN
            PROVE  [addr |-> n, conn |-> "WAITING_ACK", drone |-> b, ready |-> FALSE,
                    last_send_time |-> "NEVER", connect_time |-> connects,
                    player_number |-> cl[i].player_number] \in ClientRecord
        BY <3>1 DEF ClientRecord, ConnState
      <4>2. r.addr = n /\ r.conn = "WAITING_ACK" /\ r.ready = FALSE
        BY DEF NewClient
      <4>3. r.drone = (n \in Drones)
        BY DEF NewClient
      <4>4. r.player_number = cl[i].player_number
        BY DEF NewClient
      <4>5. (n \in Drones) \in BOOLEAN
        OBVIOUS
      <4>6. r \in ClientRecord
        BY <4>1, <4>5, Zenon DEF NewClient
      <4>. QED
        BY <4>2, <4>3, <4>4, <4>6
    <3>. HIDE DEF r
    <3>4. /\ clients' \in [Slot -> ClientRecord] /\ clients'[i] = r
          /\ \A j \in Slot \ {i} : clients'[j] = nl[j]
      BY <2>2, <2>6, <3>2, <3>3
    <3>5. \A j \in Slot \ {i} : Same(clients'[j], clients[j]) /\ clients'[j] = Numbered(cl)[j]
      BY <2>4, <2>5, <2>6, <3>4 DEF Alike
    <3>6. Seated(n, i)
      BY <2>1, <2>3, <2>4, <2>7, <3>2, <3>3, <3>4, <3>5 DEF Seated
    <3>. QED
      BY <1>1, <1>3, <3>4, <3>6
  <2>8. CASE ~(Fits(cl, n) /\ Game[n] = sv_game')
    <3>1. /\ clients' = nl /\ UNCHANGED down
          /\ client_state' = [client_state EXCEPT ![n] = "OUT"]
      BY <2>1, <2>3, <2>5, <2>8 DEF Reject
    <3>2. \A j \in Slot \ {i} : Same(clients'[j], clients[j]) /\ clients'[j] = Numbered(cl)[j]
      BY <2>4, <2>5, <2>6, <3>1 DEF Alike
    <3>3. /\ clients'[i].addr = None /\ clients'[i].conn = None /\ clients'[i].drone = FALSE
          /\ clients'[i].player_number = clients[i].player_number
      BY <2>4, <2>6, <3>1
    <3>4. Seated(n, i)
      BY <2>1, <2>3, <2>8, <3>1, <3>2, <3>3 DEF Seated
    <3>. QED
      BY <1>1, <1>3, <2>6, <3>1, <3>4
  <2>. QED
    BY <2>7, <2>8
<1>. QED
  BY <1>2, <1>3

LEMMA ParseSYNStep ==
  ASSUME LobbyInv, NEW n \in Node, ParseSYN(n)
  PROVE  LobbyInv'
<1>. USE DEF LobbyInv
<1>1. /\ client_state[n] = "CONNECTING" /\ ack' \subseteq ack
      /\ UNCHANGED <<server_state, sv_settings, settings, sent, connects, up, bye>>
      /\ \/ /\ server_state # "WAITING_LAUNCH"
            /\ client_state' = [client_state EXCEPT ![n] = "OUT"]
            /\ UNCHANGED <<clients, sv_players, sv_game, down>>
         \/ /\ server_state = "WAITING_LAUNCH"
            /\ clients' \in [Slot -> ClientRecord]
            /\ \E i \in SlotFor(n) : Seated(n, i)
  BY ParseSYNIs
<1>2. CASE /\ client_state' = [client_state EXCEPT ![n] = "OUT"]
           /\ UNCHANGED <<clients, sv_players, down>>
  <2>1. \A m \in Node : client_state'[m] = IF m = n THEN "OUT" ELSE client_state[m]
    BY <1>2 DEF LobbyTypes
  <2>2. LobbyTypes' /\ Slots' /\ NotReady'
    BY <1>1, <1>2 DEF LobbyTypes, Slots, NotReady
  <2>3. Young'
    BY <1>1, <1>2, <2>1, YoungKeeps
  <2>. QED
    BY <2>2, <2>3
<1>3. CASE /\ server_state = "WAITING_LAUNCH"
           /\ clients' \in [Slot -> ClientRecord]
           /\ \E i \in SlotFor(n) : Seated(n, i)
  <2>1. PICK i \in SlotFor(n) : Seated(n, i)
    BY <1>3
  <2>2. /\ i \in Slot /\ \A j \in Slot \ {i} : clients[j].addr # n
        /\ Consistent(clients)
    BY SlotForIs DEF Slots
  <2>3. PICK cl : cl = Freed(clients, i)
    OBVIOUS
  <2>4. /\ sv_players' = AssignPlayers(cl)
        /\ \A j \in Slot \ {i} : Same(clients'[j], clients[j])
        /\ \/ /\ clients'[i].addr = n /\ clients'[i].conn = "WAITING_ACK"
              /\ clients'[i].drone = (n \in Drones) /\ ~clients'[i].ready
              /\ down' = [down EXCEPT ![n] = <<>>] /\ UNCHANGED client_state
           \/ /\ clients'[i].addr = None /\ clients'[i].conn = None
              /\ clients'[i].drone = FALSE /\ UNCHANGED down
              /\ client_state' = [client_state EXCEPT ![n] = "OUT"]
    BY <2>1, <2>3 DEF Seated
  <2>5. n # None /\ None \notin Drones
    BY LobbyAssumption
  <2>6. Consistent(clients')
    <3>1. (clients'[i].addr = None) <=> (clients'[i].conn = None)
      BY <2>4, <2>5 DEF None
    <3>2. clients'[i].drone <=> clients'[i].addr \in Drones
      BY <2>4, <2>5
    <3>3. \A j \in Slot \ {i} : /\ (clients'[j].addr = None) <=> (clients'[j].conn = None)
                                /\ clients'[j].drone <=> clients'[j].addr \in Drones
      BY <2>2, <2>4 DEF Same, Consistent
    <3>4. \A j, k \in Slot : clients'[j].addr = clients'[k].addr /\ j # k =>
            clients'[j].addr = None
      BY <2>2, <2>4 DEF Same, Consistent
    <3>. QED
      BY <1>3, <3>1, <3>2, <3>3, <3>4 DEF Consistent
  <2>7. sv_players' \in [PlayerNum -> Slot \cup {NoSlot}] /\ Undroned(clients', sv_players')
    <3>1. /\ sv_players' \in [PlayerNum -> Slot \cup {NoSlot}]
          /\ \A p \in PlayerNum : sv_players'[p] # NoSlot => sv_players'[p] \in PlayerSlots(cl)
      BY <2>4, AssignedPlayers
    <3>2. PlayerSlots(cl) = PlayerSlots(clients) \ {i}
      BY <2>2, <2>3, FreedViews
    <3>3. \A j \in PlayerSlots(clients) \ {i} : ~clients'[j].drone
      BY <2>4, PlayerSlotsSlots DEF Same, PlayerSlots
    <3>. QED
      BY <3>1, <3>2, <3>3 DEF Undroned
  <2>8. down' \in [Node -> Seq(DownMessage)] /\ down'[n] \in {<<>>, down[n]}
        /\ \A m \in Node \ {n} : down'[m] = down[m]
    <3>1. down' = down \/ down' = [down EXCEPT ![n] = <<>>]
      BY <2>4
    <3>2. down \in [Node -> Seq(DownMessage)] /\ <<>> \in Seq(DownMessage)
      BY DEF LobbyTypes
    <3>. QED
      BY <3>1, <3>2
  <2>9. /\ client_state' \in [Node -> {"OUT", "CONNECTING", "WAITING_LAUNCH",
                                       "WAITING_START", "IN_GAME"}]
        /\ client_state'[n] \in {"OUT", "CONNECTING"}
        /\ \A m \in Node \ {n} : client_state'[m] = client_state[m]
    BY <1>1, <2>4 DEF LobbyTypes
  <2>10. LobbyTypes'
    BY <1>1, <2>7, <2>8, <2>9 DEF LobbyTypes
  <2>11. Slots'
    BY <2>6, <2>7 DEF Slots
  <2>12. Young'
    <3>1. \A m \in Node : client_state'[m] = "CONNECTING" => up'[m] = <<>>
      BY <1>1, <2>9 DEF Young
    <3>2. ASSUME NEW j \in Slot \ {i}, clients'[j].conn = "WAITING_ACK"
          PROVE  /\ ~clients'[j].ready
                 /\ client_state'[clients'[j].addr] \notin {"WAITING_START", "IN_GAME"}
                 /\ down'[clients'[j].addr] = <<>>
                 /\ \A k \in DOMAIN up'[clients'[j].addr] :
                      up'[clients'[j].addr][k] # "GAMESTART"
      <4>1. PICK m \in Node : m = clients[j].addr
        BY <2>4, <3>2, WaitingIsNode DEF Same, None
      <4>2. clients'[j].addr = m /\ m # n /\ clients[j].conn = "WAITING_ACK"
            /\ clients'[j].ready = clients[j].ready
        BY <2>2, <2>4, <3>2, <4>1 DEF Same
      <4>3. /\ ~clients[j].ready /\ client_state[m] \notin {"WAITING_START", "IN_GAME"}
            /\ down[m] = <<>> /\ \A k \in DOMAIN up[m] : up[m][k] # "GAMESTART"
        BY <4>1, <4>2 DEF Young
      <4>4. client_state'[m] = client_state[m] /\ down'[m] = down[m] /\ up'[m] = up[m]
        BY <1>1, <2>8, <2>9, <4>2
      <4>. QED
        BY <4>2, <4>3, <4>4
    <3>3. clients'[i].conn = "WAITING_ACK" =>
            /\ clients'[i].addr = n /\ ~clients'[i].ready
            /\ client_state'[n] \notin {"WAITING_START", "IN_GAME"}
            /\ down'[n] = <<>> /\ \A k \in DOMAIN up'[n] : up'[n][k] # "GAMESTART"
      <4>1. up'[n] = <<>>
        BY <1>1 DEF Young
      <4>2. down \in [Node -> Seq(DownMessage)]
        BY DEF LobbyTypes
      <4>. QED
        BY <2>4, <2>9, <4>1, <4>2 DEF None
    <3>. QED
      BY <3>1, <3>2, <3>3 DEF Young
  <2>13. NotReady'
    <3>1. \A j \in Connected(clients') : j # i /\ j \in Connected(clients)
      BY <2>4 DEF Connected, ClientConnected, Same, None
    <3>2. \A j \in Connected(clients') : clients'[j].ready = clients[j].ready
      BY <2>4, <3>1, PlayerSlotsSlots DEF Same
    <3>. QED
      BY <1>3, <3>1, <3>2 DEF NotReady
  <2>. QED
    BY <2>10, <2>11, <2>12, <2>13
<1>. QED
  BY <1>1, <1>2, <1>3

LEMMA LobbyStep == LobbyInv /\ [Next]_vars => LobbyInv'
<1>. SUFFICES ASSUME LobbyInv, [Next]_vars PROVE LobbyInv'
  OBVIOUS
<1>1. CASE UNCHANGED vars
  <2>1. UNCHANGED <<server_state, clients, sv_players, sv_settings, sv_game, client_state,
                    settings, sent, connects, up, down, ack, bye>>
    BY <1>1 DEF vars, serverVars, clientVars
  <2>. QED
    BY <2>1 DEF LobbyInv, LobbyTypes, Slots, Young, NotReady
<1>2. ASSUME NEW n \in Node,
             Connect(n) \/ ParseSYN(n) \/ CL_ParseACK(n) \/ SV_ParseACK(n)
             \/ CL_LaunchGame(n) \/ SV_ParseLaunch(n) \/ CL_ParseLaunch(n)
             \/ CL_StartGame(n) \/ SV_ParseGameStart(n) \/ CL_ParseGameStart(n)
             \/ Leave(n) \/ Lost(n) \/ SV_ParseDisconnect(n) \/ Disconnected(n)
      PROVE  LobbyInv'
  BY <1>2, ConnectStep, ParseSYNStep, CL_ParseACKStep, SV_ParseACKStep,
     CL_LaunchGameStep, SV_ParseLaunchStep, CL_ParseLaunchStep, CL_StartGameStep,
     SV_ParseGameStartStep, CL_ParseGameStartStep, LeaveStep, LostStep,
     SV_ParseDisconnectStep, DisconnectedStep
<1>3. ASSUME NEW late \in BOOLEAN, Run(late) PROVE LobbyInv'
  BY <1>3, RunStep
<1>4. ASSUME NEW late \in BOOLEAN, NEW e \in Slot, RunExpired(e, late) PROVE LobbyInv'
  BY <1>4, RunExpiredStep
<1>. QED
  BY <1>1, <1>2, <1>3, <1>4 DEF Next

\* The inductive invariant that needs no restriction at all: addresses, slots
\* and roles agree, and a connection that is being made has no past.
THEOREM LobbyInvCorrect == Spec => []LobbyInv
  BY LobbyInit, LobbyStep, PTL DEF Spec

----------------------------------------------------------------------------
(* Startup, when only drones may leave                                     *)

\* The controller depends on the players and their age alone.
LEMMA SameController ==
  ASSUME NEW cl, NEW dl, PlayerSlots(cl) = PlayerSlots(dl),
         \A i \in PlayerSlots(dl) : cl[i].connect_time = dl[i].connect_time
  PROVE  Controller(cl) = Controller(dl)
  BY DEF Controller

LEMMA ControllerPlays ==
  ASSUME NEW cl, NEW i \in Controller(cl)
  PROVE  i \in PlayerSlots(cl) /\ i \in Connected(cl) /\ i \in Slot
  BY PlayerSlotsSlots DEF Controller

LEMMA StartupKeeps ==
  ASSUME LobbyInv, Startup,
         server_state' = "WAITING_START" =>
           /\ server_state = "WAITING_START"
           /\ sv_players' = sv_players /\ sv_settings' = sv_settings
           /\ PlayerSlots(clients') = PlayerSlots(clients)
           /\ \A i \in PlayerSlots(clients) : Same(clients'[i], clients[i])
  PROVE  Startup'
<1>. SUFFICES ASSUME server_state' = "WAITING_START" PROVE Startup'
  BY DEF Startup
<1>1. /\ server_state = "WAITING_START"
      /\ sv_players' = sv_players /\ sv_settings' = sv_settings
      /\ PlayerSlots(clients') = PlayerSlots(clients)
      /\ \A i \in PlayerSlots(clients) : Same(clients'[i], clients[i])
  OBVIOUS
<1>2. Controller(clients') = Controller(clients)
  BY <1>1, SameController DEF Same
<1>3. \A i \in Controller(clients') :
           clients'[i].ready => sv_settings'.from = clients'[i].addr
  BY <1>1, <1>2, ControllerPlays DEF Startup, Same
<1>4. ASSUME NEW p \in PlayerNum, sv_players[p] # NoSlot
      PROVE  ClientConnected(clients', sv_players[p])
  <2>1. sv_players[p] \in Slot /\ ~clients[sv_players[p]].drone
    BY <1>4 DEF LobbyInv, LobbyTypes, Slots, Undroned
  <2>2. ClientConnected(clients, sv_players[p])
    BY <1>1, <1>4 DEF Startup
  <2>3. sv_players[p] \in PlayerSlots(clients)
    BY <2>1, <2>2 DEF PlayerSlots, Connected
  <2>. QED
    BY <1>1, <2>2, <2>3 DEF Same, ClientConnected
<1>. QED
  BY <1>1, <1>2, <1>3, <1>4 DEF Startup

LEMMA StartupInit == Init => Startup
  BY DEF Init, Startup

\* A player whose handshake ends now is not ready, so that it may become the
\* controller.
LEMMA StartupACK ==
  ASSUME LobbyInv, Startup, NEW n \in Node, SV_ParseACK(n)
  PROVE  Startup'
<1>. SUFFICES ASSUME server_state = "WAITING_START" PROVE Startup'
  BY DEF Startup, SV_ParseACK
<1>1. PICK i \in Slot : /\ clients[i].addr = n /\ clients[i].conn = "WAITING_ACK"
                        /\ clients' = WithConn(clients, i, "CONNECTED")
  BY DEF SV_ParseACK, SlotsOf, WithConn
<1>2. /\ UNCHANGED <<server_state, sv_players, sv_settings>>
      /\ clients[i].addr # None /\ "CONNECTED" \in ConnState \ {None}
      /\ Consistent(clients) /\ ~clients[i].ready
  BY <1>1, LobbyAssumption DEF SV_ParseACK, ConnState, None, LobbyInv, Slots, Young
<1>3. /\ \A j \in Slot \ {i} : clients'[j] = clients[j]
      /\ clients'[i].conn = "CONNECTED" /\ clients'[i].drone = clients[i].drone
      /\ clients'[i].ready = clients[i].ready
      /\ clients'[i].connect_time = clients[i].connect_time
  BY <1>1, <1>2, ConnIs
<1>4. i \notin PlayerSlots(clients)
  BY <1>1 DEF PlayerSlots, Connected, ClientConnected
<1>5. PlayerSlots(clients') = PlayerSlots(clients) \cup (IF clients[i].drone THEN {} ELSE {i})
  BY <1>1, <1>3 DEF PlayerSlots, Connected, ClientConnected
<1>6. /\ Controller(clients) # {}
      /\ \A j \in Controller(clients) : clients[j].ready => sv_settings.from = clients[j].addr
      /\ \A p \in PlayerNum : sv_players[p] # NoSlot =>
           ClientConnected(clients, sv_players[p])
  BY DEF Startup
<1>7. \A p \in PlayerNum : sv_players[p] # NoSlot => ClientConnected(clients', sv_players[p])
  BY <1>3, <1>6 DEF ClientConnected, LobbyInv, LobbyTypes
<1>8. \A j \in PlayerSlots(clients) : j \in Slot /\ j # i /\ clients'[j] = clients[j]
  BY <1>3, <1>4, PlayerSlotsSlots
<1>9. ASSUME NEW j \in Controller(clients'), j # i PROVE j \in Controller(clients)
  BY <1>5, <1>8, <1>9 DEF Controller
<1>10. \A j \in Controller(clients') :
            clients'[j].ready => sv_settings.from = clients'[j].addr
  BY <1>2, <1>3, <1>6, <1>8, <1>9, ControllerPlays
<1>11. Controller(clients') # {}
  <2>1. PICK c \in Controller(clients) : TRUE
    BY <1>6
  <2>. DEFINE Older(a, b) == \/ clients[a].connect_time < clients[b].connect_time
                             \/ clients[a].connect_time = clients[b].connect_time /\ a <= b
  <2>2. c \in PlayerSlots(clients) /\ \A j \in PlayerSlots(clients) : Older(c, j)
    BY <2>1 DEF Controller
  <2>3. \A j \in Slot : clients[j].connect_time \in Nat /\ j \in Nat
    BY <1>2, SlotsFinite DEF Consistent, ClientRecord
  <2>4. \A j \in PlayerSlots(clients') : clients'[j].connect_time = clients[j].connect_time
    BY <1>3, <1>5, <1>8
  <2>5. CASE clients[i].drone
    <3>1. c \in Controller(clients')
      BY <1>5, <1>8, <2>2, <2>4, <2>5 DEF Controller
    <3>. QED
      BY <3>1
  <2>6. CASE ~clients[i].drone
    <3>1. PlayerSlots(clients') = PlayerSlots(clients) \cup {i}
      BY <1>5, <2>6
    <3>2. Older(c, i) \/ Older(i, c)
      BY <1>8, <2>2, <2>3
    <3>3. CASE Older(c, i)
      <4>1. \A j \in PlayerSlots(clients') : Older(c, j)
        BY <2>2, <3>1, <3>3
      <4>2. c \in Controller(clients')
        BY <2>2, <2>4, <3>1, <4>1 DEF Controller
      <4>. QED
        BY <4>2
    <3>4. CASE Older(i, c)
      <4>1. \A a, b, d \in Slot : Older(a, b) /\ Older(b, d) => Older(a, d)
        BY <2>3
      <4>2. \A j \in PlayerSlots(clients) : Older(i, j)
        BY <1>8, <2>2, <3>4, <4>1
      <4>3. Older(i, i)
        BY <2>3
      <4>4. \A j \in PlayerSlots(clients') : Older(i, j)
        BY <3>1, <4>2, <4>3
      <4>5. i \in Controller(clients')
        BY <2>4, <3>1, <4>4 DEF Controller
      <4>. QED
        BY <4>5
    <3>. QED
      BY <3>2, <3>3, <3>4
  <2>. QED
    BY <2>5, <2>6
<1>. QED
  BY <1>2, <1>7, <1>10, <1>11 DEF Startup

LEMMA StartupLaunch ==
  ASSUME LobbyInv, Startup, NEW n \in Node, SV_ParseLaunch(n)
  PROVE  Startup'
<1>1. CASE UNCHANGED <<clients, sv_players, down, server_state>>
  BY <1>1 DEF Startup, SV_ParseLaunch
<1>2. CASE /\ server_state = "WAITING_LAUNCH"
           /\ \E i \in Controller(clients) : clients[i].addr = n
           /\ clients' = Numbered(clients) /\ sv_players' = AssignPlayers(clients)
  <2>1. clients \in [Slot -> ClientRecord]
    BY DEF LobbyInv, Slots, Consistent
  <2>2. Alike(clients', clients)
    BY <1>2, <2>1, NumberedAlike
  <2>3. Controller(clients') = Controller(clients) /\ Controller(clients') # {}
    BY <1>2, <2>2, AlikeViews
  <2>4. \A i \in Controller(clients') : ~clients'[i].ready
    <3>1. \A i \in Controller(clients') : ~clients[i].ready
      BY <1>2, <2>3, ControllerPlays DEF LobbyInv, NotReady
    <3>. QED
      BY <2>2, <3>1, ControllerPlays DEF Alike, Same
  <2>5. ASSUME NEW p \in PlayerNum, sv_players'[p] # NoSlot
        PROVE  ClientConnected(clients', sv_players'[p])
    <3>1. sv_players'[p] \in PlayerSlots(clients)
      BY <1>2, <2>5, AssignedPlayers
    <3>. QED
      BY <2>2, <3>1 DEF PlayerSlots, Connected, ClientConnected, Alike, Same
  <2>. QED
    BY <2>3, <2>4, <2>5 DEF Startup
<1>. QED
  BY <1>1, <1>2 DEF SV_ParseLaunch

\* A call of CheckStartGame in a startup: it is made with all players, none of
\* them new, and with the settings of the controller once that is ready.
StartsFrom(cl, s) ==
    /\ Consistent(cl) /\ s \in Settings /\ CheckStartGame(cl, s)
    /\ PlayerSlots(cl) = PlayerSlots(clients)
    /\ \A i \in PlayerSlots(clients) :
         /\ cl[i].addr = clients[i].addr /\ cl[i].connect_time = clients[i].connect_time
    /\ \/ \E i \in Controller(clients) : s.from = clients[i].addr
       \/ /\ s = sv_settings
          /\ \A i \in Controller(clients) : cl[i].ready = clients[i].ready

LEMMA StartupChecks ==
  ASSUME LobbyInv, Leavers \subseteq Drones, server_state = "WAITING_START",
         \/ \E n \in Node : SV_ParseGameStart(n)
         \/ \E late \in BOOLEAN : Run(late) \/ \E e \in Slot : RunExpired(e, late)
  PROVE  \/ UNCHANGED <<server_state, clients, sv_players, sv_settings>>
         \/ server_state' = "WAITING_LAUNCH"
         \/ \E cl, s : StartsFrom(cl, s)
<1>0. Consistent(clients) /\ sv_settings \in Settings
  BY DEF LobbyInv, LobbyTypes, Slots
<1>1. ASSUME NEW n \in Node, SV_ParseGameStart(n)
      PROVE  \E cl, s : StartsFrom(cl, s)
  <2>1. PICK i \in Slot :
           /\ clients[i].addr = n
           /\ CheckStartGame(Readied(i), IF i \in Controller(clients)
                THEN [NoSettings EXCEPT !.from = n] ELSE sv_settings)
    BY <1>1 DEF SV_ParseGameStart, SlotsOf
  <2>2. PICK cl : cl = WithReady(clients, i)
    OBVIOUS
  <2>3. PICK s : s = IF i \in Controller(clients)
                     THEN [NoSettings EXCEPT !.from = n] ELSE sv_settings
    OBVIOUS
  <2>4. CheckStartGame(cl, s)
    BY <2>1, <2>2, <2>3 DEF CheckStartGame, Readied, WithReady
  <2>5. [NoSettings EXCEPT !.from = n] \in Settings /\ [NoSettings EXCEPT !.from = n].from = n
    <3>1. Cardinality(Node) \in Nat
      BY LobbyAssumption, FS_CardinalityType
    <3>. QED
      BY <3>1 DEF NoSettings, Settings
  <2>6. /\ Consistent(cl)
        /\ \A j \in Slot \ {i} : cl[j] = clients[j]
        /\ cl[i].conn = clients[i].conn /\ cl[i].addr = clients[i].addr
        /\ cl[i].drone = clients[i].drone /\ cl[i].connect_time = clients[i].connect_time
    <3>1. Consistent(clients) /\ i \in Slot
      BY <1>0, <2>1
    <3>. QED
      BY ONLY <2>2, <3>1, ReadyIs
  <2>7. PlayerSlots(cl) = PlayerSlots(clients)
    BY <2>6 DEF PlayerSlots, Connected, ClientConnected
  <2>8. \A j \in PlayerSlots(clients) :
          cl[j].addr = clients[j].addr /\ cl[j].connect_time = clients[j].connect_time
    BY <2>6, PlayerSlotsSlots
  <2>9. \/ \E j \in Controller(clients) : s.from = clients[j].addr
        \/ /\ s = sv_settings
           /\ \A j \in Controller(clients) : cl[j].ready = clients[j].ready
    <3>1. CASE i \in Controller(clients)
      BY <2>1, <2>3, <2>5, <3>1
    <3>2. CASE i \notin Controller(clients)
      BY <2>3, <2>6, <3>2, ControllerPlays
    <3>. QED
      BY <3>1, <3>2
  <2>10. s \in Settings
    BY <1>0, <2>3, <2>5
  <2>11. StartsFrom(cl, s)
    BY <2>4, <2>6, <2>7, <2>8, <2>9, <2>10 DEF StartsFrom
  <2>. QED
    BY <2>11
<1>2. ASSUME NEW late \in BOOLEAN, Run(late)
      PROVE  \E cl, s : StartsFrom(cl, s)
  <2>1. PICK cl, s : cl = clients /\ s = sv_settings
    OBVIOUS
  <2>2. CheckStartGame(cl, s)
    BY <1>2, <2>1 DEF Run, CheckStartGame
  <2>3. StartsFrom(cl, s)
    BY <1>0, <2>1, <2>2 DEF StartsFrom
  <2>. QED
    BY <2>3
<1>3. ASSUME NEW late \in BOOLEAN, NEW e \in Slot, RunExpired(e, late)
      PROVE  server_state' = "WAITING_LAUNCH" \/ \E cl, s : StartsFrom(cl, s)
  <2>1. PICK cl, pl : ExpiredTo(e, cl, pl) /\ Expired(e, cl, pl)
    BY <1>3, RunExpiredIs
  <2>2. CASE EndsGame(cl, pl, e)
    BY <2>1, <2>2 DEF Expired
  <2>3. CASE ~EndsGame(cl, pl, e)
    <3>1. clients[e].drone /\ cl = Freed(clients, e) /\ Consistent(cl)
      BY <2>1, <2>3 DEF EndsGame, ExpiredTo
    <3>2. PICK s : s = sv_settings
      OBVIOUS
    <3>3. CheckStartGame(cl, s)
      BY <2>1, <2>3, <3>2 DEF Expired, CheckStartGame
    <3>4. PlayerSlots(cl) = PlayerSlots(clients) \ {e}
      BY <1>0, <3>1, FreedViews
    <3>5. e \notin PlayerSlots(clients)
      BY <3>1 DEF PlayerSlots
    <3>6. \A j \in PlayerSlots(clients) : cl[j] = clients[j]
      <4>1. \A j \in Slot \ {e} : Freed(clients, e)[j] = clients[j]
        BY <1>0, FreedIs
      <4>. QED
        BY <3>1, <3>5, <4>1, PlayerSlotsSlots
    <3>7. StartsFrom(cl, s)
      BY <1>0, <3>1, <3>2, <3>3, <3>4, <3>5, <3>6, ControllerPlays DEF StartsFrom
    <3>. QED
      BY <3>7
  <2>. QED
    BY <2>2, <2>3
<1>. QED
  BY <1>1, <1>2, <1>3

LEMMA OneController ==
  ASSUME NEW cl, Consistent(cl), NEW i \in Controller(cl), NEW j \in Controller(cl)
  PROVE  i = j
<1>1. /\ i \in Nat /\ j \in Nat /\ i \in Slot /\ j \in Slot
      /\ i \in PlayerSlots(cl) /\ j \in PlayerSlots(cl)
  BY ControllerPlays, SlotsFinite
<1>2. cl[i].connect_time \in Nat /\ cl[j].connect_time \in Nat
  BY <1>1 DEF Consistent, ClientRecord
<1>. QED
  BY <1>1, <1>2 DEF Controller

\* What the two properties of the start say of a step.
Chosen ==
    server_state = "WAITING_START" /\ server_state' = "IN_GAME" =>
      /\ \E i \in Controller(clients) : clients[i].addr = sv_settings'.from
      /\ \A p \in PlayerNum : sv_players[p] # NoSlot =>
           ClientConnected(clients', sv_players[p])

LEMMA StartedBy ==
  ASSUME LobbyInv, Startup, server_state = "WAITING_START", NEW cl, NEW s, StartsFrom(cl, s)
  PROVE  Startup' /\ Chosen
<1>1. /\ Consistent(cl) /\ s \in Settings /\ CheckStartGame(cl, s)
      /\ PlayerSlots(cl) = PlayerSlots(clients)
      /\ \A i \in PlayerSlots(clients) :
           /\ cl[i].addr = clients[i].addr /\ cl[i].connect_time = clients[i].connect_time
  BY DEF StartsFrom
<1>2. Controller(cl) = Controller(clients)
  BY <1>1, SameController
<1>3. /\ Controller(clients) # {}
      /\ \A i \in Controller(clients) : clients[i].ready => sv_settings.from = clients[i].addr
      /\ \A p \in PlayerNum : sv_players[p] # NoSlot =>
           ClientConnected(clients, sv_players[p])
  BY DEF Startup
<1>4. \A i \in Controller(clients) : cl[i].ready => s.from = clients[i].addr
  <2>1. CASE \E i \in Controller(clients) : s.from = clients[i].addr
    BY <2>1, OneController DEF LobbyInv, Slots
  <2>2. CASE /\ s = sv_settings
             /\ \A i \in Controller(clients) : cl[i].ready = clients[i].ready
    BY <1>3, <2>2
  <2>. QED
    BY <2>1, <2>2 DEF StartsFrom
<1>5. ASSUME NEW p \in PlayerNum, sv_players[p] # NoSlot
      PROVE  sv_players[p] \in Slot /\ ClientConnected(cl, sv_players[p])
  <2>1. sv_players[p] \in PlayerSlots(clients)
    BY <1>3, <1>5 DEF PlayerSlots, Connected, LobbyInv, LobbyTypes, Slots, Undroned
  <2>. QED
    BY <1>1, <2>1 DEF PlayerSlots, Connected
<1>6. LobbyTypes
  BY DEF LobbyInv
<1>7. CASE /\ ~AllNodesReady(cl) /\ clients' = cl /\ sv_settings' = s
           /\ UNCHANGED <<sv_players, server_state, down>>
  <2>1. \A i \in Controller(clients') :
           clients'[i].ready => sv_settings'.from = clients'[i].addr
    BY <1>1, <1>2, <1>4, <1>7, ControllerPlays
  <2>2. Startup'
    BY <1>2, <1>3, <1>5, <1>7, <2>1 DEF Startup
  <2>. QED
    BY <1>7, <2>2 DEF Chosen
<1>8. CASE AllNodesReady(cl) /\ server_state' = "IN_GAME"
  <2>1. Alike(clients', cl) /\ sv_settings'.from = s.from
    BY <1>1, <1>6, StartIs
  <2>2. PICK i \in Controller(clients) : TRUE
    BY <1>3
  <2>3. cl[i].ready
    BY <1>2, <1>8, <2>2, ControllerPlays DEF AllNodesReady
  <2>4. clients[i].addr = sv_settings'.from
    BY <1>4, <2>1, <2>2, <2>3
  <2>5. \A p \in PlayerNum : sv_players[p] # NoSlot => ClientConnected(clients', sv_players[p])
    BY <1>5, <2>1 DEF Alike, Same, ClientConnected
  <2>. QED
    BY <1>8, <2>2, <2>4, <2>5 DEF Startup, Chosen
<1>. QED
  BY <1>1, <1>6, <1>7, <1>8, StartIs

\* With the slot i of a drone, or of nobody connected, nobody leaves the startup.
LEMMA StartupConn ==
  ASSUME LobbyInv, Startup, NEW i \in Slot, clients[i].addr # None,
         clients[i].drone \/ clients[i].conn # "CONNECTED",
         NEW c \in {"SLEEP", "DISCONNECTED"}, clients' = WithConn(clients, i, c),
         UNCHANGED <<server_state, sv_players, sv_settings>>
  PROVE  Startup' /\ Chosen
<1>1. Consistent(clients) /\ c \in ConnState \ {None} /\ c # "CONNECTED"
  BY DEF LobbyInv, Slots, ConnState, None
<1>2. /\ \A j \in Slot \ {i} : clients'[j] = clients[j]
      /\ clients'[i].conn = c
  BY <1>1, ConnIs
<1>3. PlayerSlots(clients') = PlayerSlots(clients)
  BY <1>1, <1>2 DEF PlayerSlots, Connected, ClientConnected
<1>4. i \notin PlayerSlots(clients)
  BY DEF PlayerSlots, Connected, ClientConnected
<1>5. \A j \in PlayerSlots(clients) : Same(clients'[j], clients[j])
  BY <1>2, <1>4, PlayerSlotsSlots DEF Same
<1>6. Startup'
  BY <1>3, <1>5, StartupKeeps
<1>. QED
  BY <1>6 DEF Chosen

LEMMA StartupStep ==
  Leavers \subseteq Drones /\ LobbyInv /\ Startup /\ [Next]_vars => Startup' /\ Chosen
<1>. SUFFICES ASSUME Leavers \subseteq Drones, LobbyInv, Startup, [Next]_vars
              PROVE  Startup' /\ Chosen
  OBVIOUS
<1>1. CASE UNCHANGED <<server_state, clients, sv_players, sv_settings>>
  BY <1>1 DEF Startup, Chosen
<1>2. ASSUME NEW n \in Node, ParseSYN(n) PROVE Startup' /\ Chosen
  <2>1. \/ UNCHANGED <<server_state, clients, sv_players, sv_settings>>
        \/ server_state = "WAITING_LAUNCH" /\ server_state' = server_state
    BY <1>2 DEF ParseSYN
  <2>. QED
    BY <1>1, <2>1 DEF Startup, Chosen
<1>3. ASSUME NEW n \in Node, SV_ParseACK(n) PROVE Startup' /\ Chosen
  BY <1>3, StartupACK DEF Chosen, SV_ParseACK
<1>4. ASSUME NEW n \in Node, SV_ParseLaunch(n) PROVE Startup' /\ Chosen
  BY <1>4, StartupLaunch DEF Chosen, SV_ParseLaunch
<1>5. ASSUME NEW n \in Node, SV_ParseDisconnect(n) PROVE Startup' /\ Chosen
  <2>1. CASE SlotsOf(clients, n) = {}
    BY <1>1, <1>5, <2>1 DEF SV_ParseDisconnect
  <2>2. CASE SlotsOf(clients, n) # {}
    <3>1. PICK i \in SlotsOf(clients, n) : clients' = WithConn(clients, i, "SLEEP")
      BY <1>5, <2>2 DEF SV_ParseDisconnect, WithConn
    <3>2. i \in Slot /\ clients[i].addr = n /\ n \in Drones /\ n # None
      BY <1>5, <3>1, LobbyAssumption DEF SlotsOf, SV_ParseDisconnect, LobbyInv, LobbyTypes
    <3>3. clients[i].drone
      BY <3>2 DEF LobbyInv, Slots, Consistent
    <3>4. UNCHANGED <<server_state, sv_players, sv_settings>>
      BY <1>5 DEF SV_ParseDisconnect
    <3>. QED
      BY <3>1, <3>2, <3>3, <3>4, StartupConn
  <2>. QED
    BY <2>1, <2>2
<1>6. ASSUME NEW n \in Node, Disconnected(n) PROVE Startup' /\ Chosen
  <2>1. PICK i \in Slot : /\ clients[i].addr = n /\ clients[i].conn = "DISCONNECTING"
                          /\ clients' = WithConn(clients, i, "DISCONNECTED")
    BY <1>6 DEF Disconnected, SlotsOf, WithConn
  <2>2. UNCHANGED <<server_state, sv_players, sv_settings>> /\ n # None
    BY <1>6, LobbyAssumption DEF Disconnected
  <2>. QED
    BY <2>1, <2>2, StartupConn
<1>7. ASSUME \/ \E n \in Node : SV_ParseGameStart(n)
             \/ \E late \in BOOLEAN : Run(late) \/ \E e \in Slot : RunExpired(e, late)
      PROVE  Startup' /\ Chosen
  <2>1. CASE server_state = "WAITING_START"
    BY <1>1, <1>7, <2>1, StartupChecks, StartedBy DEF Startup, Chosen
  <2>2. CASE server_state # "WAITING_START"
    <3>1. server_state' \in {server_state, "WAITING_LAUNCH"}
      <4>1. ASSUME NEW n \in Node, SV_ParseGameStart(n) PROVE server_state' = server_state
        BY <2>2, <4>1 DEF SV_ParseGameStart
      <4>2. ASSUME NEW late \in BOOLEAN, Run(late) PROVE server_state' = server_state
        BY <2>2, <4>2 DEF Run
      <4>3. ASSUME NEW late \in BOOLEAN, NEW e \in Slot, RunExpired(e, late)
            PROVE  server_state' \in {server_state, "WAITING_LAUNCH"}
        BY <2>2, <4>3 DEF RunExpired
      <4>. QED
        BY <1>7, <4>1, <4>2, <4>3
    <3>. QED
      BY <2>2, <3>1 DEF Startup, Chosen
  <2>. QED
    BY <2>1, <2>2
<1>8. ASSUME NEW n \in Node,
             Connect(n) \/ CL_ParseACK(n) \/ CL_LaunchGame(n) \/ CL_ParseLaunch(n)
             \/ CL_StartGame(n) \/ CL_ParseGameStart(n) \/ Leave(n) \/ Lost(n)
      PROVE  UNCHANGED <<server_state, clients, sv_players, sv_settings>>
  BY <1>8 DEF Connect, CL_ParseACK, CL_LaunchGame, CL_ParseLaunch, CL_StartGame,
     CL_ParseGameStart, Leave, Lost, serverVars
<1>9. CASE UNCHANGED vars
  BY <1>1, <1>9 DEF vars, serverVars
<1>. QED
  BY <1>1, <1>2, <1>3, <1>4, <1>5, <1>6, <1>7, <1>8, <1>9 DEF Next

\* As long as only drones leave, a game starts with the settings of its controller.
THEOREM ControllerChoseCorrect == ASSUME Leavers \subseteq Drones PROVE Spec => ControllerChose
<1>1. LobbyInv /\ Startup /\ [Next]_vars =>
        [server_state = "WAITING_START" /\ server_state' = "IN_GAME" =>
           \E i \in Controller(clients) : clients[i].addr = sv_settings'.from]_vars
  BY StartupStep DEF Chosen
<1>. QED
  BY <1>1, LobbyInit, LobbyStep, StartupInit, StartupStep, PTL DEF Spec, ControllerChose

\* ... and with every player the server has numbered.
THEOREM StartsWithAllCorrect == ASSUME Leavers \subseteq Drones PROVE Spec => StartsWithAll
<1>1. LobbyInv /\ Startup /\ [Next]_vars =>
        [server_state = "WAITING_START" /\ server_state' = "IN_GAME" =>
           \A p \in PlayerNum : sv_players[p] # NoSlot =>
             ClientConnected(clients', sv_players[p])]_vars
  BY StartupStep DEF Chosen
<1>. QED
  BY <1>1, LobbyInit, LobbyStep, StartupInit, StartupStep, PTL DEF Spec, StartsWithAll

----------------------------------------------------------------------------
(* Room and numbers, when neither handshakes nor launches overlap          *)

LEMMA SeatsAreSlots ==
  ASSUME NEW cl
  PROVE  PlayerSeats(cl) \subseteq Slot /\ PlayerSlots(cl) \subseteq PlayerSeats(cl)
  BY DEF PlayerSeats, Seats, PlayerSlots, Connected, ClientConnected

LEMMA FewerSeats ==
  ASSUME NEW S \in SUBSET Slot, Cardinality(S) <= NET_MAXPLAYERS, NEW T \in SUBSET S
  PROVE  Cardinality(T) <= NET_MAXPLAYERS
<1>1. IsFiniteSet(S) /\ Cardinality(S) \in Nat /\ Cardinality(T) \in Nat
  BY SlotsFinite
<1>2. Cardinality(T) <= Cardinality(S)
  BY <1>1, FS_Subset
<1>. QED
  BY <1>1, <1>2, LobbyAssumption

\* The players' numbers fit sv_players as long as there are no more than fit.
LEMMA NumberedFits ==
  ASSUME NEW cl \in [Slot -> ClientRecord], Cardinality(PlayerSlots(cl)) <= NET_MAXPLAYERS
  PROVE  /\ \A i \in PlayerSlots(cl) : /\ Number(cl, i) \in PlayerNum
                                       /\ Numbered(cl)[i].player_number = Number(cl, i)
         /\ \A i \in Connected(cl) :
              Numbered(cl)[i].player_number \in -1 .. NET_MAXPLAYERS - 1
<1>1. NET_MAXPLAYERS \in Nat
  BY LobbyAssumption
<1>2. ASSUME NEW i \in PlayerSlots(cl) PROVE Number(cl, i) \in PlayerNum
  BY <1>1, NumberRange DEF PlayerNum
<1>3. \A i \in PlayerSlots(cl) : i \in Connected(cl) /\ ~cl[i].drone
  BY DEF PlayerSlots
<1>4. \A i \in Connected(cl) : cl[i].drone \/ i \in PlayerSlots(cl)
  BY DEF PlayerSlots
<1>5. \A i \in Connected(cl) :
         Numbered(cl)[i].player_number = IF cl[i].drone THEN -1 ELSE Number(cl, i)
  BY NumberedAlike
<1>6. \A p \in PlayerNum : p \in -1 .. NET_MAXPLAYERS - 1
  BY <1>1 DEF PlayerNum
<1>7. -1 \in -1 .. NET_MAXPLAYERS - 1
  BY <1>1
<1>. QED
  BY <1>2, <1>3, <1>4, <1>5, <1>6, <1>7

LEMMA RoomKeeps ==
  ASSUME LobbyInv, Room, PlayerSeats(clients') \subseteq PlayerSeats(clients),
         \A i \in Slot : clients'[i].player_number \in -1 .. NET_MAXPLAYERS - 1
  PROVE  Room'
<1>1. Cardinality(PlayerSeats(clients')) <= NET_MAXPLAYERS
  BY FewerSeats, SeatsAreSlots DEF Room
<1>. QED
  BY <1>1 DEF Room

LEMMA RoomFor ==
  ASSUME Room, NEW cl, PlayerSeats(cl) \subseteq PlayerSeats(clients)
  PROVE  Cardinality(PlayerSlots(cl)) <= NET_MAXPLAYERS
<1>1. PlayerSlots(cl) \subseteq PlayerSeats(clients)
  BY SeatsAreSlots
<1>. QED
  BY <1>1, FewerSeats, SeatsAreSlots DEF Room

LEMMA CutKeeps ==
  ASSUME LobbyInv, OneHandshake, NoneCut,
         \A n \in Node : client_state'[n] = "CONNECTING" => client_state[n] = "CONNECTING",
         \A i \in Slot : clients'[i].conn = "WAITING_ACK" =>
           clients[i].conn = "WAITING_ACK" /\ clients'[i].addr = clients[i].addr,
         server_state' # "WAITING_LAUNCH" => server_state # "WAITING_LAUNCH" \/ ~Handshaking,
         \A n \in Node : \A k \in DOMAIN up'[n] : up'[n][k] = "LAUNCH" =>
           \/ ~Handshaking
           \/ \E l \in DOMAIN up[n] : up[n][l] = "LAUNCH"
  PROVE  OneHandshake' /\ NoneCut'
<1>1. Handshaking' => Handshaking
  BY DEF Handshaking
<1>2. OneHandshake'
  BY DEF OneHandshake
<1>3. NoneCut'
  BY <1>1 DEF NoneCut, Handshaking
<1>. QED
  BY <1>2, <1>3

\* Outside a game.
LEMMA IdleKeeps ==
  ASSUME LobbyInv, Numbers, server_state' # "IN_GAME",
         \A i \in Connected(clients') : LET a == clients'[i].addr
           IN /\ \/ /\ server_state # "IN_GAME"
                    /\ i \in Connected(clients) /\ clients[i].addr = a
                 \/ client_state[a] # "IN_GAME" /\ down[a] = <<>>
              /\ client_state'[a] = "IN_GAME" =>
                   \/ client_state[a] = "IN_GAME"
                   \/ \E l \in DOMAIN down[a] : down[a][l].type = "GAMESTART"
              /\ \A k \in DOMAIN down'[a] : down'[a][k].type = "GAMESTART" =>
                   \E l \in DOMAIN down[a] : down'[a][k] = down[a][l]
  PROVE  Numbers'
<1>1. ASSUME NEW i \in Connected(clients')
      PROVE  /\ client_state'[clients'[i].addr] # "IN_GAME"
             /\ \A k \in DOMAIN down'[clients'[i].addr] :
                  down'[clients'[i].addr][k].type # "GAMESTART"
  <2>1. PICK a : a = clients'[i].addr
    OBVIOUS
  <2>2. /\ client_state[a] # "IN_GAME"
        /\ \A l \in DOMAIN down[a] : down[a][l].type # "GAMESTART"
    <3>1. CASE /\ server_state # "IN_GAME"
               /\ i \in Connected(clients) /\ clients[i].addr = a
      BY <3>1 DEF Numbers
    <3>2. CASE client_state[a] # "IN_GAME" /\ down[a] = <<>>
      BY <3>2
    <3>. QED
      BY <2>1, <3>1, <3>2
  <2>. QED
    BY <2>1, <2>2
<1>. QED
  BY <1>1 DEF Numbers

\* In the game.
LEMMA GameKeeps ==
  ASSUME LobbyInv, Numbers, server_state = "IN_GAME",
         UNCHANGED <<server_state, sv_players, sv_settings>>,
         \A i \in Connected(clients') : LET a == clients[i].addr
           IN /\ i \in Connected(clients) /\ clients'[i] = clients[i]
              /\ client_state'[a] = "IN_GAME" =>
                   \/ client_state[a] = "IN_GAME" /\ settings'[a] = settings[a]
                   \/ \E l \in DOMAIN down[a] : /\ down[a][l].type = "GAMESTART"
                                                /\ settings'[a] = down[a][l].settings
              /\ \A k \in DOMAIN down'[a] : \E l \in DOMAIN down[a] : down'[a][k] = down[a][l]
  PROVE  Numbers'
<1>1. ASSUME NEW i \in Connected(clients')
      PROVE  /\ clients'[i].ready
             /\ ~clients'[i].drone => /\ clients'[i].player_number \in PlayerNum
                                      /\ sv_players'[clients'[i].player_number] = i
             /\ \A k \in DOMAIN down'[clients'[i].addr] :
                  down'[clients'[i].addr][k].type = "GAMESTART" =>
                    Agreed(i, down[clients[i].addr][k].settings)'
             /\ client_state'[clients'[i].addr] = "IN_GAME" =>
                  Agreed(i, settings[clients[i].addr])'
  <2>1. i \in Connected(clients) /\ clients'[i] = clients[i]
    OBVIOUS
  <2>2. PICK a : a = clients[i].addr
    OBVIOUS
  <2>3. /\ clients[i].ready
        /\ ~clients[i].drone => /\ clients[i].player_number \in PlayerNum
                                /\ sv_players[clients[i].player_number] = i
        /\ \A k \in DOMAIN down[a] : down[a][k].type = "GAMESTART" =>
             Agreed(i, down[a][k].settings)
        /\ client_state[a] = "IN_GAME" => Agreed(i, settings[a])
    BY <2>1, <2>2 DEF Numbers
  <2>4. \A k \in DOMAIN down'[a] : down'[a][k].type = "GAMESTART" =>
          Agreed(i, down'[a][k].settings)
    BY <2>2, <2>3
  <2>5. client_state'[a] = "IN_GAME" => Agreed(i, settings'[a])
    BY <2>2, <2>3
  <2>. QED
    BY <2>1, <2>2, <2>3, <2>4, <2>5 DEF Agreed
<1>. QED
  BY <1>1 DEF Numbers

\* CheckStartGame keeps the room, and what it hands out are the numbers it takes.
LEMMA StartNumbers ==
  ASSUME LobbyInv, Room, Numbers, server_state = "WAITING_START",
         NEW cl, NEW s \in Settings, Consistent(cl), CheckStartGame(cl, s),
         PlayerSeats(cl) \subseteq PlayerSeats(clients),
         \A i \in Slot : cl[i].player_number = clients[i].player_number,
         \A i \in Connected(cl) : i \in Connected(clients) /\ cl[i].addr = clients[i].addr,
         UNCHANGED <<client_state, settings>>
  PROVE  Room' /\ Numbers'
<1>1. LobbyTypes /\ cl \in [Slot -> ClientRecord]
  BY DEF LobbyInv, Consistent
<1>2. Alike(clients', cl)
  BY <1>1, StartIs
<1>3. Cardinality(PlayerSlots(cl)) <= NET_MAXPLAYERS
  BY RoomFor
<1>4. PlayerSeats(clients') \subseteq PlayerSeats(clients)
  BY <1>2, AlikeViews
<1>5. \A i \in Slot : cl[i].player_number \in -1 .. NET_MAXPLAYERS - 1
  BY DEF Room
<1>6. CASE /\ ~AllNodesReady(cl) /\ clients' = cl /\ sv_settings' = s
           /\ UNCHANGED <<sv_players, server_state, down>>
  <2>1. Room'
    BY <1>4, <1>5, <1>6, RoomKeeps
  <2>2. server_state' # "IN_GAME"
    BY <1>6
  <2>3. Numbers'
    BY <1>6, <2>2, IdleKeeps
  <2>. QED
    BY <2>1, <2>3
<1>7. CASE /\ AllNodesReady(cl) /\ clients' = Numbered(cl)
           /\ sv_players' = AssignPlayers(cl) /\ server_state' = "IN_GAME"
           /\ down' \in [Node -> Seq(DownMessage)]
           /\ \A i \in Connected(cl) :
                /\ cl[i].addr \in Node
                /\ \E m \in DownMessage :
                     /\ m.type = "GAMESTART"
                     /\ m.settings.consoleplayer = clients'[i].player_number
                     /\ m.settings.num_players = sv_settings'.num_players
                     /\ down'[cl[i].addr] = Append(down[cl[i].addr], m)
  <2>1. \A i \in Slot : clients'[i].player_number \in -1 .. NET_MAXPLAYERS - 1
    BY <1>1, <1>3, <1>5, <1>7, NumberedFits, NumberedAlike
  <2>2. Room'
    BY <1>4, <2>1, RoomKeeps
  <2>3. ASSUME NEW i \in Connected(clients')
        PROVE  /\ clients'[i].ready
               /\ ~clients'[i].drone => /\ clients'[i].player_number \in PlayerNum
                                        /\ sv_players'[clients'[i].player_number] = i
               /\ \A k \in DOMAIN down'[clients'[i].addr] :
                    down'[clients'[i].addr][k].type = "GAMESTART" =>
                      Agreed(i, down[clients[i].addr][k].settings)'
               /\ client_state'[clients'[i].addr] = "IN_GAME" =>
                    Agreed(i, settings[clients[i].addr])'
    <3>1. i \in Connected(cl) /\ i \in Slot
      BY <1>2, AlikeViews, PlayerSlotsSlots
    <3>2. PICK a \in Node : a = cl[i].addr
      BY <1>7, <3>1
    <3>3. /\ clients'[i].addr = a /\ clients[i].addr = a /\ i \in Connected(clients)
          /\ clients'[i].ready = cl[i].ready /\ clients'[i].drone = cl[i].drone
      BY <1>2, <3>1, <3>2 DEF Alike, Same
    <3>4. clients'[i].ready
      BY <1>7, <3>1, <3>3 DEF AllNodesReady
    <3>5. ~clients'[i].drone => /\ clients'[i].player_number \in PlayerNum
                                /\ sv_players'[clients'[i].player_number] = i
      <4>1. SUFFICES ASSUME ~cl[i].drone
                     PROVE  /\ clients'[i].player_number \in PlayerNum
                            /\ sv_players'[clients'[i].player_number] = i
        BY <3>3
      <4>2. i \in PlayerSlots(cl)
        BY <3>1, <4>1 DEF PlayerSlots
      <4>3. clients'[i].player_number = Number(cl, i) /\ Number(cl, i) \in PlayerNum
        BY <1>1, <1>3, <1>7, <4>2, NumberedFits
      <4>. QED
        BY <1>7, <4>2, <4>3, AssignedPlayers
    <3>6. /\ client_state[a] # "IN_GAME"
          /\ \A k \in DOMAIN down[a] : down[a][k].type # "GAMESTART"
      BY <3>3 DEF Numbers
    <3>7. PICK m \in DownMessage :
            /\ m.settings.consoleplayer = clients'[i].player_number
            /\ m.settings.num_players = sv_settings'.num_players
            /\ down'[a] = Append(down[a], m)
      BY <1>7, <3>1, <3>2
    <3>8. down[a] \in Seq(DownMessage)
      BY <1>1 DEF LobbyTypes
    <3>9. ASSUME NEW k \in DOMAIN down'[a], down'[a][k].type = "GAMESTART"
          PROVE  down'[a][k] = m
      <4>1. \A e \in DOMAIN Append(down[a], m) :
               \/ e \in DOMAIN down[a] /\ Append(down[a], m)[e] = down[a][e]
               \/ Append(down[a], m)[e] = m
        BY <3>8, AppendElements
      <4>. QED
        BY <3>6, <3>7, <3>9, <4>1
    <3>10. \A k \in DOMAIN down'[a] : down'[a][k].type = "GAMESTART" =>
             /\ down'[a][k].settings.consoleplayer = clients'[i].player_number
             /\ down'[a][k].settings.num_players = sv_settings'.num_players
      BY <3>7, <3>9
    <3>. QED
      BY <3>3, <3>4, <3>5, <3>6, <3>10 DEF Agreed
  <2>4. Numbers'
    BY <1>7, <2>3 DEF Numbers
  <2>. QED
    BY <2>2, <2>4
<1>8. \/ /\ ~AllNodesReady(cl) /\ clients' = cl /\ sv_settings' = s
         /\ UNCHANGED <<sv_players, server_state, down>>
      \/ /\ AllNodesReady(cl) /\ clients' = Numbered(cl)
         /\ sv_players' = AssignPlayers(cl) /\ server_state' = "IN_GAME"
         /\ down' \in [Node -> Seq(DownMessage)]
         /\ \A i \in Connected(cl) :
              /\ cl[i].addr \in Node
              /\ \E m \in DownMessage :
                   /\ m.type = "GAMESTART"
                   /\ m.settings.consoleplayer = clients'[i].player_number
                   /\ m.settings.num_players = sv_settings'.num_players
                   /\ down'[cl[i].addr] = Append(down[cl[i].addr], m)
  BY <1>1, StartIs
<1>. QED
  BY <1>6, <1>7, <1>8

LEMMA OrderlyInit == Init => OrderlyInv
<1>. SUFFICES ASSUME Init PROVE OrderlyInv
  OBVIOUS
<1>1. /\ clients = [i \in Slot |-> Free] /\ server_state = "WAITING_LAUNCH"
      /\ client_state = [n \in Node |-> "OUT"] /\ up = [n \in Node |-> <<>>]
  BY DEF Init
<1>2. \A i \in Slot : clients[i].conn = None /\ clients[i].player_number = 0
  BY <1>1 DEF Free
<1>3. \A i \in Slot : clients[i].conn \notin {"WAITING_ACK", "CONNECTED"}
  BY <1>2 DEF None
<1>4. OneHandshake /\ NoneCut
  BY <1>1, <1>3 DEF OneHandshake, NoneCut
<1>5. Room
  <2>1. PlayerSeats(clients) = {}
    BY <1>3 DEF PlayerSeats, Seats
  <2>2. Cardinality(PlayerSeats(clients)) = 0 /\ NET_MAXPLAYERS \in Nat \ {0}
    BY <2>1, FS_EmptySet, LobbyAssumption
  <2>. QED
    BY <1>2, <2>2 DEF Room
<1>6. Numbers
  BY <1>1, <1>3 DEF Numbers, Connected, ClientConnected
<1>. QED
  BY <1>4, <1>5, <1>6 DEF OrderlyInv

\* Nothing of the server changes and nobody begins a handshake: room and game stay.
LEMMA ServerRests ==
  ASSUME LobbyInv, OrderlyInv, UNCHANGED serverVars,
         \A n \in Node : client_state'[n] = "CONNECTING" => client_state[n] = "CONNECTING",
         \A n \in Node : \A k \in DOMAIN up'[n] : up'[n][k] = "LAUNCH" =>
           \/ ~Handshaking
           \/ \E l \in DOMAIN up[n] : up[n][l] = "LAUNCH",
         \A n \in Node : \A k \in DOMAIN down'[n] :
           \E l \in DOMAIN down[n] : down'[n][k] = down[n][l],
         \A n \in Node : client_state'[n] = "IN_GAME" =>
           \/ client_state[n] = "IN_GAME" /\ settings'[n] = settings[n]
           \/ \E l \in DOMAIN down[n] : /\ down[n][l].type = "GAMESTART"
                                        /\ settings'[n] = down[n][l].settings
  PROVE  OrderlyInv'
<1>1. /\ UNCHANGED <<server_state, clients, sv_players, sv_settings>>
      /\ OneHandshake /\ NoneCut /\ Room /\ Numbers
  BY DEF serverVars, OrderlyInv
<1>2. OneHandshake' /\ NoneCut'
  BY <1>1, CutKeeps
<1>3. Room'
  BY <1>1 DEF Room
<1>4. \A i \in Connected(clients) : clients[i].addr \in Node
  <2>1. \A i \in Connected(clients) : i \in Slot /\ clients[i].conn # None
    BY DEF Connected, ClientConnected, None
  <2>. QED
    BY <2>1, WaitingIsNode DEF LobbyInv
<1>5. Numbers'
  <2>1. CASE server_state = "IN_GAME"
    <3>1. ASSUME NEW i \in Connected(clients')
          PROVE  /\ i \in Connected(clients) /\ clients'[i] = clients[i]
                 /\ clients[i].addr \in Node
      BY <1>1, <1>4
    <3>. QED
      BY <1>1, <2>1, <3>1, GameKeeps
  <2>2. CASE server_state # "IN_GAME"
    <3>1. ASSUME NEW i \in Connected(clients')
          PROVE  /\ i \in Connected(clients) /\ clients'[i] = clients[i]
                 /\ clients[i].addr \in Node
      BY <1>1, <1>4
    <3>2. server_state' # "IN_GAME"
      BY <1>1, <2>2
    <3>. QED
      BY <1>1, <2>2, <3>1, <3>2, IdleKeeps
  <2>. QED
    BY <2>1, <2>2
<1>. QED
  BY <1>2, <1>3, <1>5 DEF OrderlyInv

LEMMA OrderlyClients ==
  ASSUME Orderly = TRUE, LobbyInv, OrderlyInv, NEW n \in Node,
         \/ CL_ParseACK(n) \/ CL_LaunchGame(n) \/ CL_ParseLaunch(n) \/ CL_StartGame(n)
         \/ CL_ParseGameStart(n) \/ Leave(n) \/ Lost(n)
  PROVE  OrderlyInv'
<1>. USE DEF LobbyInv
<1>0. /\ LobbyTypes /\ client_state \in [Node -> {"OUT", "CONNECTING", "WAITING_LAUNCH",
                                                  "WAITING_START", "IN_GAME"}]
      /\ up \in [Node -> Seq(UpMessage)] /\ down \in [Node -> Seq(DownMessage)]
      /\ settings \in [Node -> Settings]
  BY DEF LobbyTypes
<1>1. CASE CL_ParseACK(n)
  <2>1. /\ client_state' = [client_state EXCEPT ![n] = "WAITING_LAUNCH"]
        /\ UNCHANGED <<serverVars, settings, up, down>>
    BY <1>1 DEF CL_ParseACK
  <2>. QED
    BY <1>0, <2>1, ServerRests
<1>2. CASE CL_LaunchGame(n)
  <2>1. UNCHANGED <<serverVars, client_state, settings, down>> /\ ~Handshaking
    BY <1>2 DEF CL_LaunchGame, clientVars
  <2>. QED
    BY <2>1, ServerRests
<1>3. CASE CL_ParseLaunch(n)
  <2>1. /\ down[n] # <<>> /\ down' = [down EXCEPT ![n] = Tail(@)]
        /\ \A m \in Node : client_state'[m] \in {client_state[m], "WAITING_START"}
        /\ UNCHANGED <<serverVars, settings, up>>
    BY <1>0, <1>3 DEF CL_ParseLaunch
  <2>2. \A m \in Node : \A k \in DOMAIN down'[m] :
          \E l \in DOMAIN down[m] : down'[m][k] = down[m][l]
    BY <2>1, DownRead
  <2>. QED
    BY <2>1, <2>2, ServerRests
<1>4. CASE CL_StartGame(n)
  <2>1. /\ up' = [up EXCEPT ![n] = Append(@, "GAMESTART")]
        /\ UNCHANGED <<serverVars, client_state, settings, down>>
    BY <1>4 DEF CL_StartGame
  <2>2. \A k \in DOMAIN up'[n] : up'[n][k] = "LAUNCH" =>
           \E l \in DOMAIN up[n] : up[n][l] = "LAUNCH"
    <3>1. up[n] \in Seq(UpMessage) /\ "GAMESTART" \in UpMessage
          /\ up'[n] = Append(up[n], "GAMESTART")
      BY <1>0, <2>1 DEF UpMessage
    <3>2. \A k \in DOMAIN Append(up[n], "GAMESTART") :
            \/ k \in DOMAIN up[n] /\ Append(up[n], "GAMESTART")[k] = up[n][k]
            \/ Append(up[n], "GAMESTART")[k] = "GAMESTART"
      BY <3>1, AppendElements
    <3>. QED
      BY <3>1, <3>2
  <2>3. \A m \in Node \ {n} : up'[m] = up[m]
    BY <1>0, <2>1
  <2>. QED
    BY <2>1, <2>2, <2>3, ServerRests
<1>5. CASE CL_ParseGameStart(n)
  <2>1. /\ down[n] # <<>> /\ down' = [down EXCEPT ![n] = Tail(@)]
        /\ Head(down[n]).type = "GAMESTART"
        /\ settings' = [settings EXCEPT ![n] = Head(down[n]).settings]
        /\ \A m \in Node \ {n} : client_state'[m] = client_state[m]
        /\ client_state'[n] \in {client_state[n], "IN_GAME"}
        /\ UNCHANGED <<serverVars, up>>
    BY <1>0, <1>5 DEF CL_ParseGameStart
  <2>2. /\ \A m \in Node : \A k \in DOMAIN down'[m] :
             \E l \in DOMAIN down[m] : down'[m][k] = down[m][l]
        /\ 1 \in DOMAIN down[n] /\ Head(down[n]) = down[n][1]
    BY <2>1, DownRead
  <2>3. settings'[n] = down[n][1].settings /\ down[n][1].type = "GAMESTART"
        /\ \A m \in Node \ {n} : settings'[m] = settings[m]
    BY <1>0, <2>1, <2>2
  <2>4. \A m \in Node : client_state'[m] = "IN_GAME" =>
           \/ client_state[m] = "IN_GAME" /\ settings'[m] = settings[m]
           \/ \E l \in DOMAIN down[m] : /\ down[m][l].type = "GAMESTART"
                                        /\ settings'[m] = down[m][l].settings
    BY <2>1, <2>2, <2>3
  <2>. QED
    BY <2>1, <2>2, <2>4, ServerRests
<1>6. CASE Leave(n) \/ Lost(n)
  <2>1. /\ client_state' = [client_state EXCEPT ![n] = "OUT"]
        /\ UNCHANGED <<serverVars, settings, up, down>>
    BY <1>6 DEF Leave, Lost, Gone
  <2>. QED
    BY <1>0, <2>1, ServerRests
<1>. QED
  BY <1>1, <1>2, <1>3, <1>4, <1>5, <1>6

LEMMA OrderlyConnect ==
  ASSUME Orderly = TRUE, LobbyInv, OrderlyInv, NEW n \in Node, Connect(n)
  PROVE  OrderlyInv'
<1>1. /\ ~Handshaking /\ \A m \in Node : up[m] = <<>>
      /\ client_state' = [client_state EXCEPT ![n] = "CONNECTING"]
      /\ up' = [up EXCEPT ![n] = <<>>] /\ down' = [down EXCEPT ![n] = <<>>]
      /\ UNCHANGED <<server_state, clients, sv_players, sv_settings, settings>>
  BY DEF Connect, serverVars
<1>2. /\ LobbyInv /\ Numbers /\ Room /\ NoneCut
      /\ client_state \in [Node -> {"OUT", "CONNECTING", "WAITING_LAUNCH",
                                    "WAITING_START", "IN_GAME"}]
      /\ up \in [Node -> Seq(UpMessage)] /\ down \in [Node -> Seq(DownMessage)]
  BY DEF LobbyInv, LobbyTypes, OrderlyInv
<1>3. /\ \A m \in Node : client_state[m] # "CONNECTING"
      /\ \A i \in Slot : clients'[i].conn # "WAITING_ACK"
  BY <1>1 DEF Handshaking
<1>4. /\ \A m \in Node : client_state'[m] = "CONNECTING" => m = n
      /\ \A m \in Node : up'[m] = <<>>
      /\ \A m \in Node : down'[m] \in {<<>>, down[m]}
      /\ \A m \in Node : client_state'[m] = "IN_GAME" => client_state[m] = "IN_GAME"
  BY <1>1, <1>2, <1>3
<1>5. OneHandshake' /\ NoneCut'
  BY <1>3, <1>4 DEF OneHandshake, NoneCut
<1>6. Room'
  BY <1>1, <1>2 DEF Room
<1>7. ASSUME NEW i \in Connected(clients')
      PROVE  /\ i \in Connected(clients) /\ clients'[i] = clients[i]
             /\ clients[i].addr \in Node
  <2>1. i \in Connected(clients) /\ i \in Slot /\ clients[i].conn # None
    BY <1>1 DEF Connected, ClientConnected, None
  <2>. QED
    BY <1>1, <1>2, <2>1, WaitingIsNode DEF LobbyInv
<1>8. \A m \in Node : \A k \in DOMAIN down'[m] : \E l \in DOMAIN down[m] : down'[m][k] = down[m][l]
  BY <1>4
<1>9. Numbers'
  <2>1. CASE server_state = "IN_GAME"
    BY <1>1, <1>2, <1>4, <1>7, <1>8, <2>1, GameKeeps
  <2>2. CASE server_state # "IN_GAME"
    <3>1. server_state' # "IN_GAME"
      BY <1>1, <2>2
    <3>. QED
      BY <1>1, <1>2, <1>4, <1>7, <1>8, <2>2, <3>1, IdleKeeps
  <2>. QED
    BY <2>1, <2>2
<1>. QED
  BY <1>5, <1>6, <1>9 DEF OrderlyInv

\* Nobody new is connected and the server's numbers stay.
LEMMA FewerConnected ==
  ASSUME LobbyInv, OrderlyInv, UNCHANGED <<server_state, sv_players, sv_settings>>,
         clients' \in [Slot -> ClientRecord],
         \A i \in Slot :
           /\ clients'[i].player_number = clients[i].player_number
           /\ clients'[i].conn \in {"CONNECTED", "WAITING_ACK"} => clients'[i] = clients[i],
         \A m \in Node : client_state'[m] \in {client_state[m], "OUT"},
         UNCHANGED <<settings, up, down>>
  PROVE  OrderlyInv'
<1>1. LobbyInv /\ OneHandshake /\ NoneCut /\ Room /\ Numbers
  BY DEF OrderlyInv
<1>2. \A i \in Slot : clients'[i].conn = "WAITING_ACK" =>
         clients[i].conn = "WAITING_ACK" /\ clients'[i].addr = clients[i].addr
  OBVIOUS
<1>3. OneHandshake' /\ NoneCut'
  BY <1>1, <1>2, CutKeeps
<1>4. PlayerSeats(clients') \subseteq PlayerSeats(clients)
  BY DEF PlayerSeats, Seats
<1>5. Room'
  BY <1>1, <1>4, RoomKeeps DEF Room
<1>6. ASSUME NEW i \in Connected(clients')
      PROVE  /\ i \in Connected(clients) /\ clients'[i] = clients[i]
             /\ clients[i].addr \in Node
  <2>1. i \in Slot /\ clients'[i].conn = "CONNECTED"
    BY DEF Connected, ClientConnected
  <2>2. clients'[i] = clients[i] /\ clients[i].conn # None
    BY <2>1 DEF None
  <2>. QED
    BY <2>1, <2>2, WaitingIsNode DEF Connected, ClientConnected, LobbyInv
<1>7. Numbers'
  <2>1. CASE server_state = "IN_GAME"
    BY <1>1, <1>6, <2>1, GameKeeps
  <2>2. CASE server_state # "IN_GAME"
    <3>1. server_state' # "IN_GAME"
      BY <2>2
    <3>. QED
      BY <1>1, <1>6, <2>2, <3>1, IdleKeeps
  <2>. QED
    BY <2>1, <2>2
<1>. QED
  BY <1>3, <1>5, <1>7 DEF OrderlyInv

LEMMA OrderlyLeaving ==
  ASSUME LobbyInv, OrderlyInv, NEW n \in Node, SV_ParseDisconnect(n) \/ Disconnected(n)
  PROVE  OrderlyInv'
<1>1. /\ UNCHANGED <<server_state, sv_players, sv_settings, settings, up, down>>
      /\ \A m \in Node : client_state'[m] \in {client_state[m], "OUT"}
  BY DEF SV_ParseDisconnect, Disconnected, Gone, clientVars, LobbyInv, LobbyTypes
<1>2. \/ clients' = clients
      \/ \E i \in Slot, c \in {"SLEEP", "DISCONNECTED"} :
           clients[i].addr = n /\ clients' = WithConn(clients, i, c)
  BY DEF SV_ParseDisconnect, Disconnected, SlotsOf, WithConn
<1>3. Consistent(clients) /\ n # None
  BY LobbyAssumption DEF LobbyInv, Slots
<1>4. CASE clients' = clients
  BY <1>1, <1>3, <1>4, FewerConnected DEF Consistent
<1>5. ASSUME NEW i \in Slot, NEW c \in {"SLEEP", "DISCONNECTED"},
             clients[i].addr = n, clients' = WithConn(clients, i, c)
      PROVE  OrderlyInv'
  <2>1. c \in ConnState \ {None} /\ c \notin {"CONNECTED", "WAITING_ACK"}
    BY DEF ConnState, None
  <2>2. /\ Consistent(clients')
        /\ \A j \in Slot \ {i} : clients'[j] = clients[j]
        /\ clients'[i].conn = c /\ clients'[i].player_number = clients[i].player_number
    BY <1>3, <1>5, <2>1, ConnIs
  <2>. QED
    BY <1>1, <2>1, <2>2, FewerConnected DEF Consistent
<1>. QED
  BY <1>2, <1>4, <1>5

LEMMA NumbersFit ==
  ASSUME Room, NEW cl \in [Slot -> ClientRecord], PlayerSeats(cl) \subseteq PlayerSeats(clients),
         \A i \in Slot : cl[i].player_number \in -1 .. NET_MAXPLAYERS - 1
  PROVE  \A i \in Slot : Numbered(cl)[i].player_number \in -1 .. NET_MAXPLAYERS - 1
<1>1. Cardinality(PlayerSlots(cl)) <= NET_MAXPLAYERS
  BY RoomFor
<1>. QED
  BY <1>1, NumberedFits, NumberedAlike

\* The server waits for a launch, and goes on doing so or begins one, and no
\* connection is new.
LEMMA WaitingKeeps ==
  ASSUME LobbyInv, OrderlyInv, server_state = "WAITING_LAUNCH", server_state' # "IN_GAME",
         server_state' # "WAITING_LAUNCH" => ~Handshaking,
         \A i \in Slot :
           /\ clients'[i].player_number \in -1 .. NET_MAXPLAYERS - 1
           /\ clients'[i].conn \in {"CONNECTED", "WAITING_ACK"} => Same(clients'[i], clients[i]),
         UNCHANGED client_state,
         \A m \in Node : \A k \in DOMAIN up'[m] : \E l \in DOMAIN up[m] : up'[m][k] = up[m][l],
         \A m \in Node : \A k \in DOMAIN down'[m] : down'[m][k].type = "GAMESTART" =>
           \E l \in DOMAIN down[m] : down'[m][k] = down[m][l]
  PROVE  OrderlyInv'
<1>1. LobbyInv /\ OneHandshake /\ NoneCut /\ Room /\ Numbers
  BY DEF OrderlyInv
<1>2. \A i \in Slot : clients'[i].conn = "WAITING_ACK" =>
         clients[i].conn = "WAITING_ACK" /\ clients'[i].addr = clients[i].addr
  BY DEF Same
<1>3. OneHandshake' /\ NoneCut'
  BY <1>1, <1>2, CutKeeps
<1>4. PlayerSeats(clients') \subseteq PlayerSeats(clients)
  BY DEF PlayerSeats, Seats, Same
<1>5. Room'
  BY <1>1, <1>4, RoomKeeps
<1>6. ASSUME NEW i \in Connected(clients')
      PROVE  /\ i \in Connected(clients) /\ clients'[i].addr = clients[i].addr
             /\ clients[i].addr \in Node
  <2>1. i \in Slot /\ clients'[i].conn = "CONNECTED"
    BY DEF Connected, ClientConnected
  <2>2. Same(clients'[i], clients[i])
    BY <2>1
  <2>3. clients'[i].addr = clients[i].addr /\ clients[i].conn = "CONNECTED"
        /\ clients[i].conn # None
    BY <2>1, <2>2 DEF Same, None
  <2>. QED
    BY <2>1, <2>3, WaitingIsNode DEF Connected, ClientConnected, LobbyInv
<1>7. Numbers'
  BY <1>1, <1>6, IdleKeeps
<1>. QED
  BY <1>3, <1>5, <1>7 DEF OrderlyInv

LEMMA OrderlyACK ==
  ASSUME LobbyInv, OrderlyInv, NEW n \in Node, SV_ParseACK(n)
  PROVE  OrderlyInv'
<1>1. PICK i \in Slot : /\ clients[i].addr = n /\ clients[i].conn = "WAITING_ACK"
                        /\ clients' = WithConn(clients, i, "CONNECTED")
  BY DEF SV_ParseACK, SlotsOf, WithConn
<1>2. /\ LobbyInv /\ OneHandshake /\ NoneCut /\ Room /\ Numbers
      /\ UNCHANGED <<server_state, sv_players, client_state, settings, up, down>>
      /\ clients[i].addr # None /\ "CONNECTED" \in ConnState \ {None}
      /\ Consistent(clients)
  BY <1>1, LobbyAssumption
     DEF SV_ParseACK, clientVars, OrderlyInv, ConnState, None, LobbyInv, Slots
<1>3. /\ \A j \in Slot \ {i} : clients'[j] = clients[j]
      /\ clients'[i].conn = "CONNECTED" /\ clients'[i].drone = clients[i].drone
      /\ clients'[i].addr = n /\ clients'[i].player_number = clients[i].player_number
  BY <1>1, <1>2, ConnIs
<1>4. /\ server_state' = "WAITING_LAUNCH" /\ server_state = "WAITING_LAUNCH"
      /\ client_state[n] # "IN_GAME" /\ down[n] = <<>>
  BY <1>1, <1>2 DEF NoneCut, LobbyInv, Young
<1>5. OneHandshake' /\ NoneCut'
  BY <1>2, <1>3, CutKeeps
<1>6. Room'
  <2>1. PlayerSeats(clients') \subseteq PlayerSeats(clients)
    BY <1>1, <1>3 DEF PlayerSeats, Seats
  <2>2. \A j \in Slot : clients'[j].player_number \in -1 .. NET_MAXPLAYERS - 1
    BY <1>2, <1>3 DEF Room
  <2>. QED
    BY <1>2, <2>1, <2>2, RoomKeeps
<1>7. Numbers'
  <2>1. ASSUME NEW j \in Connected(clients')
        PROVE  \/ j \in Connected(clients) /\ clients'[j].addr = clients[j].addr
               \/ clients'[j].addr = n
    BY <1>3 DEF Connected, ClientConnected
  <2>2. server_state' # "IN_GAME" /\ server_state # "IN_GAME"
    BY <1>4
  <2>. QED
    BY <1>2, <1>4, <2>1, <2>2, IdleKeeps
<1>. QED
  BY <1>5, <1>6, <1>7 DEF OrderlyInv

LEMMA OrderlyLaunch ==
  ASSUME LobbyInv, OrderlyInv, NEW n \in Node, SV_ParseLaunch(n)
  PROVE  OrderlyInv'
<1>1. /\ up[n] # <<>> /\ Head(up[n]) = "LAUNCH" /\ up' = [up EXCEPT ![n] = Tail(@)]
      /\ UNCHANGED <<sv_settings, sv_game, client_state, settings>>
      /\ LobbyTypes /\ Consistent(clients) /\ clients \in [Slot -> ClientRecord]
      /\ Room /\ NoneCut
  BY DEF SV_ParseLaunch, clientVars, LobbyInv, Slots, Consistent, OrderlyInv
<1>2. /\ \A m \in Node : \A k \in DOMAIN up'[m] : \E l \in DOMAIN up[m] : up'[m][k] = up[m][l]
      /\ 1 \in DOMAIN up[n] /\ up[n][1] = "LAUNCH"
  BY <1>1, UpRead
<1>3. ~Handshaking
  BY <1>1, <1>2 DEF NoneCut
<1>4. CASE UNCHANGED <<clients, sv_players, down, server_state>>
  <2>1. UNCHANGED serverVars
    BY <1>1, <1>4 DEF serverVars
  <2>. QED
    BY <1>1, <1>2, <1>3, <1>4, <2>1, ServerRests
<1>5. CASE /\ server_state = "WAITING_LAUNCH" /\ clients' = Numbered(clients)
           /\ down' = ToAll(clients, [i \in Slot |-> [type |-> "LAUNCH"]])
           /\ server_state' = "WAITING_START"
  <2>1. \A i \in Slot : Same(clients'[i], clients[i])
    BY <1>1, <1>5, NumberedAlike DEF Alike
  <2>2. \A i \in Slot : clients'[i].player_number \in -1 .. NET_MAXPLAYERS - 1
    BY <1>1, <1>5, NumbersFit DEF Room
  <2>3. ASSUME NEW m \in Node, NEW k \in DOMAIN down'[m], down'[m][k].type = "GAMESTART"
        PROVE  \E l \in DOMAIN down[m] : down'[m][k] = down[m][l]
    <3>1. PICK msg : msg = [i \in Slot |-> [type |-> "LAUNCH"]]
      OBVIOUS
    <3>2. \A i \in Connected(clients) :
             msg[i] \in DownMessage /\ msg[i].type = "LAUNCH"
      BY <3>1, PlayerSlotsSlots DEF DownMessage
    <3>3. /\ \A i \in Connected(clients) : /\ clients[i].addr \in Node
               /\ down'[clients[i].addr] = Append(down[clients[i].addr], msg[i])
          /\ (\A i \in Connected(clients) : clients[i].addr # m) => down'[m] = down[m]
      <4>1. down' = ToAll(clients, msg) /\ \A i \in Connected(clients) : msg[i] \in DownMessage
        BY <1>5, <3>1, <3>2
      <4>2. LobbyTypes /\ Consistent(clients)
        BY <1>1
      <4>3. /\ \A i \in Connected(clients) : /\ clients[i].addr \in Node
                 /\ ToAll(clients, msg)[clients[i].addr] = Append(down[clients[i].addr], msg[i])
            /\ \A x \in Node : (\A i \in Connected(clients) : clients[i].addr # x) =>
                 ToAll(clients, msg)[x] = down[x]
        BY ONLY <4>1, <4>2, ToAllIs
      <4>. QED
        BY <4>1, <4>3
    <3>4. CASE \A i \in Connected(clients) : clients[i].addr # m
      BY <3>3, <3>4
    <3>5. ASSUME NEW i \in Connected(clients), clients[i].addr = m
          PROVE  \E l \in DOMAIN down[m] : down'[m][k] = down[m][l]
      <4>1. down'[m] = Append(down[m], msg[i]) /\ down[m] \in Seq(DownMessage)
        BY <1>1, <3>3, <3>5 DEF LobbyTypes
      <4>2. \A e \in DOMAIN Append(down[m], msg[i]) :
               \/ e \in DOMAIN down[m] /\ Append(down[m], msg[i])[e] = down[m][e]
               \/ Append(down[m], msg[i])[e] = msg[i]
        BY <3>2, <4>1, AppendElements
      <4>. QED
        BY <2>3, <3>2, <4>1, <4>2
    <3>. QED
      BY <3>4, <3>5
  <2>. QED
    BY <1>1, <1>2, <1>3, <1>5, <2>1, <2>2, <2>3, WaitingKeeps
<1>. QED
  BY <1>4, <1>5 DEF SV_ParseLaunch

LEMMA OrderlyStart ==
  ASSUME LobbyInv, OrderlyInv, server_state = "WAITING_START",
         NEW cl, NEW s \in Settings, Consistent(cl), CheckStartGame(cl, s),
         \A i \in Slot :
           /\ cl[i].player_number = clients[i].player_number
           /\ cl[i].conn = None \/ /\ cl[i].conn = clients[i].conn
                                   /\ cl[i].addr = clients[i].addr
                                   /\ cl[i].drone = clients[i].drone,
         UNCHANGED <<client_state, settings>>,
         \A m \in Node : \A k \in DOMAIN up'[m] : \E l \in DOMAIN up[m] : up'[m][k] = up[m][l]
  PROVE  OrderlyInv'
<1>1. LobbyInv /\ OneHandshake /\ NoneCut /\ Room /\ Numbers /\ LobbyTypes
  BY DEF OrderlyInv, LobbyInv
<1>2. \A i \in Slot : cl[i].conn # None => /\ cl[i].conn = clients[i].conn
                                           /\ cl[i].addr = clients[i].addr
                                           /\ cl[i].drone = clients[i].drone
  OBVIOUS
<1>3. PlayerSeats(cl) \subseteq PlayerSeats(clients)
  BY <1>2 DEF PlayerSeats, Seats, None
<1>4. ASSUME NEW i \in Connected(cl)
      PROVE  i \in Connected(clients) /\ cl[i].addr = clients[i].addr
  BY <1>2 DEF Connected, ClientConnected, None
<1>5. \A i \in Slot : cl[i].player_number = clients[i].player_number
  OBVIOUS
<1>6. Room' /\ Numbers'
  BY <1>1, <1>3, <1>4, <1>5, StartNumbers
<1>7. \A i \in Slot : clients'[i].conn = cl[i].conn /\ clients'[i].addr = cl[i].addr
  BY <1>1, StartIs DEF Alike, Same
<1>8. \A i \in Slot : clients'[i].conn = "WAITING_ACK" =>
         clients[i].conn = "WAITING_ACK" /\ clients'[i].addr = clients[i].addr
  BY <1>2, <1>7 DEF None
<1>9. OneHandshake' /\ NoneCut'
  BY <1>1, <1>8, CutKeeps
<1>. QED
  BY <1>6, <1>9 DEF OrderlyInv

LEMMA OrderlyGameStart ==
  ASSUME LobbyInv, OrderlyInv, NEW n \in Node, SV_ParseGameStart(n)
  PROVE  OrderlyInv'
<1>1. /\ up[n] # <<>> /\ up' = [up EXCEPT ![n] = Tail(@)]
      /\ UNCHANGED <<client_state, settings, sv_game>>
      /\ LobbyTypes /\ Consistent(clients)
  BY DEF SV_ParseGameStart, clientVars, LobbyInv, Slots
<1>2. \A m \in Node : \A k \in DOMAIN up'[m] : \E l \in DOMAIN up[m] : up'[m][k] = up[m][l]
  BY <1>1, UpRead
<1>3. CASE UNCHANGED <<server_state, clients, sv_players, sv_settings, down>>
  <2>1. UNCHANGED serverVars
    BY <1>1, <1>3 DEF serverVars
  <2>. QED
    BY <1>1, <1>2, <1>3, <2>1, ServerRests
<1>4. CASE \E i \in SlotsOf(clients, n) :
              /\ server_state = "WAITING_START"
              /\ CheckStartGame(Readied(i),
                    IF i \in Controller(clients)
                    THEN [NoSettings EXCEPT !.from = n] ELSE sv_settings)
  <2>1. PICK i \in Slot :
           /\ server_state = "WAITING_START"
           /\ CheckStartGame(Readied(i), IF i \in Controller(clients)
                THEN [NoSettings EXCEPT !.from = n] ELSE sv_settings)
    BY <1>4 DEF SlotsOf
  <2>2. PICK cl : cl = WithReady(clients, i)
    OBVIOUS
  <2>3. PICK s : s = IF i \in Controller(clients)
                     THEN [NoSettings EXCEPT !.from = n] ELSE sv_settings
    OBVIOUS
  <2>4. CheckStartGame(cl, s)
    BY <2>1, <2>2, <2>3 DEF CheckStartGame, Readied, WithReady
  <2>5. s \in Settings
    <3>1. Cardinality(Node) \in Nat
      BY LobbyAssumption, FS_CardinalityType
    <3>2. [NoSettings EXCEPT !.from = n] \in Settings
      BY <3>1 DEF NoSettings, Settings
    <3>. QED
      BY <1>1, <2>3, <3>2 DEF LobbyTypes
  <2>6. /\ Consistent(cl)
        /\ \A j \in Slot : /\ cl[j].player_number = clients[j].player_number
                           /\ cl[j].conn = clients[j].conn /\ cl[j].addr = clients[j].addr
                           /\ cl[j].drone = clients[j].drone
    <3>1. /\ Consistent(cl)
          /\ \A j \in Slot \ {i} : cl[j] = clients[j]
          /\ cl[i].conn = clients[i].conn /\ cl[i].addr = clients[i].addr
          /\ cl[i].drone = clients[i].drone
          /\ cl[i].player_number = clients[i].player_number
      BY <1>1, <2>2, ReadyIs
    <3>. QED
      BY <3>1
  <2>. QED
    BY <1>1, <1>2, <2>1, <2>4, <2>5, <2>6, OrderlyStart
<1>. QED
  BY <1>3, <1>4 DEF SV_ParseGameStart

LEMMA OrderlyRun ==
  ASSUME LobbyInv, OrderlyInv, NEW late \in BOOLEAN, Run(late)
  PROVE  OrderlyInv'
<1>1. /\ UNCHANGED <<client_state, settings, up>>
      /\ Consistent(clients) /\ clients \in [Slot -> ClientRecord]
      /\ sv_settings \in Settings /\ Room
  BY DEF Run, clientVars, LobbyInv, Slots, LobbyTypes, Consistent, OrderlyInv
<1>2. CASE server_state = "WAITING_START"
  <2>1. PICK cl, s : cl = clients /\ s = sv_settings
    OBVIOUS
  <2>2. CheckStartGame(cl, s)
    BY <1>2, <2>1 DEF Run, CheckStartGame
  <2>. QED
    BY <1>1, <1>2, <2>1, <2>2, OrderlyStart
<1>3. CASE server_state # "WAITING_START"
  <2>1. /\ clients' = Waiting(clients, Slot, late)
        /\ sv_players' = Players(clients, Slot, late, sv_players)
        /\ UNCHANGED <<server_state, sv_settings, down>>
    BY <1>3 DEF Run
  <2>2. CASE server_state = "WAITING_LAUNCH"
    <3>1. \A i \in Slot : clients'[i].player_number \in -1 .. NET_MAXPLAYERS - 1
      BY <1>1, <2>1, WaitingAlike, NumbersFit DEF Room
    <3>2. \A i \in Slot : Same(clients'[i], clients[i])
      BY <1>1, <2>1, WaitingAlike DEF Alike
    <3>. QED
      BY <1>1, <2>1, <2>2, <3>1, <3>2, WaitingKeeps
  <2>3. CASE server_state # "WAITING_LAUNCH"
    <3>1. clients' = clients
      BY <1>1, <2>1, <2>3, WaitingAlike
    <3>2. sv_players' = sv_players
      BY <2>1, <2>3 DEF Players, Renumbers
    <3>. QED
      BY <1>1, <2>1, <3>1, <3>2, FewerConnected
  <2>. QED
    BY <2>2, <2>3
<1>. QED
  BY <1>2, <1>3

LEMMA OrderlyExpired ==
  ASSUME LobbyInv, OrderlyInv, NEW e \in Slot, NEW late \in BOOLEAN, RunExpired(e, late)
  PROVE  OrderlyInv'
<1>1. UNCHANGED <<client_state, settings, up>>
  BY RunExpiredIs
<1>2. PICK cl, pl : ExpiredTo(e, cl, pl) /\ Expired(e, cl, pl)
  BY RunExpiredIs
<1>3. /\ Consistent(clients) /\ clients \in [Slot -> ClientRecord] /\ sv_settings \in Settings
      /\ OneHandshake /\ NoneCut /\ Room /\ Numbers
  BY DEF LobbyInv, Slots, LobbyTypes, Consistent, OrderlyInv
<1>4. /\ Consistent(cl) /\ cl \in [Slot -> ClientRecord] /\ Alike(cl, Freed(clients, e))
      /\ server_state # "WAITING_LAUNCH" => pl = sv_players /\ cl = Freed(clients, e)
  BY <1>2 DEF ExpiredTo, Consistent
<1>5. /\ \A i \in Slot \ {e} : Freed(clients, e)[i] = clients[i]
      /\ Freed(clients, e)[e].conn = None
      /\ Freed(clients, e)[e].player_number = clients[e].player_number
  BY <1>3, FreedIs
<1>6. /\ \A i \in Slot \ {e} : Same(cl[i], clients[i])
      /\ cl[e].conn = None
  <2>1. \A i \in Slot : Same(cl[i], Freed(clients, e)[i])
    BY <1>4 DEF Alike
  <2>. QED
    BY <1>5, <2>1 DEF Same
<1>7. PlayerSeats(cl) \subseteq PlayerSeats(clients)
  BY <1>6 DEF PlayerSeats, Seats, Same, None
<1>8. \A i \in Slot : cl[i].player_number \in -1 .. NET_MAXPLAYERS - 1
  <2>1. \A i \in Slot : cl[i].player_number \in
          {clients[i].player_number, Numbered(clients)[i].player_number}
    BY <1>2 DEF ExpiredTo
  <2>. QED
    BY <1>3, <2>1, NumbersFit DEF Room
<1>9. CASE /\ clients' = GameEnded(cl) /\ server_state' = "WAITING_LAUNCH"
           /\ UNCHANGED <<sv_settings, down>>
  <2>1. \A i \in Slot : /\ clients'[i].conn \notin {"CONNECTED", "WAITING_ACK"}
                        /\ clients'[i].player_number = cl[i].player_number
    BY <1>4, <1>9, GameEndedIs
  <2>2. OneHandshake' /\ NoneCut'
    BY <1>1, <1>3, <1>9, <2>1, CutKeeps
  <2>3. PlayerSeats(clients') \subseteq PlayerSeats(clients)
    BY <2>1 DEF PlayerSeats, Seats
  <2>4. Room'
    BY <1>3, <1>8, <2>1, <2>3, RoomKeeps
  <2>5. Connected(clients') = {}
    BY <2>1 DEF Connected, ClientConnected
  <2>6. Numbers'
    BY <1>9, <2>5 DEF Numbers
  <2>. QED
    BY <2>2, <2>4, <2>6 DEF OrderlyInv
<1>10. CASE server_state = "WAITING_START" /\ CheckStartGame(cl, sv_settings)
  <2>1. PICK s : s = sv_settings
    OBVIOUS
  <2>2. CheckStartGame(cl, s) /\ s \in Settings
    BY <1>3, <1>10, <2>1 DEF CheckStartGame
  <2>3. \A i \in Slot : cl[i].player_number = clients[i].player_number
    BY <1>4, <1>5, <1>10
  <2>4. \A i \in Slot : cl[i].conn = None \/ /\ cl[i].conn = clients[i].conn
                                             /\ cl[i].addr = clients[i].addr
                                             /\ cl[i].drone = clients[i].drone
    BY <1>6 DEF Same
  <2>. QED
    BY <1>1, <1>4, <1>10, <2>2, <2>3, <2>4, OrderlyStart
<1>11. CASE /\ clients' \in [Slot -> ClientRecord] /\ Alike(clients', cl)
            /\ \A i \in Slot : clients'[i].player_number \in
                 {cl[i].player_number, Numbered(cl)[i].player_number}
            /\ server_state # "WAITING_LAUNCH" => clients' = cl /\ sv_players' = pl
            /\ server_state # "WAITING_START"
            /\ UNCHANGED <<server_state, sv_settings, down>>
  <2>1. CASE server_state = "WAITING_LAUNCH"
    <3>1. \A i \in Slot : clients'[i].player_number \in -1 .. NET_MAXPLAYERS - 1
      BY <1>3, <1>4, <1>7, <1>8, <1>11, NumbersFit
    <3>2. \A i \in Slot : clients'[i].conn \in {"CONNECTED", "WAITING_ACK"} =>
            Same(clients'[i], clients[i])
      <4>1. \A i \in Slot : Same(clients'[i], cl[i])
        BY <1>11 DEF Alike
      <4>. QED
        BY <1>6, <4>1 DEF Same, None
    <3>. QED
      BY <1>1, <1>11, <2>1, <3>1, <3>2, WaitingKeeps
  <2>2. CASE server_state # "WAITING_LAUNCH"
    <3>1. clients' = Freed(clients, e) /\ sv_players' = sv_players
      BY <1>4, <1>11, <2>2
    <3>2. \A i \in Slot :
            /\ clients'[i].player_number = clients[i].player_number
            /\ clients'[i].conn \in {"CONNECTED", "WAITING_ACK"} => clients'[i] = clients[i]
      BY <1>5, <3>1 DEF None
    <3>3. clients' \in [Slot -> ClientRecord]
      BY <1>11
    <3>4. /\ UNCHANGED <<server_state, sv_players, sv_settings, settings, up, down>>
          /\ \A m \in Node : client_state'[m] \in {client_state[m], "OUT"}
      BY <1>1, <1>11, <3>1
    <3>. QED
      BY <3>2, <3>3, <3>4, FewerConnected
  <2>. QED
    BY <2>1, <2>2
<1>12. \/ /\ clients' = GameEnded(cl) /\ server_state' = "WAITING_LAUNCH"
          /\ UNCHANGED <<sv_settings, down>>
       \/ server_state = "WAITING_START" /\ CheckStartGame(cl, sv_settings)
       \/ /\ clients' \in [Slot -> ClientRecord] /\ Alike(clients', cl)
          /\ \A i \in Slot : clients'[i].player_number \in
               {cl[i].player_number, Numbered(cl)[i].player_number}
          /\ server_state # "WAITING_LAUNCH" => clients' = cl /\ sv_players' = pl
          /\ server_state # "WAITING_START"
          /\ UNCHANGED <<server_state, sv_settings, down>>
  BY <1>2 DEF Expired
<1>. QED
  BY <1>9, <1>10, <1>11, <1>12

\* NET_SV_ParseSYN lets a player in when there is room for it, as no other
\* handshake is under way that is not counted yet.
LEMMA OrderlySYN ==
  ASSUME LobbyInv, OrderlyInv, NEW n \in Node, ParseSYN(n)
  PROVE  OrderlyInv'
<1>1. /\ client_state[n] = "CONNECTING"
      /\ UNCHANGED <<server_state, sv_settings, settings, up>>
      /\ \/ /\ client_state' = [client_state EXCEPT ![n] = "OUT"]
            /\ UNCHANGED <<clients, sv_players, sv_game, down>>
         \/ /\ server_state = "WAITING_LAUNCH"
            /\ \E i \in SlotFor(n) : Seated(n, i)
  <2>1. LobbyTypes /\ Slots
    BY DEF LobbyInv
  <2>. QED
    BY <2>1, ParseSYNIs
<1>2. /\ OneHandshake /\ NoneCut /\ Room /\ Numbers /\ Consistent(clients)
      /\ clients \in [Slot -> ClientRecord]
      /\ client_state \in [Node -> {"OUT", "CONNECTING", "WAITING_LAUNCH",
                                    "WAITING_START", "IN_GAME"}]
      /\ down \in [Node -> Seq(DownMessage)]
      /\ NET_MAXPLAYERS \in Nat
  BY LobbyAssumption DEF OrderlyInv, LobbyInv, Slots, Consistent, LobbyTypes
<1>3. CASE /\ client_state' = [client_state EXCEPT ![n] = "OUT"]
           /\ UNCHANGED <<clients, sv_players, sv_game, down>>
  <2>1. /\ UNCHANGED serverVars
        /\ \A m \in Node : client_state'[m] \in {client_state[m], "OUT"}
    BY <1>1, <1>2, <1>3 DEF serverVars
  <2>. QED
    BY <1>1, <1>3, <2>1, ServerRests
<1>4. ASSUME server_state = "WAITING_LAUNCH", NEW i \in SlotFor(n), Seated(n, i)
      PROVE  OrderlyInv'
  <2>1. /\ i \in Slot /\ clients[i].conn \in {None, "DISCONNECTED"}
        /\ \A j \in Slot \ {i} : clients[j].addr # n
    BY <1>2, SlotForIs
  <2>2. PICK cl : cl = Freed(clients, i)
    OBVIOUS
  <2>3. /\ \A j \in Slot \ {i} : /\ Same(clients'[j], clients[j])
                                 /\ clients'[j] = Numbered(cl)[j]
        /\ clients'[i].player_number = clients[i].player_number
        /\ \/ /\ Fits(cl, n)
              /\ clients'[i].addr = n /\ clients'[i].conn = "WAITING_ACK"
              /\ clients'[i].drone = (n \in Drones)
              /\ down' = [down EXCEPT ![n] = <<>>] /\ UNCHANGED client_state
           \/ /\ clients'[i].addr = None /\ clients'[i].conn = None /\ UNCHANGED down
              /\ client_state' = [client_state EXCEPT ![n] = "OUT"]
    BY <1>4, <2>2 DEF Seated
  <2>4. Handshaking
    BY <1>1 DEF Handshaking
  <2>5. \A j \in Slot \ {i} : clients[j].conn # "WAITING_ACK"
    BY <1>1, <1>2, <2>1 DEF OneHandshake
  <2>6. \A j \in Slot : clients'[j].conn = "WAITING_ACK" => j = i /\ clients'[i].addr = n
    BY <2>3, <2>5 DEF Same, None
  <2>7. \A m \in Node : client_state'[m] = "CONNECTING" => m = n
    BY <1>1, <1>2, <2>3 DEF OneHandshake
  <2>8. OneHandshake'
    BY <2>6, <2>7 DEF OneHandshake
  <2>9. NoneCut'
    BY <1>1, <1>2, <1>4, <2>4 DEF NoneCut
  <2>10. /\ Consistent(cl) /\ cl \in [Slot -> ClientRecord]
         /\ PlayerSlots(cl) = PlayerSlots(clients) \ {i}
         /\ PlayerSeats(cl) = PlayerSeats(clients) \ {i}
         /\ \A j \in Slot : cl[j].player_number = clients[j].player_number
    <3>1. /\ Consistent(cl)
          /\ \A j \in Slot \ {i} : cl[j] = clients[j]
          /\ cl[i].player_number = clients[i].player_number
      BY <1>2, <2>1, <2>2, FreedIs
    <3>2. /\ PlayerSlots(cl) = PlayerSlots(clients) \ {i}
          /\ PlayerSeats(cl) = PlayerSeats(clients) \ {i}
      BY <1>2, <2>1, <2>2, FreedViews
    <3>3. \A j \in Slot : cl[j].player_number = clients[j].player_number
      BY <3>1
    <3>. QED
      BY <3>1, <3>2, <3>3 DEF Consistent
  <2>11. \A j \in Slot : clients'[j].player_number \in -1 .. NET_MAXPLAYERS - 1
    BY <1>2, <2>3, <2>10, NumbersFit DEF Room
  <2>12. \A j \in PlayerSeats(clients) : j # i /\ j \in PlayerSlots(clients)
    BY <2>1, <2>5 DEF PlayerSeats, Seats, PlayerSlots, Connected, ClientConnected, None
  <2>13. PlayerSeats(clients') \ {i} \subseteq PlayerSeats(clients)
    BY <2>3 DEF PlayerSeats, Seats, Same
  <2>14. Cardinality(PlayerSeats(clients')) <= NET_MAXPLAYERS
    <3>1. CASE i \notin PlayerSeats(clients')
      <4>1. PlayerSeats(clients') \subseteq PlayerSeats(clients)
        BY <2>13, <3>1
      <4>. QED
        BY <1>2, <4>1, FewerSeats, SeatsAreSlots DEF Room
    <3>2. CASE i \in PlayerSeats(clients')
      <4>1. Fits(cl, n) /\ n \notin Drones
        BY <2>3, <3>2 DEF PlayerSeats, Seats, None
      <4>2. NumPlayers(cl, AssignPlayers(cl)) < NET_MAXPLAYERS
        BY <4>1 DEF Fits
      <4>3. Cardinality(PlayerSlots(cl)) < NET_MAXPLAYERS
        BY <4>2, AllNumbered
      <4>4. /\ PlayerSlots(cl) \in SUBSET Slot /\ i \notin PlayerSlots(cl)
            /\ PlayerSlots(cl) \cup {i} \in SUBSET Slot
        BY <2>1, <2>10, PlayerSlotsSlots
      <4>5. IsFiniteSet(PlayerSlots(cl)) /\ Cardinality(PlayerSlots(cl)) \in Nat
        BY <4>4, SlotsFinite
      <4>6. Cardinality(PlayerSlots(cl) \cup {i}) <= NET_MAXPLAYERS
        <5>1. Cardinality(PlayerSlots(cl) \cup {i}) = Cardinality(PlayerSlots(cl)) + 1
          BY <4>4, <4>5, FS_AddElement
        <5>. QED
          BY <1>2, <4>3, <4>5, <5>1
      <4>7. PlayerSeats(clients') \subseteq PlayerSlots(cl) \cup {i}
        BY <2>10, <2>12, <2>13
      <4>. QED
        BY <4>4, <4>6, <4>7, FewerSeats
    <3>. QED
      BY <3>1, <3>2
  <2>15. Room'
    BY <2>11, <2>14 DEF Room
  <2>16. ASSUME NEW j \in Connected(clients')
         PROVE  /\ j \in Connected(clients) /\ clients'[j].addr = clients[j].addr
                /\ clients[j].addr \in Node
    <3>1. j \in Slot /\ clients'[j].conn = "CONNECTED"
      BY DEF Connected, ClientConnected
    <3>2. j # i
      BY <2>3, <3>1 DEF None
    <3>3. Same(clients'[j], clients[j])
      BY <2>3, <3>1, <3>2
    <3>4. clients'[j].addr = clients[j].addr /\ clients[j].conn = "CONNECTED"
          /\ clients[j].conn # None
      BY <3>1, <3>3 DEF Same, None
    <3>. QED
      BY <3>1, <3>4, WaitingIsNode DEF Connected, ClientConnected, LobbyInv
  <2>17. /\ \A m \in Node : client_state'[m] = "IN_GAME" => client_state[m] = "IN_GAME"
         /\ \A m \in Node : \A k \in DOMAIN down'[m] :
              \E l \in DOMAIN down[m] : down'[m][k] = down[m][l]
    <3>1. \A m \in Node : down'[m] \in {<<>>, down[m]}
      BY <1>2, <2>3
    <3>2. \A m \in Node : client_state'[m] \in {client_state[m], "OUT"}
      BY <1>2, <2>3
    <3>. QED
      BY <3>1, <3>2
  <2>18. server_state' # "IN_GAME" /\ server_state # "IN_GAME"
    BY <1>1, <1>4
  <2>19. Numbers'
    BY <1>2, <2>16, <2>17, <2>18, IdleKeeps
  <2>. QED
    BY <2>8, <2>9, <2>15, <2>19 DEF OrderlyInv
<1>. QED
  BY <1>1, <1>3, <1>4

LEMMA OrderlyStep ==
  Orderly = TRUE /\ LobbyInv /\ OrderlyInv /\ [Next]_vars => OrderlyInv'
<1>. SUFFICES ASSUME Orderly = TRUE, LobbyInv, OrderlyInv, [Next]_vars PROVE OrderlyInv'
  OBVIOUS
<1>1. CASE UNCHANGED vars
  <2>1. UNCHANGED <<server_state, clients, sv_players, sv_settings, client_state,
                    settings, up, down>>
    BY <1>1 DEF vars, serverVars, clientVars
  <2>. QED
    BY <2>1 DEF OrderlyInv, OneHandshake, NoneCut, Handshaking, Room, Numbers, Agreed
<1>2. ASSUME NEW n \in Node,
             \/ CL_ParseACK(n) \/ CL_LaunchGame(n) \/ CL_ParseLaunch(n) \/ CL_StartGame(n)
             \/ CL_ParseGameStart(n) \/ Leave(n) \/ Lost(n)
      PROVE  OrderlyInv'
  BY <1>2, OrderlyClients
<1>3. ASSUME NEW n \in Node, Connect(n) PROVE OrderlyInv'
  BY <1>3, OrderlyConnect
<1>4. ASSUME NEW n \in Node, ParseSYN(n) \/ SV_ParseACK(n) \/ SV_ParseLaunch(n)
      PROVE  OrderlyInv'
  BY <1>4, OrderlySYN, OrderlyACK, OrderlyLaunch
<1>5. ASSUME NEW n \in Node,
             SV_ParseGameStart(n) \/ SV_ParseDisconnect(n) \/ Disconnected(n)
      PROVE  OrderlyInv'
  BY <1>5, OrderlyGameStart, OrderlyLeaving
<1>6. ASSUME NEW late \in BOOLEAN, Run(late) PROVE OrderlyInv'
  BY <1>6, OrderlyRun
<1>7. ASSUME NEW late \in BOOLEAN, NEW e \in Slot, RunExpired(e, late) PROVE OrderlyInv'
  BY <1>7, OrderlyExpired
<1>. QED
  BY <1>1, <1>2, <1>3, <1>4, <1>5, <1>6, <1>7 DEF Next

LEMMA OrderlySpec == ASSUME Orderly = TRUE PROVE Spec => [](LobbyInv /\ OrderlyInv)
<1>1. LobbyInv /\ OrderlyInv /\ [Next]_vars => OrderlyInv'
  BY OrderlyStep
<1>. QED
  BY <1>1, LobbyInit, LobbyStep, OrderlyInit, PTL DEF Spec

\* With handshakes one after the other, every slot and every message has its type,
\* an address has one slot and every number is that of a player.
THEOREM TypeCorrect == ASSUME Orderly = TRUE PROVE Spec => []TypeOK
<1>1. LobbyInv /\ OrderlyInv => TypeOK
  <2>. SUFFICES ASSUME LobbyInv, OrderlyInv PROVE TypeOK
    OBVIOUS
  <2>1. LobbyTypes /\ Consistent(clients) /\ Room
    BY DEF LobbyInv, Slots, OrderlyInv
  <2>2. \A i \in Slot :
         /\ clients[i].addr \in Node \cup {None}
         /\ clients[i].conn \in {None, "WAITING_ACK", "CONNECTED", "DISCONNECTING",
                                 "SLEEP", "DISCONNECTED"}
         /\ (clients[i].addr = None) <=> (clients[i].conn = None)
         /\ clients[i].player_number \in -1 .. NET_MAXPLAYERS - 1
    BY <2>1 DEF Consistent, ClientRecord, ConnState, Room
  <2>3. ASSUME NEW n \in Node PROVE Cardinality(SlotsOf(clients, n)) <= 1
    <3>1. CASE SlotsOf(clients, n) = {}
      BY <3>1, FS_EmptySet
    <3>2. ASSUME NEW i \in SlotsOf(clients, n)
          PROVE  Cardinality(SlotsOf(clients, n)) <= 1
      <4>1. n # None
        BY LobbyAssumption
      <4>2. SlotsOf(clients, n) = {i}
        BY <2>1, <3>2, <4>1 DEF SlotsOf, Consistent
      <4>. QED
        BY <4>2, FS_Singleton
    <3>. QED
      BY <3>1, <3>2
  <2>4. bye \subseteq Node
    BY <2>1, LobbyAssumption DEF LobbyTypes
  <2>. QED
    BY <2>1, <2>2, <2>3, <2>4 DEF TypeOK, LobbyTypes
<1>. QED
  BY <1>1, OrderlySpec, PTL

\* ... and a client in the game knows itself as the server does.
THEOREM NumbersAgreeCorrect == ASSUME Orderly = TRUE PROVE Spec => []NumbersAgree
<1>1. LobbyInv /\ OrderlyInv => NumbersAgree
  <2>. SUFFICES ASSUME LobbyInv, OrderlyInv, NEW n \in Node, NEW i \in SlotsOf(clients, n),
                       server_state = "IN_GAME", client_state[n] = "IN_GAME",
                       ClientConnected(clients, i)
                PROVE  /\ settings[n].consoleplayer = clients[i].player_number
                       /\ settings[n].num_players = sv_settings.num_players
                       /\ n \notin Drones => sv_players[settings[n].consoleplayer] = i
    BY DEF NumbersAgree
  <2>1. i \in Connected(clients) /\ clients[i].addr = n /\ i \in Slot
    BY DEF SlotsOf, Connected
  <2>2. /\ Agreed(i, settings[n])
        /\ ~clients[i].drone => sv_players[clients[i].player_number] = i
    BY <2>1 DEF OrderlyInv, Numbers
  <2>3. clients[i].drone <=> n \in Drones
    BY <2>1 DEF LobbyInv, Slots, Consistent
  <2>. QED
    BY <2>2, <2>3 DEF Agreed
<1>. QED
  BY <1>1, OrderlySpec, PTL

=============================================================================
