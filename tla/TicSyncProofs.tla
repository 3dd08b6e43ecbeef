--------------------------- MODULE TicSyncProofs ---------------------------
(***************************************************************************)
(* The game in progress, for any number of players and drones, any window  *)
(* of at most 128 tics, and any losses, duplicates and delays.             *)
(***************************************************************************)
EXTENDS TicSync, ByteArith

----------------------------------------------------------------------------
(* Tic numbers in a byte                                                   *)

\* A tic number within 64 of the receiver's position is completed to itself
\* (net_common.c:491-507).
THEOREM ExpandCorrect ==
  ASSUME NEW relative \in Nat, NEW tic \in Nat,
         tic <= relative + 64, relative <= tic + 64
  PROVE  NET_ExpandTicNum(relative, Byte(tic)) = tic
<1>1. PICK q \in Nat, l \in 0 .. 255 : relative = 256 * q + l /\ l = relative % 256
  BY DivMod
<1>2. PICK p \in Nat, b \in 0 .. 255 : tic = 256 * p + b /\ b = tic % 256
  BY DivMod
<1>3. /\ p \in {q - 1, q, q + 1}
      /\ p = q - 1 => l < 64 /\ b > 176
      /\ p = q + 1 => l > 176 /\ b < 64
      /\ p = q => ~(l < 64 /\ b > 176) /\ ~(l > 176 /\ b < 64)
  <2>1. 256 * p + b <= 256 * q + l + 64 /\ 256 * q + l <= 256 * p + b + 64
    BY <1>1, <1>2
  <2>. QED
    BY <2>1
<1>. QED
  BY <1>1, <1>2, <1>3 DEF NET_ExpandTicNum, Byte

----------------------------------------------------------------------------
(***************************************************************************)
(* The inductive invariant. LockStep speaks of what was run; it holds      *)
(* because every copy of a command, in whatever window, ring, queue or     *)
(* packet, is kept under the tic it was built for, and because nobody gets *)
(* further ahead of anybody than a ring is long.                           *)
(***************************************************************************)
Commands == UNION {[ps -> Nat] : ps \in SUBSET Player}
FullTiccmds == [seq : Int, cmds : Commands]

LoopTypes ==
    /\ maketic \in [Client -> Tic]
    /\ gametic \in [Client -> Nat]
    /\ ticdata \in [Client -> [Slot -> Commands]]
    /\ ran \in [Client -> Seq(Commands)]
    /\ left \subseteq Client
    /\ status \in [Client -> {"CONNECTED", "SLEEP", "GONE"}]

WindowTypes ==
    /\ recvtic \in [Client -> Nat]
    /\ DOMAIN window = Client
    /\ requested \in [Client -> SUBSET Nat]
    /\ \A c \in Client : IsFiniteSet(requested[c])
    /\ need_ack \subseteq Client
    /\ recvwindow_start \in Nat
    /\ DOMAIN recvwindow = Player
    /\ sv_requested \in [Player -> SUBSET Nat]
    /\ \A p \in Player : IsFiniteSet(sv_requested[p])
    /\ acknowledged \in [Client -> Nat]
    /\ sendseq \in [Client -> Nat]
    /\ sendqueue \in [Client -> [Slot -> FullTiccmds]]

\* How far ahead of one another the positions can be.
Ordered ==
    /\ \A c \in Client :
         /\ acknowledged[c] <= recvtic[c]
         /\ gametic[c] <= recvtic[c] /\ recvtic[c] <= sendseq[c]
         /\ sendseq[c] <= recvtic[c] + BACKUPTICS
         /\ sendseq[c] <= recvwindow_start + BACKUPTICS
         /\ ClientConnected(c) => recvwindow_start <= acknowledged[c]
    /\ \A p \in Player : gametic[p] <= maketic[p] /\ maketic[p] <= gametic[p] + MaxAhead
    /\ \A p, q \in Player : p # q /\ ClientConnected(p) => sendseq[q] <= maketic[p]

\* x holds, for c, the commands of tic t of all the others who play.
Full(c, x, t) ==
    /\ x \in Commands
    /\ \A p \in DOMAIN x : /\ p # c /\ x[p] = t /\ t < maketic[p]
                           /\ c \in Player => t < gametic[c] + BACKUPTICS
    /\ \A p \in Player \ {c} : ClientConnected(p) => p \in DOMAIN x

\* Windows and queues.
Stored ==
    /\ \A p \in Player : \A t \in DOMAIN recvwindow[p] :
         /\ t \in recvwindow_start .. recvwindow_start + BACKUPTICS - 1
         /\ recvwindow[p][t] = t /\ t < maketic[p]
    /\ \A c \in Client : \A t \in DOMAIN window[c] :
         /\ t \in recvtic[c] .. recvtic[c] + BACKUPTICS - 1 /\ t < sendseq[c]
         /\ Full(c, window[c][t], t)

Queued ==
    \A c \in Client :
      /\ \A s \in Slot : LET x == sendqueue[c][s]
                         IN  /\ x.seq < sendseq[c]
                             /\ x.seq >= 0 => Full(c, x.cmds, x.seq)
      /\ \A t \in Nat : sendseq[c] <= t + BACKUPTICS /\ t < sendseq[c] =>
           sendqueue[c][t % BACKUPTICS].seq = t

\* Packets.
Packet(p) ==
    /\ p.client \in Client
    /\ \/ /\ p.type = "CL_GAMEDATA" /\ p.client \in Player
          /\ p.tic \in Nat /\ p.seq = Byte(p.tic)
          /\ p.acktic \in Nat /\ p.ack = Byte(p.acktic)
          /\ p.acktic <= recvtic[p.client]
          /\ p.cmds \in Seq(Nat) /\ \A i \in 1 .. Len(p.cmds) : p.cmds[i] = p.tic + i - 1
          /\ p.tic + Len(p.cmds) <= maketic[p.client]
       \/ /\ p.type = "CL_GAMEDATA_ACK"
          /\ p.acktic \in Nat /\ p.ack = Byte(p.acktic)
          /\ p.acktic <= recvtic[p.client]
       \/ /\ p.type \in {"CL_RESEND", "SV_RESEND"}
          /\ p.start \in Nat /\ p.num_tics \in Nat \ {0}
          /\ p.type = "SV_RESEND" => p.client \in Player
       \/ /\ p.type = "SV_GAMEDATA"
          /\ p.tic \in Nat /\ p.seq = Byte(p.tic)
          /\ p.cmds \in Seq(Commands) /\ p.tic + Len(p.cmds) <= sendseq[p.client]
          /\ \A i \in 1 .. Len(p.cmds) : Full(p.client, p.cmds[i], p.tic + i - 1)
       \/ p.type = "DISCONNECT" /\ p.client \in Leavers

Packets ==
    /\ IsFiniteSet(net) /\ Cardinality(net) <= MaxNet
    /\ \A p \in net : Packet(p)

\* The rings of the players.
Ring ==
    \A c \in Player :
      /\ \A t \in gametic[c] .. maketic[c] - 1 :
           LET x == ticdata[c][t % BACKUPTICS] IN c \in DOMAIN x /\ x[c] = t
      /\ \A t \in gametic[c] .. recvtic[c] - 1 :
           LET x == ticdata[c][t % BACKUPTICS]
           IN  /\ \A p \in DOMAIN x \ {c} : x[p] = t /\ t < maketic[p]
               /\ \A p \in Player \ {c} : ClientConnected(p) => p \in DOMAIN x

History ==
    /\ \A c \in Client : gametic[c] = FirstTic + Len(ran[c])
    /\ \A c \in Player : InStep(c)

TicInv == /\ LoopTypes /\ WindowTypes /\ Ordered /\ Stored /\ Queued /\ Packets
          /\ Ring /\ History

----------------------------------------------------------------------------
(* Arithmetic of tics and slots                                            *)

LEMMA SlotOf == \A t \in Nat : t % BACKUPTICS \in Slot
BY TicAssumption, DivMod DEF Slot

LEMMA SlotsDiffer ==
  ASSUME NEW t \in Nat, NEW u \in Nat, t < u, u < t + BACKUPTICS
  PROVE  t % BACKUPTICS # u % BACKUPTICS
<1>1. BACKUPTICS \in Nat /\ BACKUPTICS > 1
  BY TicAssumption
<1>2. ASSUME t % BACKUPTICS = u % BACKUPTICS PROVE FALSE
  <2>1. t = u
    BY <1>1, <1>2, SameByte
  <2>. QED
    BY <2>1
<1>. QED
  BY <1>2

\* A byte that is not older than 64 tics is completed to the number it stands
\* for, or to one far behind: never to one to come.
LEMMA ExpandBelow ==
  ASSUME NEW position \in Nat, NEW tic \in Nat, position <= tic + 64,
         NEW e, e = NET_ExpandTicNum(position, Byte(tic))
  PROVE  e \in Int /\ (e = tic \/ e <= tic - 256)
<1>1. PICK q \in Nat, l \in 0 .. 255 : position = 256 * q + l /\ l = position % 256
  BY DivMod
<1>2. PICK p \in Nat, b \in 0 .. 255 : tic = 256 * p + b /\ b = tic % 256
  BY DivMod
<1>3. PICK k \in {-1, 0, 1} :
        /\ e = 256 * (q + k) + b
        /\ k = -1 <=> l < 64 /\ b > 176
        /\ k = 1 <=> l > 176 /\ b < 64
  <2>1. e = position - l + b + (IF l < 64 /\ b > 176 THEN -256 ELSE 0)
                             + (IF l > 176 /\ b < 64 THEN 256 ELSE 0)
    BY <1>1, <1>2 DEF NET_ExpandTicNum, Byte
  <2>. QED
    BY <1>1, <2>1
<1>4. q + k <= p
  <2>1. 256 * q + l <= 256 * p + b + 64
    BY <1>1, <1>2
  <2>. QED
    BY <1>3, <2>1
<1>. QED
  BY <1>2, <1>3, <1>4

LEMMA MinIs ==
  ASSUME NEW S, S \subseteq Int, S # {}, NEW m \in Int, \A y \in S : m <= y
  PROVE  Min(S) \in S /\ \A y \in S : Min(S) <= y
BY LeastInteger DEF Min

LEMMA MaxIs ==
  ASSUME NEW S, S \subseteq Int, S # {}, NEW m \in Int, \A y \in S : y <= m
  PROVE  Max(S) \in S /\ \A y \in S : y <= Max(S)
<1>1. \E x \in S : \A y \in S : x >= y
  BY GreatestInteger
<1>2. Max(S) \in S /\ \A y \in S : Max(S) >= y
  BY <1>1 DEF Max
<1>. QED
  BY <1>2

LEMMA IntervalFinite ==
  ASSUME NEW S, NEW a \in Int, NEW b \in Int, S \subseteq a .. b
  PROVE  IsFiniteSet(S)
BY FS_Interval, FS_Subset

LEMMA ClientFinite == IsFiniteSet(Client) /\ IsFiniteSet(Player) /\ Player \subseteq Nat
<1>1. NET_MAXPLAYERS - 1 \in Int /\ 0 \in Int /\ Player \subseteq 0 .. NET_MAXPLAYERS - 1
  BY TicAssumption
<1>2. IsFiniteSet(Player) /\ Player \subseteq Nat
  <2>1. IsFiniteSet(Player)
    BY <1>1, IntervalFinite
  <2>2. Player \subseteq Nat
    BY <1>1
  <2>. QED
    BY <2>1, <2>2
<1>3. IsFiniteSet(Drone)
  BY TicAssumption
<1>. QED
  BY <1>2, <1>3, FS_Union DEF Client

----------------------------------------------------------------------------
(* The operators of the model                                              *)

LEMMA RequestsIs ==
  ASSUME NEW tics, tics \subseteq Nat, IsFiniteSet(tics), NEW type, NEW c
  PROVE  /\ IsFiniteSet(Requests(type, c, tics))
         /\ \A p \in Requests(type, c, tics) :
              /\ p.type = type /\ p.client = c
              /\ p.start \in Nat /\ p.num_tics \in Nat \ {0}
<1>. DEFINE runs == {r \in tics \X tics : /\ r[1] .. r[2] \subseteq tics /\ r[1] <= r[2]
                                         /\ r[1] - 1 \notin tics /\ r[2] + 1 \notin tics}
            f == [r \in runs |-> Resend(type, c, r[1], r[2])]
            T == Requests(type, c, tics)
<1>1. IsFiniteSet(runs)
  <2>1. IsFiniteSet(tics \X tics)
    BY FS_Product
  <2>. QED
    BY <2>1, FS_Subset
<1>2. \A p \in T : \E r \in runs : p = Resend(type, c, r[1], r[2])
  BY DEF Requests
<1>3. \A r \in runs : Resend(type, c, r[1], r[2]) \in T
  BY DEF Requests
<1>4. f \in Surjection(runs, T)
  BY <1>2, <1>3 DEF Surjection
<1>5. IsFiniteSet(T)
  BY <1>1, <1>4, FS_Surjection
<1>6. ASSUME NEW p \in T
      PROVE  /\ p.type = type /\ p.client = c
             /\ p.start \in Nat /\ p.num_tics \in Nat \ {0}
  <2>1. PICK r \in runs : p = Resend(type, c, r[1], r[2])
    BY <1>2
  <2>2. r[1] \in Nat /\ r[2] \in Nat /\ r[1] <= r[2]
    OBVIOUS
  <2>. QED
    BY <2>1, <2>2 DEF Resend
<1>. QED
  BY <1>5, <1>6

LEMMA StoreIs ==
  ASSUME NEW f, NEW start \in Nat, NEW seq \in Int, NEW cmds,
         Len(cmds) \in Nat
  PROVE  LET w == Store(f, start, seq, cmds)
         IN  \A t \in DOMAIN w :
               \/ /\ t \in seq .. seq + Len(cmds) - 1
                  /\ t \in start .. start + BACKUPTICS - 1
                  /\ w[t] = cmds[t - seq + 1]
               \/ t \in DOMAIN f /\ w[t] = f[t]
<1>. DEFINE stored == {t \in seq .. seq + Len(cmds) - 1 : t - start \in Slot}
<1>1. Store(f, start, seq, cmds) =
        [t \in DOMAIN f \cup stored |-> IF t \in stored THEN cmds[t - seq + 1] ELSE f[t]]
  BY DEF Store
<1>2. Len(cmds) \in Nat /\ BACKUPTICS \in Nat
  BY TicAssumption
<1>3. \A t \in stored : t \in start .. start + BACKUPTICS - 1
  BY <1>2 DEF Slot
<1>. QED
  BY <1>1, <1>3

LEMMA GapIs ==
  ASSUME NEW start \in Nat, NEW seq \in Int, NEW known
  PROVE  Gap(start, seq, known) \subseteq Nat /\ IsFiniteSet(Gap(start, seq, known))
<1>. DEFINE end == IF seq - start >= BACKUPTICS THEN start + BACKUPTICS - 1 ELSE seq
<1>1. end \in Int
  BY TicAssumption
<1>2. Gap(start, seq, known) \subseteq start .. end - 1
  BY DEF Gap
<1>. HIDE DEF end
<1>3. \A t \in start .. end - 1 : t \in Nat
  BY <1>1
<1>. QED
  BY <1>1, <1>2, <1>3, IntervalFinite

----------------------------------------------------------------------------
(* What a step leaves alone                                                *)

\* Positions only grow, and nobody is connected again.
Onward ==
    \A c \in Client :
      /\ maketic[c] \in Nat /\ maketic'[c] \in Nat /\ maketic[c] <= maketic'[c]
      /\ gametic[c] \in Nat /\ gametic'[c] \in Nat /\ gametic[c] <= gametic'[c]
      /\ recvtic[c] \in Nat /\ recvtic'[c] \in Nat /\ recvtic[c] <= recvtic'[c]
      /\ sendseq[c] \in Nat /\ sendseq'[c] \in Nat /\ sendseq[c] <= sendseq'[c]
      /\ status'[c] = "CONNECTED" => status[c] = "CONNECTED"

FullNext(c, x, t) ==
    /\ x \in Commands
    /\ \A p \in DOMAIN x : /\ p # c /\ x[p] = t /\ t < maketic'[p]
                           /\ c \in Player => t < gametic'[c] + BACKUPTICS
    /\ \A p \in Player \ {c} : status'[p] = "CONNECTED" => p \in DOMAIN x

LEMMA Basics ==
  ASSUME LoopTypes, WindowTypes
  PROVE  /\ Player \subseteq Client /\ BACKUPTICS \in Nat /\ BACKUPTICS > 0
         /\ MaxAhead \in Nat /\ 0 < MaxAhead /\ 2 * MaxAhead <= BACKUPTICS
         /\ BACKUPTICS <= 128 /\ FirstTic \in Nat /\ LastTic \in Nat
         /\ recvwindow_start \in Nat
         /\ \A c \in Client : /\ maketic[c] \in Nat /\ gametic[c] \in Nat
                              /\ recvtic[c] \in Nat /\ sendseq[c] \in Nat
                              /\ acknowledged[c] \in Nat
                              /\ FirstTic <= maketic[c] /\ maketic[c] <= LastTic
BY TicAssumption DEF LoopTypes, WindowTypes, Tic, Client

LEMMA OnwardSame ==
  ASSUME LoopTypes, WindowTypes, UNCHANGED <<maketic, gametic, recvtic, sendseq>>,
         \A c \in Client : status'[c] = "CONNECTED" => status[c] = "CONNECTED"
  PROVE  Onward
BY Basics DEF Onward

LEMMA CommandsDomain ==
  ASSUME NEW x \in Commands
  PROVE  DOMAIN x \subseteq Player /\ \A p \in DOMAIN x : x[p] \in Nat
BY DEF Commands

LEMMA FullKeeps ==
  ASSUME Onward, NEW c \in Client, NEW x, NEW t \in Int, Full(c, x, t)
  PROVE  FullNext(c, x, t)
<1>1. x \in Commands /\ DOMAIN x \subseteq Player /\ Player \subseteq Client
  BY CommandsDomain DEF Full, Client
<1>2. ASSUME NEW p \in DOMAIN x
      PROVE  /\ p # c /\ x[p] = t /\ t < maketic'[p]
             /\ c \in Player => t < gametic'[c] + BACKUPTICS
  <2>1. /\ p # c /\ x[p] = t /\ t < maketic[p]
        /\ c \in Player => t < gametic[c] + BACKUPTICS
    BY DEF Full
  <2>2. /\ maketic[p] \in Nat /\ maketic'[p] \in Nat /\ maketic[p] <= maketic'[p]
        /\ gametic[c] \in Nat /\ gametic'[c] \in Nat /\ gametic[c] <= gametic'[c]
        /\ BACKUPTICS \in Nat
    <3>1. p \in Client
      BY <1>1
    <3>2. BACKUPTICS \in Nat
      BY TicAssumption
    <3>. QED
      BY <3>1, <3>2 DEF Onward
  <2>. QED
    BY <2>1, <2>2
<1>3. ASSUME NEW p \in Player \ {c}, status'[p] = "CONNECTED" PROVE p \in DOMAIN x
  BY <1>1, <1>3 DEF Full, ClientConnected, Onward
<1>. QED
  BY <1>1, <1>2, <1>3 DEF FullNext

LEMMA StoredKeeps ==
  ASSUME Stored, Onward, UNCHANGED <<recvwindow_start, recvwindow, recvtic, window>>
  PROVE  Stored'
<1>1. ASSUME NEW p \in Player, NEW t \in DOMAIN recvwindow[p]
      PROVE  /\ t \in recvwindow_start .. recvwindow_start + BACKUPTICS - 1
             /\ recvwindow[p][t] = t /\ t < maketic'[p]
  <2>1. /\ t \in recvwindow_start .. recvwindow_start + BACKUPTICS - 1
        /\ recvwindow[p][t] = t /\ t < maketic[p]
    BY DEF Stored
  <2>2. maketic[p] \in Nat /\ maketic'[p] \in Nat /\ maketic[p] <= maketic'[p]
    BY DEF Onward, Client
  <2>. QED
    BY <2>1, <2>2
<1>2. ASSUME NEW c \in Client, NEW t \in DOMAIN window[c]
      PROVE  /\ t \in recvtic[c] .. recvtic[c] + BACKUPTICS - 1 /\ t < sendseq'[c]
             /\ FullNext(c, window[c][t], t)
  <2>1. /\ t \in recvtic[c] .. recvtic[c] + BACKUPTICS - 1 /\ t < sendseq[c]
        /\ Full(c, window[c][t], t)
    BY DEF Stored
  <2>2. sendseq[c] \in Nat /\ sendseq'[c] \in Nat /\ sendseq[c] <= sendseq'[c] /\ t \in Int
    BY <2>1 DEF Onward
  <2>. QED
    BY <2>1, <2>2, FullKeeps
<1>. QED
  BY <1>1, <1>2 DEF Stored, Full, FullNext, ClientConnected

LEMMA QueuedKeeps ==
  ASSUME Queued, WindowTypes, Onward, UNCHANGED <<sendqueue, sendseq>>
  PROVE  Queued'
<1>1. ASSUME NEW c \in Client, NEW s \in Slot, sendqueue[c][s].seq >= 0
      PROVE  FullNext(c, sendqueue[c][s].cmds, sendqueue[c][s].seq)
  <2>1. sendqueue[c][s].seq \in Int
    BY DEF WindowTypes, FullTiccmds
  <2>. QED
    BY <1>1, <2>1, FullKeeps DEF Queued
<1>. QED
  BY <1>1 DEF Queued, Full, FullNext, ClientConnected

LEMMA PacketKeeps ==
  ASSUME Onward, NEW p, Packet(p) PROVE Packet(p)'
<1>1. p.client \in Client
  BY DEF Packet
<1>2. /\ maketic[p.client] \in Nat /\ maketic'[p.client] \in Nat
      /\ maketic[p.client] <= maketic'[p.client]
      /\ recvtic[p.client] \in Nat /\ recvtic'[p.client] \in Nat
      /\ recvtic[p.client] <= recvtic'[p.client]
      /\ sendseq[p.client] \in Nat /\ sendseq'[p.client] \in Nat
      /\ sendseq[p.client] <= sendseq'[p.client]
  BY <1>1 DEF Onward
<1>3. CASE p.type = "CL_GAMEDATA"
  <2>1. /\ p.client \in Player
        /\ p.tic \in Nat /\ p.seq = Byte(p.tic)
        /\ p.acktic \in Nat /\ p.ack = Byte(p.acktic)
        /\ p.acktic <= recvtic[p.client]
        /\ p.cmds \in Seq(Nat) /\ \A i \in 1 .. Len(p.cmds) : p.cmds[i] = p.tic + i - 1
        /\ p.tic + Len(p.cmds) <= maketic[p.client]
    BY <1>3 DEF Packet
  <2>2. Len(p.cmds) \in Nat
    BY <2>1
  <2>3. p.acktic <= recvtic'[p.client] /\ p.tic + Len(p.cmds) <= maketic'[p.client]
    BY <1>2, <2>1, <2>2
  <2>. QED
    BY <1>1, <1>3, <2>1, <2>3 DEF Packet
<1>4. CASE p.type = "CL_GAMEDATA_ACK"
  <2>1. /\ p.acktic \in Nat /\ p.ack = Byte(p.acktic)
        /\ p.acktic <= recvtic[p.client]
    BY <1>4 DEF Packet
  <2>2. p.acktic <= recvtic'[p.client]
    BY <1>2, <2>1
  <2>. QED
    BY <1>1, <1>4, <2>1, <2>2 DEF Packet
<1>5. CASE p.type = "SV_GAMEDATA"
  <2>1. /\ p.tic \in Nat /\ p.seq = Byte(p.tic)
        /\ p.cmds \in Seq(Commands) /\ p.tic + Len(p.cmds) <= sendseq[p.client]
        /\ \A i \in 1 .. Len(p.cmds) : Full(p.client, p.cmds[i], p.tic + i - 1)
    BY <1>5 DEF Packet
  <2>2. Len(p.cmds) \in Nat
    BY <2>1
  <2>3. p.tic + Len(p.cmds) <= sendseq'[p.client]
    BY <1>2, <2>1, <2>2
  <2>4. \A i \in 1 .. Len(p.cmds) : FullNext(p.client, p.cmds[i], p.tic + i - 1)
    BY <1>1, <2>1, <2>2, FullKeeps
  <2>5. \A i \in 1 .. Len(p.cmds) : Full(p.client, p.cmds[i], p.tic + i - 1)'
    BY <2>4 DEF Full, FullNext, ClientConnected
  <2>. QED
    BY <1>1, <1>5, <2>1, <2>3, <2>5 DEF Packet
<1>6. CASE p.type \in {"CL_RESEND", "SV_RESEND", "DISCONNECT"}
  BY <1>1, <1>6 DEF Packet
<1>. QED
  BY <1>3, <1>4, <1>5, <1>6 DEF Packet

LEMMA RingKeeps ==
  ASSUME Ring, Onward, UNCHANGED <<gametic, maketic, recvtic, ticdata>>
  PROVE  Ring'
BY DEF Ring, Onward, ClientConnected, Client

LEMMA HistoryKeeps ==
  ASSUME History, LoopTypes, Onward, UNCHANGED <<gametic, ran>>
  PROVE  History'
<1>1. \A c \in Client : gametic'[c] = FirstTic + Len(ran'[c])
  BY DEF History
<1>2. ASSUME NEW c \in Player, NEW i \in DOMAIN ran[c], NEW t, t = FirstTic + i - 1
      PROVE  /\ \A p \in Player : p \in DOMAIN ran[c][i] \/ status'[p] # "CONNECTED"
             /\ \A p \in DOMAIN ran[c][i] : ran[c][i][p] = t /\ t < maketic'[p]
  <2>1. /\ \A p \in Player : p \in DOMAIN ran[c][i] \/ ~ClientConnected(p)
        /\ \A p \in DOMAIN ran[c][i] : ran[c][i][p] = t /\ t < maketic[p]
    BY <1>2 DEF History, InStep
  <2>2. ran[c] \in Seq(Commands) /\ c \in Client /\ Player \subseteq Client
    BY DEF LoopTypes, Client
  <2>3. ran[c][i] \in Commands /\ i \in Nat /\ t \in Int
    BY <1>2, <2>2, TicAssumption
  <2>4. ASSUME NEW p \in DOMAIN ran[c][i] PROVE t < maketic'[p]
    <3>1. p \in Client
      BY <2>2, <2>3, CommandsDomain
    <3>. QED
      BY <2>1, <2>3, <3>1 DEF Onward
  <2>. QED
    BY <2>1, <2>2, <2>4 DEF ClientConnected, Onward
<1>. QED
  BY <1>1, <1>2 DEF History, InStep, ClientConnected

\* ps enters the network.
LEMMA NetKeeps ==
  ASSUME Packets, Onward, NEW ps, IsFiniteSet(ps), \A p \in ps : Packet(p)',
         net' \subseteq net \cup ps, Cardinality(net') <= MaxNet
  PROVE  Packets'
<1>1. IsFiniteSet(net')
  <2>1. IsFiniteSet(net \cup ps)
    BY FS_Union DEF Packets
  <2>. QED
    BY <2>1, FS_Subset
<1>2. \A p \in net' : Packet(p)'
  BY PacketKeeps DEF Packets
<1>. QED
  BY <1>1, <1>2 DEF Packets

LEMMA NetDelivered ==
  ASSUME Packets, Onward, NEW p, NEW answers, IsFiniteSet(answers),
         \A q \in answers : Packet(q)', Exchange(p, answers)
  PROVE  Packets'
<1>1. net' \subseteq net \cup answers /\ Cardinality(net') <= MaxNet
  BY DEF Exchange
<1>. QED
  BY <1>1, NetKeeps

LEMMA CommandsIs ==
  ASSUME NEW x, DOMAIN x \subseteq Player, x \in [DOMAIN x -> Nat]
  PROVE  x \in Commands
BY DEF Commands

\* The packet of NET_CL_SendTics.
LEMMA CL_GameDataIs ==
  ASSUME LoopTypes, WindowTypes, NEW c \in Player, NEW start \in Nat, NEW end \in Nat,
         start <= end + 1, end < maketic'[c], maketic'[c] \in Nat,
         recvtic'[c] = recvtic[c], NEW p, p = CL_GameData(c, start, end)
  PROVE  Packet(p)'
<1>. DEFINE n == end - start + 1
            cmds == [i \in 1 .. n |-> start + i - 1]
<1>1. /\ p.type = "CL_GAMEDATA" /\ p.client = c /\ p.tic = start /\ p.seq = Byte(p.tic)
      /\ p.acktic = recvtic[c] /\ p.ack = Byte(p.acktic) /\ p.cmds = cmds
  BY DEF CL_GameData
<1>2. n \in Nat
  OBVIOUS
<1>3. cmds \in Seq(Nat) /\ Len(cmds) = n
  <2>1. \A i \in 1 .. n : start + i - 1 \in Nat
    OBVIOUS
  <2>. QED
    BY <1>2, <2>1
<1>4. \A i \in 1 .. Len(cmds) : cmds[i] = start + i - 1
  BY <1>3
<1>5. start + Len(cmds) <= maketic'[c]
  BY <1>3
<1>6. recvtic[c] \in Nat /\ c \in Client
  BY Basics
<1>. HIDE DEF cmds, n
<1>. QED
  BY <1>1, <1>3, <1>4, <1>5, <1>6 DEF Packet

LEMMA BuildNewTicInv ==
  ASSUME TicInv, NEW c \in Player, BuildNewTic(c) PROVE TicInv'
<1>. DEFINE m == maketic[c]
            x == ticdata[c][m % BACKUPTICS]
            y == [q \in DOMAIN x \cup {c} |-> IF q = c THEN m ELSE x[q]]
<1>1. /\ LoopTypes /\ WindowTypes /\ Ordered /\ Stored /\ Queued /\ Packets
      /\ Ring /\ History
  BY DEF TicInv
<1>2. /\ m - gametic[c] < MaxAhead /\ m < LastTic
      /\ maketic' = [maketic EXCEPT ![c] = m + 1]
      /\ ticdata' = [ticdata EXCEPT ![c][m % BACKUPTICS] = y]
      /\ need_ack' = need_ack \ {c}
      /\ UNCHANGED <<gametic, ran, recvtic, window, requested, serverVars, status, left>>
  BY DEF BuildNewTic, BuiltAhead
<1>3. c \in Client /\ m \in Nat /\ m % BACKUPTICS \in Slot /\ FirstTic <= m /\ m + 1 \in Tic
      /\ LastTic \in Nat /\ FirstTic \in Nat
  BY <1>1, <1>2, Basics, SlotOf DEF Tic
<1>4. /\ maketic'[c] = m + 1
      /\ \A d \in Client : d # c => maketic'[d] = maketic[d]
      /\ maketic' \in [Client -> Tic]
  BY <1>1, <1>2, <1>3 DEF LoopTypes
<1>5. Onward
  BY <1>1, <1>2, <1>3, <1>4, Basics DEF Onward, serverVars
<1>6. y \in Commands
  <2>1. x \in Commands
    BY <1>1, <1>3 DEF LoopTypes
  <2>2. DOMAIN x \subseteq Player /\ \A q \in DOMAIN x : x[q] \in Nat
    BY <2>1, CommandsDomain
  <2>3. DOMAIN y \subseteq Player /\ y \in [DOMAIN y -> Nat]
    BY <1>3, <2>2
  <2>. QED
    BY <2>3, CommandsIs
<1>7. /\ \A d \in Client : d # c => ticdata'[d] = ticdata[d]
      /\ \A s \in Slot : s # m % BACKUPTICS => ticdata'[c][s] = ticdata[c][s]
      /\ ticdata'[c][m % BACKUPTICS] = y
      /\ ticdata' \in [Client -> [Slot -> Commands]]
  <2>. HIDE DEF y
  <2>. QED
    BY <1>1, <1>2, <1>3, <1>6 DEF LoopTypes
<1>8. LoopTypes'
  BY <1>1, <1>2, <1>4, <1>7 DEF LoopTypes
<1>9. WindowTypes'
  BY <1>1, <1>2 DEF WindowTypes, serverVars
<1>10. Ordered'
  <2>1. \A p \in Player : gametic[p] <= maketic'[p] /\ maketic'[p] <= gametic[p] + MaxAhead
    BY <1>1, <1>2, <1>3, <1>4, Basics DEF Ordered
  <2>2. \A p, q \in Player : p # q /\ ClientConnected(p) => sendseq[q] <= maketic'[p]
    BY <1>1, <1>3, <1>4, Basics DEF Ordered
  <2>. QED
    BY <1>1, <1>2, <2>1, <2>2 DEF Ordered, serverVars, ClientConnected
<1>11. Stored' /\ Queued'
  BY <1>1, <1>2, <1>5, StoredKeeps, QueuedKeeps DEF serverVars
<1>12. Packets'
  <2>. DEFINE start == AtLeast(m - ExtraTics, 0)
              ps == {CL_GameData(c, start, m)}
  <2>1. net' = net \cup ps /\ Cardinality(net') <= MaxNet
    BY DEF BuildNewTic, Send
  <2>2. ExtraTics \in Nat
    BY TicAssumption
  <2>3. start \in Nat /\ start <= m + 1
    BY <1>3, <2>2 DEF AtLeast
  <2>4. \A p \in ps : Packet(p)'
    <3>1. m < maketic'[c] /\ maketic'[c] \in Nat /\ recvtic'[c] = recvtic[c]
      BY <1>2, <1>3, <1>4
    <3>. HIDE DEF start, m
    <3>. QED
      BY <1>1, <1>3, <2>3, <3>1, CL_GameDataIs
  <2>5. IsFiniteSet(ps)
    BY FS_Singleton
  <2>. HIDE DEF ps
  <2>. QED
    BY <1>1, <1>5, <2>1, <2>4, <2>5, NetKeeps
\* The slot was free: no tic that is not run yet has it.
<1>13. Ring'
  <2>1. ASSUME NEW d \in Player, NEW t \in gametic[d] .. maketic'[d] - 1
        PROVE  d \in DOMAIN ticdata'[d][t % BACKUPTICS]
               /\ ticdata'[d][t % BACKUPTICS][d] = t
    <3>1. CASE d # c
      BY <1>1, <1>4, <1>7, <2>1, <3>1 DEF Ring, Client
    <3>2. CASE d = c /\ t = m
      BY <1>7, <3>2
    <3>3. CASE d = c /\ t # m
      <4>1. t \in Nat /\ t < m /\ m < t + BACKUPTICS /\ t \in gametic[c] .. m - 1
        BY <1>1, <1>2, <1>3, <1>4, <2>1, <3>3, Basics
      <4>2. t % BACKUPTICS \in Slot /\ t % BACKUPTICS # m % BACKUPTICS
        BY <1>3, <4>1, SlotOf, SlotsDiffer
      <4>. QED
        BY <1>1, <1>7, <3>3, <4>1, <4>2 DEF Ring
    <3>. QED
      BY <3>1, <3>2, <3>3
  <2>2. ASSUME NEW d \in Player, NEW t \in gametic[d] .. recvtic[d] - 1
        PROVE  LET z == ticdata'[d][t % BACKUPTICS]
               IN  /\ \A p \in DOMAIN z \ {d} : z[p] = t /\ t < maketic'[p]
                   /\ \A p \in Player \ {d} : ClientConnected(p) => p \in DOMAIN z
    <3>. DEFINE w == ticdata[d][t % BACKUPTICS]
                z == ticdata'[d][t % BACKUPTICS]
    <3>1. t \in Nat /\ t % BACKUPTICS \in Slot /\ d \in Client
      BY <1>1, Basics, SlotOf
    <3>2. /\ \A p \in DOMAIN w \ {d} : w[p] = t /\ t < maketic[p]
          /\ \A p \in Player \ {d} : ClientConnected(p) => p \in DOMAIN w
      BY <1>1 DEF Ring
    <3>3. DOMAIN w \subseteq DOMAIN z /\ \A p \in DOMAIN z \ {d} : p \in DOMAIN w /\ z[p] = w[p]
      BY <1>7, <3>1
    <3>4. \A p \in DOMAIN w : p \in Client
      <4>1. w \in Commands
        BY <1>1, <3>1 DEF LoopTypes
      <4>. QED
        BY <4>1, CommandsDomain DEF Client
    <3>5. \A p \in DOMAIN w \ {d} : t < maketic'[p]
      BY <1>5, <3>1, <3>2, <3>4 DEF Onward
    <3>. HIDE DEF w, z
    <3>6. /\ \A p \in DOMAIN z \ {d} : z[p] = t /\ t < maketic'[p]
          /\ \A p \in Player \ {d} : ClientConnected(p) => p \in DOMAIN z
      BY <3>2, <3>3, <3>5
    <3>. QED
      BY <3>6 DEF z
  <2>. QED
    BY <1>2, <2>1, <2>2 DEF Ring, ClientConnected
<1>14. History'
  BY <1>1, <1>2, <1>5, HistoryKeeps
<1>. QED
  BY <1>8, <1>9, <1>10, <1>11, <1>12, <1>13, <1>14 DEF TicInv

LEMMA RunTicInv ==
  ASSUME TicInv, NEW c \in Client, RunTic(c) PROVE TicInv'
<1>. DEFINE g == gametic[c]
            x == ticdata[c][g % BACKUPTICS]
<1>1. /\ LoopTypes /\ WindowTypes /\ Ordered /\ Stored /\ Queued /\ Packets
      /\ Ring /\ History
  BY DEF TicInv
<1>2. /\ ran' = [ran EXCEPT ![c] = Append(ran[c], x)]
      /\ gametic' = [gametic EXCEPT ![c] = g + 1]
      /\ UNCHANGED <<maketic, ticdata, clientVars, serverVars, status, left, net, faults>>
  BY DEF RunTic
<1>3. /\ g \in Nat /\ g % BACKUPTICS \in Slot /\ maketic[c] \in Nat /\ recvtic[c] \in Nat
      /\ FirstTic \in Nat
  BY <1>1, Basics, SlotOf
<1>4. g < recvtic[c] /\ (c \in Player => g < maketic[c])
  <2>1. c \in Player => c \notin Drone
    BY TicAssumption
  <2>. QED
    BY <1>3, <2>1 DEF RunTic, GetLowTic
<1>5. /\ gametic'[c] = g + 1
      /\ \A d \in Client : d # c => gametic'[d] = gametic[d]
      /\ gametic' \in [Client -> Nat]
  BY <1>1, <1>2, <1>3 DEF LoopTypes
<1>6. Onward
  <2>1. UNCHANGED <<maketic, recvtic, sendseq, status>>
    BY <1>2 DEF serverVars, clientVars
  <2>2. \A d \in Client : gametic[d] \in Nat /\ gametic'[d] \in Nat /\ gametic[d] <= gametic'[d]
    BY <1>1, <1>3, <1>5, Basics
  <2>. QED
    BY <1>1, <2>1, <2>2, Basics DEF Onward
<1>7. x \in Commands
  BY <1>1, <1>3 DEF LoopTypes
<1>8. /\ ran'[c] = Append(ran[c], x) /\ ran[c] \in Seq(Commands)
      /\ \A d \in Client : d # c => ran'[d] = ran[d]
      /\ ran' \in [Client -> Seq(Commands)]
  <2>. HIDE DEF x
  <2>1. ran[c] \in Seq(Commands) /\ DOMAIN ran = Client
    BY <1>1 DEF LoopTypes
  <2>2. Append(ran[c], x) \in Seq(Commands)
    BY <1>7, <2>1
  <2>. QED
    BY <1>1, <1>2, <2>1, <2>2 DEF LoopTypes
<1>9. LoopTypes'
  BY <1>1, <1>2, <1>5, <1>8 DEF LoopTypes
<1>10. WindowTypes'
  BY <1>1, <1>2 DEF WindowTypes, serverVars, clientVars
<1>11. Ordered'
  <2>1. \A d \in Client : gametic'[d] <= recvtic[d]
    BY <1>1, <1>3, <1>4, <1>5, Basics DEF Ordered
  <2>2. \A p \in Player : gametic'[p] <= maketic[p] /\ maketic[p] <= gametic'[p] + MaxAhead
    BY <1>1, <1>3, <1>4, <1>5, Basics DEF Ordered
  <2>. QED
    BY <1>1, <1>2, <2>1, <2>2 DEF Ordered, serverVars, clientVars, ClientConnected
<1>12. Stored' /\ Queued'
  BY <1>1, <1>2, <1>6, StoredKeeps, QueuedKeeps DEF serverVars, clientVars
<1>13. Packets'
  BY <1>1, <1>2, <1>6, PacketKeeps DEF Packets
<1>14. Ring'
  <2>1. \A d \in Player : \A t \in Int : gametic'[d] <= t => gametic[d] <= t
    BY <1>6, <1>1, Basics DEF Onward
  <2>2. \A d \in Player : gametic[d] \in Nat /\ gametic'[d] \in Nat
    BY <1>6, <1>1, Basics DEF Onward
  <2>3. \A d \in Player : /\ maketic[d] \in Nat /\ recvtic[d] \in Nat
                          /\ gametic'[d] .. maketic[d] - 1 \subseteq gametic[d] .. maketic[d] - 1
                          /\ gametic'[d] .. recvtic[d] - 1 \subseteq gametic[d] .. recvtic[d] - 1
    BY <2>1, <2>2, <1>1, Basics
  <2>4. UNCHANGED <<maketic, ticdata, recvtic, status>>
    BY <1>2 DEF clientVars
  <2>. QED
    BY <1>1, <2>3, <2>4 DEF Ring, ClientConnected
<1>15. History'
  <2>1. \A d \in Client : gametic'[d] = FirstTic + Len(ran'[d])
    <3>1. gametic'[c] = FirstTic + Len(ran'[c])
      BY <1>1, <1>3, <1>5, <1>8 DEF History
    <3>. QED
      BY <1>1, <1>5, <1>8, <3>1 DEF History
  <2>2. ASSUME NEW d \in Player, NEW i \in DOMAIN ran'[d], NEW t, t = FirstTic + i - 1
        PROVE  /\ \A p \in Player : p \in DOMAIN ran'[d][i] \/ ~ClientConnected(p)
               /\ \A p \in DOMAIN ran'[d][i] : ran'[d][i][p] = t /\ t < maketic[p]
    <3>0. d \in Client
      BY <1>1, Basics
    <3>1. CASE d # c \/ i \in DOMAIN ran[c]
      <4>1. i \in DOMAIN ran[d] /\ ran'[d][i] = ran[d][i]
        BY <1>8, <2>2, <3>0, <3>1
      <4>. QED
        BY <1>1, <2>2, <4>1 DEF History, InStep
    <3>2. CASE d = c /\ i \notin DOMAIN ran[c]
      <4>1. i = Len(ran[c]) + 1 /\ ran'[c][i] = x
        BY <1>8, <2>2, <3>2
      <4>2. t = g
        BY <1>1, <1>3, <1>8, <2>2, <3>0, <4>1 DEF History
      <4>3. t \in g .. recvtic[c] - 1 /\ t \in g .. maketic[c] - 1 /\ c \in Player
        BY <1>3, <1>4, <3>2, <4>2
      <4>4. /\ c \in DOMAIN x /\ x[c] = t
            /\ \A p \in DOMAIN x \ {c} : x[p] = t /\ t < maketic[p]
            /\ \A p \in Player \ {c} : ClientConnected(p) => p \in DOMAIN x
        BY <1>1, <4>2, <4>3 DEF Ring
      <4>5. t < maketic[c]
        BY <1>4, <4>2, <4>3
      <4>. HIDE DEF x
      <4>. QED
        BY <3>2, <4>1, <4>4, <4>5
    <3>. QED
      BY <3>1, <3>2
  <2>3. UNCHANGED <<maketic, status>>
    BY <1>2
  <2>. QED
    BY <2>1, <2>2, <2>3 DEF History, InStep, ClientConnected
<1>. QED
  BY <1>9, <1>10, <1>11, <1>12, <1>13, <1>14, <1>15 DEF TicInv

\* A step that changes no window, ring or position.
LEMMA StillInv ==
  ASSUME TicInv, UNCHANGED <<loopVars, clientVars, serverVars>>, left' \subseteq Client,
         status' \in [Client -> {"CONNECTED", "SLEEP", "GONE"}],
         \A c \in Client : status'[c] = "CONNECTED" => status[c] = "CONNECTED",
         NEW ps, IsFiniteSet(ps), \A p \in ps : Packet(p),
         net' \subseteq net \cup ps, Cardinality(net') <= MaxNet
  PROVE  TicInv'
<1>1. /\ LoopTypes /\ WindowTypes /\ Ordered /\ Stored /\ Queued /\ Packets
      /\ Ring /\ History
  BY DEF TicInv
<1>2. Onward
  BY <1>1, OnwardSame DEF loopVars, clientVars, serverVars
<1>3. LoopTypes'
  BY <1>1 DEF LoopTypes, loopVars
<1>4. WindowTypes'
  BY <1>1 DEF WindowTypes, clientVars, serverVars
<1>5. Ordered'
  <2>1. Player \subseteq Client
    BY DEF Client
  <2>. QED
    BY <1>1, <2>1 DEF Ordered, loopVars, clientVars, serverVars, ClientConnected
<1>6. Stored' /\ Queued'
  BY <1>1, <1>2, StoredKeeps, QueuedKeeps DEF clientVars, serverVars
<1>7. Packets'
  <2>1. \A p \in ps : Packet(p)'
    BY <1>2, PacketKeeps
  <2>. QED
    BY <1>1, <1>2, <2>1, NetKeeps
<1>8. Ring'
  BY <1>1, <1>2, RingKeeps DEF loopVars, clientVars
<1>9. History'
  BY <1>1, <1>2, HistoryKeeps DEF loopVars
<1>. QED
  BY <1>3, <1>4, <1>5, <1>6, <1>7, <1>8, <1>9 DEF TicInv

LEMMA ExchangeIs ==
  ASSUME NEW p, NEW answers, Exchange(p, answers)
  PROVE  net' \subseteq net \cup answers /\ Cardinality(net') <= MaxNet
BY DEF Exchange

LEMMA StatusIs ==
  ASSUME TicInv
  PROVE  status \in [Client -> {"CONNECTED", "SLEEP", "GONE"}] /\ left \subseteq Client
BY DEF TicInv, LoopTypes

LEMMA QuitInv ==
  ASSUME TicInv, NEW c \in Client, Quit(c) PROVE TicInv'
<1>. DEFINE p == [type |-> "DISCONNECT", client |-> c]
<1>1. Packet(p) /\ IsFiniteSet({p})
  BY FS_Singleton DEF Packet, Quit
<1>2. UNCHANGED <<loopVars, clientVars, serverVars>> /\ status' = status
  BY DEF Quit
<1>3. left' \subseteq Client
  BY StatusIs DEF Quit
<1>4. net' \subseteq net \cup {p} /\ Cardinality(net') <= MaxNet
  BY DEF Quit, Send
<1>. QED
  BY <1>1, <1>2, <1>3, <1>4, StatusIs, StillInv

LEMMA FreeInv ==
  ASSUME TicInv, NEW c \in Client, Free(c) PROVE TicInv'
<1>1. UNCHANGED <<loopVars, clientVars, serverVars, left, net>>
  BY DEF Free
<1>2. status' = [status EXCEPT ![c] = "GONE"]
  BY DEF Free
<1>3. Cardinality(net') <= MaxNet
  BY <1>1 DEF TicInv, Packets
<1>4. status' \in [Client -> {"CONNECTED", "SLEEP", "GONE"}]
  BY <1>2, StatusIs
<1>5. \A d \in Client : status'[d] = "CONNECTED" => status[d] = "CONNECTED"
  BY <1>2, StatusIs
<1>6. IsFiniteSet({}) /\ net' \subseteq net \cup {} /\ left' \subseteq Client
  BY <1>1, FS_EmptySet, StatusIs
<1>. QED
  BY <1>1, <1>3, <1>4, <1>5, <1>6, StillInv

LEMMA LoseInv ==
  ASSUME TicInv, NEW p \in net, Lose(p) PROVE TicInv'
<1>1. UNCHANGED <<loopVars, clientVars, serverVars, status, left>> /\ net' = net \ {p}
  BY DEF Lose
<1>2. Cardinality(net') <= MaxNet
  <2>1. IsFiniteSet(net) /\ Cardinality(net) <= MaxNet
    BY DEF TicInv, Packets
  <2>2. Cardinality(net') <= Cardinality(net) /\ Cardinality(net') \in Nat /\ Cardinality(net) \in Nat
    <3>1. net' \subseteq net
      BY <1>1
    <3>2. IsFiniteSet(net')
      BY <2>1, <3>1, FS_Subset
    <3>. QED
      BY <2>1, <3>1, <3>2, FS_Subset, FS_CardinalityType
  <2>3. MaxNet \in Nat
    BY TicAssumption
  <2>. QED
    BY <2>1, <2>2, <2>3
<1>3. IsFiniteSet({}) /\ net' \subseteq net \cup {} /\ left' \subseteq Client
  BY <1>1, FS_EmptySet, StatusIs
<1>. QED
  BY <1>1, <1>2, <1>3, StatusIs, StillInv

----------------------------------------------------------------------------
(* The server receives                                                     *)

\* The positions of the server's windows and queues stay; recvwindow and
\* acknowledged may have grown.
LEMMA ServerReceives ==
  ASSUME TicInv, NEW c \in Client, NEW a \in Int, a <= recvtic[c],
         UNCHANGED <<loopVars, clientVars, left, status, recvwindow_start, sendseq, sendqueue>>,
         acknowledged' = [acknowledged EXCEPT ![c] = AtLeast(acknowledged[c], a)],
         DOMAIN recvwindow' = Player,
         \A p \in Player : \A t \in DOMAIN recvwindow'[p] :
            /\ t \in recvwindow_start .. recvwindow_start + BACKUPTICS - 1
            /\ recvwindow'[p][t] = t /\ t < maketic[p],
         sv_requested' \in [Player -> SUBSET Nat],
         \A p \in Player : IsFiniteSet(sv_requested'[p]),
         Packets'
  PROVE  TicInv'
<1>1. /\ LoopTypes /\ WindowTypes /\ Ordered /\ Stored /\ Queued /\ Packets
      /\ Ring /\ History
  BY DEF TicInv
<1>2. Onward
  BY <1>1, OnwardSame DEF loopVars, clientVars, serverVars
<1>3. LoopTypes'
  BY <1>1 DEF LoopTypes, loopVars
<1>4. /\ acknowledged[c] \in Nat /\ acknowledged[c] <= recvtic[c] /\ recvtic[c] \in Nat
      /\ ClientConnected(c) => recvwindow_start <= acknowledged[c]
      /\ recvwindow_start \in Nat
  BY <1>1, Basics DEF Ordered
<1>5. /\ acknowledged'[c] \in Nat /\ acknowledged'[c] <= recvtic[c]
      /\ ClientConnected(c) => recvwindow_start <= acknowledged'[c]
      /\ acknowledged' \in [Client -> Nat]
      /\ \A d \in Client : d # c => acknowledged'[d] = acknowledged[d]
  <2>1. AtLeast(acknowledged[c], a) \in Nat /\ acknowledged[c] <= AtLeast(acknowledged[c], a)
        /\ AtLeast(acknowledged[c], a) <= recvtic[c]
    BY <1>4 DEF AtLeast
  <2>2. /\ acknowledged'[c] = AtLeast(acknowledged[c], a)
        /\ acknowledged' \in [Client -> Nat]
        /\ \A d \in Client : d # c => acknowledged'[d] = acknowledged[d]
    <3>1. acknowledged \in [Client -> Nat]
      BY <1>1 DEF WindowTypes
    <3>. QED
      BY <2>1, <3>1
  <2>3. ClientConnected(c) => recvwindow_start <= acknowledged'[c]
    BY <1>4, <2>1, <2>2
  <2>. QED
    BY <2>1, <2>2, <2>3
<1>6. WindowTypes'
  BY <1>1, <1>5 DEF WindowTypes, clientVars
<1>7. Ordered'
  <2>1. \A d \in Client : /\ acknowledged'[d] <= recvtic[d]
                          /\ ClientConnected(d) => recvwindow_start <= acknowledged'[d]
    BY <1>1, <1>5 DEF Ordered
  <2>2. UNCHANGED <<maketic, gametic, recvtic, sendseq, recvwindow_start, status>>
    BY DEF loopVars, clientVars
  <2>. QED
    BY <1>1, <2>1, <2>2 DEF Ordered, ClientConnected
<1>8. Stored'
  <2>1. UNCHANGED <<maketic, gametic, recvtic, sendseq, recvwindow_start, status, window>>
    BY DEF loopVars, clientVars
  <2>. QED
    BY <1>1, <2>1 DEF Stored, Full, ClientConnected
<1>9. Queued'
  BY <1>1, <1>2, QueuedKeeps
<1>10. Ring'
  BY <1>1, <1>2, RingKeeps DEF loopVars, clientVars
<1>11. History'
  BY <1>1, <1>2, HistoryKeeps DEF loopVars
<1>. QED
  BY <1>3, <1>6, <1>7, <1>8, <1>9, <1>10, <1>11 DEF TicInv

\* What an acknowledgement is taken for.
LEMMA AckIs ==
  ASSUME TicInv, NEW c \in Client, NEW p, Packet(p), p.client = c,
         p.type \in {"CL_GAMEDATA", "CL_GAMEDATA_ACK"}, Fresh(p, recvwindow_start)
  PROVE  SV_Expand(p.ack) \in Int /\ SV_Expand(p.ack) <= recvtic[c]
<1>1. p.acktic \in Nat /\ p.ack = Byte(p.acktic) /\ p.acktic <= recvtic[c]
  BY DEF Packet
<1>2. recvwindow_start \in Nat /\ recvtic[c] \in Nat
  BY Basics DEF TicInv
<1>3. recvwindow_start <= p.acktic + 64
  BY DEF Fresh
<1>4. /\ SV_Expand(p.ack) \in Int
      /\ SV_Expand(p.ack) = p.acktic \/ SV_Expand(p.ack) <= p.acktic - 256
  BY <1>1, <1>2, <1>3, ExpandBelow DEF SV_Expand
<1>. QED
  BY <1>1, <1>2, <1>4

\* The server is at most two windows behind what a player builds, so a tic
\* number taken for 256 less than it is stores nothing.
LEMMA ServerNear ==
  ASSUME TicInv, NEW c \in Player
  PROVE  maketic[c] <= recvwindow_start + 192 /\ maketic[c] \in Nat /\ recvwindow_start \in Nat
<1>1. LoopTypes /\ WindowTypes /\ Ordered /\ c \in Client
  BY DEF TicInv, Client
<1>2. /\ maketic[c] \in Nat /\ gametic[c] \in Nat /\ recvtic[c] \in Nat /\ sendseq[c] \in Nat
      /\ recvwindow_start \in Nat /\ BACKUPTICS \in Nat /\ MaxAhead \in Nat
      /\ BACKUPTICS <= 128 /\ 2 * MaxAhead <= BACKUPTICS
  BY <1>1, Basics
<1>3. /\ maketic[c] <= gametic[c] + MaxAhead /\ gametic[c] <= recvtic[c]
      /\ recvtic[c] <= sendseq[c] /\ sendseq[c] <= recvwindow_start + BACKUPTICS
  BY <1>1 DEF Ordered
<1>. QED
  BY <1>2, <1>3

LEMMA SV_ParseGameDataInv ==
  ASSUME TicInv, NEW c \in Client, NEW p \in net, p.client = c, Fresh(p, recvwindow_start),
         SV_ParseGameData(c, p), UNCHANGED <<loopVars, clientVars, left>>
  PROVE  TicInv'
<1>. DEFINE seq == SV_Expand(p.seq)
            w == Store(recvwindow[c], recvwindow_start, seq, p.cmds)
            gap == Gap(recvwindow_start, seq, DOMAIN w \cup sv_requested[c])
            a == SV_Expand(p.ack)
<1>1. /\ LoopTypes /\ WindowTypes /\ Ordered /\ Stored /\ Queued /\ Packets
      /\ Ring /\ History
  BY DEF TicInv
<1>2. /\ p.type = "CL_GAMEDATA" /\ c \in Player
      /\ p.tic \in Nat /\ p.seq = Byte(p.tic)
      /\ p.cmds \in Seq(Nat) /\ \A i \in 1 .. Len(p.cmds) : p.cmds[i] = p.tic + i - 1
      /\ p.tic + Len(p.cmds) <= maketic[c]
      /\ Packet(p)
  BY <1>1 DEF Packets, Packet, SV_ParseGameData
<1>3. /\ recvwindow' = [recvwindow EXCEPT ![c] = w]
      /\ sv_requested' = [sv_requested EXCEPT ![c] = (sv_requested[c] \cup gap) \ DOMAIN w]
      /\ Exchange(p, Requests("SV_RESEND", c, gap))
      /\ acknowledged' = [acknowledged EXCEPT ![c] = AtLeast(acknowledged[c], a)]
      /\ UNCHANGED <<recvwindow_start, sendseq, sendqueue, status>>
  BY DEF SV_ParseGameData
<1>4. a \in Int /\ a <= recvtic[c]
  BY <1>2, AckIs
<1>5. seq \in Int /\ (seq = p.tic \/ seq <= p.tic - 256) /\ recvwindow_start \in Nat
  <2>1. recvwindow_start <= p.tic + 64
    BY <1>2 DEF Fresh
  <2>2. recvwindow_start \in Nat
    BY <1>1, Basics
  <2>3. PICK position \in Nat, tic \in Nat : position = recvwindow_start /\ tic = p.tic
    BY <1>2, <2>2
  <2>4. PICK e : e = NET_ExpandTicNum(position, Byte(tic))
    OBVIOUS
  <2>5. position <= tic + 64
    BY <2>1, <2>3
  <2>6. e \in Int /\ (e = tic \/ e <= tic - 256)
    BY ONLY <2>4, <2>5, ExpandBelow
  <2>7. seq = e
    BY <1>2, <2>3, <2>4 DEF SV_Expand
  <2>. HIDE DEF seq
  <2>. QED
    BY <2>2, <2>3, <2>6, <2>7
<1>6. ASSUME NEW t \in DOMAIN w
      PROVE  /\ t \in recvwindow_start .. recvwindow_start + BACKUPTICS - 1
             /\ w[t] = t /\ t < maketic[c]
  <2>1. CASE /\ t \in seq .. seq + Len(p.cmds) - 1
             /\ t \in recvwindow_start .. recvwindow_start + BACKUPTICS - 1
             /\ w[t] = p.cmds[t - seq + 1]
    <3>1. Len(p.cmds) \in Nat /\ t \in Int
      BY <1>2, <1>5, <2>1
    <3>2. maketic[c] <= recvwindow_start + 192 /\ maketic[c] \in Nat /\ recvwindow_start \in Nat
      BY <1>2, ServerNear
    <3>3. recvwindow_start <= t /\ seq <= t /\ t <= seq + Len(p.cmds) - 1
      BY <1>5, <2>1, <3>1, Basics, <1>1
    <3>4. seq = p.tic
      <4>1. PICK n \in Nat, k \in Int, tic \in Nat : n = Len(p.cmds) /\ k = seq /\ tic = p.tic
        BY <1>2, <1>5, <3>1
      <4>2. tic + n <= maketic[c]
        BY <1>2, <4>1
      <4>3. recvwindow_start <= t /\ t <= k + n - 1
        BY <3>3, <4>1
      <4>4. ~(k <= tic - 256)
        BY ONLY <3>1, <3>2, <4>2, <4>3
      <4>. QED
        BY <1>5, <4>1, <4>4
    <3>5. t - seq + 1 \in 1 .. Len(p.cmds)
      BY <1>5, <3>1, <3>3
    <3>6. p.cmds[t - seq + 1] = p.tic + (t - seq + 1) - 1
      BY <1>2, <3>5
    <3>7. w[t] = t
      BY <1>2, <2>1, <3>1, <3>4, <3>6
    <3>8. t < maketic[c]
      BY <1>2, <3>1, <3>2, <3>3, <3>4
    <3>. QED
      BY <2>1, <3>7, <3>8
  <2>2. CASE t \in DOMAIN recvwindow[c] /\ w[t] = recvwindow[c][t]
    BY <1>1, <1>2, <2>2 DEF Stored
  <2>3. Len(p.cmds) \in Nat
    BY <1>2
  <2>. QED
    BY <1>2, <1>5, <2>1, <2>2, <2>3, StoreIs
<1>7. gap \subseteq Nat /\ IsFiniteSet(gap)
  BY <1>5, GapIs
<1>8. Packets'
  <2>1. Onward
    BY <1>1, <1>3, OnwardSame DEF loopVars, clientVars
  <2>2. /\ IsFiniteSet(Requests("SV_RESEND", c, gap))
        /\ \A q \in Requests("SV_RESEND", c, gap) : Packet(q)'
    <3>. HIDE DEF gap
    <3>1. /\ IsFiniteSet(Requests("SV_RESEND", c, gap))
          /\ \A q \in Requests("SV_RESEND", c, gap) :
               /\ q.type = "SV_RESEND" /\ q.client = c
               /\ q.start \in Nat /\ q.num_tics \in Nat \ {0}
      BY ONLY <1>7, RequestsIs
    <3>. QED
      BY <1>2, <3>1 DEF Packet
  <2>. QED
    BY <1>1, <1>3, <2>1, <2>2, NetDelivered
<1>. HIDE DEF w, gap, a, seq
<1>9. /\ DOMAIN recvwindow' = Player
      /\ \A q \in Player : \A t \in DOMAIN recvwindow'[q] :
            /\ t \in recvwindow_start .. recvwindow_start + BACKUPTICS - 1
            /\ recvwindow'[q][t] = t /\ t < maketic[q]
  <2>1. DOMAIN recvwindow = Player
    BY <1>1 DEF WindowTypes
  <2>2. recvwindow'[c] = w /\ \A q \in Player : q # c => recvwindow'[q] = recvwindow[q]
    BY <1>2, <1>3, <2>1
  <2>. QED
    BY <1>1, <1>2, <1>3, <1>6, <2>1, <2>2 DEF Stored
<1>10. /\ sv_requested' \in [Player -> SUBSET Nat]
       /\ \A q \in Player : IsFiniteSet(sv_requested'[q])
  <2>. DEFINE r == (sv_requested[c] \cup gap) \ DOMAIN w
  <2>1. r \subseteq Nat /\ IsFiniteSet(r)
    <3>1. sv_requested[c] \subseteq Nat /\ IsFiniteSet(sv_requested[c])
      BY <1>1, <1>2 DEF WindowTypes
    <3>2. IsFiniteSet(sv_requested[c] \cup gap)
      BY <1>7, <3>1, FS_Union
    <3>3. IsFiniteSet(r)
      BY <3>2, FS_Subset
    <3>. QED
      BY <1>7, <3>1, <3>3
  <2>. HIDE DEF r
  <2>. QED
    BY <1>1, <1>2, <1>3, <2>1 DEF WindowTypes, r
<1>. QED
  BY <1>3, <1>4, <1>8, <1>9, <1>10, ServerReceives

LEMMA SV_ParseGameDataACKInv ==
  ASSUME TicInv, NEW c \in Client, NEW p \in net, p.client = c, Fresh(p, recvwindow_start),
         SV_ParseGameDataACK(c, p), UNCHANGED <<loopVars, clientVars, left>>
  PROVE  TicInv'
<1>. DEFINE a == SV_Expand(p.ack)
<1>1. LoopTypes /\ WindowTypes /\ Stored /\ Packets
  BY DEF TicInv
<1>2. /\ p.type = "CL_GAMEDATA_ACK" /\ Exchange(p, {})
      /\ acknowledged' = [acknowledged EXCEPT ![c] = AtLeast(acknowledged[c], a)]
      /\ UNCHANGED <<recvwindow_start, recvwindow, sv_requested, sendseq, sendqueue, status>>
  BY DEF SV_ParseGameDataACK
<1>3. a \in Int /\ a <= recvtic[c]
  BY <1>1, <1>2, AckIs DEF Packets
<1>4. Packets'
  <2>1. Onward
    BY <1>1, <1>2, OnwardSame DEF loopVars, clientVars
  <2>. QED
    BY <1>1, <1>2, <2>1, NetDelivered, FS_EmptySet
<1>. HIDE DEF a
<1>5. /\ DOMAIN recvwindow' = Player
      /\ \A q \in Player : \A t \in DOMAIN recvwindow'[q] :
            /\ t \in recvwindow_start .. recvwindow_start + BACKUPTICS - 1
            /\ recvwindow'[q][t] = t /\ t < maketic[q]
      /\ sv_requested' \in [Player -> SUBSET Nat]
      /\ \A q \in Player : IsFiniteSet(sv_requested'[q])
  BY <1>1, <1>2 DEF Stored, WindowTypes
<1>. QED
  BY <1>2, <1>3, <1>4, <1>5, ServerReceives

\* The packet of NET_SV_SendTics, for any queue.
LEMMA SV_GameDataIs ==
  ASSUME NEW c, NEW queue \in [Slot -> FullTiccmds], NEW start \in Nat, NEW end \in Nat,
         start <= end + 1
  PROVE  LET p == SV_GameData(c, queue, start, end)
         IN  /\ p.type = "SV_GAMEDATA" /\ p.client = c /\ p.tic = start /\ p.seq = Byte(start)
             /\ p.cmds \in Seq(Commands) /\ Len(p.cmds) = end - start + 1
             /\ \A i \in 1 .. Len(p.cmds) :
                  p.cmds[i] = queue[(start + i - 1) % BACKUPTICS].cmds
<1>. DEFINE p == SV_GameData(c, queue, start, end)
            n == end - start + 1
            cmds == [i \in 1 .. n |-> queue[(start + i - 1) % BACKUPTICS].cmds]
<1>1. /\ p.type = "SV_GAMEDATA" /\ p.client = c /\ p.tic = start /\ p.seq = Byte(start)
      /\ p.cmds = cmds
  BY DEF SV_GameData
<1>2. \A i \in 1 .. n : queue[(start + i - 1) % BACKUPTICS].cmds \in Commands
  <2>1. \A i \in 1 .. n : start + i - 1 \in Nat
    OBVIOUS
  <2>2. \A i \in 1 .. n : (start + i - 1) % BACKUPTICS \in Slot
    BY <2>1, SlotOf
  <2>. QED
    BY <2>2 DEF FullTiccmds
<1>3. n \in Nat
  OBVIOUS
<1>4. cmds \in Seq(Commands) /\ Len(cmds) = n
  <2>. HIDE DEF n
  <2>. QED
    BY <1>2, <1>3
<1>. QED
  BY <1>1, <1>4

LEMMA SV_ParseResendRequestInv ==
  ASSUME TicInv, NEW c \in Client, NEW p \in net, p.client = c,
         SV_ParseResendRequest(c, p), UNCHANGED <<loopVars, clientVars, left>>
  PROVE  TicInv'
<1>. DEFINE last == p.start + p.num_tics - 1
            queue == sendqueue[c]
            reply == SV_GameData(c, queue, p.start, last)
<1>1. LoopTypes /\ WindowTypes /\ Queued /\ Packets
  BY DEF TicInv
<1>2. /\ p.type = "CL_RESEND" /\ UNCHANGED <<serverVars, status>>
      /\ p.start \in Nat /\ p.num_tics \in Nat \ {0}
  BY <1>1 DEF SV_ParseResendRequest, Packets, Packet
<1>3. CASE Exchange(p, {})
  <2>1. net' \subseteq net \cup {} /\ Cardinality(net') <= MaxNet
    BY <1>3, ExchangeIs
  <2>2. left' \subseteq Client /\ status' = status
    BY <1>2, StatusIs
  <2>. QED
    BY <1>2, <2>1, <2>2, FS_EmptySet, StatusIs, StillInv
<1>4. CASE /\ \A t \in p.start .. last : sendqueue[c][t % BACKUPTICS].seq = t
           /\ Exchange(p, {reply})
  <2>1. last \in Nat /\ p.start <= last + 1 /\ p.start <= last
    BY <1>2
  <2>2. queue \in [Slot -> FullTiccmds] /\ sendseq[c] \in Nat
    BY <1>1 DEF WindowTypes
  <2>. HIDE DEF last, queue
  <2>0. PICK r : r = SV_GameData(c, queue, p.start, last)
    OBVIOUS
  <2>3. /\ r.type = "SV_GAMEDATA" /\ r.client = c /\ r.tic = p.start
        /\ r.seq = Byte(p.start)
        /\ r.cmds \in Seq(Commands) /\ Len(r.cmds) = last - p.start + 1
        /\ \A i \in 1 .. Len(r.cmds) :
             r.cmds[i] = queue[(p.start + i - 1) % BACKUPTICS].cmds
    <3>1. PICK start \in Nat, end \in Nat, sq \in [Slot -> FullTiccmds] :
              start = p.start /\ end = last /\ start <= end + 1 /\ sq = queue
      BY <1>2, <2>1, <2>2
    <3>6. start <= end + 1
      BY <3>1
    <3>. DEFINE g == SV_GameData(c, sq, start, end)
    <3>2. /\ g.type = "SV_GAMEDATA" /\ g.client = c /\ g.tic = start
          /\ g.seq = Byte(start) /\ g.cmds \in Seq(Commands)
      BY ONLY <3>6, SV_GameDataIs
    <3>3. Len(g.cmds) = end - start + 1
      BY ONLY <3>6, SV_GameDataIs
    <3>4. \A i \in 1 .. Len(g.cmds) :
            g.cmds[i] = sq[(start + i - 1) % BACKUPTICS].cmds
      BY ONLY <3>6, SV_GameDataIs
    <3>5. r = g
      BY <2>0, <3>1
    <3>. HIDE DEF g
    <3>. QED
      BY <3>1, <3>2, <3>3, <3>4, <3>5
  <2>4. ASSUME NEW i \in 1 .. Len(r.cmds)
        PROVE  Full(c, r.cmds[i], p.start + i - 1)
    <3>. DEFINE t == p.start + i - 1
    <3>1. t \in Nat /\ t \in p.start .. last
      BY <1>2, <2>1, <2>3, <2>4
    <3>2. queue[t % BACKUPTICS].seq = t /\ t % BACKUPTICS \in Slot
      BY <1>4, <3>1, SlotOf DEF queue
    <3>3. Full(c, queue[t % BACKUPTICS].cmds, t)
      BY <1>1, <3>1, <3>2 DEF Queued, queue
    <3>. QED
      BY <2>3, <3>3
  <2>5. p.start + Len(r.cmds) <= sendseq[c]
    <3>1. last % BACKUPTICS \in Slot /\ queue[last % BACKUPTICS].seq = last
      BY <1>2, <1>4, <2>1, SlotOf DEF queue
    <3>2. last < sendseq[c]
      BY <1>1, <3>1 DEF Queued, queue
    <3>. QED
      BY <1>2, <2>1, <2>2, <2>3, <3>2
  <2>6. Packet(r)
    BY <1>2, <2>3, <2>4, <2>5 DEF Packet
  <2>7. IsFiniteSet({r})
    BY FS_Singleton
  <2>8. net' \subseteq net \cup {r} /\ Cardinality(net') <= MaxNet
    BY <1>4, <2>0, ExchangeIs DEF queue
  <2>9. left' \subseteq Client /\ status' = status
    BY <1>2, StatusIs
  <2>. QED
    BY <1>2, <2>6, <2>7, <2>8, <2>9, StatusIs, StillInv
<1>. QED
  BY <1>3, <1>4 DEF SV_ParseResendRequest

LEMMA SV_ParseDisconnectInv ==
  ASSUME TicInv, NEW c \in Client, NEW p \in net,
         SV_ParseDisconnect(c, p), UNCHANGED <<loopVars, clientVars, left>>
  PROVE  TicInv'
<1>1. status' = [status EXCEPT ![c] = "SLEEP"] /\ UNCHANGED serverVars
  BY DEF SV_ParseDisconnect
<1>2. /\ status' \in [Client -> {"CONNECTED", "SLEEP", "GONE"}] /\ left' \subseteq Client
      /\ \A d \in Client : status'[d] = "CONNECTED" => status[d] = "CONNECTED"
  BY <1>1, StatusIs
<1>3. net' \subseteq net \cup {} /\ Cardinality(net') <= MaxNet
  BY ExchangeIs DEF SV_ParseDisconnect
<1>. QED
  BY <1>1, <1>2, <1>3, FS_EmptySet, StillInv

LEMMA SV_PacketInv ==
  ASSUME TicInv, NEW c \in Client, NEW p \in net, SV_Packet(c, p) PROVE TicInv'
<1>1. /\ p.client = c /\ Fresh(p, recvwindow_start)
      /\ UNCHANGED <<loopVars, clientVars, left>>
  BY DEF SV_Packet
<1>2. CASE Exchange(p, {}) /\ UNCHANGED <<serverVars, status>>
  <2>1. net' \subseteq net \cup {} /\ Cardinality(net') <= MaxNet
    BY <1>2, ExchangeIs
  <2>2. left' \subseteq Client /\ status' = status
    BY <1>1, <1>2, StatusIs
  <2>. QED
    BY <1>1, <1>2, <2>1, <2>2, FS_EmptySet, StatusIs, StillInv
<1>3. CASE SV_ParseGameData(c, p)
  BY <1>1, <1>3, SV_ParseGameDataInv
<1>4. CASE SV_ParseGameDataACK(c, p)
  BY <1>1, <1>4, SV_ParseGameDataACKInv
<1>5. CASE SV_ParseResendRequest(c, p)
  BY <1>1, <1>5, SV_ParseResendRequestInv
<1>6. CASE SV_ParseDisconnect(c, p)
  BY <1>1, <1>6, SV_ParseDisconnectInv
<1>. QED
  BY <1>2, <1>3, <1>4, <1>5, <1>6 DEF SV_Packet

----------------------------------------------------------------------------
(* A client receives                                                       *)

LEMMA CL_ParseGameDataInv ==
  ASSUME TicInv, NEW c \in Client, NEW p \in net, p.client = c, Fresh(p, recvtic[c]),
         CL_ParseGameData(c, p)
  PROVE  TicInv'
<1>. DEFINE seq == CL_Expand(c, p.seq)
            w == Store(window[c], recvtic[c], seq, p.cmds)
            gap == Gap(recvtic[c], seq, DOMAIN w \cup requested[c])
<1>1. /\ LoopTypes /\ WindowTypes /\ Ordered /\ Stored /\ Queued /\ Packets
      /\ Ring /\ History
  BY DEF TicInv
<1>2. /\ p.type = "SV_GAMEDATA"
      /\ p.tic \in Nat /\ p.seq = Byte(p.tic)
      /\ p.cmds \in Seq(Commands) /\ p.tic + Len(p.cmds) <= sendseq[c]
      /\ \A i \in 1 .. Len(p.cmds) : Full(c, p.cmds[i], p.tic + i - 1)
  BY <1>1 DEF Packets, Packet, CL_ParseGameData
<1>3. /\ window' = [window EXCEPT ![c] = w]
      /\ requested' = [requested EXCEPT ![c] = (requested[c] \cup gap) \ DOMAIN w]
      /\ Exchange(p, Requests("CL_RESEND", c, gap))
      /\ need_ack' = need_ack \cup {c}
      /\ UNCHANGED <<loopVars, recvtic, serverVars, status, left>>
  BY DEF CL_ParseGameData
<1>4. /\ recvtic[c] \in Nat /\ sendseq[c] \in Nat /\ BACKUPTICS \in Nat /\ BACKUPTICS <= 128
      /\ sendseq[c] <= recvtic[c] + BACKUPTICS
  BY <1>1, Basics DEF Ordered
<1>5. seq \in Int /\ (seq = p.tic \/ seq <= p.tic - 256)
  <2>1. recvtic[c] <= p.tic + 64
    BY <1>2 DEF Fresh
  <2>. QED
    BY <1>2, <1>4, <2>1, ExpandBelow DEF CL_Expand
<1>6. ASSUME NEW t \in DOMAIN w
      PROVE  /\ t \in recvtic[c] .. recvtic[c] + BACKUPTICS - 1 /\ t < sendseq[c]
             /\ Full(c, w[t], t)
  <2>1. CASE /\ t \in seq .. seq + Len(p.cmds) - 1
             /\ t \in recvtic[c] .. recvtic[c] + BACKUPTICS - 1
             /\ w[t] = p.cmds[t - seq + 1]
    <3>1. Len(p.cmds) \in Nat /\ t \in Int
      BY <1>2, <1>5, <2>1
    <3>2. recvtic[c] <= t /\ seq <= t /\ t <= seq + Len(p.cmds) - 1
      BY <1>4, <1>5, <2>1, <3>1
    <3>3. seq = p.tic
      <4>1. p.tic + Len(p.cmds) <= sendseq[c] /\ p.tic \in Nat
        BY <1>2
      <4>2. p.tic + Len(p.cmds) < recvtic[c] + 256
        BY <1>4, <3>1, <4>1
      <4>3. ~(seq <= p.tic - 256)
        <5>1. PICK n \in Nat, k \in Int, tic \in Nat, r \in Nat :
                n = Len(p.cmds) /\ k = seq /\ tic = p.tic /\ r = recvtic[c]
          BY <1>4, <1>5, <3>1, <4>1
        <5>2. tic + n < r + 256 /\ r <= t /\ t <= k + n - 1
          BY <3>2, <4>2, <5>1
        <5>3. ~(k <= tic - 256)
          BY ONLY <3>1, <5>2
        <5>. QED
          BY <5>1, <5>3
      <4>. QED
        BY <1>5, <4>3
    <3>4. t - seq + 1 \in 1 .. Len(p.cmds) /\ p.tic + (t - seq + 1) - 1 = t
      BY <1>2, <1>5, <3>1, <3>2, <3>3
    <3>5. t < sendseq[c]
      BY <1>2, <1>4, <3>1, <3>2, <3>3
    <3>6. Full(c, p.cmds[t - seq + 1], p.tic + (t - seq + 1) - 1)
      BY <1>2, <3>4
    <3>7. Full(c, w[t], t)
      BY <2>1, <3>4, <3>6
    <3>. QED
      BY <2>1, <3>5, <3>7
  <2>2. CASE t \in DOMAIN window[c] /\ w[t] = window[c][t]
    BY <1>1, <2>2 DEF Stored
  <2>3. Len(p.cmds) \in Nat /\ recvtic[c] \in Nat /\ seq \in Int
    BY <1>2, <1>4, <1>5
  <2>. HIDE DEF seq
  <2>4. \/ /\ t \in seq .. seq + Len(p.cmds) - 1
           /\ t \in recvtic[c] .. recvtic[c] + BACKUPTICS - 1
           /\ w[t] = p.cmds[t - seq + 1]
        \/ t \in DOMAIN window[c] /\ w[t] = window[c][t]
    <3>1. PICK f, start, s, cmds :
            f = window[c] /\ start = recvtic[c] /\ s = seq /\ cmds = p.cmds
      OBVIOUS
    <3>2. start \in Nat /\ s \in Int /\ Len(cmds) \in Nat
      BY <2>3, <3>1
    <3>3. \A u \in DOMAIN Store(f, start, s, cmds) :
             \/ /\ u \in s .. s + Len(cmds) - 1
                /\ u \in start .. start + BACKUPTICS - 1
                /\ Store(f, start, s, cmds)[u] = cmds[u - s + 1]
             \/ u \in DOMAIN f /\ Store(f, start, s, cmds)[u] = f[u]
      BY ONLY <3>2, StoreIs
    <3>4. w = Store(f, start, s, cmds)
      BY <3>1
    <3>. HIDE DEF w
    <3>. QED
      BY <3>1, <3>3, <3>4
  <2>. QED
    BY <2>1, <2>2, <2>4
<1>7. gap \subseteq Nat /\ IsFiniteSet(gap)
  BY <1>4, <1>5, GapIs
<1>8. Onward
  BY <1>1, <1>3, OnwardSame DEF loopVars, serverVars
<1>9. Packets'
  <2>2. /\ IsFiniteSet(Requests("CL_RESEND", c, gap))
        /\ \A q \in Requests("CL_RESEND", c, gap) : Packet(q)'
    <3>. HIDE DEF gap
    <3>1. /\ IsFiniteSet(Requests("CL_RESEND", c, gap))
          /\ \A q \in Requests("CL_RESEND", c, gap) :
               /\ q.type = "CL_RESEND" /\ q.client = c
               /\ q.start \in Nat /\ q.num_tics \in Nat \ {0}
      BY ONLY <1>7, RequestsIs
    <3>. QED
      BY <3>1 DEF Packet
  <2>. QED
    BY <1>1, <1>3, <1>8, <2>2, NetDelivered
<1>. HIDE DEF w, gap, seq
<1>10. /\ DOMAIN window' = Client /\ window'[c] = w
       /\ \A d \in Client : d # c => window'[d] = window[d]
  <2>1. DOMAIN window = Client
    BY <1>1 DEF WindowTypes
  <2>. QED
    BY <1>3, <2>1
<1>11. /\ requested' \in [Client -> SUBSET Nat]
       /\ \A d \in Client : IsFiniteSet(requested'[d])
  <2>. DEFINE r == (requested[c] \cup gap) \ DOMAIN w
  <2>1. r \subseteq Nat /\ IsFiniteSet(r)
    <3>1. requested[c] \subseteq Nat /\ IsFiniteSet(requested[c])
      BY <1>1 DEF WindowTypes
    <3>2. IsFiniteSet(requested[c] \cup gap)
      BY <1>7, <3>1, FS_Union
    <3>3. IsFiniteSet(r)
      BY <3>2, FS_Subset
    <3>. QED
      BY <1>7, <3>1, <3>3
  <2>. HIDE DEF r
  <2>. QED
    BY <1>1, <1>3, <2>1 DEF WindowTypes, r
<1>12. WindowTypes'
  BY <1>1, <1>3, <1>10, <1>11 DEF WindowTypes, serverVars
<1>13. LoopTypes'
  BY <1>1, <1>3 DEF LoopTypes, loopVars
<1>14. Ordered'
  BY <1>1, <1>3 DEF Ordered, loopVars, serverVars, ClientConnected
<1>15. Stored'
  <2>1. \A q \in Player : \A t \in DOMAIN recvwindow[q] :
          /\ t \in recvwindow_start .. recvwindow_start + BACKUPTICS - 1
          /\ recvwindow[q][t] = t /\ t < maketic[q]
    BY <1>1 DEF Stored
  <2>2. \A d \in Client : \A t \in DOMAIN window'[d] :
          /\ t \in recvtic[d] .. recvtic[d] + BACKUPTICS - 1 /\ t < sendseq[d]
          /\ Full(d, window'[d][t], t)
    BY <1>1, <1>6, <1>10 DEF Stored
  <2>3. UNCHANGED <<maketic, gametic, recvtic, sendseq, status, recvwindow_start, recvwindow>>
    BY <1>3 DEF loopVars, serverVars
  <2>. QED
    BY <2>1, <2>2, <2>3 DEF Stored, Full, ClientConnected
<1>16. Queued'
  BY <1>1, <1>3, <1>8, QueuedKeeps DEF serverVars
<1>17. Ring'
  BY <1>1, <1>3, <1>8, RingKeeps DEF loopVars
<1>18. History'
  BY <1>1, <1>3, <1>8, HistoryKeeps DEF loopVars
<1>. QED
  BY <1>9, <1>12, <1>13, <1>14, <1>15, <1>16, <1>17, <1>18 DEF TicInv

LEMMA CL_ParseResendRequestInv ==
  ASSUME TicInv, NEW c \in Client, NEW p \in net, p.client = c,
         CL_ParseResendRequest(c, p)
  PROVE  TicInv'
<1>. DEFINE have == {t \in p.start .. p.start + p.num_tics - 1 : InSendQueue(c, t)}
<1>1. /\ LoopTypes /\ WindowTypes /\ Ordered /\ Stored /\ Queued /\ Packets
      /\ Ring /\ History
  BY DEF TicInv
<1>2. /\ p.type = "SV_RESEND" /\ p.start \in Nat /\ p.num_tics \in Nat \ {0} /\ c \in Player
  BY <1>1 DEF Packets, Packet, CL_ParseResendRequest
<1>3. /\ UNCHANGED <<loopVars, recvtic, window, requested, serverVars, status, left>>
      /\ need_ack' \subseteq need_ack
  BY DEF CL_ParseResendRequest
<1>4. Onward
  BY <1>1, <1>3, OnwardSame DEF loopVars, serverVars
<1>5. Packets'
  <2>1. CASE Exchange(p, {})
    BY <1>1, <1>4, <2>1, NetDelivered, FS_EmptySet
  <2>2. CASE have # {} /\ Exchange(p, {CL_GameData(c, Min(have), Max(have))})
    <3>1. \A t \in have : /\ t \in Nat /\ p.start <= t /\ t <= p.start + p.num_tics - 1
                          /\ t < maketic[c]
      BY <1>2 DEF InSendQueue
    <3>2. PICK lo \in Int, hi \in Int : lo = p.start /\ hi = p.start + p.num_tics - 1
      BY <1>2
    <3>3. have \subseteq Int /\ \A y \in have : lo <= y /\ y <= hi
      BY <3>1, <3>2
    <3>. HIDE DEF have
    <3>4. Min(have) \in have /\ \A y \in have : Min(have) <= y
      BY <2>2, <3>3, MinIs
    <3>5. Max(have) \in have /\ \A y \in have : y <= Max(have)
      BY <2>2, <3>3, MaxIs
    <3>6. PICK start \in Nat, end \in Nat :
            /\ start = Min(have) /\ end = Max(have) /\ start <= end + 1 /\ end < maketic[c]
      BY <3>1, <3>4, <3>5
    <3>7. PICK q : q = CL_GameData(c, start, end)
      OBVIOUS
    <3>8. maketic'[c] = maketic[c] /\ maketic[c] \in Nat /\ recvtic'[c] = recvtic[c]
      BY <1>1, <1>2, <1>3, Basics DEF loopVars
    <3>9. Packet(q)'
      BY <1>1, <1>2, <3>6, <3>7, <3>8, CL_GameDataIs
    <3>10. Exchange(p, {q}) /\ IsFiniteSet({q})
      BY <2>2, <3>6, <3>7, FS_Singleton
    <3>. QED
      BY <1>1, <1>4, <3>9, <3>10, NetDelivered
  <2>. QED
    BY <2>1, <2>2 DEF CL_ParseResendRequest
<1>6. LoopTypes' /\ WindowTypes'
  <2>1. need_ack' \subseteq Client
    BY <1>1, <1>3 DEF WindowTypes
  <2>2. LoopTypes'
    BY <1>1, <1>3 DEF LoopTypes, loopVars
  <2>. QED
    BY <1>1, <1>3, <2>1, <2>2 DEF WindowTypes, serverVars
<1>7. Ordered'
  BY <1>1, <1>3 DEF Ordered, loopVars, serverVars, ClientConnected
<1>8. Stored' /\ Queued'
  BY <1>1, <1>3, <1>4, StoredKeeps, QueuedKeeps DEF serverVars
<1>9. Ring' /\ History'
  BY <1>1, <1>3, <1>4, RingKeeps, HistoryKeeps DEF loopVars
<1>. QED
  BY <1>5, <1>6, <1>7, <1>8, <1>9 DEF TicInv

LEMMA CL_ParsePacketInv ==
  ASSUME TicInv, NEW c \in Client, NEW p \in net, CL_ParsePacket(c, p) PROVE TicInv'
BY CL_ParseGameDataInv, CL_ParseResendRequestInv DEF CL_ParsePacket

----------------------------------------------------------------------------
(* A client moves its window                                               *)

LEMMA D_ReceiveTicIs ==
  ASSUME NEW c, NEW slot \in Commands, NEW cmds \in Commands, NEW y,
         y = D_ReceiveTic(c, slot, cmds)
  PROVE  /\ y \in Commands
         /\ \A p \in DOMAIN y \ {c} : p \in DOMAIN cmds /\ y[p] = cmds[p]
         /\ \A p \in DOMAIN cmds \ {c} : p \in DOMAIN y
         /\ c \in DOMAIN slot => c \in DOMAIN y /\ y[c] = slot[c]
<1>1. /\ DOMAIN slot \subseteq Player /\ \A p \in DOMAIN slot : slot[p] \in Nat
      /\ DOMAIN cmds \subseteq Player /\ \A p \in DOMAIN cmds : cmds[p] \in Nat
  BY CommandsDomain
<1>2. y = [p \in (DOMAIN cmds \ {c}) \cup (DOMAIN slot \cap {c}) |->
             IF p = c THEN slot[c] ELSE cmds[p]]
  BY DEF D_ReceiveTic
<1>3. DOMAIN y \subseteq Player /\ y \in [DOMAIN y -> Nat]
  BY <1>1, <1>2
<1>4. y \in Commands
  BY <1>3, CommandsIs
<1>. QED
  BY <1>2, <1>4

LEMMA CL_AdvancedStartIs ==
  ASSUME TicInv, NEW c \in Client, NEW start, start = CL_AdvancedStart(c)
  PROVE  /\ start \in Nat /\ recvtic[c] <= start /\ start <= recvtic[c] + BACKUPTICS
         /\ start <= sendseq[c]
         /\ \A t \in recvtic[c] .. start - 1 : t \in DOMAIN window[c]
<1>. DEFINE S == {t \in recvtic[c] .. recvtic[c] + BACKUPTICS : t \notin DOMAIN window[c]}
<1>1. LoopTypes /\ WindowTypes /\ Ordered /\ Stored
  BY DEF TicInv
<1>2. PICK r \in Nat : r = recvtic[c]
  BY <1>1, Basics
<1>3. sendseq[c] \in Nat /\ r <= sendseq[c] /\ BACKUPTICS \in Nat
  BY <1>1, <1>2, Basics DEF Ordered
<1>4. \A t \in DOMAIN window[c] : t \in r .. r + BACKUPTICS - 1 /\ t < sendseq[c]
  BY <1>1, <1>2 DEF Stored
<1>5. r + BACKUPTICS \in S
  BY <1>2, <1>3, <1>4
<1>6. S \subseteq Int /\ \A y \in S : r <= y
  BY <1>2, <1>3
<1>7. start = Min(S)
  BY DEF CL_AdvancedStart
<1>8. start \in S /\ \A y \in S : start <= y
  <2>1. S # {}
    BY <1>5
  <2>. HIDE DEF S
  <2>2. Min(S) \in S /\ \A y \in S : Min(S) <= y
    <3>1. PICK m \in Int : m = r
      BY <1>2
    <3>2. S \subseteq Int /\ \A y \in S : m <= y
      BY <1>6, <3>1
    <3>. QED
      BY ONLY <2>1, <3>2, MinIs
  <2>. QED
    BY <1>7, <2>2
<1>9. start \in Nat /\ r <= start /\ start <= r + BACKUPTICS
  BY <1>2, <1>3, <1>8
<1>10. ASSUME NEW t \in r .. start - 1 PROVE t \in DOMAIN window[c]
  <2>1. t \in r .. r + BACKUPTICS /\ t < start /\ t \in Int
    BY <1>3, <1>9
  <2>2. t \notin S
    BY <1>8, <1>9, <2>1
  <2>. QED
    BY <1>2, <2>1, <2>2
<1>11. start <= sendseq[c]
  <2>1. CASE start = r
    BY <1>3, <2>1
  <2>2. CASE start # r
    <3>1. start - 1 \in r .. start - 1
      BY <1>9, <2>2
    <3>2. start - 1 < sendseq[c]
      BY <1>4, <1>10, <3>1
    <3>. QED
      BY <1>3, <1>9, <3>2
  <2>. QED
    BY <2>1, <2>2
<1>. QED
  BY <1>2, <1>9, <1>10, <1>11

\* A slot takes one tic of the advance at most.
LEMMA CL_ReceivedIs ==
  ASSUME TicInv, NEW c \in Client, NEW start \in Nat, recvtic[c] <= start,
         start <= recvtic[c] + BACKUPTICS, NEW s \in Slot
  PROVE  \/ /\ \A u \in recvtic[c] .. start - 1 : u % BACKUPTICS # s
            /\ CL_Received(c, start)[s] = ticdata[c][s]
         \/ \E u \in recvtic[c] .. start - 1 :
              /\ u % BACKUPTICS = s
              /\ \A v \in recvtic[c] .. start - 1 : v % BACKUPTICS = s => v = u
              /\ CL_Received(c, start)[s] = D_ReceiveTic(c, ticdata[c][s], window[c][u])
<1>. DEFINE U == {u \in recvtic[c] .. start - 1 : u % BACKUPTICS = s}
<1>1. recvtic[c] \in Nat /\ BACKUPTICS \in Nat
  BY Basics DEF TicInv
<1>2. CL_Received(c, start)[s] = IF U = {} THEN ticdata[c][s]
                                ELSE D_ReceiveTic(c, ticdata[c][s], window[c][Max(U)])
  BY DEF CL_Received
<1>3. CASE U = {}
  BY <1>2, <1>3
<1>4. CASE U # {}
  <2>1. U \subseteq Int /\ start \in Int /\ \A u \in U : u <= start
    BY <1>1
  <2>2. Max(U) \in U
    <3>. HIDE DEF U
    <3>. QED
      BY <1>4, <2>1, MaxIs
  <2>3. PICK m : m = Max(U)
    OBVIOUS
  <2>4. m \in recvtic[c] .. start - 1 /\ m % BACKUPTICS = s
    BY <2>2, <2>3
  <2>5. ASSUME NEW v \in recvtic[c] .. start - 1, v % BACKUPTICS = s PROVE v = m
    <3>1. /\ v \in Nat /\ m \in Nat /\ v < m + BACKUPTICS /\ m < v + BACKUPTICS
      BY <1>1, <2>4
    <3>2. ~(v < m) /\ ~(m < v)
      BY <2>4, <2>5, <3>1, SlotsDiffer
    <3>. QED
      BY <3>1, <3>2
  <2>6. CL_Received(c, start)[s] = D_ReceiveTic(c, ticdata[c][s], window[c][m])
    BY <1>2, <1>4, <2>3
  <2>. QED
    BY <2>4, <2>5, <2>6
<1>. QED
  BY <1>3, <1>4

LEMMA CL_RunInv ==
  ASSUME TicInv, NEW c \in Client, NEW resend \in BOOLEAN, NEW ack \in BOOLEAN,
         CL_Run(c, resend, ack)
  PROVE  TicInv'
<1>1. /\ LoopTypes /\ WindowTypes /\ Ordered /\ Stored /\ Queued /\ Packets
      /\ Ring /\ History
  BY DEF TicInv
<1>2. PICK start : start = CL_AdvancedStart(c)
  OBVIOUS
<1>3. /\ start \in Nat /\ recvtic[c] <= start /\ start <= recvtic[c] + BACKUPTICS
      /\ start <= sendseq[c]
      /\ \A t \in recvtic[c] .. start - 1 : t \in DOMAIN window[c]
  BY <1>2, CL_AdvancedStartIs
<1>4. /\ ticdata' = [ticdata EXCEPT ![c] = CL_Received(c, start)]
      /\ recvtic' = [recvtic EXCEPT ![c] = start]
      /\ window' = [window EXCEPT ![c] = From(window[c], start)]
      /\ requested' = [requested EXCEPT ![c] = {t \in requested[c] : t >= start}]
      /\ Send(CL_CheckResends(c, start, resend, ack))
      /\ need_ack' \subseteq need_ack
      /\ UNCHANGED <<maketic, gametic, ran, serverVars, status, left>>
  BY <1>2 DEF CL_Run
<1>5. /\ recvtic[c] \in Nat /\ sendseq[c] \in Nat /\ BACKUPTICS \in Nat /\ BACKUPTICS > 0
      /\ gametic[c] \in Nat /\ acknowledged[c] \in Nat
  BY <1>1, Basics
<1>6. /\ recvtic'[c] = start /\ recvtic' \in [Client -> Nat]
      /\ \A d \in Client : d # c => recvtic'[d] = recvtic[d]
  BY <1>1, <1>3, <1>4 DEF WindowTypes
<1>7. /\ window'[c] = From(window[c], start) /\ DOMAIN window' = Client
      /\ \A d \in Client : d # c => window'[d] = window[d]
  BY <1>1, <1>4 DEF WindowTypes
<1>8. Onward
  <2>1. \A d \in Client : recvtic[d] \in Nat /\ recvtic'[d] \in Nat /\ recvtic[d] <= recvtic'[d]
    BY <1>1, <1>3, <1>6, Basics
  <2>2. UNCHANGED <<maketic, gametic, sendseq, status>>
    BY <1>4 DEF serverVars
  <2>. QED
    BY <1>1, <2>1, <2>2, Basics DEF Onward
<1>9. \A s \in Slot : ticdata[c][s] \in Commands
  BY <1>1 DEF LoopTypes
<1>10. \A u \in recvtic[c] .. start - 1 : Full(c, window[c][u], u) /\ window[c][u] \in Commands
  BY <1>1, <1>3 DEF Stored, Full
<1>11. ASSUME NEW s \in Slot
       PROVE  /\ CL_Received(c, start)[s] \in Commands
              /\ c \in DOMAIN ticdata[c][s] =>
                   /\ c \in DOMAIN CL_Received(c, start)[s]
                   /\ CL_Received(c, start)[s][c] = ticdata[c][s][c]
  <2>1. CASE CL_Received(c, start)[s] = ticdata[c][s]
    BY <1>9, <2>1
  <2>2. CASE \E u \in recvtic[c] .. start - 1 :
               CL_Received(c, start)[s] = D_ReceiveTic(c, ticdata[c][s], window[c][u])
    <3>1. PICK u \in recvtic[c] .. start - 1 :
            CL_Received(c, start)[s] = D_ReceiveTic(c, ticdata[c][s], window[c][u])
      BY <2>2
    <3>2. PICK slot \in Commands, cmds \in Commands :
            slot = ticdata[c][s] /\ cmds = window[c][u]
      BY <1>9, <1>10
    <3>4. PICK y : y = D_ReceiveTic(c, slot, cmds)
      OBVIOUS
    <3>3. y \in Commands
      BY ONLY <3>4, D_ReceiveTicIs
    <3>5. c \in DOMAIN slot => c \in DOMAIN y /\ y[c] = slot[c]
      BY <3>4 DEF D_ReceiveTic
    <3>. QED
      BY <3>1, <3>2, <3>3, <3>4, <3>5
  <2>. QED
    BY <1>3, <2>1, <2>2, CL_ReceivedIs
<1>12. /\ ticdata'[c] = CL_Received(c, start)
       /\ \A d \in Client : d # c => ticdata'[d] = ticdata[d]
       /\ ticdata' \in [Client -> [Slot -> Commands]]
  <2>1. CL_Received(c, start) \in [Slot -> Commands]
    <3>1. DOMAIN CL_Received(c, start) = Slot
      BY DEF CL_Received
    <3>2. CL_Received(c, start) = [s \in Slot |-> CL_Received(c, start)[s]]
      BY DEF CL_Received
    <3>. QED
      BY <1>11, <3>1, <3>2
  <2>. QED
    BY <1>1, <1>4, <2>1 DEF LoopTypes
<1>13. LoopTypes'
  BY <1>1, <1>4, <1>12 DEF LoopTypes
<1>14. WindowTypes'
  <2>. DEFINE r == {t \in requested[c] : t >= start}
  <2>1. r \subseteq Nat /\ IsFiniteSet(r)
    BY <1>1, FS_Subset DEF WindowTypes
  <2>2. requested' \in [Client -> SUBSET Nat] /\ \A d \in Client : IsFiniteSet(requested'[d])
    <3>. HIDE DEF r
    <3>. QED
      BY <1>1, <1>4, <2>1 DEF WindowTypes, r
  <2>3. need_ack' \subseteq Client
    BY <1>1, <1>4 DEF WindowTypes
  <2>. QED
    BY <1>1, <1>4, <1>6, <1>7, <2>2, <2>3 DEF WindowTypes, serverVars
<1>15. Ordered'
  <2>1. /\ acknowledged[c] <= start /\ gametic[c] <= start
        /\ sendseq[c] <= start + BACKUPTICS
    BY <1>1, <1>3, <1>5 DEF Ordered
  <2>2. \A d \in Client : /\ acknowledged[d] <= recvtic'[d]
                          /\ gametic[d] <= recvtic'[d] /\ recvtic'[d] <= sendseq[d]
                          /\ sendseq[d] <= recvtic'[d] + BACKUPTICS
    BY <1>1, <1>3, <1>6, <2>1 DEF Ordered
  <2>. QED
    BY <1>1, <1>4, <2>2 DEF Ordered, serverVars, ClientConnected
<1>16. Stored'
  <2>1. ASSUME NEW d \in Client, NEW t \in DOMAIN window'[d]
        PROVE  /\ t \in recvtic'[d] .. recvtic'[d] + BACKUPTICS - 1 /\ t < sendseq[d]
               /\ Full(d, window'[d][t], t)
    <3>1. CASE d # c
      BY <1>1, <1>6, <1>7, <3>1 DEF Stored
    <3>2. CASE d = c
      <4>1. t \in DOMAIN window[c] /\ t >= start /\ window'[c][t] = window[c][t]
        BY <1>7, <3>2 DEF From
      <4>2. t \in recvtic[c] .. recvtic[c] + BACKUPTICS - 1 /\ t < sendseq[c]
            /\ Full(c, window[c][t], t)
        BY <1>1, <4>1 DEF Stored
      <4>3. t \in start .. start + BACKUPTICS - 1
        BY <1>3, <1>5, <4>1, <4>2
      <4>. QED
        BY <1>6, <3>2, <4>1, <4>2, <4>3
    <3>. QED
      BY <3>1, <3>2
  <2>2. UNCHANGED <<maketic, gametic, sendseq, status, recvwindow_start, recvwindow>>
    BY <1>4 DEF serverVars
  <2>. QED
    BY <1>1, <2>1, <2>2 DEF Stored, Full, ClientConnected
<1>17. Queued'
  BY <1>1, <1>4, <1>8, QueuedKeeps DEF serverVars
<1>18. Packets'
  <2>. DEFINE late == {t \in requested[c] : t >= start}
              again == Requests("CL_RESEND", c, late)
              receipt == {CL_GameDataACK(c, start)}
              ps == CL_CheckResends(c, start, resend, ack)
  <2>1. ps \subseteq again \cup receipt
    BY DEF CL_CheckResends
  <2>2. late \subseteq Nat /\ IsFiniteSet(late)
    BY <1>1, FS_Subset DEF WindowTypes
  <2>3. /\ IsFiniteSet(again)
        /\ \A q \in again : /\ q.type = "CL_RESEND" /\ q.client = c
                            /\ q.start \in Nat /\ q.num_tics \in Nat \ {0}
    <3>. HIDE DEF late
    <3>. QED
      BY ONLY <2>2, RequestsIs
  <2>. HIDE DEF again
  <2>4. \A q \in again : Packet(q)'
    BY <2>3 DEF Packet
  <2>5. \A q \in receipt : Packet(q)'
    BY <1>3, <1>6 DEF Packet, CL_GameDataACK
  <2>. HIDE DEF receipt, ps
  <2>6. IsFiniteSet(again \cup receipt)
    BY <2>3, FS_Union, FS_Singleton DEF receipt
  <2>7. net' \subseteq net \cup (again \cup receipt) /\ Cardinality(net') <= MaxNet
    <3>1. net' = net \cup ps /\ Cardinality(net \cup ps) <= MaxNet
      BY <1>4 DEF Send, ps
    <3>. QED
      BY <2>1, <3>1
  <2>8. \A q \in again \cup receipt : Packet(q)'
    BY <2>4, <2>5
  <2>. QED
    BY <1>1, <1>8, <2>6, <2>7, <2>8, NetKeeps
<1>19. Ring'
  <2>1. ASSUME NEW d \in Player, NEW t \in gametic[d] .. maketic[d] - 1
        PROVE  d \in DOMAIN ticdata'[d][t % BACKUPTICS]
               /\ ticdata'[d][t % BACKUPTICS][d] = t
    <3>1. d \in Client /\ t \in Nat /\ t % BACKUPTICS \in Slot
      BY <1>1, Basics, SlotOf
    <3>2. d \in DOMAIN ticdata[d][t % BACKUPTICS] /\ ticdata[d][t % BACKUPTICS][d] = t
      BY <1>1 DEF Ring
    <3>. QED
      BY <1>11, <1>12, <3>1, <3>2
  <2>2. ASSUME NEW d \in Player, NEW t \in gametic[d] .. recvtic'[d] - 1, NEW z,
               z = ticdata'[d][t % BACKUPTICS]
        PROVE  /\ \A p \in DOMAIN z \ {d} : z[p] = t /\ t < maketic[p]
               /\ \A p \in Player \ {d} : ClientConnected(p) => p \in DOMAIN z
    <3>1. d \in Client
      BY <1>1, Basics
    <3>2. CASE d # c
      BY <1>1, <1>6, <1>12, <2>2, <3>1, <3>2 DEF Ring
    <3>3. CASE d = c
      <4>1. /\ t \in Nat /\ gametic[c] <= t /\ t < start /\ t % BACKUPTICS \in Slot
        BY <1>3, <1>5, <1>6, <3>3, SlotOf
      <4>2. z = CL_Received(c, start)[t % BACKUPTICS]
        BY <1>12, <2>2, <3>3
      <4>3. CASE /\ \A u \in recvtic[c] .. start - 1 : u % BACKUPTICS # t % BACKUPTICS
                 /\ z = ticdata[c][t % BACKUPTICS]
        <5>1. t \in gametic[c] .. recvtic[c] - 1
          BY <1>3, <1>5, <4>1, <4>3
        <5>. QED
          BY <1>1, <3>3, <4>3, <5>1 DEF Ring
      <4>4. ASSUME NEW u \in recvtic[c] .. start - 1,
                   u % BACKUPTICS = t % BACKUPTICS,
                   \A v \in recvtic[c] .. start - 1 : v % BACKUPTICS = t % BACKUPTICS => v = u,
                   z = D_ReceiveTic(c, ticdata[c][t % BACKUPTICS], window[c][u])
            PROVE  /\ \A p \in DOMAIN z \ {d} : z[p] = t /\ t < maketic[p]
                   /\ \A p \in Player \ {d} : ClientConnected(p) => p \in DOMAIN z
        <5>1. /\ \A p \in DOMAIN z \ {c} : p \in DOMAIN window[c][u] /\ z[p] = window[c][u][p]
              /\ \A p \in DOMAIN window[c][u] \ {c} : p \in DOMAIN z
          <6>1. PICK slot \in Commands, cmds \in Commands :
                  slot = ticdata[c][t % BACKUPTICS] /\ cmds = window[c][u]
            BY <1>9, <1>10, <4>1
          <6>2. z = D_ReceiveTic(c, slot, cmds)
            BY <4>4, <6>1
          <6>3. \A p \in DOMAIN z \ {c} : p \in DOMAIN cmds /\ z[p] = cmds[p]
            BY ONLY <6>2 DEF D_ReceiveTic
          <6>4. \A p \in DOMAIN cmds \ {c} : p \in DOMAIN z
            BY ONLY <6>2, D_ReceiveTicIs
          <6>. QED
            BY <6>1, <6>3, <6>4
        <5>2. /\ \A p \in DOMAIN window[c][u] :
                   /\ p # c /\ window[c][u][p] = u /\ u < maketic[p]
                   /\ u < gametic[c] + BACKUPTICS
              /\ \A p \in Player \ {c} : ClientConnected(p) => p \in DOMAIN window[c][u]
          BY <1>10, <3>3 DEF Full
        <5>3. CASE u = t
          BY <3>3, <5>1, <5>2, <5>3
        \* The slot held a tic that is not run yet; only a tic without
        \* commands can come so early.
        <5>4. CASE u # t
          <6>1. t < recvtic[c]
            BY <1>3, <1>5, <4>1, <4>4, <5>4
          <6>2. u \in Nat /\ t < u
            BY <1>5, <4>1, <6>1
          <6>3. ~(u < t + BACKUPTICS)
            BY <4>1, <4>4, <6>2, SlotsDiffer
          <6>4. ~(u < gametic[c] + BACKUPTICS)
            BY <1>5, <4>1, <6>2, <6>3
          <6>5. DOMAIN window[c][u] = {}
            BY <5>2, <6>4
          <6>. QED
            BY <3>3, <5>1, <5>2, <6>5
        <5>. QED
          BY <5>3, <5>4
      <4>. QED
        BY <1>3, <4>1, <4>2, <4>3, <4>4, CL_ReceivedIs
    <3>. QED
      BY <3>2, <3>3
  <2>3. UNCHANGED <<maketic, gametic, status>>
    BY <1>4
  <2>. QED
    BY <2>1, <2>2, <2>3 DEF Ring, ClientConnected
<1>20. History'
  BY <1>1, <1>4, <1>8, HistoryKeeps
<1>. QED
  BY <1>13, <1>14, <1>15, <1>16, <1>17, <1>18, <1>19, <1>20 DEF TicInv

----------------------------------------------------------------------------
(* The server moves its window and sends                                   *)

LEMMA ImageFinite ==
  ASSUME NEW S, IsFiniteSet(S), NEW f, DOMAIN f = S
  PROVE  IsFiniteSet({f[x] : x \in S})
<1>. DEFINE T == {f[x] : x \in S}
            g == [x \in S |-> f[x]]
<1>1. g \in Surjection(S, T)
  BY DEF Surjection
<1>. HIDE DEF T, g
<1>2. IsFiniteSet(T)
  BY <1>1, FS_Surjection
<1>. QED
  BY <1>2 DEF T

LEMMA UnionFinite ==
  ASSUME NEW S, IsFiniteSet(S), NEW f, DOMAIN f = S, \A x \in S : IsFiniteSet(f[x])
  PROVE  IsFiniteSet(UNION {f[x] : x \in S})
<1>. DEFINE T == {f[x] : x \in S}
<1>1. IsFiniteSet(T)
  BY ImageFinite
<1>2. \A y \in T : IsFiniteSet(y)
  OBVIOUS
<1>. HIDE DEF T
<1>3. IsFiniteSet(UNION T)
  BY <1>1, <1>2, FS_UNION
<1>. QED
  BY <1>3 DEF T

LEMMA LatestAcknowledgedIs ==
  ASSUME TicInv, NEW p \in Player, ClientConnected(p), NEW l, l = NET_SV_LatestAcknowledged
  PROVE  /\ l \in Nat /\ recvwindow_start <= l
         /\ \A c \in Client : ClientConnected(c) => l <= acknowledged[c]
<1>. DEFINE D == {d \in Client : ClientConnected(d)}
            S == {acknowledged[c] : c \in D}
<1>1. LoopTypes /\ WindowTypes /\ Ordered /\ Player \subseteq Client
  BY DEF TicInv, Client
<1>2. S \subseteq Int /\ \A y \in S : y \in Nat /\ recvwindow_start <= y /\ 0 <= y
  BY <1>1, Basics DEF Ordered
<1>3. acknowledged[p] \in S
  BY <1>1
<1>4. \A c \in Client : ClientConnected(c) => acknowledged[c] \in S
  OBVIOUS
<1>5. l = Min(S)
  BY DEF NET_SV_LatestAcknowledged
<1>. HIDE DEF S
<1>6. S # {} /\ 0 \in Int /\ \A y \in S : 0 <= y
  BY <1>2, <1>3
<1>7. Min(S) \in S /\ \A y \in S : Min(S) <= y
  BY ONLY <1>2, <1>6, MinIs
<1>. QED
  BY <1>2, <1>4, <1>5, <1>7

LEMMA AdvancedStartIs ==
  ASSUME TicInv, NEW p \in Player, ClientConnected(p), NEW start, start = AdvancedStart
  PROVE  /\ start \in Nat /\ recvwindow_start <= start
         /\ \A c \in Client : ClientConnected(c) => start <= acknowledged[c]
<1>1. PICK l : l = NET_SV_LatestAcknowledged
  OBVIOUS
<1>2. PICK r \in Nat : r = recvwindow_start
  BY Basics DEF TicInv
<1>3. /\ l \in Nat /\ r <= l
      /\ \A c \in Client : ClientConnected(c) => l <= acknowledged[c]
  BY <1>1, <1>2, LatestAcknowledgedIs
<1>. DEFINE S == {t \in r .. l : t = l \/ ~Complete(t)}
<1>4. AtLeast(l, r) = l
  BY <1>2, <1>3 DEF AtLeast
<1>5. start = Min(S)
  BY <1>1, <1>2, <1>4 DEF AdvancedStart
<1>6. S \subseteq Int /\ l \in S /\ \A y \in S : r <= y /\ y <= l /\ y \in Int
  BY <1>2, <1>3
<1>. HIDE DEF S
<1>7. S # {} /\ r \in Int /\ S \subseteq Int /\ \A y \in S : r <= y
  BY <1>2, <1>6
<1>8. Min(S) \in S
  BY ONLY <1>7, MinIs
<1>9. start \in Int /\ r <= start /\ start <= l
  BY <1>5, <1>6, <1>8
<1>10. start \in Nat
  BY <1>2, <1>9
<1>11. ASSUME NEW c \in Client, ClientConnected(c) PROVE start <= acknowledged[c]
  <2>1. acknowledged[c] \in Nat /\ l <= acknowledged[c]
    BY <1>3, <1>11, Basics DEF TicInv
  <2>. QED
    BY <1>3, <1>9, <2>1
<1>. QED
  BY <1>2, <1>9, <1>10, <1>11

\* What NET_SV_PumpSendQueue takes from the windows, and how far it goes.
LEMMA PumpIs ==
  ASSUME TicInv, NEW p \in Player, ClientConnected(p),
         NEW c \in Client, ClientConnected(c), CanPump(c),
         NEW t, t = sendseq[c], NEW x, x = FullTiccmd(c)
  PROVE  /\ t \in Nat /\ x \in FullTiccmds /\ x.seq = t /\ Full(c, x.cmds, t)
         /\ t + 1 <= recvtic[c] + BACKUPTICS /\ t + 1 <= recvwindow_start + BACKUPTICS
         /\ \A q \in Player : q # c /\ ClientConnected(q) => t < maketic[q]
<1>. DEFINE ingame == {q \in Player \ {c} : t \in DOMAIN recvwindow[q]}
            y == [q \in ingame |-> recvwindow[q][t]]
<1>1. LoopTypes /\ WindowTypes /\ Ordered /\ Stored /\ Player \subseteq Client
  BY DEF TicInv, Client
<1>2. /\ t \in Nat /\ recvtic[c] \in Nat /\ recvwindow_start \in Nat /\ BACKUPTICS \in Nat
      /\ gametic[c] \in Nat /\ maketic[c] \in Nat /\ acknowledged[c] \in Nat
      /\ MaxAhead \in Nat /\ 2 * MaxAhead <= BACKUPTICS
  BY <1>1, Basics
<1>3. x = [seq |-> t, cmds |-> y]
  BY DEF FullTiccmd
<1>4. \A q \in ingame : recvwindow[q][t] = t /\ t < maketic[q]
  BY <1>1 DEF Stored
<1>5. y \in Commands
  <2>1. DOMAIN y \subseteq Player /\ y \in [DOMAIN y -> Nat]
    BY <1>2, <1>4
  <2>. QED
    BY <2>1, CommandsIs
<1>6. x \in FullTiccmds /\ x.seq = t /\ x.cmds = y
  <2>. HIDE DEF y
  <2>. QED
    BY <1>2, <1>3, <1>5 DEF FullTiccmds
<1>7. ASSUME NEW q \in Player, q # c, ClientConnected(q)
      PROVE  t \in DOMAIN recvwindow[q] /\ q \in ingame
  BY <1>7 DEF CanPump, Others
\* How far another player can have built is bounded by what this one runs,
\* through the tics the server sends to that player.
<1>8. ASSUME NEW q \in ingame, c \in Player PROVE t < gametic[c] + BACKUPTICS
  <2>1. q \in Player /\ q \in Client /\ q # c /\ t < maketic[q]
    BY <1>1, <1>4
  <2>2. /\ maketic[q] \in Nat /\ gametic[q] \in Nat /\ recvtic[q] \in Nat /\ sendseq[q] \in Nat
    BY <1>1, <2>1, Basics
  <2>3. /\ maketic[q] <= gametic[q] + MaxAhead /\ gametic[q] <= recvtic[q]
        /\ recvtic[q] <= sendseq[q]
    BY <1>1, <2>1 DEF Ordered
  <2>4. sendseq[q] <= maketic[c] /\ maketic[c] <= gametic[c] + MaxAhead
    BY <1>1, <1>8, <2>1 DEF Ordered
  <2>. QED
    BY <1>2, <2>1, <2>2, <2>3, <2>4
<1>9. Full(c, y, t)
  <2>1. \A q \in DOMAIN y : /\ q # c /\ y[q] = t /\ t < maketic[q]
                            /\ c \in Player => t < gametic[c] + BACKUPTICS
    BY <1>4, <1>8
  <2>2. \A q \in Player \ {c} : ClientConnected(q) => q \in DOMAIN y
    BY <1>7
  <2>. HIDE DEF y
  <2>. QED
    BY <1>5, <2>1, <2>2 DEF Full
<1>10. t + 1 <= recvtic[c] + BACKUPTICS /\ t + 1 <= recvwindow_start + BACKUPTICS
  <2>1. PICK l : l = NET_SV_LatestAcknowledged
    OBVIOUS
  <2>2. l \in Nat /\ l <= acknowledged[c]
    BY <2>1, LatestAcknowledgedIs
  <2>3. acknowledged[c] <= recvtic[c]
    BY <1>1 DEF Ordered
  <2>4. AckLag \in Nat /\ AckLag < BACKUPTICS
    BY TicAssumption
  <2>5. t - l \in 0 .. AckLag /\ t - recvwindow_start \in Slot
    BY <2>1 DEF CanPump
  <2>. QED
    BY <1>2, <2>2, <2>3, <2>4, <2>5 DEF Slot
<1>11. \A q \in Player : q # c /\ ClientConnected(q) => t < maketic[q]
  BY <1>4, <1>7
<1>. HIDE DEF y, ingame
<1>. QED
  BY <1>2, <1>6, <1>9, <1>10, <1>11

LEMMA DeadlockRequestIs ==
  ASSUME TicInv, NEW p \in Player
  PROVE  DeadlockRequest(p) \subseteq Nat /\ IsFiniteSet(DeadlockRequest(p))
<1>. DEFINE S == DeadlockCandidates(p)
<1>1. PICK r \in Nat : r = recvwindow_start
  BY Basics DEF TicInv
<1>2. CASE DeadlockRequest(p) = {}
  BY <1>2, FS_EmptySet
<1>3. CASE DeadlockRequest(p) # {}
  <2>1. S # {} /\ DeadlockRequest(p) = (r + Min(S)) .. (r + Min(S) + 5)
    BY <1>1, <1>3 DEF DeadlockRequest
  <2>2. S \subseteq Int /\ 0 \in Int /\ \A y \in S : 0 <= y
    BY TicAssumption DEF DeadlockCandidates, Slot
  <2>. HIDE DEF S
  <2>3. Min(S) \in S
    BY ONLY <2>1, <2>2, MinIs
  <2>4. PICK m \in Nat : m = r + Min(S)
    <3>1. \A y \in S : y \in Nat
      BY <2>2
    <3>2. Min(S) \in Nat
      BY <2>3, <3>1
    <3>. QED
      BY <1>1, <3>2
  <2>5. DeadlockRequest(p) = m .. m + 5 /\ m + 5 \in Int /\ m \in Int
    BY <2>1, <2>4
  <2>6. DeadlockRequest(p) \subseteq Nat
    BY <2>4, <2>5
  <2>. QED
    BY <2>5, <2>6, IntervalFinite
<1>. QED
  BY <1>2, <1>3

LEMMA SV_RunInv ==
  ASSUME TicInv, NEW silent \in SUBSET Player, NEW resend \in BOOLEAN,
         SV_Run(silent, resend)
  PROVE  TicInv'
<1>. DEFINE pumped == {c \in Client : ClientConnected(c) /\ CanPump(c)}
            queue == [c \in pumped |->
                        [sendqueue[c] EXCEPT ![sendseq[c] % BACKUPTICS] = FullTiccmd(c)]]
            asked == [p \in silent |-> DeadlockRequest(p)]
            resent == {p \in Player : resend /\ ClientConnected(p)}
            tics == {SV_GameData(c, queue[c], AtLeast(sendseq[c] - ExtraTics, 0), sendseq[c]) :
                       c \in pumped}
            asking == UNION {Requests("SV_RESEND", p, asked[p]) : p \in silent}
            again == UNION {Requests("SV_RESEND", p, SV_Late(p)) : p \in resent}
<1>1. /\ LoopTypes /\ WindowTypes /\ Ordered /\ Stored /\ Queued /\ Packets
      /\ Ring /\ History
  BY DEF TicInv
<1>2. PICK one \in Player : ClientConnected(one)
  BY DEF SV_Run
<1>3. PICK start : start = AdvancedStart
  OBVIOUS
<1>4. /\ sendqueue' = [c \in Client |-> IF c \in pumped THEN queue[c] ELSE sendqueue[c]]
      /\ sendseq' = [c \in Client |-> IF c \in pumped THEN sendseq[c] + 1 ELSE sendseq[c]]
      /\ sv_requested' = [p \in Player |->
             SV_Late(p) \cup (IF p \in silent THEN Marked(p, asked[p]) ELSE {})]
      /\ recvwindow_start' = start
      /\ recvwindow' = [p \in Player |-> From(recvwindow[p], start)]
      /\ Send(tics \cup asking \cup again)
      /\ UNCHANGED <<loopVars, clientVars, acknowledged, status, left>>
  <2>1. sendqueue' = [c \in Client |-> IF c \in pumped THEN queue[c] ELSE sendqueue[c]]
    BY DEF SV_Run
  <2>2. sendseq' = [c \in Client |-> IF c \in pumped THEN sendseq[c] + 1 ELSE sendseq[c]]
    BY DEF SV_Run
  <2>3. sv_requested' = [p \in Player |->
             SV_Late(p) \cup (IF p \in silent THEN Marked(p, asked[p]) ELSE {})]
    BY DEF SV_Run
  <2>4. Send(tics \cup asking \cup again)
    BY Zenon DEF SV_Run
  <2>5. /\ recvwindow_start' = start
        /\ recvwindow' = [p \in Player |-> From(recvwindow[p], start)]
        /\ UNCHANGED <<loopVars, clientVars, acknowledged, status, left>>
    BY <1>3 DEF SV_Run
  <2>. QED
    BY <2>1, <2>2, <2>3, <2>4, <2>5
<1>5. /\ start \in Nat /\ recvwindow_start <= start
      /\ \A c \in Client : ClientConnected(c) => start <= acknowledged[c]
  BY <1>2, <1>3, AdvancedStartIs
<1>6. UNCHANGED <<maketic, gametic, recvtic, ticdata, ran, window, requested, need_ack,
                  acknowledged, status, left>>
  BY <1>4 DEF loopVars, clientVars
<1>7. /\ Player \subseteq Client /\ BACKUPTICS \in Nat /\ BACKUPTICS > 0
      /\ recvwindow_start \in Nat
      /\ \A c \in Client : sendseq[c] \in Nat /\ recvtic[c] \in Nat
  BY <1>1, Basics
<1>8. ASSUME NEW c \in pumped
      PROVE  /\ c \in Client /\ ClientConnected(c)
             /\ FullTiccmd(c) \in FullTiccmds /\ FullTiccmd(c).seq = sendseq[c]
             /\ Full(c, FullTiccmd(c).cmds, sendseq[c])
             /\ sendseq[c] + 1 <= recvtic[c] + BACKUPTICS
             /\ sendseq[c] + 1 <= recvwindow_start + BACKUPTICS
             /\ \A q \in Player : q # c /\ ClientConnected(q) => sendseq[c] < maketic[q]
  <2>1. PICK t, x : t = sendseq[c] /\ x = FullTiccmd(c)
    OBVIOUS
  <2>2. c \in Client /\ ClientConnected(c) /\ CanPump(c)
    OBVIOUS
  <2>3. /\ t \in Nat /\ x \in FullTiccmds /\ x.seq = t /\ Full(c, x.cmds, t)
        /\ t + 1 <= recvtic[c] + BACKUPTICS /\ t + 1 <= recvwindow_start + BACKUPTICS
        /\ \A q \in Player : q # c /\ ClientConnected(q) => t < maketic[q]
    BY <1>2, <2>1, <2>2, PumpIs
  <2>. QED
    BY <2>1, <2>2, <2>3
<1>9. /\ \A c \in Client : \/ sendseq'[c] = sendseq[c]
                           \/ c \in pumped /\ sendseq'[c] = sendseq[c] + 1
      /\ \A c \in pumped : sendseq'[c] = sendseq[c] + 1
      /\ \A c \in Client : c \notin pumped => sendseq'[c] = sendseq[c]
      /\ sendseq' \in [Client -> Nat]
  <2>. HIDE DEF pumped
  <2>1. \A c \in Client : sendseq'[c] = IF c \in pumped THEN sendseq[c] + 1 ELSE sendseq[c]
    BY <1>4
  <2>2. DOMAIN sendseq' = Client /\ sendseq' = [c \in Client |-> sendseq'[c]]
    BY <1>4
  <2>3. \A c \in Client : sendseq'[c] \in Nat
    BY <1>7, <2>1
  <2>4. pumped \subseteq Client
    BY DEF pumped
  <2>. QED
    BY <2>1, <2>2, <2>3, <2>4
<1>10. Onward
  BY <1>1, <1>6, <1>7, <1>9, Basics DEF Onward
<1>11. ASSUME NEW c \in Client, NEW s \in Slot
       PROVE  sendqueue'[c][s] = IF c \in pumped /\ s = sendseq[c] % BACKUPTICS
                                 THEN FullTiccmd(c) ELSE sendqueue[c][s]
  <2>1. sendqueue[c] \in [Slot -> FullTiccmds]
    BY <1>1 DEF WindowTypes
  <2>2. c \in pumped => queue[c] = [sendqueue[c] EXCEPT ![sendseq[c] % BACKUPTICS] = FullTiccmd(c)]
    OBVIOUS
  <2>. HIDE DEF pumped, queue
  <2>3. sendqueue'[c] = IF c \in pumped THEN queue[c] ELSE sendqueue[c]
    BY <1>4
  <2>. QED
    BY <2>1, <2>2, <2>3
<1>12. sendqueue' \in [Client -> [Slot -> FullTiccmds]]
       /\ \A c \in pumped : sendqueue'[c] = queue[c]
  <2>1. sendqueue \in [Client -> [Slot -> FullTiccmds]]
    BY <1>1 DEF WindowTypes
  <2>2. \A c \in pumped : queue[c] \in [Slot -> FullTiccmds]
    <3>1. TAKE c \in pumped
    <3>2. queue[c] = [sendqueue[c] EXCEPT ![sendseq[c] % BACKUPTICS] = FullTiccmd(c)]
      OBVIOUS
    <3>3. sendqueue[c] \in [Slot -> FullTiccmds] /\ FullTiccmd(c) \in FullTiccmds
      BY <1>8, <2>1
    <3>. HIDE DEF queue, pumped
    <3>. QED
      BY <3>2, <3>3
  <2>3. pumped \subseteq Client
    OBVIOUS
  <2>. HIDE DEF pumped, queue
  <2>. QED
    BY <1>4, <2>1, <2>2, <2>3
<1>13. LoopTypes'
  BY <1>1, <1>6 DEF LoopTypes
<1>14. ASSUME NEW p \in silent
       PROVE  asked[p] = DeadlockRequest(p) /\ asked[p] \subseteq Nat /\ IsFiniteSet(asked[p])
  BY DeadlockRequestIs
<1>15. ASSUME NEW p \in Player PROVE SV_Late(p) \subseteq Nat /\ IsFiniteSet(SV_Late(p))
  <2>1. sv_requested[p] \subseteq Nat /\ IsFiniteSet(sv_requested[p])
    BY <1>1 DEF WindowTypes
  <2>2. SV_Late(p) \subseteq sv_requested[p]
    BY DEF SV_Late
  <2>. QED
    BY <2>1, <2>2, FS_Subset
<1>16. WindowTypes'
  <2>1. ASSUME NEW p \in Player
        PROVE  sv_requested'[p] \subseteq Nat /\ IsFiniteSet(sv_requested'[p])
    <3>1. CASE p \in silent
      <4>1. Marked(p, asked[p]) \subseteq asked[p]
        BY DEF Marked
      <4>2. Marked(p, asked[p]) \subseteq Nat /\ IsFiniteSet(Marked(p, asked[p]))
        BY <1>14, <3>1, <4>1, FS_Subset
      <4>3. sv_requested'[p] = SV_Late(p) \cup Marked(p, asked[p])
        BY <1>4, <3>1
      <4>. QED
        BY <1>15, <4>2, <4>3, FS_Union
    <3>2. CASE p \notin silent
      <4>1. sv_requested'[p] = SV_Late(p)
        BY <1>4, <3>2
      <4>. QED
        BY <1>15, <4>1
    <3>. QED
      BY <3>1, <3>2
  <2>2. sv_requested' \in [Player -> SUBSET Nat]
    <3>1. sv_requested' = [p \in Player |-> sv_requested'[p]]
      BY <1>4
    <3>. QED
      BY <2>1, <3>1
  <2>3. DOMAIN recvwindow' = Player
    BY <1>4
  <2>. QED
    BY <1>1, <1>4, <1>5, <1>6, <1>9, <1>12, <2>1, <2>2, <2>3 DEF WindowTypes
<1>17. Ordered'
  <2>1. ASSUME NEW c \in Client
        PROVE  /\ recvtic[c] <= sendseq'[c] /\ sendseq'[c] <= recvtic[c] + BACKUPTICS
               /\ sendseq'[c] <= start + BACKUPTICS
    <3>1. /\ recvtic[c] <= sendseq[c] /\ sendseq[c] <= recvtic[c] + BACKUPTICS
          /\ sendseq[c] <= recvwindow_start + BACKUPTICS
      BY <1>1 DEF Ordered
    <3>2. c \in pumped => /\ sendseq[c] + 1 <= recvtic[c] + BACKUPTICS
                          /\ sendseq[c] + 1 <= recvwindow_start + BACKUPTICS
      BY <1>8
    <3>. HIDE DEF pumped
    <3>. QED
      BY <1>5, <1>7, <1>9, <3>1, <3>2
  <2>2. ASSUME NEW p \in Player, NEW q \in Player, p # q, ClientConnected(p)
        PROVE  sendseq'[q] <= maketic[p]
    <3>1. sendseq[q] <= maketic[p] /\ maketic[p] \in Nat /\ q \in Client
      BY <1>1, <2>2, Basics DEF Ordered
    <3>2. q \in pumped => sendseq[q] < maketic[p]
      BY <1>8, <2>2
    <3>. HIDE DEF pumped
    <3>. QED
      BY <1>7, <1>9, <3>1, <3>2
  <2>3. \A c \in Client : /\ acknowledged[c] <= recvtic[c] /\ gametic[c] <= recvtic[c]
                          /\ ClientConnected(c) => start <= acknowledged[c]
    BY <1>1, <1>5 DEF Ordered
  <2>4. \A p \in Player : gametic[p] <= maketic[p] /\ maketic[p] <= gametic[p] + MaxAhead
    BY <1>1 DEF Ordered
  <2>5. recvwindow_start' = start
    BY <1>4
  <2>. QED
    BY <1>6, <2>1, <2>2, <2>3, <2>4, <2>5 DEF Ordered, ClientConnected
<1>18. Stored'
  <2>1. ASSUME NEW p \in Player, NEW t \in DOMAIN recvwindow'[p]
        PROVE  /\ t \in start .. start + BACKUPTICS - 1
               /\ recvwindow'[p][t] = t /\ t < maketic[p]
    <3>1. t \in DOMAIN recvwindow[p] /\ t >= start /\ recvwindow'[p][t] = recvwindow[p][t]
      BY <1>4 DEF From
    <3>2. /\ t \in recvwindow_start .. recvwindow_start + BACKUPTICS - 1
          /\ recvwindow[p][t] = t /\ t < maketic[p]
      BY <1>1, <3>1 DEF Stored
    <3>3. t \in start .. start + BACKUPTICS - 1
      BY <1>5, <1>7, <3>1, <3>2
    <3>. QED
      BY <3>1, <3>2, <3>3
  <2>2. ASSUME NEW c \in Client, NEW t \in DOMAIN window[c]
        PROVE  /\ t \in recvtic[c] .. recvtic[c] + BACKUPTICS - 1 /\ t < sendseq'[c]
               /\ Full(c, window[c][t], t)
    <3>1. /\ t \in recvtic[c] .. recvtic[c] + BACKUPTICS - 1 /\ t < sendseq[c]
          /\ Full(c, window[c][t], t)
      BY <1>1 DEF Stored
    <3>2. sendseq[c] <= sendseq'[c] /\ sendseq'[c] \in Nat /\ sendseq[c] \in Nat
      BY <1>10 DEF Onward
    <3>3. t < sendseq'[c]
      BY <1>7, <3>1, <3>2
    <3>. QED
      BY <3>1, <3>3
  <2>3. recvwindow_start' = start
    BY <1>4
  <2>. QED
    BY <1>6, <2>1, <2>2, <2>3 DEF Stored, Full, ClientConnected
<1>19. ASSUME NEW c \in Client
       PROVE  /\ \A s \in Slot : LET x == sendqueue'[c][s]
                                 IN  /\ x.seq < sendseq'[c]
                                     /\ x.seq >= 0 => Full(c, x.cmds, x.seq)
              /\ \A t \in Nat : sendseq'[c] <= t + BACKUPTICS /\ t < sendseq'[c] =>
                   sendqueue'[c][t % BACKUPTICS].seq = t
  <2>1. /\ \A s \in Slot : LET x == sendqueue[c][s]
                           IN  /\ x.seq < sendseq[c]
                               /\ x.seq >= 0 => Full(c, x.cmds, x.seq)
        /\ \A t \in Nat : sendseq[c] <= t + BACKUPTICS /\ t < sendseq[c] =>
             sendqueue[c][t % BACKUPTICS].seq = t
    BY <1>1 DEF Queued
  <2>2. CASE c \notin pumped
    <3>1. sendseq'[c] = sendseq[c] /\ \A s \in Slot : sendqueue'[c][s] = sendqueue[c][s]
      BY <1>9, <1>11, <2>2
    <3>2. \A t \in Nat : t % BACKUPTICS \in Slot
      BY SlotOf
    <3>. HIDE DEF pumped
    <3>. QED
      BY <2>1, <3>1, <3>2
  <2>3. CASE c \in pumped
    <3>1. /\ FullTiccmd(c).seq = sendseq[c] /\ Full(c, FullTiccmd(c).cmds, sendseq[c])
          /\ sendseq'[c] = sendseq[c] + 1
      BY <1>8, <1>9, <2>3
    <3>2. ASSUME NEW s \in Slot, NEW x, x = sendqueue'[c][s]
          PROVE  x.seq < sendseq'[c] /\ (x.seq >= 0 => Full(c, x.cmds, x.seq))
      <4>1. CASE s = sendseq[c] % BACKUPTICS
        BY <1>7, <1>11, <2>3, <3>1, <3>2, <4>1
      <4>2. CASE s # sendseq[c] % BACKUPTICS
        <5>1. x = sendqueue[c][s]
          BY <1>11, <3>2, <4>2
        <5>2. sendqueue[c][s].seq < sendseq[c] /\ sendqueue[c][s].seq \in Int
              /\ (sendqueue[c][s].seq >= 0 => Full(c, sendqueue[c][s].cmds, sendqueue[c][s].seq))
          BY <1>1, <2>1 DEF WindowTypes, FullTiccmds
        <5>. HIDE DEF pumped
        <5>. QED
          BY <1>7, <3>1, <5>1, <5>2
      <4>. QED
        BY <4>1, <4>2
    <3>3. ASSUME NEW t \in Nat, sendseq'[c] <= t + BACKUPTICS, t < sendseq'[c]
          PROVE  sendqueue'[c][t % BACKUPTICS].seq = t
      <4>1. t % BACKUPTICS \in Slot
        BY SlotOf
      <4>2. CASE t = sendseq[c]
        BY <1>11, <2>3, <3>1, <4>1, <4>2
      <4>3. CASE t # sendseq[c]
        <5>1. t < sendseq[c] /\ sendseq[c] < t + BACKUPTICS /\ sendseq[c] \in Nat
          BY <1>7, <3>1, <3>3, <4>3
        <5>2. t % BACKUPTICS # sendseq[c] % BACKUPTICS
          BY <5>1, SlotsDiffer
        <5>3. sendqueue[c][t % BACKUPTICS].seq = t
          BY <1>7, <2>1, <5>1
        <5>. QED
          BY <1>11, <4>1, <5>2, <5>3
      <4>. QED
        BY <4>2, <4>3
    <3>. QED
      BY <3>2, <3>3
  <2>. QED
    BY <2>2, <2>3
<1>20. Queued'
  BY <1>6, <1>19 DEF Queued, Full, ClientConnected
<1>21. ASSUME NEW q \in tics PROVE Packet(q)'
  <2>1. PICK c \in pumped : q = SV_GameData(c, queue[c], AtLeast(sendseq[c] - ExtraTics, 0), sendseq[c])
    OBVIOUS
  <2>2. PICK from, end, sq : from = AtLeast(sendseq[c] - ExtraTics, 0) /\ end = sendseq[c] /\ sq = queue[c]
    OBVIOUS
  <2>3. ExtraTics \in Nat /\ ExtraTics < BACKUPTICS
    BY TicAssumption
  <2>4. c \in Client
    OBVIOUS
  <2>5. /\ from \in Nat /\ end \in Nat /\ from <= end + 1 /\ end <= from + ExtraTics
    BY <1>7, <2>2, <2>3, <2>4 DEF AtLeast
  <2>6. sq \in [Slot -> FullTiccmds] /\ sq = sendqueue'[c]
    BY <1>12, <2>1, <2>2, <2>4
  <2>7. q = SV_GameData(c, sq, from, end)
    BY <2>1, <2>2
  <2>. DEFINE g == SV_GameData(c, sq, from, end)
  <2>8. from <= end + 1 /\ sq \in [Slot -> FullTiccmds] /\ from \in Nat /\ end \in Nat
    BY <2>5, <2>6
  <2>9. /\ g.type = "SV_GAMEDATA" /\ g.client = c /\ g.tic = from
        /\ g.seq = Byte(from) /\ g.cmds \in Seq(Commands)
    BY ONLY <2>8, SV_GameDataIs
  <2>10. Len(g.cmds) = end - from + 1
    BY ONLY <2>8, SV_GameDataIs
  <2>11. \A i \in 1 .. Len(g.cmds) : g.cmds[i] = sq[(from + i - 1) % BACKUPTICS].cmds
    BY ONLY <2>8, SV_GameDataIs
  <2>12. sendseq'[c] = end + 1
    BY <1>9, <2>1, <2>2
  <2>. HIDE DEF g, pumped, tics
  <2>13. ASSUME NEW i \in 1 .. Len(g.cmds) PROVE Full(c, g.cmds[i], from + i - 1)
    <3>1. PICK t \in Nat : t = from + i - 1 /\ from <= t /\ t <= end
      BY <2>5, <2>10
    <3>2. sendseq'[c] <= t + BACKUPTICS /\ t < sendseq'[c]
      BY <1>7, <2>3, <2>5, <2>12, <3>1
    <3>3. t % BACKUPTICS \in Slot
      BY SlotOf
    <3>4. sq[t % BACKUPTICS].seq = t
      BY <1>19, <2>4, <2>6, <3>2
    <3>5. Full(c, sq[t % BACKUPTICS].cmds, sq[t % BACKUPTICS].seq)
      BY <1>19, <2>4, <2>6, <3>3, <3>4
    <3>6. g.cmds[i] = sq[t % BACKUPTICS].cmds
      BY <2>11, <3>1
    <3>. QED
      BY <3>1, <3>4, <3>5, <3>6
  <2>14. from + Len(g.cmds) <= sendseq'[c]
    BY <2>5, <2>10, <2>12
  <2>15. \A i \in 1 .. Len(g.cmds) : FullNext(c, g.cmds[i], from + i - 1)
    BY <1>6, <2>13 DEF Full, FullNext, ClientConnected
  <2>16. \A i \in 1 .. Len(q.cmds) : Full(c, q.cmds[i], from + i - 1)'
    BY <2>7, <2>15 DEF Full, FullNext, ClientConnected, g
  <2>17. /\ q.type = "SV_GAMEDATA" /\ q.client = c /\ q.tic = from
         /\ q.seq = Byte(from) /\ q.cmds \in Seq(Commands)
         /\ from + Len(q.cmds) <= sendseq'[c]
    BY <2>7, <2>9, <2>14 DEF g
  <2>. QED
    BY <2>4, <2>5, <2>16, <2>17 DEF Packet
<1>22. ASSUME NEW p \in silent
       PROVE  /\ IsFiniteSet(Requests("SV_RESEND", p, asked[p]))
              /\ \A q \in Requests("SV_RESEND", p, asked[p]) : Packet(q)'
  <2>1. PICK s : s = asked[p]
    OBVIOUS
  <2>2. s \subseteq Nat /\ IsFiniteSet(s)
    BY <1>14, <2>1
  <2>3. /\ IsFiniteSet(Requests("SV_RESEND", p, s))
        /\ \A q \in Requests("SV_RESEND", p, s) :
             /\ q.type = "SV_RESEND" /\ q.client = p
             /\ q.start \in Nat /\ q.num_tics \in Nat \ {0}
    BY ONLY <2>2, RequestsIs
  <2>4. p \in Player /\ p \in Client
    BY <1>7
  <2>5. \A q \in Requests("SV_RESEND", p, s) : Packet(q)'
    BY <2>3, <2>4 DEF Packet
  <2>. QED
    BY <2>1, <2>3, <2>5
<1>23. ASSUME NEW p \in resent
       PROVE  /\ IsFiniteSet(Requests("SV_RESEND", p, SV_Late(p)))
              /\ \A q \in Requests("SV_RESEND", p, SV_Late(p)) : Packet(q)'
  <2>1. PICK s : s = SV_Late(p)
    OBVIOUS
  <2>4. p \in Player /\ p \in Client
    BY <1>7
  <2>2. s \subseteq Nat /\ IsFiniteSet(s)
    BY <1>15, <2>1, <2>4
  <2>3. /\ IsFiniteSet(Requests("SV_RESEND", p, s))
        /\ \A q \in Requests("SV_RESEND", p, s) :
             /\ q.type = "SV_RESEND" /\ q.client = p
             /\ q.start \in Nat /\ q.num_tics \in Nat \ {0}
    BY ONLY <2>2, RequestsIs
  <2>5. \A q \in Requests("SV_RESEND", p, s) : Packet(q)'
    BY <2>3, <2>4 DEF Packet
  <2>. QED
    BY <2>1, <2>3, <2>5
<1>24. Packets'
  <2>1. IsFiniteSet(tics)
    <3>. DEFINE f == [c \in pumped |->
                  SV_GameData(c, queue[c], AtLeast(sendseq[c] - ExtraTics, 0), sendseq[c])]
    <3>1. tics = {f[c] : c \in pumped} /\ DOMAIN f = pumped
      OBVIOUS
    <3>2. IsFiniteSet(pumped)
      BY ClientFinite, FS_Subset
    <3>. HIDE DEF f, tics, pumped
    <3>. QED
      BY <3>1, <3>2, ImageFinite
  <2>2. IsFiniteSet(asking) /\ \A q \in asking : Packet(q)'
    <3>. DEFINE f == [p \in silent |-> Requests("SV_RESEND", p, asked[p])]
    <3>1. asking = UNION {f[p] : p \in silent} /\ DOMAIN f = silent
      OBVIOUS
    <3>2. IsFiniteSet(silent) /\ \A p \in silent : IsFiniteSet(f[p])
      BY <1>22, ClientFinite, FS_Subset
    <3>3. \A q \in asking : Packet(q)'
      BY <1>22
    <3>. HIDE DEF f, asking
    <3>. QED
      BY <3>1, <3>2, <3>3, UnionFinite
  <2>3. IsFiniteSet(again) /\ \A q \in again : Packet(q)'
    <3>. DEFINE f == [p \in resent |-> Requests("SV_RESEND", p, SV_Late(p))]
    <3>1. again = UNION {f[p] : p \in resent} /\ DOMAIN f = resent
      OBVIOUS
    <3>2. IsFiniteSet(resent) /\ \A p \in resent : IsFiniteSet(f[p])
      BY <1>23, ClientFinite, FS_Subset
    <3>3. \A q \in again : Packet(q)'
      BY <1>23
    <3>. HIDE DEF f, again
    <3>. QED
      BY <3>1, <3>2, <3>3, UnionFinite
  <2>. HIDE DEF tics, asking, again
  <2>4. IsFiniteSet(tics \cup asking \cup again)
    <3>1. IsFiniteSet(tics \cup asking)
      BY <2>1, <2>2, FS_Union
    <3>. QED
      BY <2>3, <3>1, FS_Union
  <2>5. \A q \in tics \cup asking \cup again : Packet(q)'
    BY <1>21, <2>2, <2>3
  <2>6. /\ net' \subseteq net \cup (tics \cup asking \cup again)
        /\ Cardinality(net') <= MaxNet
    BY <1>4 DEF Send
  <2>. QED
    BY <1>1, <1>10, <2>4, <2>5, <2>6, NetKeeps
<1>25. Ring' /\ History'
  BY <1>1, <1>6, <1>10, RingKeeps, HistoryKeeps
<1>. QED
  BY <1>13, <1>16, <1>17, <1>18, <1>20, <1>24, <1>25 DEF TicInv

----------------------------------------------------------------------------
(* The invariant                                                           *)

LEMMA DivModInt ==
  ASSUME NEW M \in Nat, M > 0, NEW x \in Int
  PROVE  x % M \in 0 .. M - 1
OBVIOUS

\* The send queues a game begins with hold the tics before FirstTic.
LEMMA PastTicIs ==
  /\ \A s \in Slot : PastTic(s) \in Int /\ PastTic(s) < FirstTic
  /\ \A t \in Nat : FirstTic <= t + BACKUPTICS /\ t < FirstTic => PastTic(t % BACKUPTICS) = t
<1>1. BACKUPTICS \in Nat /\ BACKUPTICS > 0 /\ FirstTic \in Nat
  BY TicAssumption
<1>2. ASSUME NEW s \in Slot PROVE PastTic(s) \in Int /\ PastTic(s) < FirstTic
  <2>1. FirstTic - 1 - s \in Int
    BY <1>1 DEF Slot
  <2>2. (FirstTic - 1 - s) % BACKUPTICS \in 0 .. BACKUPTICS - 1
    BY <1>1, <2>1, DivModInt
  <2>. QED
    BY <1>1, <2>2 DEF PastTic
<1>3. ASSUME NEW t \in Nat, FirstTic <= t + BACKUPTICS, t < FirstTic
      PROVE  PastTic(t % BACKUPTICS) = t
  <2>1. PICK q \in Nat, r \in 0 .. BACKUPTICS - 1 : t = BACKUPTICS * q + r /\ r = t % BACKUPTICS
    BY <1>1, DivMod
  <2>2. PICK k \in 0 .. BACKUPTICS - 1 : k = FirstTic - 1 - t
    BY <1>1, <1>3
  <2>4. BACKUPTICS * q \in Nat
    BY <1>1
  <2>3. FirstTic - 1 - r = BACKUPTICS * q + k
    <3>1. PICK m \in Nat : m = BACKUPTICS * q
      BY <2>4
    <3>2. t = m + r /\ k = FirstTic - 1 - t /\ k \in Int /\ r \in Int
      <4>1. t = m + r
        BY ONLY <2>1, <3>1
      <4>. QED
        BY <1>1, <2>2, <4>1
    <3>3. FirstTic - 1 - r = m + k
      BY <1>1, <3>2
    <3>. QED
      BY <3>1, <3>3
  <2>5. BACKUPTICS * q + k \in Nat
    BY <1>1, <2>4
  <2>6. (BACKUPTICS * q + k) % BACKUPTICS = k
    BY <1>1, <2>5, ModIs
  <2>. QED
    BY <1>1, <2>1, <2>2, <2>3, <2>6 DEF PastTic
<1>. QED
  BY <1>2, <1>3

LEMMA EmptyCommands == <<>> \in Commands
<1>1. DOMAIN <<>> = {} /\ <<>> = [x \in {} |-> 0]
  OBVIOUS
<1>2. [x \in {} |-> 0] \in [{} -> Nat] /\ {} \in SUBSET Player
  OBVIOUS
<1>. QED
  BY <1>1, <1>2 DEF Commands

LEMMA PastIs ==
  ASSUME NEW c \in Client, NEW s \in Slot, NEW x, x = Past(c, s)
  PROVE  /\ x \in FullTiccmds /\ x.seq < FirstTic
         /\ x.seq >= 0 => /\ x.seq = PastTic(s)
                          /\ x.cmds = [p \in Player \ {c} |-> x.seq]
         /\ PastTic(s) >= 0 => x.seq = PastTic(s)
<1>1. PICK t \in Int : t = PastTic(s) /\ t < FirstTic
  BY PastTicIs
<1>2. FirstTic \in Nat
  BY TicAssumption
<1>3. CASE t < 0
  <2>1. x = [seq |-> -1, cmds |-> <<>>]
    BY <1>1, <1>3 DEF Past
  <2>. QED
    BY <1>1, <1>2, <1>3, <2>1, EmptyCommands DEF FullTiccmds
<1>4. CASE t >= 0
  <2>. DEFINE y == [p \in Player \ {c} |-> t]
  <2>1. x = [seq |-> t, cmds |-> y]
    BY <1>1, <1>4 DEF Past
  <2>2. DOMAIN y \subseteq Player /\ y \in [DOMAIN y -> Nat]
    BY <1>4
  <2>. HIDE DEF y
  <2>3. y \in Commands
    BY <2>2, CommandsIs
  <2>4. x \in FullTiccmds /\ x.seq = t /\ x.cmds = y
    BY <2>1, <2>3 DEF FullTiccmds
  <2>. QED
    BY <1>1, <1>4, <2>4 DEF y
<1>. QED
  BY <1>3, <1>4

LEMMA InitInv ==
  ASSUME Init PROVE TicInv
<1>1. /\ FirstTic \in Nat /\ FirstTic \in Tic /\ BACKUPTICS \in Nat /\ BACKUPTICS > 0
      /\ MaxNet \in Nat /\ MaxAhead \in Nat /\ Player \subseteq Client
  BY TicAssumption DEF Tic, Client
<1>2. /\ \A c \in Client : /\ maketic[c] = FirstTic /\ gametic[c] = FirstTic
                           /\ recvtic[c] = FirstTic /\ sendseq[c] = FirstTic
                           /\ acknowledged[c] = FirstTic
                           /\ window[c] = <<>> /\ ran[c] = <<>> /\ requested[c] = {}
                           /\ \A s \in Slot : sendqueue[c][s] = Past(c, s)
      /\ recvwindow_start = FirstTic /\ net = {}
      /\ \A p \in Player : recvwindow[p] = <<>> /\ sv_requested[p] = {}
  BY DEF Init
<1>3. LoopTypes
  <2>1. <<>> \in Seq(Commands)
    OBVIOUS
  <2>2. ticdata \in [Client -> [Slot -> Commands]]
    BY EmptyCommands DEF Init
  <2>. QED
    BY <1>1, <2>1, <2>2 DEF Init, LoopTypes
<1>4. WindowTypes
  <2>1. sendqueue \in [Client -> [Slot -> FullTiccmds]]
    <3>1. \A c \in Client : \A s \in Slot : Past(c, s) \in FullTiccmds
      BY PastIs
    <3>. QED
      BY <3>1 DEF Init
  <2>2. \A c \in Client : IsFiniteSet(requested[c])
    BY <1>2, FS_EmptySet
  <2>3. \A p \in Player : IsFiniteSet(sv_requested[p])
    BY <1>2, FS_EmptySet
  <2>. QED
    BY <1>1, <2>1, <2>2, <2>3 DEF Init, WindowTypes
<1>5. Ordered
  BY <1>1, <1>2 DEF Ordered
<1>6. Stored
  <2>1. DOMAIN <<>> = {}
    OBVIOUS
  <2>. QED
    BY <1>2, <2>1 DEF Stored
<1>7. Queued
  <2>1. ASSUME NEW c \in Client, NEW s \in Slot, NEW x, x = sendqueue[c][s]
        PROVE  x.seq < sendseq[c] /\ (x.seq >= 0 => Full(c, x.cmds, x.seq))
    <3>1. /\ x \in FullTiccmds /\ x.seq < FirstTic
          /\ x.seq >= 0 => x.cmds = [p \in Player \ {c} |-> x.seq]
      <4>1. x = Past(c, s)
        BY <1>2, <2>1
      <4>2. x \in FullTiccmds /\ x.seq < FirstTic
        BY ONLY <4>1, PastIs
      <4>3. x.seq >= 0 => x.cmds = [p \in Player \ {c} |-> x.seq]
        <5>1. CASE PastTic(s) < 0
          BY <4>1, <5>1 DEF Past
        <5>2. CASE ~(PastTic(s) < 0)
          BY <4>1, <5>2 DEF Past
        <5>. QED
          BY <5>1, <5>2
      <4>. QED
        BY <4>2, <4>3
    <3>2. PICK t \in Int, y \in Commands : t = x.seq /\ y = x.cmds
      BY <3>1 DEF FullTiccmds
    <3>3. t < FirstTic /\ (t >= 0 => y = [p \in Player \ {c} |-> t])
      BY <3>1, <3>2
    <3>4. t >= 0 => Full(c, y, t)
      BY <1>1, <1>2, <3>3 DEF Full
    <3>. QED
      BY <1>2, <3>2, <3>3, <3>4
  <2>2. ASSUME NEW c \in Client, NEW t \in Nat, FirstTic <= t + BACKUPTICS, t < FirstTic
        PROVE  sendqueue[c][t % BACKUPTICS].seq = t
    <3>1. t % BACKUPTICS \in Slot /\ PastTic(t % BACKUPTICS) = t
      BY <2>2, SlotOf, PastTicIs
    <3>2. PICK s \in Slot, k \in Nat : s = t % BACKUPTICS /\ k = t /\ PastTic(s) = k
      BY <3>1
    <3>3. PICK x : x = Past(c, s)
      OBVIOUS
    <3>4. PastTic(s) >= 0 => x.seq = PastTic(s)
      BY ONLY <3>3, PastIs
    <3>5. x.seq = k
      BY <3>2, <3>4
    <3>. QED
      BY <1>2, <3>2, <3>3, <3>5
  <2>. QED
    BY <1>2, <2>1, <2>2 DEF Queued
<1>8. Packets
  BY <1>1, <1>2, FS_EmptySet DEF Packets
<1>9. Ring
  BY <1>1, <1>2 DEF Ring
<1>10. History
  <2>1. Len(<<>>) = 0 /\ DOMAIN <<>> = {}
    OBVIOUS
  <2>. QED
    BY <1>1, <1>2, <2>1 DEF History, InStep
<1>. QED
  BY <1>3, <1>4, <1>5, <1>6, <1>7, <1>8, <1>9, <1>10 DEF TicInv

LEMMA StutterInv ==
  ASSUME TicInv, UNCHANGED vars PROVE TicInv'
<1>1. UNCHANGED <<loopVars, clientVars, serverVars, status, left, net>>
  BY DEF vars
<1>2. IsFiniteSet({}) /\ net' \subseteq net \cup {} /\ left' \subseteq Client
      /\ Cardinality(net') <= MaxNet
  BY <1>1, FS_EmptySet, StatusIs DEF TicInv, Packets
<1>. QED
  BY <1>1, <1>2, StatusIs, StillInv

LEMMA NextInv ==
  ASSUME TicInv, [Next]_vars PROVE TicInv'
<1>1. CASE \E p \in Player : BuildNewTic(p)
  BY <1>1, BuildNewTicInv
<1>2. ASSUME NEW c \in Client, RunTic(c) PROVE TicInv'
  BY <1>2, RunTicInv
<1>3. ASSUME NEW c \in Client, Quit(c) PROVE TicInv'
  BY <1>3, QuitInv
<1>4. ASSUME NEW c \in Client, Free(c) PROVE TicInv'
  BY <1>4, FreeInv
<1>5. ASSUME NEW c \in Client, NEW resend \in BOOLEAN, NEW ack \in BOOLEAN,
             CL_Run(c, resend, ack)
      PROVE  TicInv'
  BY <1>5, CL_RunInv
<1>6. ASSUME NEW c \in Client, NEW p \in net, CL_ParsePacket(c, p) PROVE TicInv'
  BY <1>6, CL_ParsePacketInv
<1>7. ASSUME NEW c \in Client, NEW p \in net, SV_Packet(c, p) PROVE TicInv'
  BY <1>7, SV_PacketInv
<1>8. ASSUME NEW silent \in SUBSET Player, NEW resend \in BOOLEAN, SV_Run(silent, resend)
      PROVE  TicInv'
  BY <1>8, SV_RunInv
<1>9. ASSUME NEW p \in net, Lose(p) PROVE TicInv'
  BY <1>9, LoseInv
<1>10. CASE UNCHANGED vars
  BY <1>10, StutterInv
<1>. QED
  BY <1>1, <1>2, <1>3, <1>4, <1>5, <1>6, <1>7, <1>8, <1>9, <1>10 DEF Next

\* The inductive invariant holds in every reachable state.
THEOREM TicInvCorrect == Spec => []TicInv
<1>1. Init => TicInv
  BY InitInv
<1>2. TicInv /\ [Next]_vars => TicInv'
  BY NextInv
<1>. QED
  BY <1>1, <1>2, PTL DEF Spec

----------------------------------------------------------------------------
(* The properties of the runs                                              *)

\* Type correctness of the game in progress.
THEOREM TypeCorrect == Spec => []TypeOK
<1>1. TicInv => TypeOK
  <2>. SUFFICES ASSUME TicInv PROVE TypeOK
    OBVIOUS
  <2>1. LoopTypes /\ WindowTypes /\ Stored /\ Packets
    BY DEF TicInv
  <2>2. ASSUME NEW c \in Client
        PROVE  /\ maketic[c] \in Tic /\ gametic[c] \in Nat /\ recvtic[c] \in Nat
               /\ sendseq[c] \in Nat /\ acknowledged[c] \in Nat
               /\ requested[c] \subseteq Nat /\ status[c] \in {"CONNECTED", "SLEEP", "GONE"}
    BY <2>1 DEF LoopTypes, WindowTypes
  <2>3. ASSUME NEW c \in Client, NEW s \in Slot PROVE DOMAIN ticdata[c][s] \subseteq Player
    <3>1. ticdata[c][s] \in Commands
      BY <2>1 DEF LoopTypes
    <3>. QED
      BY <3>1, CommandsDomain
  <2>4. \A c \in Client : DOMAIN window[c] \subseteq recvtic[c] .. recvtic[c] + BACKUPTICS - 1
    BY <2>1 DEF Stored
  <2>5. \A p \in Player : DOMAIN recvwindow[p] \subseteq
                            recvwindow_start .. recvwindow_start + BACKUPTICS - 1
    BY <2>1 DEF Stored
  <2>6. /\ recvwindow_start \in Nat /\ need_ack \subseteq Client /\ left \subseteq Client
        /\ Cardinality(net) <= MaxNet
    BY <2>1 DEF LoopTypes, WindowTypes, Packets
  <2>. QED
    BY <2>2, <2>3, <2>4, <2>5, <2>6 DEF TypeOK
<1>. QED
  BY <1>1, TicInvCorrect, PTL

\* The server never takes a client to be further than it is, keeps what any
\* connected client still needs, and is never a whole window behind itself.
THEOREM ServerBehindCorrect == Spec => []ServerBehindClients
<1>1. TicInv => ServerBehindClients
  <2>. SUFFICES ASSUME TicInv, NEW c \in Client, ClientConnected(c)
                PROVE  /\ recvwindow_start <= acknowledged[c]
                       /\ acknowledged[c] <= recvtic[c]
                       /\ recvtic[c] <= sendseq[c]
                       /\ sendseq[c] - recvwindow_start <= BACKUPTICS
    BY DEF ServerBehindClients
  <2>1. LoopTypes /\ WindowTypes /\ Ordered
    BY DEF TicInv
  <2>2. /\ recvwindow_start \in Nat /\ sendseq[c] \in Nat /\ BACKUPTICS \in Nat
        /\ sendseq[c] <= recvwindow_start + BACKUPTICS
    BY <2>1, Basics DEF Ordered
  <2>. QED
    BY <2>1, <2>2 DEF Ordered
<1>. QED
  BY <1>1, TicInvCorrect, PTL

\* NET_SV_SendTics never finds another tic in the slot of one it has to send.
THEOREM SendQueueCorrect == Spec => []SendQueueHolds
<1>1. TicInv => SendQueueHolds
  <2>. SUFFICES ASSUME TicInv, NEW c \in Client, ClientConnected(c), NEW S,
                       S = {AtLeast(sendseq[c] - ExtraTics, 0), recvtic[c]},
                       NEW t \in Min(S) .. sendseq[c] - 1
                PROVE  sendqueue[c][t % BACKUPTICS].seq = t
    BY DEF SendQueueHolds
  <2>1. LoopTypes /\ WindowTypes /\ Ordered /\ Queued
    BY DEF TicInv
  <2>2. /\ sendseq[c] \in Nat /\ recvtic[c] \in Nat /\ BACKUPTICS \in Nat
        /\ sendseq[c] <= recvtic[c] + BACKUPTICS
    BY <2>1, Basics DEF Ordered
  <2>3. ExtraTics \in Nat /\ ExtraTics < BACKUPTICS
    BY TicAssumption
  <2>4. \A y \in S : y \in Nat /\ sendseq[c] <= y + BACKUPTICS
    BY <2>2, <2>3 DEF AtLeast
  <2>5. S # {} /\ S \subseteq Int /\ 0 \in Int /\ \A y \in S : 0 <= y
    BY <2>4
  <2>6. Min(S) \in S
    BY ONLY <2>5, MinIs
  <2>7. PICK m \in Nat : m = Min(S) /\ sendseq[c] <= m + BACKUPTICS
    BY <2>4, <2>6
  <2>8. t \in Nat /\ m <= t /\ t < sendseq[c]
    BY <2>2, <2>7
  <2>9. sendseq[c] <= t + BACKUPTICS
    BY <2>2, <2>7, <2>8
  <2>. QED
    BY <2>1, <2>8, <2>9 DEF Queued
<1>. QED
  BY <1>1, TicInvCorrect, PTL

\* Every player runs every tic with the commands of all connected players,
\* each in the tic it was built for.
THEOREM PlayersInStep == Spec => [](\A c \in Player : InStep(c))
<1>1. TicInv => \A c \in Player : InStep(c)
  BY DEF TicInv, History
<1>. QED
  BY <1>1, TicInvCorrect, PTL

----------------------------------------------------------------------------
(***************************************************************************)
(* Drones.  Nothing holds a drone to the pace of the players: it may       *)
(* receive a whole ring of tics and run none, and the next one takes the   *)
(* slot of the oldest.  One that runs what it received before that is in   *)
(* step like a player.                                                     *)
(***************************************************************************)
DronesKeepUp == \A d \in Drone : recvtic[d] <= gametic[d] + BACKUPTICS

\* x holds the commands of tic t of all who play.
Held(x, t) ==
    /\ \A p \in DOMAIN x : p \in Player /\ x[p] = t /\ t < maketic[p]
    /\ \A p \in Player : ClientConnected(p) => p \in DOMAIN x

\* The slots of what a drone is to run, and what it has run.
DroneRing ==
    \A d \in Drone : \A t \in gametic[d] .. recvtic[d] - 1 :
        Held(ticdata[d][t % BACKUPTICS], t)
DroneRan ==
    \A d \in Drone : \A i \in DOMAIN ran[d] : Held(ran[d][i], FirstTic + i - 1)
DroneInv == DroneRing /\ DroneRan

\* A step in which no drone receives or runs anything.
Aside ==
    /\ UNCHANGED <<gametic, ran, recvtic>>
    /\ \A d \in Drone : ticdata'[d] = ticdata[d]
    /\ \A p \in Player : /\ maketic[p] <= maketic'[p]
                         /\ status'[p] = "CONNECTED" => status[p] = "CONNECTED"

LEMMA DroneIs ==
  ASSUME TicInv, NEW d \in Drone
  PROVE  /\ d \in Client /\ d \notin Player
         /\ gametic[d] \in Nat /\ recvtic[d] \in Nat /\ gametic[d] <= recvtic[d]
         /\ gametic[d] = FirstTic + Len(ran[d]) /\ ran[d] \in Seq(Commands)
         /\ BACKUPTICS \in Nat /\ FirstTic \in Nat
         /\ \A i \in DOMAIN ran[d] : i \in Nat /\ ran[d][i] \in Commands
<1>1. d \in Client /\ d \notin Player
  BY TicAssumption DEF Client
<1>2. /\ gametic[d] \in Nat /\ recvtic[d] \in Nat /\ BACKUPTICS \in Nat /\ FirstTic \in Nat
  BY <1>1, Basics DEF TicInv
<1>3. gametic[d] <= recvtic[d]
  BY <1>1 DEF TicInv, Ordered
<1>4. gametic[d] = FirstTic + Len(ran[d]) /\ ran[d] \in Seq(Commands)
  BY <1>1 DEF TicInv, History, LoopTypes
<1>. QED
  BY <1>1, <1>2, <1>3, <1>4

LEMMA AsideSteps ==
  ASSUME TicInv, [Next]_vars,
         ~\E c \in Client : RunTic(c),
         ~\E c \in Client, resend, ack \in BOOLEAN : CL_Run(c, resend, ack)
  PROVE  Aside
<1>1. \A p \in Player : p \in Client /\ p \notin Drone /\ maketic[p] \in Nat
  BY TicAssumption, Basics DEF Client, TicInv
<1>2. ASSUME NEW p \in Player, BuildNewTic(p) PROVE Aside
  <2>1. /\ \A d \in Drone : ticdata'[d] = ticdata[d]
        /\ \A q \in Player : maketic[q] <= maketic'[q]
    <3>1. DOMAIN ticdata = Client /\ DOMAIN maketic = Client
      BY DEF TicInv, LoopTypes
    <3>2. \A d \in Client : d # p => ticdata'[d] = ticdata[d] /\ maketic'[d] = maketic[d]
      BY <1>2, <3>1 DEF BuildNewTic
    <3>3. maketic'[p] = maketic[p] + 1
      BY <1>1, <1>2, <3>1 DEF BuildNewTic
    <3>4. \A q \in Player : maketic[q] <= maketic'[q]
      BY <1>1, <3>2, <3>3
    <3>5. \A d \in Drone : d # p /\ d \in Client
      BY <1>1 DEF Client
    <3>. QED
      BY <3>2, <3>4, <3>5
  <2>. QED
    BY <1>2, <2>1 DEF BuildNewTic, Aside
<1>3. ASSUME UNCHANGED <<loopVars, recvtic>>,
             \A p \in Player : status'[p] = "CONNECTED" => status[p] = "CONNECTED"
      PROVE  Aside
  BY <1>1, <1>3 DEF Aside, loopVars
<1>4. ASSUME NEW c \in Client, Quit(c) \/ Free(c) PROVE Aside
  <2>1. status \in [Client -> {"CONNECTED", "SLEEP", "GONE"}]
    BY DEF TicInv, LoopTypes
  <2>2. \A p \in Player : status'[p] = "CONNECTED" => status[p] = "CONNECTED"
    BY <1>1, <1>4, <2>1 DEF Quit, Free
  <2>. QED
    BY <1>3, <1>4, <2>2 DEF Quit, Free, clientVars
<1>5. ASSUME NEW c \in Client, NEW p \in net, CL_ParsePacket(c, p) PROVE Aside
  BY <1>3, <1>5 DEF CL_ParsePacket, CL_ParseGameData, CL_ParseResendRequest
<1>6. ASSUME NEW c \in Client, NEW p \in net, SV_Packet(c, p) PROVE Aside
  <2>1. status \in [Client -> {"CONNECTED", "SLEEP", "GONE"}]
    BY DEF TicInv, LoopTypes
  <2>2. UNCHANGED status \/ status' = [status EXCEPT ![c] = "SLEEP"]
    BY <1>6 DEF SV_Packet, SV_ParseGameData, SV_ParseGameDataACK, SV_ParseResendRequest,
                SV_ParseDisconnect
  <2>3. \A q \in Player : status'[q] = "CONNECTED" => status[q] = "CONNECTED"
    BY <1>1, <2>1, <2>2
  <2>. QED
    BY <1>3, <1>6, <2>3 DEF SV_Packet, clientVars
<1>7. ASSUME NEW silent \in SUBSET Player, NEW resend \in BOOLEAN, SV_Run(silent, resend)
      PROVE  Aside
  BY <1>3, <1>7 DEF SV_Run, clientVars
<1>8. ASSUME NEW p \in net, Lose(p) PROVE Aside
  BY <1>3, <1>8 DEF Lose, clientVars
<1>9. CASE UNCHANGED vars
  BY <1>3, <1>9 DEF vars, clientVars
<1>. QED
  BY <1>2, <1>4, <1>5, <1>6, <1>7, <1>8, <1>9 DEF Next

\* What was full stays full: nothing is made undone, and nobody connects again.
LEMMA HeldKeeps ==
  ASSUME TicInv, TicInv', NEW x, NEW t \in Int, Held(x, t),
         \A p \in Player : /\ maketic[p] <= maketic'[p]
                           /\ status'[p] = "CONNECTED" => status[p] = "CONNECTED"
  PROVE  Held(x, t)'
<1>1. \A p \in Player : maketic[p] \in Nat /\ maketic'[p] \in Nat
  BY TicAssumption DEF TicInv, LoopTypes, Client, Tic
<1>2. \A p \in DOMAIN x : p \in Player /\ x[p] = t /\ t < maketic'[p]
  BY <1>1 DEF Held
<1>3. \A p \in Player : status'[p] = "CONNECTED" => p \in DOMAIN x
  BY DEF Held, ClientConnected
<1>. QED
  BY <1>2, <1>3 DEF Held, ClientConnected

LEMMA AsideDrones ==
  ASSUME TicInv, TicInv', DroneInv, Aside
  PROVE  DroneInv'
<1>1. \A p \in Player : /\ maketic[p] <= maketic'[p]
                        /\ status'[p] = "CONNECTED" => status[p] = "CONNECTED"
  BY DEF Aside
<1>2. ASSUME NEW d \in Drone, NEW t \in gametic[d] .. recvtic[d] - 1
      PROVE  Held(ticdata[d][t % BACKUPTICS], t)'
  <2>1. PICK x : x = ticdata[d][t % BACKUPTICS]
    OBVIOUS
  <2>2. t \in Int /\ Held(x, t)
    BY <1>2, <2>1, DroneIs DEF DroneInv, DroneRing
  <2>3. Held(x, t)'
    BY <1>1, <2>2, HeldKeeps
  <2>4. ticdata'[d] = ticdata[d]
    BY DEF Aside
  <2>. QED
    BY <2>1, <2>3, <2>4 DEF Held, ClientConnected
<1>3. DroneRing'
  BY <1>2 DEF DroneRing, Aside
<1>4. ASSUME NEW d \in Drone, NEW i \in DOMAIN ran[d]
      PROVE  Held(ran[d][i], FirstTic + i - 1)'
  <2>1. PICK x, t : x = ran[d][i] /\ t = FirstTic + i - 1
    OBVIOUS
  <2>2. t \in Int /\ Held(x, t)
    BY <1>4, <2>1, DroneIs DEF DroneInv, DroneRan
  <2>3. Held(x, t)'
    BY <1>1, <2>2, HeldKeeps
  <2>. QED
    BY <2>1, <2>3 DEF Held, ClientConnected, Aside
<1>5. DroneRan'
  BY <1>4 DEF DroneRan, Aside
<1>. QED
  BY <1>3, <1>5 DEF DroneInv

LEMMA RunTicDrones ==
  ASSUME TicInv, TicInv', DroneInv, NEW c \in Client, RunTic(c)
  PROVE  DroneInv'
<1>. DEFINE g == gametic[c]
<1>1. UNCHANGED <<maketic, ticdata, recvtic, status>>
  BY DEF RunTic, clientVars
<1>2. /\ ran' = [ran EXCEPT ![c] = Append(ran[c], ticdata[c][g % BACKUPTICS])]
      /\ gametic' = [gametic EXCEPT ![c] = g + 1] /\ g < GetLowTic(c)
  BY DEF RunTic
<1>3. DOMAIN ran = Client /\ DOMAIN gametic = Client
  BY DEF TicInv, LoopTypes
<1>4. \A d \in Client : d # c => ran'[d] = ran[d] /\ gametic'[d] = gametic[d]
  BY <1>2, <1>3
<1>5. ASSUME NEW d \in Drone, NEW t \in gametic'[d] .. recvtic[d] - 1
      PROVE  Held(ticdata[d][t % BACKUPTICS], t)
  <2>1. gametic'[d] \in Nat /\ gametic[d] <= gametic'[d]
    BY <1>2, <1>3, <1>4, DroneIs
  <2>2. t \in gametic[d] .. recvtic[d] - 1
    BY <1>5, <2>1, DroneIs
  <2>. QED
    BY <2>2 DEF DroneInv, DroneRing
<1>6. DroneRing'
  BY <1>1, <1>5 DEF DroneRing, Held, ClientConnected
<1>7. ASSUME NEW d \in Drone, NEW i \in DOMAIN ran'[d]
      PROVE  Held(ran'[d][i], FirstTic + i - 1)
  <2>1. CASE d # c
    BY <1>4, <1>7, <2>1, DroneIs DEF DroneInv, DroneRan
  <2>2. CASE d = c
    <3>1. PICK x : x = ticdata[c][g % BACKUPTICS]
      OBVIOUS
    <3>2. x \in Commands /\ g \in Nat /\ g < recvtic[d]
      <4>1. g % BACKUPTICS \in Slot
        BY <2>2, DroneIs, SlotOf
      <4>2. GetLowTic(c) = recvtic[c]
        BY <2>2 DEF GetLowTic
      <4>. QED
        BY <1>2, <2>2, <3>1, <4>1, <4>2, DroneIs DEF TicInv, LoopTypes
    <3>3. ran'[d] = Append(ran[d], x) /\ ran[d] \in Seq(Commands)
      BY <1>2, <1>3, <2>2, <3>1, DroneIs
    <3>4. CASE i \in DOMAIN ran[d]
      <4>1. ran'[d][i] = ran[d][i]
        BY <3>2, <3>3, <3>4
      <4>. QED
        BY <3>4, <4>1 DEF DroneInv, DroneRan
    <3>5. CASE i \notin DOMAIN ran[d]
      <4>1. i = Len(ran[d]) + 1 /\ ran'[d][i] = x
        BY <1>7, <3>2, <3>3, <3>5
      <4>2. FirstTic + i - 1 = g
        BY <2>2, <3>3, <4>1, DroneIs
      <4>3. g \in gametic[d] .. recvtic[d] - 1
        BY <2>2, <3>2, DroneIs
      <4>4. Held(x, g)
        BY <2>2, <3>1, <4>3 DEF DroneInv, DroneRing
      <4>. QED
        BY <4>1, <4>2, <4>4
    <3>. QED
      BY <3>4, <3>5
  <2>. QED
    BY <2>1, <2>2
<1>8. DroneRan'
  BY <1>1, <1>7 DEF DroneRan, Held, ClientConnected
<1>. QED
  BY <1>6, <1>8 DEF DroneInv

\* A drone receives: what it has not run yet stays in its slot while it keeps up.
LEMMA CL_RunDrones ==
  ASSUME TicInv, TicInv', DroneInv, DronesKeepUp', NEW c \in Client,
         NEW resend \in BOOLEAN, NEW ack \in BOOLEAN, CL_Run(c, resend, ack)
  PROVE  DroneInv'
<1>1. UNCHANGED <<maketic, gametic, ran, status>>
  BY DEF CL_Run
<1>2. PICK start : start = CL_AdvancedStart(c)
  OBVIOUS
<1>3. /\ start \in Nat /\ recvtic[c] <= start /\ start <= recvtic[c] + BACKUPTICS
      /\ \A t \in recvtic[c] .. start - 1 : t \in DOMAIN window[c]
  BY <1>2, CL_AdvancedStartIs
<1>4. /\ ticdata' = [ticdata EXCEPT ![c] = CL_Received(c, start)]
      /\ recvtic' = [recvtic EXCEPT ![c] = start]
  BY <1>2 DEF CL_Run
<1>5. DOMAIN ticdata = Client /\ DOMAIN recvtic = Client
  BY DEF TicInv, LoopTypes, WindowTypes
<1>6. /\ ticdata'[c] = CL_Received(c, start) /\ recvtic'[c] = start
      /\ \A d \in Client : d # c => ticdata'[d] = ticdata[d] /\ recvtic'[d] = recvtic[d]
  BY <1>4, <1>5
<1>7. ASSUME NEW d \in Drone, NEW t \in gametic[d] .. recvtic'[d] - 1
      PROVE  Held(ticdata'[d][t % BACKUPTICS], t)
  <2>1. CASE d # c
    BY <1>6, <1>7, <2>1, DroneIs DEF DroneInv, DroneRing
  <2>2. CASE d = c
    <3>1. /\ recvtic[c] \in Nat /\ gametic[c] \in Nat /\ gametic[c] <= recvtic[c]
          /\ BACKUPTICS \in Nat /\ c \notin Player
      BY <2>2, DroneIs
    <3>2. /\ t \in Nat /\ gametic[c] <= t /\ t < start /\ t % BACKUPTICS \in Slot
          /\ start <= gametic[c] + BACKUPTICS
      BY <1>1, <1>3, <1>6, <1>7, <2>2, <3>1, SlotOf DEF DronesKeepUp
    <3>3. PICK s, z : s \in Slot /\ s = t % BACKUPTICS /\ z = CL_Received(c, start)[s]
      BY <3>2
    <3>4. CASE /\ \A u \in recvtic[c] .. start - 1 : u % BACKUPTICS # s
               /\ z = ticdata[c][s]
      <4>1. t \in gametic[d] .. recvtic[d] - 1
        BY <1>3, <2>2, <3>1, <3>2, <3>3, <3>4
      <4>. QED
        BY <1>6, <2>2, <3>3, <3>4, <4>1 DEF DroneInv, DroneRing
    <3>5. ASSUME NEW u \in recvtic[c] .. start - 1, u % BACKUPTICS = s,
                 \A v \in recvtic[c] .. start - 1 : v % BACKUPTICS = s => v = u,
                 z = D_ReceiveTic(c, ticdata[c][s], window[c][u])
          PROVE  Held(z, t)
      <4>1. u = t
        <5>1. CASE t < recvtic[c]
          <6>1. u \in Nat /\ t < u
            BY <3>1, <5>1
          <6>2. u < t + BACKUPTICS
            BY <1>3, <3>1, <3>2, <6>1
          <6>. QED
            BY <3>2, <3>3, <3>5, <6>1, <6>2, SlotsDiffer
        <5>2. CASE ~(t < recvtic[c])
          BY <3>1, <3>2, <3>3, <3>5, <5>2, <1>3
        <5>. QED
          BY <5>1, <5>2
      <4>2. Full(c, window[c][u], u)
        BY <1>3 DEF TicInv, Stored
      <4>3. PICK slot, cmds : slot = ticdata[c][s] /\ cmds = window[c][u]
        OBVIOUS
      <4>4. slot \in Commands /\ cmds \in Commands
        <5>1. cmds \in Commands
          BY <4>2, <4>3 DEF Full
        <5>2. slot \in Commands
          BY <3>3, <4>3 DEF TicInv, LoopTypes
        <5>. QED
          BY <5>1, <5>2
      <4>5. DOMAIN slot \subseteq Player /\ DOMAIN cmds \subseteq Player
        BY <4>4, CommandsDomain
      <4>6. z = [p \in DOMAIN cmds |-> cmds[p]]
        <5>1. z = [p \in (DOMAIN cmds \ {c}) \cup (DOMAIN slot \cap {c}) |->
                     IF p = c THEN slot[c] ELSE cmds[p]]
          BY <3>5, <4>3 DEF D_ReceiveTic
        <5>2. (DOMAIN cmds \ {c}) \cup (DOMAIN slot \cap {c}) = DOMAIN cmds /\ c \notin DOMAIN cmds
          BY <3>1, <4>5
        <5>. QED
          BY <5>1, <5>2
      <4>7. /\ \A p \in DOMAIN cmds : cmds[p] = t /\ t < maketic[p]
            /\ \A p \in Player \ {c} : ClientConnected(p) => p \in DOMAIN cmds
        BY <4>1, <4>2, <4>3 DEF Full
      <4>. QED
        BY <3>1, <4>5, <4>6, <4>7 DEF Held
    <3>6. z = ticdata'[d][t % BACKUPTICS]
      BY <1>6, <2>2, <3>3
    <3>7. \/ /\ \A u \in recvtic[c] .. start - 1 : u % BACKUPTICS # s
             /\ z = ticdata[c][s]
          \/ \E u \in recvtic[c] .. start - 1 :
               /\ u % BACKUPTICS = s
               /\ \A v \in recvtic[c] .. start - 1 : v % BACKUPTICS = s => v = u
               /\ z = D_ReceiveTic(c, ticdata[c][s], window[c][u])
      BY ONLY TicInv, <1>3, <3>3, CL_ReceivedIs
    <3>8. Held(z, t)
      BY <3>4, <3>5, <3>6, <3>7, <3>3
    <3>. QED
      BY <3>6, <3>8
  <2>. QED
    BY <2>1, <2>2
<1>8. DroneRing'
  BY <1>1, <1>7 DEF DroneRing, Held, ClientConnected
<1>9. DroneRan'
  BY <1>1 DEF DroneInv, DroneRan, Held, ClientConnected
<1>. QED
  BY <1>8, <1>9 DEF DroneInv

LEMMA DroneNext ==
  ASSUME TicInv, DroneInv, DronesKeepUp', [Next]_vars
  PROVE  DroneInv'
<1>1. TicInv'
  BY NextInv
<1>2. CASE \E c \in Client : RunTic(c)
  BY <1>1, <1>2, RunTicDrones
<1>3. CASE \E c \in Client, resend, ack \in BOOLEAN : CL_Run(c, resend, ack)
  BY <1>1, <1>3, CL_RunDrones
<1>4. CASE /\ ~\E c \in Client : RunTic(c)
           /\ ~\E c \in Client, resend, ack \in BOOLEAN : CL_Run(c, resend, ack)
  <2>1. Aside
    BY ONLY <1>4, TicInv, [Next]_vars, AsideSteps
  <2>. QED
    BY <1>1, <2>1, AsideDrones
<1>. QED
  BY <1>2, <1>3, <1>4

LEMMA DroneInit ==
  ASSUME Init
  PROVE  DroneInv
<1>1. \A d \in Drone : gametic[d] = FirstTic /\ recvtic[d] = FirstTic /\ ran[d] = <<>>
  BY DEF Init, Client
<1>2. \A d \in Drone : gametic[d] .. recvtic[d] - 1 = {} /\ DOMAIN ran[d] = {}
  BY <1>1, TicAssumption
<1>. QED
  BY <1>2 DEF DroneInv, DroneRing, DroneRan

\* What InStep says, in terms of Held.
LEMMA HeldInStep ==
  ASSUME NEW d \in Drone, DroneRan PROVE InStep(d)
BY DEF DroneRan, Held, InStep

\* Every client, also one that only watches, runs every tic with the commands of
\* all connected players, each in the tic it was built for, as long as drones run
\* tics before a ring of them is received (d_loop.c:71-72).
THEOREM LockStepCorrect == Spec /\ []DronesKeepUp => []LockStep
<1>1. Init => TicInv /\ DroneInv
  BY InitInv, DroneInit
<1>2. TicInv /\ DroneInv /\ DronesKeepUp' /\ [Next]_vars => (TicInv /\ DroneInv)'
  BY NextInv, DroneNext
<1>3. TicInv /\ DroneInv => LockStep
  BY HeldInStep DEF TicInv, DroneInv, History, LockStep, Client
<1>. QED
  BY <1>1, <1>2, <1>3, PTL DEF Spec

----------------------------------------------------------------------------
(* Agreement: while no player leaves, the commands run in a tic are those  *)
(* of all players.                                                         *)

PlayersIn == \A p \in Player : status[p] = "CONNECTED"

LEMMA PlayersInNext ==
  ASSUME Leavers \subseteq Drone, Silent \subseteq Drone, TicInv, PlayersIn, [Next]_vars
  PROVE  PlayersIn'
<1>1. Player \subseteq Client /\ Player \cap Drone = {}
  BY TicAssumption DEF Client
<1>2. status \in [Client -> {"CONNECTED", "SLEEP", "GONE"}]
  BY DEF TicInv, LoopTypes
<1>3. ASSUME UNCHANGED status \/ \E c \in Drone : \E v : status' = [status EXCEPT ![c] = v]
      PROVE  PlayersIn'
  BY <1>1, <1>2, <1>3 DEF PlayersIn
<1>4. ASSUME NEW c \in Client, Free(c) PROVE PlayersIn'
  <2>1. c \notin Player
    BY <1>1, <1>4 DEF Free, PlayersIn
  <2>. QED
    BY <1>3, <1>4, <2>1 DEF Free, Client
<1>5. ASSUME NEW c \in Client, NEW p \in net, SV_Packet(c, p) PROVE PlayersIn'
  <2>1. CASE UNCHANGED status
    BY <1>3, <2>1
  <2>2. CASE SV_ParseDisconnect(c, p)
    <3>1. p.type = "DISCONNECT" /\ p.client = c
      BY <1>5, <2>2 DEF SV_Packet, SV_ParseDisconnect
    <3>2. c \in Drone
      BY <3>1 DEF TicInv, Packets, Packet
    <3>. QED
      BY <1>3, <2>2, <3>2 DEF SV_ParseDisconnect
  <2>. QED
    BY <1>5, <2>1, <2>2 DEF SV_Packet, SV_ParseGameData, SV_ParseGameDataACK,
                            SV_ParseResendRequest
<1>6. ASSUME NEW c \in Client, NEW p \in net, CL_ParsePacket(c, p) PROVE UNCHANGED status
  BY <1>6 DEF CL_ParsePacket, CL_ParseGameData, CL_ParseResendRequest
<1>7. ASSUME NEW c \in Client, NEW resend, NEW ack, CL_Run(c, resend, ack)
      PROVE  UNCHANGED status
  BY <1>7 DEF CL_Run
<1>8. ASSUME NEW silent, NEW resend, SV_Run(silent, resend) PROVE UNCHANGED status
  BY <1>8 DEF SV_Run
<1>9. ASSUME NEW c \in Client, BuildNewTic(c) \/ RunTic(c) \/ Quit(c)
      PROVE  UNCHANGED status
  BY <1>9 DEF BuildNewTic, RunTic, Quit
<1>10. ASSUME NEW p \in net, Lose(p) PROVE UNCHANGED status
  BY <1>10 DEF Lose
<1>11. CASE UNCHANGED vars
  BY <1>3, <1>11 DEF vars
<1>. QED
  BY <1>1, <1>3, <1>4, <1>5, <1>6, <1>7, <1>8, <1>9, <1>10, <1>11 DEF Next

\* If no player quits or is given up, and drones keep up, any two clients ran the
\* same commands in the same tic.  (A drone may leave, and be given up.)
THEOREM AgreementCorrect ==
  ASSUME Leavers \subseteq Drone, Silent \subseteq Drone
  PROVE  Spec /\ []DronesKeepUp => []Agreement
<1>1. Init => TicInv /\ PlayersIn
  BY InitInv DEF Init, PlayersIn, Client
<1>2. TicInv /\ PlayersIn /\ [Next]_vars => (TicInv /\ PlayersIn)'
  BY NextInv, PlayersInNext
<1>3. TicInv /\ PlayersIn /\ LockStep => Agreement
  <2>. SUFFICES ASSUME TicInv, PlayersIn, LockStep, NEW c \in Client, NEW d \in Client,
                       NEW i \in DOMAIN ran[c] \cap DOMAIN ran[d]
                PROVE  ran[c][i] = ran[d][i]
    BY DEF Agreement
  <2>2. ASSUME NEW e \in Client, i \in DOMAIN ran[e]
        PROVE  ran[e][i] = [p \in Player |-> FirstTic + i - 1]
    <3>. DEFINE t == FirstTic + i - 1
    <3>1. ran[e] \in Seq(Commands)
      BY DEF TicInv, LoopTypes
    <3>2. ran[e][i] \in Commands
      BY <2>2, <3>1
    <3>3. PICK x \in Commands : x = ran[e][i]
      BY <3>2
    <3>4. /\ \A p \in Player : p \in DOMAIN ran[e][i] \/ ~ClientConnected(p)
          /\ \A p \in DOMAIN ran[e][i] : ran[e][i][p] = t
      BY <2>2 DEF LockStep, InStep
    <3>5. DOMAIN x \subseteq Player
      BY CommandsDomain
    <3>6. \A p \in Player : p \in DOMAIN x
      BY <3>3, <3>4 DEF PlayersIn, ClientConnected
    <3>7. \A p \in DOMAIN x : x[p] = t
      BY <3>3, <3>4
    <3>8. PICK ps \in SUBSET Player : x \in [ps -> Nat]
      BY DEF Commands
    <3>. HIDE DEF t
    <3>9. x \in [Player -> Nat]
      BY <3>5, <3>6, <3>8
    <3>10. x = [p \in Player |-> t]
      BY <3>7, <3>9
    <3>. QED
      BY <3>3, <3>10 DEF t
  <2>. QED
    BY <2>2
<1>. QED
  BY <1>1, <1>2, <1>3, LockStepCorrect, PTL DEF Spec
=============================================================================
