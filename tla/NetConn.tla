------------------------------ MODULE NetConn ------------------------------
(***************************************************************************)
(* One client-server connection of Crispy Doom (src/net_common.c): the     *)
(* SYN/ACK handshake, the stop-and-wait reliable channel, the two-sided    *)
(* disconnect, and the places in net_client.c and net_server.c that drive  *)
(* them.  Both ends run the same code over a network that loses,           *)
(* duplicates and reorders packets.                                        *)
(*                                                                         *)
(* Time is abstracted to the question each timer asks: a timer that was    *)
(* reset to -1 has certainly expired, any other may or may not have.       *)
(* Keepalives exist only to move keepalive_recv_time; the 30 s timeout is  *)
(* therefore a free choice and keepalives are not sent.                    *)
(***************************************************************************)
EXTENDS Naturals, Sequences, FiniteSets

CONSTANTS
    MAX_RETRIES,    \* sends of an ACK or a DISCONNECT before giving up
    SeqMod,         \* sequence numbers are one byte wide: 256
    MaxReliable,    \* bound: reliable messages each end submits
    MaxLoss,        \* bound: packets the network loses
    MaxDup,         \* bound: packets the network delivers twice
    MaxNet,         \* bound: packets in flight
    MaxBegins,      \* bound: times each end initialises its connection
    MaxFaults,      \* bound: packets lost and repeated and clients begun, together
    Crashes,        \* ends whose process may be killed
    Prompt          \* whether round trips take less than the shortest timer

Client == "client"
Server == "server"
Node == {Client, Server}
Peer(n) == IF n = Client THEN Server ELSE Client

Closed == "CLOSED"      \* a server slot no SYN has ever activated
Closing == {"DISCONNECTING", "DISCONNECTED", "DISCONNECTED_SLEEP"}
ConnState == {Closed, "CONNECTING", "WAITING_ACK", "CONNECTED"} \cup Closing
Reason == {"NONE", "LOCAL", "REMOTE", "TIMEOUT"}
SendTime == {"NEVER", "PAST"}        \* last_send_time: -1, or some time ago

ASSUME ConnAssumption ==
    /\ MAX_RETRIES \in Nat
    /\ SeqMod \in Nat /\ SeqMod > 1
    /\ MaxReliable \in [Node -> Nat]
    /\ MaxLoss \in Nat /\ MaxDup \in Nat /\ MaxNet \in Nat
    /\ MaxBegins \in [Node -> Nat] /\ MaxFaults \in Nat
    /\ Crashes \subseteq Node
    /\ Prompt \in BOOLEAN

VARIABLES
    state,              \* net_connection_t.state
    disconnect_reason,  \* net_connection_t.disconnect_reason
    last_send_time,
    num_retries,
    running,            \* ends with net_client_connected or active set
    reliable_packets,   \* the list of unacknowledged reliable packets
    reliable_send_seq,
    reliable_recv_seq,
    net,                \* packets in flight
    submitted,          \* history: messages given to NET_Conn_NewReliable
    delivered,          \* history: messages passed up, by number
    began,              \* history: how often each end called NET_Conn_Init
    asked,              \* history: ends that called NET_Conn_Disconnect
    rejected,           \* history: ends the server sent a REJECTED to
    lost, dups          \* history: packets lost, packets delivered twice

connVars == <<state, disconnect_reason, last_send_time, num_retries>>
sendVars == <<reliable_packets, reliable_send_seq, submitted>>
recvVars == <<reliable_recv_seq, delivered>>
history == <<began, asked, rejected>>
faults == <<lost, dups>>
vars == <<connVars, running, sendVars, recvVars, net, history, faults>>

(***************************************************************************)
(* Packets.  msg is not on the wire: it names the message a RELIABLE       *)
(* packet carries, or counts the messages a RELIABLE_ACK acknowledges.     *)
(***************************************************************************)
Plain == {"SYN", "ACK", "REJECTED", "DISCONNECT", "DISCONNECT_ACK"}
Pkt(type, to) == [type |-> type, to |-> to, seq |-> 0, msg |-> 0]
Reliable(to, seq, msg) ==
    [type |-> "RELIABLE", to |-> to, seq |-> seq, msg |-> msg]
ReliableACK(to, seq, msg) ==
    [type |-> "RELIABLE_ACK", to |-> to, seq |-> seq, msg |-> msg]

Packet == [type : Plain \cup {"RELIABLE", "RELIABLE_ACK"}, to : Node,
           seq : Nat, msg : Nat]

\* One more packet may be lost or repeated, or the client begin again.
Spared == lost + dups + began[Client] < MaxFaults

\* NET_SendPacket: the packets of one step enter the network.
Send(ps) ==
    /\ net' = net \cup ps
    /\ Cardinality(net \cup ps) <= MaxNet
    /\ UNCHANGED faults

\* The network delivers p, keeping a copy of it when it duplicates, and
\* takes the answers.
Exchange(p, answers) ==
    /\ \/ /\ net' = (net \ {p}) \cup answers
          /\ Cardinality((net \ {p}) \cup answers) <= MaxNet
          /\ UNCHANGED faults
       \/ /\ dups < MaxDup /\ Spared
          /\ Cardinality(net \cup answers) <= MaxNet
          /\ net' = net \cup answers
          /\ dups' = dups + 1 /\ UNCHANGED lost

\* No end has initialised its connection a second time.
First == \A n \in Node : began[n] <= 1

(***************************************************************************)
(* The one assumption on the network: no packet outlives SeqMod - 1        *)
(* further deliveries of its direction.  With 256 sequence numbers and one *)
(* message per round trip this is minutes.                                 *)
(***************************************************************************)
Receiver(p) == IF p.type = "RELIABLE" THEN p.to ELSE Peer(p.to)
Fresh(p) ==
    p.type \in Plain \/ ~First \/ Len(delivered[Receiver(p)]) + 1 < p.msg + SeqMod

----------------------------------------------------------------------------
\* NET_CL_Connect has just called NET_Conn_InitClient; the server has no
\* client at this address.
Init ==
    /\ state = [n \in Node |-> IF n = Client THEN "CONNECTING" ELSE Closed]
    /\ disconnect_reason = [n \in Node |-> "NONE"]
    /\ last_send_time = [n \in Node |-> "NEVER"]
    /\ num_retries = [n \in Node |-> 0]
    /\ running = {Client}
    /\ reliable_packets = [n \in Node |-> <<>>]
    /\ reliable_send_seq = [n \in Node |-> 0]
    /\ reliable_recv_seq = [n \in Node |-> 0]
    /\ net = {}
    /\ submitted = [n \in Node |-> 0]
    /\ delivered = [n \in Node |-> <<>>]
    /\ began = [n \in Node |-> IF n = Client THEN 1 ELSE 0]
    /\ asked = {}
    /\ rejected = {}
    /\ lost = 0 /\ dups = 0

----------------------------------------------------------------------------
(* Handshake                                                               *)

\* NET_CL_SendSYN, once a second while connecting.
SendSYN ==
    /\ Client \in running /\ state[Client] = "CONNECTING"
    /\ Send({Pkt("SYN", Server)})
    /\ UNCHANGED <<connVars, running, sendVars, recvVars, history>>

\* NET_Conn_Init and what it is called from: n begins a connection in state s.
\* (A wrong version keeps what the connection before it had sent and received.)
Begin(n, s) ==
    /\ began[n] < MaxBegins[n]
    /\ began' = [began EXCEPT ![n] = @ + 1]
    /\ running' = running \cup {n}
    /\ state' = [state EXCEPT ![n] = s]
    /\ last_send_time' = [last_send_time EXCEPT ![n] = "NEVER"]
    /\ num_retries' = [num_retries EXCEPT ![n] = 0]
    /\ UNCHANGED <<submitted, delivered, asked>>
NET_Conn_InitUnclean(n, s) ==
    /\ Begin(n, s)
    /\ UNCHANGED <<reliable_packets, reliable_send_seq, reliable_recv_seq>>
NET_Conn_Init(n, s) ==
    /\ Begin(n, s)
    /\ reliable_packets' = [reliable_packets EXCEPT ![n] = <<>>]
    /\ reliable_send_seq' = [reliable_send_seq EXCEPT ![n] = 0]
    /\ reliable_recv_seq' = [reliable_recv_seq EXCEPT ![n] = 0]

\* NET_CL_Connect of a client program that is started again, at the address of
\* the one before.
Connect ==
    /\ Client \notin running /\ Spared
    /\ NET_Conn_Init(Client, "CONNECTING")
    /\ disconnect_reason' = [disconnect_reason EXCEPT ![Client] = "NONE"]
    /\ UNCHANGED <<net, rejected, faults>>

\* NET_SV_ParseSYN refuses, opens the slot anew, or forces another ACK.  A slot
\* that is not active may belong to others, or to no program at all.
ParseSYN(p) ==
    /\ p \in net /\ p.type = "SYN"
    /\ LET opens == Server \notin running \/ state[Server] = "DISCONNECTED"
       IN \/ /\ Exchange(p, {Pkt("REJECTED", Client)})
             /\ rejected' = rejected \cup {Client}
             /\ running' \in {running, IF opens THEN running \ {Server} ELSE running}
             /\ UNCHANGED <<connVars, sendVars, recvVars, began, asked>>
          \/ /\ opens
             /\ Exchange(p, {})
             /\ NET_Conn_Init(Server, "WAITING_ACK")
             /\ UNCHANGED <<disconnect_reason, rejected>>
          \/ /\ Server \in running => ~opens
             /\ Exchange(p, {})
             /\ last_send_time' = [last_send_time EXCEPT ![Server] =
                    IF ~opens /\ state[Server] = "WAITING_ACK" THEN "NEVER" ELSE @]
             /\ UNCHANGED <<state, disconnect_reason, num_retries, running,
                            sendVars, recvVars, history>>

\* The state an ACK leads to.  (A wrong version forgets the client.)
AfterACKNoClient(s) == IF s = "WAITING_ACK" THEN "CONNECTED" ELSE s
AfterACK(s) == IF s \in {"CONNECTING", "WAITING_ACK"} THEN "CONNECTED" ELSE s

\* NET_Conn_ParseACK: only the CONNECTING end answers.
ParseACK(n, p) ==
    /\ p.type = "ACK"
    /\ IF state[n] = "CONNECTING"
       THEN Exchange(p, {Pkt("ACK", Peer(n))})
       ELSE Exchange(p, {})
    /\ state' = [state EXCEPT ![n] = AfterACK(@)]
    /\ UNCHANGED <<disconnect_reason, last_send_time, num_retries, sendVars,
                   recvVars, history>>

\* NET_Conn_ParseReject
ParseReject(n, p) ==
    /\ p.type = "REJECTED"
    /\ Exchange(p, {})
    /\ IF state[n] = "CONNECTING"
       THEN /\ state' = [state EXCEPT ![n] = "DISCONNECTED"]
            /\ disconnect_reason' = [disconnect_reason EXCEPT ![n] = "REMOTE"]
       ELSE UNCHANGED <<state, disconnect_reason>>
    /\ UNCHANGED <<last_send_time, num_retries, sendVars, recvVars, history>>

----------------------------------------------------------------------------
(* Reliable channel                                                        *)

\* net_reliable_packet_t
Item(seq, msg, time) == [seq |-> seq, msg |-> msg, last_send_time |-> time]

\* Sequence numbers are one byte wide (& 0xff); a wrong version never wraps.
NextSeqUnbounded(seq) == seq + 1
NextSeq(seq) == (seq + 1) % SeqMod

\* NET_Conn_NewReliable: queue a message at the end of the list.  Every
\* caller (LAUNCH, GAMESTART, console messages) does so while CONNECTED.
NewReliable(n) ==
    /\ n \in running /\ state[n] = "CONNECTED"
    /\ submitted[n] < MaxReliable[n]
    /\ submitted' = [submitted EXCEPT ![n] = @ + 1]
    /\ reliable_packets' = [reliable_packets EXCEPT ![n] =
         Append(@, Item(reliable_send_seq[n], submitted[n] + 1, "NEVER"))]
    /\ reliable_send_seq' = [reliable_send_seq EXCEPT ![n] = NextSeq(@)]
    /\ UNCHANGED <<connVars, running, recvVars, net, history, faults>>

\* Is p the next packet in the sequence?  (A wrong version takes any.)
ExpectedAny(n, p) == p.to = n
Expected(n, p) == p.seq = reliable_recv_seq[n]

\* NET_Conn_ReliablePacket: accept the packet iff it is the next one, and
\* acknowledge what is now expected either way.
ReliablePacket(n, p) ==
    /\ p.type = "RELIABLE"
    /\ LET recv_seq == IF Expected(n, p) THEN NextSeq(reliable_recv_seq[n])
                       ELSE reliable_recv_seq[n]
           log == IF Expected(n, p) THEN Append(delivered[n], p.msg)
                  ELSE delivered[n]
       IN /\ reliable_recv_seq' = [reliable_recv_seq EXCEPT ![n] = recv_seq]
          /\ delivered' = [delivered EXCEPT ![n] = log]
          /\ Exchange(p, {ReliableACK(Peer(n), recv_seq, Len(log))})
    /\ UNCHANGED <<connVars, sendVars, history>>

\* Does p acknowledge the head of the list?  (A wrong version takes any.)
AcksHeadAny(n, p) == reliable_packets[n] # <<>>
AcksHead(n, p) ==
    /\ reliable_packets[n] # <<>>
    /\ p.seq = NextSeq(Head(reliable_packets[n]).seq)

\* NET_Conn_ParseReliableACK: the head of the list, and only the head.
ParseReliableACK(n, p) ==
    /\ p.type = "RELIABLE_ACK"
    /\ Exchange(p, {})
    /\ IF AcksHead(n, p)
       THEN reliable_packets' = [reliable_packets EXCEPT ![n] = Tail(@)]
       ELSE UNCHANGED reliable_packets
    /\ UNCHANGED <<connVars, reliable_send_seq, submitted, recvVars, history>>

----------------------------------------------------------------------------
(* Disconnect                                                              *)

\* NET_Conn_Disconnect, as NET_CL_Disconnect and NET_SV_DisconnectClient
\* call it.
Disconnect(n) ==
    /\ n \in running /\ state[n] \notin Closing
    /\ state[n] # "CONNECTING"      \* NET_CL_Connect blocks while CONNECTING
    /\ state' = [state EXCEPT ![n] = "DISCONNECTING"]
    /\ disconnect_reason' = [disconnect_reason EXCEPT ![n] = "LOCAL"]
    /\ last_send_time' = [last_send_time EXCEPT ![n] = "NEVER"]
    /\ num_retries' = [num_retries EXCEPT ![n] = 0]
    /\ asked' = asked \cup {n}
    /\ UNCHANGED <<running, sendVars, recvVars, net, began, rejected, faults>>

\* NET_Conn_ParseDisconnect, in whatever state the connection is.
ParseDisconnect(n, p) ==
    /\ p.type = "DISCONNECT"
    /\ Exchange(p, {Pkt("DISCONNECT_ACK", Peer(n))})
    /\ state' = [state EXCEPT ![n] = "DISCONNECTED_SLEEP"]
    /\ disconnect_reason' = [disconnect_reason EXCEPT ![n] = "REMOTE"]
    /\ last_send_time' = [last_send_time EXCEPT ![n] = "PAST"]
    /\ UNCHANGED <<num_retries, sendVars, recvVars, history>>

\* NET_Conn_ParseDisconnectACK
ParseDisconnectACK(n, p) ==
    /\ p.type = "DISCONNECT_ACK"
    /\ Exchange(p, {})
    /\ IF state[n] = "DISCONNECTING"
       THEN /\ state' = [state EXCEPT ![n] = "DISCONNECTED"]
            /\ disconnect_reason' = [disconnect_reason EXCEPT ![n] = "LOCAL"]
            /\ last_send_time' = [last_send_time EXCEPT ![n] = "NEVER"]
       ELSE UNCHANGED <<state, disconnect_reason, last_send_time>>
    /\ UNCHANGED <<num_retries, sendVars, recvVars, history>>

\* NET_CL_Connect and NET_CL_Disconnect stop waiting after five seconds, and
\* NET_CL_Shutdown closes the connection without a word.
GiveUp ==
    /\ Client \in running /\ state[Client] \in {"CONNECTING", "DISCONNECTING"}
    /\ Prompt => net = {}
    /\ running' = running \ {Client}
    /\ UNCHANGED <<connVars, sendVars, recvVars, net, history, faults>>

----------------------------------------------------------------------------
(* NET_Conn_Run and what its callers do next                               *)

\* The state in which NET_CL_Run shuts the client down, and in which
\* NET_SV_RunClient frees the slot.
Finished(n, s) ==
    IF n = Client THEN s \in {"DISCONNECTED", "DISCONNECTED_SLEEP"}
                  ELSE s = "DISCONNECTED"

Settle(n) ==
    running' = IF Finished(n, state'[n]) THEN running \ {n} ELSE running

\* Is the head of the reliable list to be sent?  (A wrong version sends once.)
HeadDueOnce(n, late) ==
    reliable_packets[n] # <<>> /\ Head(reliable_packets[n]).last_send_time = "NEVER"
HeadDue(n, late) ==
    /\ reliable_packets[n] # <<>>
    /\ Head(reliable_packets[n]).last_send_time = "NEVER" \/ late

\* CONNECTED: the 30 s timeout, then the head of the reliable list is sent
\* when it never was or its second is over; a timeout does not stop the send.
RunConnected(n, timeout, late) ==
    /\ state[n] = "CONNECTED"
    /\ IF timeout
       THEN /\ state' = [state EXCEPT ![n] = "DISCONNECTED"]
            /\ disconnect_reason' = [disconnect_reason EXCEPT ![n] = "TIMEOUT"]
       ELSE UNCHANGED <<state, disconnect_reason>>
    /\ IF HeadDue(n, late)
       THEN LET rp == Head(reliable_packets[n])
            IN /\ Send({Reliable(Peer(n), rp.seq, rp.msg)})
               /\ reliable_packets' =
                    [reliable_packets EXCEPT ![n][1] = Item(rp.seq, rp.msg, "PAST")]
       ELSE UNCHANGED <<reliable_packets, net, faults>>
    /\ UNCHANGED <<last_send_time, num_retries>>

\* What is sent again in a state, and the reason given when nobody answers
\* (a wrong version blames the other end).
Retried(s) == IF s = "WAITING_ACK" THEN "ACK" ELSE "DISCONNECT"
NoAnswerRemote(s) == IF s = "WAITING_ACK" THEN "TIMEOUT" ELSE "REMOTE"
NoAnswer(s) == IF s = "WAITING_ACK" THEN "TIMEOUT" ELSE "LOCAL"

\* WAITING_ACK and DISCONNECTING: send again each second, give up in the end.
RunRetry(n, late) ==
    /\ state[n] \in {"WAITING_ACK", "DISCONNECTING"}
    /\ last_send_time[n] = "NEVER" \/ late
    /\ IF num_retries[n] < MAX_RETRIES
       THEN /\ Send({Pkt(Retried(state[n]), Peer(n))})
            /\ last_send_time' = [last_send_time EXCEPT ![n] = "PAST"]
            /\ num_retries' = [num_retries EXCEPT ![n] = @ + 1]
            /\ UNCHANGED <<state, disconnect_reason>>
       ELSE /\ state' = [state EXCEPT ![n] = "DISCONNECTED"]
            /\ disconnect_reason' =
                 [disconnect_reason EXCEPT ![n] = NoAnswer(state[n])]
            /\ UNCHANGED <<last_send_time, num_retries, net, faults>>
    /\ UNCHANGED reliable_packets

\* DISCONNECTED_SLEEP ends after five seconds.  (A wrong version sleeps on.)
RunSleepOn(n, late) ==
    /\ state[n] = "DISCONNECTED_SLEEP"
    /\ UNCHANGED <<connVars, reliable_packets, net, faults>>
RunSleep(n, late) ==
    /\ state[n] = "DISCONNECTED_SLEEP"
    /\ IF late
       THEN /\ state' = [state EXCEPT ![n] = "DISCONNECTED"]
            /\ disconnect_reason' = [disconnect_reason EXCEPT ![n] = "REMOTE"]
       ELSE UNCHANGED <<state, disconnect_reason>>
    /\ UNCHANGED <<last_send_time, num_retries, reliable_packets, net, faults>>

RunDisconnected(n) ==
    /\ state[n] = "DISCONNECTED"
    /\ UNCHANGED <<connVars, reliable_packets, net, faults>>

\* Prompt networks answer before a timer expires, and a live peer's packets
\* keep the 30 s timeout away.
Timers(n, timeout, late) ==
    Prompt => /\ late => net = {}
              /\ timeout => Peer(n) \notin running

Run(n, timeout, late) ==
    /\ n \in running /\ Timers(n, timeout, late)
    /\ \/ RunConnected(n, timeout, late)
       \/ RunRetry(n, late)
       \/ RunSleep(n, late)
       \/ RunDisconnected(n)
    /\ Settle(n)
    /\ UNCHANGED <<reliable_send_seq, submitted, recvVars, history>>

----------------------------------------------------------------------------
(* Receiving, the network, and crashes                                     *)

\* NET_Conn_Packet, for a packet NET_CL_Run or NET_SV_Packet takes off the
\* network.
ConnPacket(n, p) ==
    /\ n \in running /\ p \in net /\ p.to = n /\ Fresh(p)
    /\ \/ ParseACK(n, p)
       \/ ParseReject(n, p)
       \/ ReliablePacket(n, p)
       \/ ParseReliableACK(n, p)
       \/ ParseDisconnect(n, p)
       \/ ParseDisconnectACK(n, p)
    /\ UNCHANGED running

\* A packet for an end that is not listening, or one that outlived the
\* lifetime, disappears.
Drop(p) ==
    /\ p \in net
    /\ \/ ~Fresh(p)
       \/ p.to \notin running /\ p.type # "SYN"
    /\ net' = net \ {p}
    /\ UNCHANGED <<connVars, running, sendVars, recvVars, history, faults>>

Lose(p) ==
    /\ p \in net /\ lost < MaxLoss /\ Spared
    /\ net' = net \ {p}
    /\ lost' = lost + 1 /\ UNCHANGED dups
    /\ UNCHANGED <<connVars, running, sendVars, recvVars, history>>

Crash(n) ==
    /\ n \in Crashes /\ n \in running
    /\ running' = running \ {n}
    /\ UNCHANGED <<connVars, sendVars, recvVars, net, history, faults>>

Next ==
    \/ Connect \/ SendSYN \/ GiveUp
    \/ \E p \in net : ParseSYN(p) \/ Drop(p) \/ Lose(p)
    \/ \E n \in Node :
         \/ NewReliable(n) \/ Disconnect(n) \/ Crash(n)
         \/ \E timeout, late \in BOOLEAN : Run(n, timeout, late)
         \/ \E p \in net : ConnPacket(n, p)

Spec == Init /\ [][Next]_vars

(***************************************************************************)
(* The program calls NET_CL_Run and NET_SV_Run every tic while the process *)
(* lives, timers do expire, and what the network does not lose arrives.    *)
(***************************************************************************)
Fairness ==
    /\ WF_vars(SendSYN) /\ WF_vars(GiveUp)
    /\ \A n \in Node :
         /\ WF_vars(\E late \in BOOLEAN : Run(n, FALSE, late))
         /\ WF_vars(Peer(n) \notin running /\ state[n] = "CONNECTED"
                      /\ Run(n, TRUE, FALSE))
         /\ WF_vars(\E p \in net :
                      p.to = n /\ (ParseSYN(p) \/ ConnPacket(n, p) \/ Drop(p)))

FairSpec == Spec /\ Fairness

----------------------------------------------------------------------------
(* Properties                                                              *)

ListItem == [seq : 0 .. SeqMod - 1, msg : Nat \ {0}, last_send_time : SendTime]

\* Type invariant of the connection.
TypeOK ==
    /\ state \in [Node -> ConnState]
    /\ disconnect_reason \in [Node -> Reason]
    /\ last_send_time \in [Node -> SendTime]
    /\ num_retries \in [Node -> 0 .. MAX_RETRIES]
    /\ running \subseteq Node
    /\ reliable_packets \in [Node -> Seq(ListItem)]
    /\ reliable_send_seq \in [Node -> 0 .. SeqMod - 1]
    /\ reliable_recv_seq \in [Node -> 0 .. SeqMod - 1]
    /\ net \subseteq Packet
    /\ submitted \in [Node -> Nat]
    /\ delivered \in [Node -> Seq(Nat)]
    /\ began \in [Node -> Nat]
    /\ asked \subseteq Node
    /\ rejected \subseteq Node
    /\ lost \in Nat /\ dups \in Nat

\* How many messages n has dropped from its list as acknowledged.
Acked(n) == submitted[n] - Len(reliable_packets[n])

\* A message leaves the sender's list only after the peer has passed it up,
\* and the peer is never more than one message ahead of what the sender knows:
\* NET_Conn_ParseReliableACK frees the right packet, whatever stale or
\* repeated acknowledgements arrive.  (This and what follows from it is of a
\* connection that no end begins anew: nothing on the wire tells two apart.)
AckedIsDelivered ==
    First => \A n \in Node : /\ Acked(n) <= Len(delivered[Peer(n)])
                             /\ Len(delivered[Peer(n)]) <= Acked(n) + 1

(***************************************************************************)
(* The inductive invariant behind AckedIsDelivered and FifoSpec, for the   *)
(* direction out of n: the list holds exactly the submitted messages that  *)
(* are not acknowledged, both sequence counters are the history counts     *)
(* modulo SeqMod, only the head of a list was ever sent, and every packet  *)
(* in flight carries the sequence number of its message.                   *)
(***************************************************************************)
ListInv(n) ==
    /\ Len(reliable_packets[n]) <= submitted[n]
    /\ \A i \in 1 .. Len(reliable_packets[n]) :
         /\ reliable_packets[n][i].msg = Acked(n) + i
         /\ reliable_packets[n][i].seq = (Acked(n) + i - 1) % SeqMod

CounterInv(n) ==
    /\ reliable_send_seq[n] = submitted[n] % SeqMod
    /\ reliable_recv_seq[n] = Len(delivered[n]) % SeqMod

WindowInv(n) ==
    /\ Acked(n) <= Len(delivered[Peer(n)])
    /\ Len(delivered[Peer(n)]) <= Acked(n) + 1
    /\ Len(delivered[Peer(n)]) <= submitted[n]

DataInv(n) ==
    \A p \in net : p.type = "RELIABLE" /\ p.to = Peer(n) =>
        /\ p.msg \in 1 .. submitted[n] /\ p.msg <= Acked(n) + 1
        /\ p.seq = (p.msg - 1) % SeqMod

AckInv(n) ==
    \A p \in net : p.type = "RELIABLE_ACK" /\ p.to = n =>
        /\ p.msg <= Len(delivered[Peer(n)])
        /\ p.seq = p.msg % SeqMod

InOrder(n) ==
    \A i \in 1 .. Len(delivered[n]) : delivered[n][i] = i

Channel ==
    \A n \in Node : /\ ListInv(n) /\ CounterInv(n) /\ WindowInv(n)
                    /\ DataInv(n) /\ AckInv(n) /\ InOrder(n)
ChannelInv == First => Channel

\* The server believes in the connection only if the client does or did: an
\* ACK reaches a WAITING_ACK slot only from a client that left CONNECTING by
\* being accepted, however often late SYNs open the slot.
NoHalfAccepted ==
    state[Server] = "CONNECTED" /\ began[Client] = 1 =>
        state[Client] = "CONNECTED" \/ state[Client] \in Closing

\* An end reports a remote disconnect only when the other end asked for one,
\* or, on the client, when the server refused it.
RemoteIsRemote ==
    \A n \in Node : disconnect_reason[n] = "REMOTE" =>
        Peer(n) \in asked \/ n \in rejected

\* A connection that began to close never carries traffic again, whatever
\* delayed ACKs and SYNs still arrive: the end begins another one, and keeps
\* nothing of the old.
BeginsAnew(n) ==
    /\ began'[n] = began[n] + 1 /\ state'[n] \in {"CONNECTING", "WAITING_ACK"}
    /\ reliable_packets'[n] = <<>> /\ num_retries'[n] = 0
    /\ reliable_send_seq'[n] = 0 /\ reliable_recv_seq'[n] = 0
NeverReopened ==
    [][\A n \in Node : state[n] \in Closing =>
           state'[n] \in Closing \/ BeginsAnew(n)]_vars

\* Every reliable message submitted before anybody leaves is passed up, or the
\* connection is over: losses and duplicates alone never stop the channel.
Outstanding == \E n \in Node : submitted[n] > Len(delivered[Peer(n)])
ReliableDelivered ==
    Outstanding ~> ~Outstanding \/ asked # {} \/ running # Node \/ ~First

\* A disconnect comes to an end at both ends: no end waits for ever for an
\* acknowledgement, a retry or a sleeping peer.
DisconnectEnds == asked # {} ~> running = {} \/ ~First

\* The reliable channel implements a pair of FIFO pipes: exactly once, in
\* order, whatever the network does (NET_Conn_ReliablePacket).
Fifo == INSTANCE NetFifo
          WITH submitted <- submitted, delivered <- delivered, renewed <- ~First
FifoSpec == Fifo!Spec

----------------------------------------------------------------------------
(* What comments of the code say and the code does not do                  *)

\* net_common.c:378-383 resends the ACK because there is "still no reply"; one
\* lost packet should therefore not cost an accepted client its connection.
HandshakeSurvivesOneLoss ==
    lost <= 1 /\ disconnect_reason[Server] = "TIMEOUT" =>
        state[Client] # "CONNECTED"
=============================================================================
