--------------------------- MODULE NetConnProofs ---------------------------
(***************************************************************************)
(* For every value of the constants: NetConn keeps its types, its reliable *)
(* channel keeps ChannelInv, and therefore implements NetFifo.             *)
(***************************************************************************)
EXTENDS NetConn, Integers, SequenceTheorems, ByteArith, TLAPS

LEMMA PeerFacts ==
  \A n \in Node : Peer(n) \in Node /\ Peer(n) # n /\ Peer(Peer(n)) = n
  BY DEF Node, Peer, Client, Server

LEMMA ByteRange ==
  /\ 0 \in 0 .. SeqMod - 1
  /\ \A s \in Nat : NextSeq(s) \in 0 .. SeqMod - 1
  BY ConnAssumption, DivMod DEF NextSeq

\* What a packet handler does to the network keeps it a set of packets.
LEMMA NetTypes ==
  ASSUME TypeOK, NEW p \in net, NEW ps \in SUBSET Packet,
         Send(ps) \/ Exchange(p, ps)
  PROVE  /\ net' \in SUBSET Packet /\ net' \subseteq net \cup ps
         /\ lost' \in Nat /\ dups' \in Nat
  BY DEF TypeOK, Send, Exchange, faults

LEMMA SendTypes ==
  ASSUME TypeOK, NEW ps \in SUBSET Packet, Send(ps)
  PROVE  /\ net' \in SUBSET Packet /\ net' = net \cup ps
         /\ lost' \in Nat /\ dups' \in Nat
  BY DEF TypeOK, Send, faults

LEMMA PlainPackets ==
  \A type \in Plain, n \in Node : Pkt(type, n) \in Packet
  BY DEF Plain, Pkt, Packet

LEMMA ReliablePackets ==
  ASSUME NEW n \in Node, NEW s \in Nat, NEW m \in Nat
  PROVE  Reliable(n, s, m) \in Packet /\ ReliableACK(n, s, m) \in Packet
  BY DEF Packet, Reliable, ReliableACK

LEMMA PacketFields ==
  ASSUME NEW p \in Packet
  PROVE  p.to \in Node /\ p.seq \in Nat /\ p.msg \in Nat
  BY DEF Packet

LEMMA ItemTypes ==
  ASSUME NEW s \in 0 .. SeqMod - 1, NEW m \in Nat \ {0}, NEW t \in SendTime
  PROVE  Item(s, m, t) \in ListItem
  BY DEF Item, ListItem

LEMMA ItemFields ==
  ASSUME NEW x \in ListItem
  PROVE  x.seq \in 0 .. SeqMod - 1 /\ x.msg \in Nat \ {0}
  BY DEF ListItem

----------------------------------------------------------------------------
(* Types                                                                   *)

LEMMA TypeInit == Init => TypeOK
  BY ConnAssumption, ByteRange
  DEF Init, TypeOK, ConnState, Reason, SendTime, Closing, Closed, Node, Client

\* The list after its head was sent.
LEMMA ListSent ==
  ASSUME TypeOK, NEW n \in Node, reliable_packets[n] # <<>>,
         reliable_packets' = [reliable_packets EXCEPT ![n][1] =
           Item(reliable_packets[n][1].seq, reliable_packets[n][1].msg, "PAST")]
  PROVE  /\ reliable_packets' \in [Node -> Seq(ListItem)]
         /\ \A m \in Node : Len(reliable_packets'[m]) = Len(reliable_packets[m])
         /\ \A m \in Node : \A i \in 1 .. Len(reliable_packets[m]) :
              /\ reliable_packets'[m][i].msg = reliable_packets[m][i].msg
              /\ reliable_packets'[m][i].seq = reliable_packets[m][i].seq
<1>. DEFINE L == reliable_packets[n]
            item == Item(L[1].seq, L[1].msg, "PAST")
            K == [L EXCEPT ![1] = item]
<1>1. L \in Seq(ListItem) /\ 1 \in 1 .. Len(L)
  BY DEF TypeOK
<1>2. item \in ListItem /\ item.msg = L[1].msg /\ item.seq = L[1].seq
  <2>1. L[1] \in ListItem
    BY <1>1
  <2>2. L[1].seq \in 0 .. SeqMod - 1 /\ L[1].msg \in Nat \ {0}
    BY <2>1, ItemFields
  <2>. QED
    BY <2>2, ItemTypes DEF Item, SendTime
<1>3. reliable_packets' = [reliable_packets EXCEPT ![n] = K]
  OBVIOUS
<1>4. /\ K \in Seq(ListItem) /\ Len(K) = Len(L)
      /\ \A i \in 1 .. Len(L) : K[i] = IF i = 1 THEN item ELSE L[i]
  <2>. HIDE DEF item, L
  <2>. QED
    BY <1>1, <1>2, ExceptSeq
<1>. HIDE DEF K, item
<1>. QED
  BY <1>2, <1>3, <1>4 DEF TypeOK

\* NET_Conn_Init leaves a connection of its type.
LEMMA BeginTypes ==
  ASSUME TypeOK, NEW n \in Node, NEW s \in ConnState, NET_Conn_Init(n, s)
  PROVE  /\ state' \in [Node -> ConnState]
         /\ last_send_time' \in [Node -> SendTime]
         /\ num_retries' \in [Node -> 0 .. MAX_RETRIES]
         /\ running' \subseteq Node
         /\ reliable_packets' \in [Node -> Seq(ListItem)]
         /\ reliable_send_seq' \in [Node -> 0 .. SeqMod - 1]
         /\ reliable_recv_seq' \in [Node -> 0 .. SeqMod - 1]
         /\ submitted' \in [Node -> Nat] /\ delivered' \in [Node -> Seq(Nat)]
         /\ began' \in [Node -> Nat] /\ asked' \subseteq Node
<1>1. 0 \in 0 .. MAX_RETRIES /\ 0 \in 0 .. SeqMod - 1 /\ <<>> \in Seq(ListItem)
  BY ConnAssumption
<1>2. /\ reliable_packets' = [reliable_packets EXCEPT ![n] = <<>>]
      /\ reliable_send_seq' = [reliable_send_seq EXCEPT ![n] = 0]
      /\ reliable_recv_seq' = [reliable_recv_seq EXCEPT ![n] = 0]
      /\ num_retries' = [num_retries EXCEPT ![n] = 0]
  BY DEF NET_Conn_Init, Begin
<1>3. /\ reliable_packets' \in [Node -> Seq(ListItem)]
      /\ reliable_send_seq' \in [Node -> 0 .. SeqMod - 1]
      /\ reliable_recv_seq' \in [Node -> 0 .. SeqMod - 1]
      /\ num_retries' \in [Node -> 0 .. MAX_RETRIES]
  <2>1. /\ reliable_packets \in [Node -> Seq(ListItem)]
        /\ reliable_send_seq \in [Node -> 0 .. SeqMod - 1]
        /\ reliable_recv_seq \in [Node -> 0 .. SeqMod - 1]
        /\ num_retries \in [Node -> 0 .. MAX_RETRIES]
    BY DEF TypeOK
  <2>. QED
    BY ONLY <1>1, <1>2, <2>1
<1>. QED
  BY <1>3 DEF NET_Conn_Init, Begin, TypeOK, SendTime

LEMMA TypeStep == TypeOK /\ [Next]_vars => TypeOK'
<1>. SUFFICES ASSUME TypeOK, [Next]_vars PROVE TypeOK'
  OBVIOUS
<1>0. CASE Connect
  <2>2. Client \in Node /\ "CONNECTING" \in ConnState
    BY DEF Node, ConnState
  <2>. QED
    BY <1>0, <2>2, BeginTypes DEF Connect, TypeOK, Reason, faults
<1>1. CASE SendSYN
  BY <1>1, SendTypes, PlainPackets DEF SendSYN, TypeOK, Node, Plain, connVars, sendVars, recvVars, history, faults
<1>2. CASE GiveUp
  BY <1>2 DEF GiveUp, TypeOK, connVars, sendVars, recvVars, history, faults
<1>3. ASSUME NEW p \in net, ParseSYN(p) PROVE TypeOK'
  <2>1. net' \in SUBSET Packet /\ lost' \in Nat /\ dups' \in Nat
    BY <1>3, NetTypes, PlainPackets DEF ParseSYN, Node, Plain
  <2>2. CASE NET_Conn_Init(Server, "WAITING_ACK")
             /\ UNCHANGED <<disconnect_reason, rejected>>
    <3>1. Server \in Node /\ "WAITING_ACK" \in ConnState
      BY DEF Node, ConnState
    <3>. QED
      BY <2>1, <2>2, <3>1, BeginTypes DEF TypeOK
  <2>3. CASE /\ UNCHANGED <<connVars, sendVars, recvVars, began, asked>>
             /\ rejected' = rejected \cup {Client} /\ running' \subseteq running
    BY <2>1, <2>3 DEF TypeOK, connVars, sendVars, recvVars, Node
  <2>4. CASE /\ UNCHANGED <<state, disconnect_reason, num_retries, running,
                            sendVars, recvVars, history>>
             /\ \/ UNCHANGED last_send_time
                \/ last_send_time' = [last_send_time EXCEPT ![Server] = "NEVER"]
    BY <2>1, <2>4 DEF TypeOK, sendVars, recvVars, history, SendTime
  <2>. QED
    <3>. DEFINE opens == Server \notin running \/ state[Server] = "DISCONNECTED"
    <3>1. \/ /\ UNCHANGED <<connVars, sendVars, recvVars, began, asked>>
             /\ rejected' = rejected \cup {Client} /\ running' \subseteq running
          \/ /\ NET_Conn_Init(Server, "WAITING_ACK")
             /\ UNCHANGED <<disconnect_reason, rejected>>
          \/ /\ UNCHANGED <<state, disconnect_reason, num_retries, running,
                             sendVars, recvVars, history>>
             /\ last_send_time' = [last_send_time EXCEPT ![Server] =
                    IF ~opens /\ state[Server] = "WAITING_ACK" THEN "NEVER" ELSE @]
      BY <1>3 DEF ParseSYN
    <3>2. last_send_time = [last_send_time EXCEPT ![Server] = @]
      BY DEF TypeOK
    <3>. HIDE DEF opens
    <3>. QED
      BY <2>2, <2>3, <2>4, <3>1, <3>2
<1>4. ASSUME NEW p \in net, Drop(p) \/ Lose(p) PROVE TypeOK'
  BY <1>4 DEF Drop, Lose, TypeOK, connVars, sendVars, recvVars, history, faults
<1>5. ASSUME NEW n \in Node, NewReliable(n) PROVE TypeOK'
  <2>. DEFINE item == Item(reliable_send_seq[n], submitted[n] + 1, "NEVER")
  <2>1. item \in ListItem
    <3>1. /\ reliable_send_seq[n] \in 0 .. SeqMod - 1
          /\ submitted[n] + 1 \in Nat \ {0}
      BY DEF TypeOK
    <3>. QED
      BY <3>1, ItemTypes DEF SendTime
  <2>2. Append(reliable_packets[n], item) \in Seq(ListItem)
    BY <2>1 DEF TypeOK
  <2>3. reliable_packets' \in [Node -> Seq(ListItem)]
    <3>1. reliable_packets' =
            [reliable_packets EXCEPT ![n] = Append(reliable_packets[n], item)]
      BY <1>5 DEF NewReliable
    <3>. HIDE DEF item
    <3>. QED
      BY <2>2, <3>1 DEF TypeOK
  <2>4. reliable_send_seq' \in [Node -> 0 .. SeqMod - 1]
    <3>1. reliable_send_seq[n] \in Nat
      BY ConnAssumption DEF TypeOK
    <3>2. NextSeq(reliable_send_seq[n]) \in 0 .. SeqMod - 1
      BY <3>1, ByteRange
    <3>. QED
      BY <1>5, <3>2 DEF NewReliable, TypeOK
  <2>5. submitted' \in [Node -> Nat]
    BY <1>5 DEF NewReliable, TypeOK
  <2>. QED
    BY <1>5, <2>3, <2>4, <2>5 DEF NewReliable, TypeOK, connVars, recvVars, history, faults
<1>6. ASSUME NEW n \in Node, Disconnect(n) PROVE TypeOK'
  <2>1. state' \in [Node -> ConnState]
    BY <1>6 DEF Disconnect, TypeOK, ConnState, Closing
  <2>2. disconnect_reason' \in [Node -> Reason]
    BY <1>6 DEF Disconnect, TypeOK, Reason
  <2>3. last_send_time' \in [Node -> SendTime]
    BY <1>6 DEF Disconnect, TypeOK, SendTime
  <2>4. num_retries' \in [Node -> 0 .. MAX_RETRIES]
    BY <1>6, ConnAssumption DEF Disconnect, TypeOK
  <2>. QED
    BY <1>6, <2>1, <2>2, <2>3, <2>4 DEF Disconnect, TypeOK, sendVars, recvVars, faults
<1>7. ASSUME NEW n \in Node, Crash(n) PROVE TypeOK'
  BY <1>7 DEF Crash, TypeOK, connVars, sendVars, recvVars, history, faults
<1>8. ASSUME NEW n \in Node, NEW timeout \in BOOLEAN, NEW late \in BOOLEAN,
             Run(n, timeout, late)
      PROVE  TypeOK'
  <2>1. state' \in [Node -> ConnState]
    BY <1>8 DEF Run, RunConnected, RunRetry, RunSleep, RunDisconnected, TypeOK,
                ConnState, Closing, connVars
  <2>3. disconnect_reason' \in [Node -> Reason]
    BY <1>8 DEF Run, RunConnected, RunRetry, RunSleep, RunDisconnected,
                NoAnswer, TypeOK, Reason, connVars
  <2>4. last_send_time' \in [Node -> SendTime]
    BY <1>8 DEF Run, RunConnected, RunRetry, RunSleep, RunDisconnected, TypeOK,
                SendTime, connVars
  <2>5. num_retries' \in [Node -> 0 .. MAX_RETRIES]
    <3>1. num_retries[n] \in 0 .. MAX_RETRIES
      BY DEF TypeOK
    <3>2. num_retries[n] < MAX_RETRIES => num_retries[n] + 1 \in 0 .. MAX_RETRIES
      BY <3>1, ConnAssumption
    <3>3. \/ UNCHANGED num_retries
          \/ /\ num_retries[n] < MAX_RETRIES
             /\ num_retries' = [num_retries EXCEPT ![n] = num_retries[n] + 1]
      BY <1>8
      DEF Run, RunConnected, RunRetry, RunSleep, RunDisconnected, connVars
    <3>. QED
      BY <3>2, <3>3 DEF TypeOK
  <2>6. running' \subseteq Node
    BY <1>8 DEF Run, Settle, TypeOK
  <2>2. /\ reliable_packets' \in [Node -> Seq(ListItem)]
        /\ net' \subseteq Packet /\ lost' \in Nat /\ dups' \in Nat
    <3>1. CASE RunConnected(n, timeout, late) /\ HeadDue(n, late)
      <4>. DEFINE rp == Head(reliable_packets[n])
      <4>1. rp \in ListItem
        BY <3>1 DEF HeadDue, TypeOK
      <4>2. Reliable(Peer(n), rp.seq, rp.msg) \in Packet
        <5>1. rp.seq \in Nat /\ rp.msg \in Nat
          BY <4>1, ItemFields, ConnAssumption
        <5>. QED
          BY <5>1, ReliablePackets, PeerFacts
      <4>3. net' \in SUBSET Packet /\ lost' \in Nat /\ dups' \in Nat
        BY <3>1, <4>2, SendTypes DEF RunConnected
      <4>4. /\ reliable_packets[n] # <<>> /\ rp = reliable_packets[n][1]
            /\ reliable_packets' = [reliable_packets EXCEPT ![n][1] =
                                      Item(rp.seq, rp.msg, "PAST")]
        BY <3>1 DEF RunConnected, HeadDue
      <4>5. reliable_packets' \in [Node -> Seq(ListItem)]
        BY <4>4, ListSent
      <4>. QED
        BY <4>3, <4>5
    <3>2. CASE RunRetry(n, late)
      <4>1. Pkt(Retried(state[n]), Peer(n)) \in Packet
        BY PlainPackets, PeerFacts DEF Retried, Plain
      <4>2. Send({Pkt(Retried(state[n]), Peer(n))}) \/ UNCHANGED <<net, faults>>
        BY <3>2 DEF RunRetry
      <4>3. net' \in SUBSET Packet /\ lost' \in Nat /\ dups' \in Nat
        BY <4>1, <4>2, SendTypes DEF TypeOK, faults
      <4>. QED
        BY <3>2, <4>3 DEF RunRetry, TypeOK
    <3>3. CASE \/ RunConnected(n, timeout, late) /\ ~HeadDue(n, late)
               \/ RunSleep(n, late) \/ RunDisconnected(n)
      BY <3>3 DEF RunConnected, RunSleep, RunDisconnected, TypeOK, faults
    <3>. QED
      BY <1>8, <3>1, <3>2, <3>3 DEF Run
  <2>. QED
    BY <1>8, <2>1, <2>2, <2>3, <2>4, <2>5, <2>6 DEF Run, TypeOK, recvVars, history, faults
<1>9. ASSUME NEW n \in Node, NEW p \in net, ConnPacket(n, p) PROVE TypeOK'
  <2>. p \in Packet
    BY DEF TypeOK
  <2>1. CASE ParseACK(n, p)
    <3>1. net' \in SUBSET Packet /\ lost' \in Nat /\ dups' \in Nat
      BY <2>1, NetTypes, PlainPackets, PeerFacts DEF ParseACK, Plain
    <3>. QED
      BY <1>9, <2>1, <3>1
      DEF ParseACK, AfterACK, ConnPacket, TypeOK, ConnState, SendTime, sendVars, recvVars, history, faults
  <2>2. CASE ParseReject(n, p) \/ ParseDisconnectACK(n, p)
    <3>1. net' \in SUBSET Packet /\ lost' \in Nat /\ dups' \in Nat
      BY <2>2, NetTypes DEF ParseReject, ParseDisconnectACK
    <3>2. state' \in [Node -> ConnState]
      BY <2>2 DEF ParseReject, ParseDisconnectACK, TypeOK, ConnState, Closing
    <3>3. disconnect_reason' \in [Node -> Reason]
      BY <2>2 DEF ParseReject, ParseDisconnectACK, TypeOK, Reason
    <3>4. last_send_time' \in [Node -> SendTime]
      BY <2>2 DEF ParseReject, ParseDisconnectACK, TypeOK, SendTime
    <3>. QED
      BY <1>9, <2>2, <3>1, <3>2, <3>3, <3>4
      DEF ParseReject, ParseDisconnectACK, ConnPacket, TypeOK, sendVars, recvVars, history
  <2>3. CASE ReliablePacket(n, p)
    <3>. DEFINE recv_seq == IF Expected(n, p) THEN NextSeq(reliable_recv_seq[n])
                            ELSE reliable_recv_seq[n]
                log == IF Expected(n, p) THEN Append(delivered[n], p.msg)
                       ELSE delivered[n]
    <3>1. recv_seq \in 0 .. SeqMod - 1 /\ log \in Seq(Nat)
      <4>1. reliable_recv_seq[n] \in 0 .. SeqMod - 1 /\ delivered[n] \in Seq(Nat)
        BY DEF TypeOK
      <4>2. NextSeq(reliable_recv_seq[n]) \in 0 .. SeqMod - 1
        <5>1. reliable_recv_seq[n] \in Nat
          BY <4>1, ConnAssumption
        <5>. QED
          BY <5>1, ByteRange
      <4>3. Append(delivered[n], p.msg) \in Seq(Nat)
        BY <4>1, PacketFields
      <4>. QED
        BY <4>1, <4>2, <4>3
    <3>2. ReliableACK(Peer(n), recv_seq, Len(log)) \in Packet
      BY <3>1, ReliablePackets, PeerFacts, ConnAssumption
    <3>3. Exchange(p, {ReliableACK(Peer(n), recv_seq, Len(log))})
      BY <2>3 DEF ReliablePacket
    <3>4. net' \in SUBSET Packet /\ lost' \in Nat /\ dups' \in Nat
      BY <3>2, <3>3, NetTypes
    <3>5. /\ reliable_recv_seq' = [reliable_recv_seq EXCEPT ![n] = recv_seq]
          /\ delivered' = [delivered EXCEPT ![n] = log]
      BY <2>3 DEF ReliablePacket
    <3>6. UNCHANGED <<connVars, sendVars, history, running>>
      BY <1>9, <2>3 DEF ReliablePacket, ConnPacket
    <3>. HIDE DEF recv_seq, log
    <3>7. /\ reliable_recv_seq' \in [Node -> 0 .. SeqMod - 1]
          /\ delivered' \in [Node -> Seq(Nat)]
      BY <3>1, <3>5 DEF TypeOK
    <3>. QED
      BY <3>4, <3>6, <3>7 DEF TypeOK, connVars, sendVars, history
  <2>4. CASE ParseReliableACK(n, p)
    <3>1. net' \in SUBSET Packet /\ lost' \in Nat /\ dups' \in Nat
      BY <2>4, NetTypes DEF ParseReliableACK
    <3>2. reliable_packets' \in [Node -> Seq(ListItem)]
      <4>1. CASE AcksHead(n, p)
        <5>1. /\ reliable_packets[n] # <<>> /\ reliable_packets[n] \in Seq(ListItem)
              /\ reliable_packets' =
                   [reliable_packets EXCEPT ![n] = Tail(reliable_packets[n])]
          BY <2>4, <4>1 DEF ParseReliableACK, AcksHead, TypeOK
        <5>2. Tail(reliable_packets[n]) \in Seq(ListItem)
          BY <5>1
        <5>. QED
          BY <5>1, <5>2 DEF TypeOK
      <4>. QED
        BY <2>4, <4>1 DEF ParseReliableACK, TypeOK
    <3>. QED
      BY <1>9, <2>4, <3>1, <3>2
      DEF ParseReliableACK, ConnPacket, TypeOK, connVars, recvVars, history, faults
  <2>5. CASE ParseDisconnect(n, p)
    <3>1. net' \in SUBSET Packet /\ lost' \in Nat /\ dups' \in Nat
      BY <2>5, NetTypes, PlainPackets, PeerFacts DEF ParseDisconnect, Plain
    <3>. QED
      BY <1>9, <2>5, <3>1
      DEF ParseDisconnect, ConnPacket, TypeOK, ConnState, Closing, Reason, SendTime,
          sendVars, recvVars, history, faults
  <2>. QED
    BY <1>9, <2>1, <2>2, <2>3, <2>4, <2>5 DEF ConnPacket
<1>10. CASE UNCHANGED vars
  BY <1>10 DEF TypeOK, vars, connVars, sendVars, recvVars, history, faults
<1>. QED
  BY <1>0, <1>1, <1>2, <1>3, <1>4, <1>5, <1>6, <1>7, <1>8, <1>9, <1>10 DEF Next

\* The connection and its packets keep their types (net_connection_t).
THEOREM TypeCorrect == Spec => []TypeOK
  BY TypeInit, TypeStep, PTL DEF Spec

----------------------------------------------------------------------------
(* The reliable channel                                                    *)

LEMMA ChannelInit == Init => Channel
<1>. SUFFICES ASSUME Init, NEW n \in Node
     PROVE  /\ ListInv(n) /\ CounterInv(n) /\ WindowInv(n)
            /\ DataInv(n) /\ AckInv(n) /\ InOrder(n)
  BY DEF Channel
<1>1. /\ reliable_packets[n] = <<>> /\ submitted[n] = 0
      /\ reliable_send_seq[n] = 0 /\ reliable_recv_seq[n] = 0
      /\ delivered[n] = <<>> /\ delivered[Peer(n)] = <<>> /\ net = {}
  BY PeerFacts DEF Init
<1>2. 0 % SeqMod = 0
  BY ConnAssumption
<1>. QED
  BY <1>1, <1>2
  DEF ListInv, CounterInv, WindowInv, DataInv, AckInv, InOrder, Acked

\* The counters are numbers.
LEMMA Counters ==
  ASSUME TypeOK, NEW n \in Node
  PROVE  /\ submitted[n] \in Nat
         /\ Len(reliable_packets[n]) \in Nat
         /\ Len(delivered[n]) \in Nat
         /\ Acked(n) \in Int
         /\ reliable_send_seq[n] \in Nat /\ reliable_recv_seq[n] \in Nat
  BY ConnAssumption DEF TypeOK, Acked

\* A packet that DataInv allows.
Sound(q) ==
  /\ q.type = "RELIABLE"
  /\ \E n \in Node : /\ q.to = Peer(n)
                     /\ q.msg \in 1 .. submitted[n] /\ q.msg <= Acked(n) + 1
                     /\ q.seq = (q.msg - 1) % SeqMod

\* A step that moves no message on either side and sends only plain packets
\* or such ones preserves the invariant.
LEMMA ChannelFrame ==
  ASSUME TypeOK, Channel,
         UNCHANGED <<reliable_send_seq, submitted, recvVars>>,
         \A n \in Node : Len(reliable_packets'[n]) = Len(reliable_packets[n]),
         \A n \in Node : \A i \in 1 .. Len(reliable_packets[n]) :
           /\ reliable_packets'[n][i].msg = reliable_packets[n][i].msg
           /\ reliable_packets'[n][i].seq = reliable_packets[n][i].seq,
         \A q \in net' : q \in net \/ q.type \in Plain \/ Sound(q)
  PROVE  Channel'
<1>. SUFFICES ASSUME NEW n \in Node
     PROVE  (/\ ListInv(n) /\ CounterInv(n) /\ WindowInv(n)
             /\ DataInv(n) /\ AckInv(n) /\ InOrder(n))'
  BY DEF Channel
<1>1. /\ ListInv(n) /\ CounterInv(n) /\ WindowInv(n)
      /\ DataInv(n) /\ AckInv(n) /\ InOrder(n)
  BY DEF Channel
<1>2. Acked(n)' = Acked(n)
  BY DEF Acked
<1>3. ListInv(n)'
  BY <1>1, <1>2 DEF ListInv
<1>4. CounterInv(n)' /\ WindowInv(n)' /\ InOrder(n)'
  BY <1>1, <1>2 DEF CounterInv, WindowInv, InOrder, recvVars
<1>5. DataInv(n)'
  <2>. SUFFICES ASSUME NEW q \in net', q.type = "RELIABLE", q.to = Peer(n)
       PROVE  /\ q.msg \in 1 .. submitted[n] /\ q.msg <= Acked(n) + 1
              /\ q.seq = (q.msg - 1) % SeqMod
    BY <1>2 DEF DataInv
  <2>1. CASE q \in net
    BY <1>1, <2>1 DEF DataInv
  <2>2. CASE Sound(q)
    BY <2>2, PeerFacts DEF Sound
  <2>. QED
    BY <2>1, <2>2 DEF Plain
<1>6. AckInv(n)'
  BY <1>1 DEF AckInv, Plain, Sound, recvVars
<1>. QED
  BY <1>3, <1>4, <1>5, <1>6

\* NET_Conn_NewReliable appends message submitted + 1 with its own number.
LEMMA ChannelNewReliable ==
  ASSUME TypeOK, Channel, NEW s \in Node, NewReliable(s)
  PROVE  Channel'
<1>. SUFFICES ASSUME NEW n \in Node
     PROVE  (/\ ListInv(n) /\ CounterInv(n) /\ WindowInv(n)
             /\ DataInv(n) /\ AckInv(n) /\ InOrder(n))'
  BY DEF Channel
<1>1. /\ ListInv(n) /\ CounterInv(n) /\ WindowInv(n)
      /\ DataInv(n) /\ AckInv(n) /\ InOrder(n)
  BY DEF Channel
<1>2. UNCHANGED <<recvVars, net>>
  BY DEF NewReliable
<1>3. CASE n # s
  <2>1. /\ submitted'[n] = submitted[n]
        /\ reliable_packets'[n] = reliable_packets[n]
        /\ reliable_send_seq'[n] = reliable_send_seq[n]
    BY <1>3 DEF NewReliable, TypeOK
  <2>. QED
    BY <1>1, <1>2, <2>1
    DEF ListInv, CounterInv, WindowInv, DataInv, AckInv, InOrder, Acked, recvVars
<1>4. CASE n = s
  <2>. DEFINE item == Item(reliable_send_seq[n], submitted[n] + 1, "NEVER")
              L == reliable_packets[n]
  <2>1. /\ submitted'[n] = submitted[n] + 1
        /\ reliable_packets'[n] = Append(L, item)
        /\ reliable_send_seq'[n] = NextSeq(reliable_send_seq[n])
    BY <1>4 DEF NewReliable, TypeOK
  <2>2. /\ item.seq = reliable_send_seq[n] /\ item.msg = submitted[n] + 1
    BY DEF Item
  <2>3. L \in Seq(ListItem)
    BY DEF TypeOK
  <2>. HIDE DEF item
  <2>4. /\ Len(Append(L, item)) = Len(L) + 1
        /\ \A i \in 1 .. Len(L) : Append(L, item)[i] = L[i]
        /\ Append(L, item)[Len(L) + 1] = item
    BY <2>3
  <2>. HIDE DEF L
  <2>5. Acked(n)' = Acked(n)
    BY <2>1, <2>4, <2>3, Counters DEF Acked, L
  <2>6. ListInv(n)'
    <3>. DEFINE K == Append(L, item)
    <3>1. Len(K) <= submitted[n] + 1
      BY <1>1, <2>4, <2>3, Counters DEF ListInv, L
    <3>2. ASSUME NEW i \in 1 .. Len(K)
          PROVE  K[i].msg = Acked(n) + i /\ K[i].seq = (Acked(n) + i - 1) % SeqMod
      <4>1. CASE i \in 1 .. Len(L)
        BY <1>1, <2>4, <4>1 DEF ListInv, L
      <4>2. CASE i = Len(L) + 1
        <5>1. Acked(n) + i = submitted[n] + 1
          BY <4>2, Counters DEF Acked, L
        <5>2. Acked(n) + i - 1 = submitted[n]
          <6>1. /\ Acked(n) \in Int /\ submitted[n] \in Nat
                /\ Len(L) \in Nat
            BY Counters DEF L
          <6>. QED
            BY <5>1, <6>1, <4>2
        <5>. QED
          BY <1>1, <2>2, <2>4, <4>2, <5>1, <5>2 DEF CounterInv
      <4>3. Len(L) \in Nat
        BY Counters DEF L
      <4>. QED
        BY <2>4, <4>1, <4>2, <4>3
    <3>. HIDE DEF K
    <3>3. reliable_packets'[n] = K
      BY <2>1 DEF K
    <3>. QED
      BY <2>1, <2>5, <3>1, <3>2, <3>3 DEF ListInv
  <2>7. CounterInv(n)'
    <3>1. NextSeq(reliable_send_seq[n]) = (submitted[n] + 1) % SeqMod
      BY <1>1, NextByte, ConnAssumption, Counters DEF CounterInv, NextSeq
    <3>. QED
      BY <1>1, <1>2, <2>1, <3>1 DEF CounterInv, recvVars
  <2>8. WindowInv(n)'
    BY <1>1, <1>2, <2>1, <2>5, Counters, PeerFacts DEF WindowInv, recvVars
  <2>9. DataInv(n)'
    BY <1>1, <1>2, <2>1, <2>5, Counters DEF DataInv
  <2>10. AckInv(n)' /\ InOrder(n)'
    BY <1>1, <1>2 DEF AckInv, InOrder, recvVars
  <2>. QED
    BY <2>6, <2>7, <2>8, <2>9, <2>10
<1>. QED
  BY <1>3, <1>4

\* NET_Conn_ReliablePacket: an expected number names the next message, because
\* no packet in flight is a whole byte old.
LEMMA ExpectedIsNext ==
  ASSUME TypeOK, First, Channel, NEW n \in Node, NEW p \in net,
         p.type = "RELIABLE", p.to = n, Fresh(p), Expected(n, p)
  PROVE  /\ p.msg = Len(delivered[n]) + 1
         /\ p.msg <= submitted[Peer(n)] /\ p.msg <= Acked(Peer(n)) + 1
<1>. DEFINE s == Peer(n)
            D == Len(delivered[n])
<1>1. s \in Node /\ Peer(s) = n
  BY PeerFacts
<1>2. /\ p.msg \in 1 .. submitted[s] /\ p.msg <= Acked(s) + 1
      /\ p.seq = (p.msg - 1) % SeqMod
  BY <1>1 DEF Channel, DataInv
<1>3. Acked(s) <= D /\ D % SeqMod = p.seq
  BY <1>1 DEF Channel, WindowInv, CounterInv, Expected
<1>4. D + 1 < p.msg + SeqMod
  BY DEF Fresh, Plain, Receiver
<1>5. /\ D \in Nat /\ submitted[s] \in Nat /\ Acked(s) \in Int
      /\ p.msg \in Nat /\ p.msg - 1 \in Nat
  BY <1>1, <1>2, Counters
<1>. HIDE DEF s, D
<1>6. p.msg - 1 <= D /\ D < (p.msg - 1) + SeqMod
  BY <1>2, <1>3, <1>4, <1>5, ConnAssumption
<1>7. p.msg - 1 = D
  BY <1>2, <1>3, <1>5, <1>6, SameByte, ConnAssumption
<1>. QED
  BY <1>2, <1>5, <1>7 DEF s, D

LEMMA ChannelReliablePacket ==
  ASSUME TypeOK, First, Channel, NEW r \in Node, NEW p \in net,
         p.to = r, Fresh(p), ReliablePacket(r, p)
  PROVE  Channel'
<1>. DEFINE s == Peer(r)
            D == Len(delivered[r])
            recv_seq == IF Expected(r, p) THEN NextSeq(reliable_recv_seq[r])
                        ELSE reliable_recv_seq[r]
            log == IF Expected(r, p) THEN Append(delivered[r], p.msg)
                   ELSE delivered[r]
<1>1. /\ s \in Node /\ Peer(s) = r /\ s # r
      /\ \A n \in Node : n = s \/ n = r
  BY DEF Node, Peer, Client, Server
<1>2. /\ p.type = "RELIABLE"
      /\ reliable_recv_seq' = [reliable_recv_seq EXCEPT ![r] = recv_seq]
      /\ delivered' = [delivered EXCEPT ![r] = log]
      /\ UNCHANGED sendVars
      /\ \A q \in net' : q \in net \/ q = ReliableACK(s, recv_seq, Len(log))
  BY DEF ReliablePacket, Exchange
<1>3. delivered[r] \in Seq(Nat) /\ p.msg \in Nat /\ D \in Nat
  BY PacketFields DEF TypeOK
<1>4. /\ Len(log) \in D .. D + 1
      /\ recv_seq = Len(log) % SeqMod
      /\ Acked(s) <= Len(log) /\ Len(log) <= Acked(s) + 1
      /\ Len(log) <= submitted[s]
      /\ \A i \in 1 .. Len(log) : log[i] = i
  <2>1. /\ reliable_recv_seq[r] = D % SeqMod
        /\ Acked(s) <= D /\ D <= Acked(s) + 1 /\ D <= submitted[s]
        /\ \A i \in 1 .. D : delivered[r][i] = i
    BY <1>1 DEF Channel, CounterInv, WindowInv, InOrder
  <2>2. CASE Expected(r, p)
    <3>1. /\ p.msg = D + 1 /\ p.msg <= submitted[s] /\ p.msg <= Acked(s) + 1
      BY <1>2, <2>2, ExpectedIsNext
    <3>2. /\ Len(log) = D + 1 /\ log[D + 1] = p.msg
          /\ \A i \in 1 .. D : log[i] = delivered[r][i]
      BY <1>3, <2>2
    <3>3. recv_seq = (D + 1) % SeqMod
      BY <2>1, <2>2, <1>3, NextByte, ConnAssumption DEF NextSeq
    <3>. HIDE DEF log, recv_seq, D, s
    <3>4. Acked(s) \in Int
      BY <1>1, Counters
    <3>. QED
      BY <1>3, <2>1, <3>1, <3>2, <3>3, <3>4
  <2>3. CASE ~Expected(r, p)
    BY <1>3, <2>1, <2>3
  <2>. QED
    BY <2>2, <2>3
<1>. HIDE DEF recv_seq, log
<1>5. /\ delivered'[r] = log /\ delivered'[s] = delivered[s]
      /\ reliable_recv_seq'[r] = recv_seq
      /\ reliable_recv_seq'[s] = reliable_recv_seq[s]
  BY <1>1, <1>2 DEF TypeOK
<1>. SUFFICES ASSUME NEW n \in Node
     PROVE  (/\ ListInv(n) /\ CounterInv(n) /\ WindowInv(n)
             /\ DataInv(n) /\ AckInv(n) /\ InOrder(n))'
  BY DEF Channel
<1>6. /\ ListInv(n) /\ CounterInv(n) /\ WindowInv(n)
      /\ DataInv(n) /\ AckInv(n) /\ InOrder(n)
  BY DEF Channel
<1>7. Acked(n)' = Acked(n)
  BY <1>2 DEF Acked, sendVars
<1>8. ListInv(n)' /\ DataInv(n)'
  BY <1>2, <1>6, <1>7 DEF ListInv, DataInv, sendVars, ReliableACK
<1>9. CounterInv(n)' /\ InOrder(n)'
  BY <1>1, <1>2, <1>4, <1>5, <1>6 DEF CounterInv, InOrder, sendVars
<1>10. WindowInv(n)'
  BY <1>1, <1>2, <1>4, <1>5, <1>6, <1>7 DEF WindowInv, sendVars
<1>11. AckInv(n)'
  <2>. SUFFICES ASSUME NEW q \in net', q.type = "RELIABLE_ACK", q.to = n
       PROVE  q.msg <= Len(delivered'[Peer(n)]) /\ q.seq = q.msg % SeqMod
    BY DEF AckInv
  <2>1. CASE q \in net
    <3>1. q.msg <= Len(delivered[Peer(n)]) /\ q.seq = q.msg % SeqMod
      BY <1>6, <2>1 DEF AckInv
    <3>2. /\ Len(delivered[Peer(n)]) <= Len(delivered'[Peer(n)])
          /\ Len(delivered[Peer(n)]) \in Nat /\ Len(delivered'[Peer(n)]) \in Nat
      <4>1. Peer(n) \in Node /\ Len(delivered[Peer(n)]) \in Nat
        BY PeerFacts, Counters
      <4>2. CASE Peer(n) = r
        BY <1>3, <1>4, <1>5, <4>1, <4>2
      <4>3. CASE Peer(n) = s
        BY <1>5, <4>1, <4>3
      <4>. QED
        BY <1>1, <4>1, <4>2, <4>3
    <3>3. q.msg \in Nat
      BY <2>1, PacketFields DEF TypeOK
    <3>. QED
      BY <3>1, <3>2, <3>3
  <2>2. CASE q = ReliableACK(s, recv_seq, Len(log))
    BY <1>1, <1>3, <1>4, <1>5, <2>2 DEF ReliableACK
  <2>. QED
    BY <1>2, <2>1, <2>2
<1>. QED
  BY <1>8, <1>9, <1>10, <1>11

\* NET_Conn_ParseReliableACK: an acknowledgement of the head was sent after the
\* head was delivered.
LEMMA AckedHead ==
  ASSUME TypeOK, First, Channel, NEW n \in Node, NEW p \in net,
         p.type = "RELIABLE_ACK", p.to = n, Fresh(p), AcksHead(n, p)
  PROVE  Acked(n) + 1 <= Len(delivered[Peer(n)])
<1>. DEFINE D == Len(delivered[Peer(n)])
            L == reliable_packets[n]
<1>1. p.msg <= D /\ p.seq = p.msg % SeqMod
  BY DEF Channel, AckInv
<1>2. Acked(n) <= D /\ D <= Acked(n) + 1
  BY DEF Channel, WindowInv
<1>3. D + 1 < p.msg + SeqMod
  BY DEF Fresh, Plain, Receiver
<1>4. /\ D \in Nat /\ p.msg \in Nat /\ submitted[n] \in Nat
      /\ L \in Seq(ListItem) /\ L # <<>>
  BY PeerFacts, Counters, PacketFields DEF TypeOK, AcksHead
<1>5. Acked(n) \in Nat /\ Head(L).seq = Acked(n) % SeqMod
  <2>1. Len(L) <= submitted[n] /\ Len(L) \in Nat /\ 1 \in 1 .. Len(L)
    BY <1>4 DEF Channel, ListInv
  <2>2. L[1].seq = (Acked(n) + 1 - 1) % SeqMod
    BY <2>1 DEF Channel, ListInv
  <2>3. Acked(n) \in Nat /\ Acked(n) + 1 - 1 = Acked(n)
    BY <1>4, <2>1 DEF Acked
  <2>. QED
    BY <2>2, <2>3
<1>6. p.seq = (Acked(n) + 1) % SeqMod
  BY <1>5, NextByte, ConnAssumption DEF AcksHead, NextSeq
<1>. HIDE DEF D, L
<1>7. p.msg <= Acked(n) + 1 /\ Acked(n) + 1 < p.msg + SeqMod
  BY <1>1, <1>2, <1>3, <1>4, <1>5, ConnAssumption
<1>8. p.msg = Acked(n) + 1
  <2>1. Acked(n) + 1 \in Nat /\ p.msg % SeqMod = (Acked(n) + 1) % SeqMod
    BY <1>1, <1>5, <1>6
  <2>2. SeqMod \in Nat /\ SeqMod > 1
    BY ConnAssumption
  <2>. QED
    BY ONLY <1>4, <1>7, <2>1, <2>2, SameByte
<1>. QED
  BY <1>1, <1>8 DEF D

LEMMA ChannelParseReliableACK ==
  ASSUME TypeOK, First, Channel, NEW s \in Node, NEW p \in net,
         p.to = s, Fresh(p), ParseReliableACK(s, p)
  PROVE  Channel'
<1>1. /\ p.type = "RELIABLE_ACK" /\ net' \subseteq net
      /\ UNCHANGED <<reliable_send_seq, submitted, recvVars>>
  BY DEF ParseReliableACK, Exchange
<1>2. CASE ~AcksHead(s, p)
  <2>1. UNCHANGED reliable_packets
    BY <1>2 DEF ParseReliableACK
  <2>. QED
    BY <1>1, <2>1, ChannelFrame
<1>3. CASE AcksHead(s, p)
  <2>. DEFINE L == reliable_packets[s]
  <2>1. L \in Seq(ListItem) /\ L # <<>>
    BY <1>3 DEF TypeOK, AcksHead
  <2>2. /\ reliable_packets'[s] = Tail(L)
        /\ \A n \in Node : n # s => reliable_packets'[n] = reliable_packets[n]
    BY <1>3 DEF ParseReliableACK, TypeOK
  <2>3. /\ Len(Tail(L)) = Len(L) - 1 /\ Len(L) \in Nat
        /\ \A i \in 1 .. Len(Tail(L)) : Tail(L)[i] = L[i + 1]
    BY <2>1
  <2>4. Acked(s) + 1 <= Len(delivered[Peer(s)])
    BY <1>1, <1>3, AckedHead
  <2>5. submitted[s] \in Nat /\ Acked(s) \in Int /\ Acked(s) = submitted[s] - Len(L)
    BY Counters DEF Acked
  <2>. SUFFICES ASSUME NEW n \in Node
       PROVE  (/\ ListInv(n) /\ CounterInv(n) /\ WindowInv(n)
               /\ DataInv(n) /\ AckInv(n) /\ InOrder(n))'
    BY DEF Channel
  <2>6. /\ ListInv(n) /\ CounterInv(n) /\ WindowInv(n)
        /\ DataInv(n) /\ AckInv(n) /\ InOrder(n)
    BY DEF Channel
  <2>7. CounterInv(n)' /\ AckInv(n)' /\ InOrder(n)'
    BY <1>1, <2>6 DEF CounterInv, AckInv, InOrder, recvVars
  <2>8. CASE n # s
    <3>1. reliable_packets'[n] = reliable_packets[n] /\ submitted' = submitted
      BY <1>1, <2>2, <2>8
    <3>. QED
      BY <1>1, <2>6, <2>7, <3>1
      DEF ListInv, WindowInv, DataInv, Acked, recvVars
  <2>9. CASE n = s
    <3>. HIDE DEF L
    <3>0. Acked(n) \in Int /\ submitted[n] \in Nat
      BY Counters
    <3>1. Acked(n)' = Acked(n) + 1 /\ submitted' = submitted
      <4>1. Acked(n)' = submitted'[n] - Len(reliable_packets'[n])
        BY DEF Acked
      <4>2. submitted' = submitted /\ Len(reliable_packets'[n]) = Len(L) - 1
        BY <1>1, <2>2, <2>3, <2>9
      <4>3. Acked(n) = submitted[n] - Len(L)
        BY <2>9 DEF Acked, L
      <4>4. submitted[n] - (Len(L) - 1) = submitted[n] - Len(L) + 1
        BY <2>3, <3>0
      <4>. QED
        BY <4>1, <4>2, <4>3, <4>4
    <3>2. ListInv(n)'
      <4>1. Len(Tail(L)) <= submitted[n]
        BY <2>3, <2>5, <2>6, <2>9 DEF ListInv, L
      <4>2. ASSUME NEW i \in 1 .. Len(Tail(L))
            PROVE  /\ Tail(L)[i].msg = Acked(n) + 1 + i
                   /\ Tail(L)[i].seq = (Acked(n) + 1 + i - 1) % SeqMod
        <5>1. i + 1 \in 1 .. Len(L)
          BY <2>3
        <5>2. /\ L[i + 1].msg = Acked(n) + (i + 1)
              /\ L[i + 1].seq = (Acked(n) + (i + 1) - 1) % SeqMod
          BY <2>6, <2>9, <5>1 DEF ListInv, L
        <5>3. Acked(n) + (i + 1) = Acked(n) + 1 + i
          BY <2>3, <3>0
        <5>4. Tail(L)[i] = L[i + 1]
          BY <2>3
        <5>5. Acked(n) + (i + 1) - 1 = Acked(n) + 1 + i - 1
          BY <2>3, <3>0
        <5>. QED
          BY <5>2, <5>3, <5>4, <5>5
      <4>. QED
        BY <2>2, <2>9, <3>1, <4>1, <4>2 DEF ListInv
    <3>3. WindowInv(n)'
      <4>1. Len(delivered[Peer(n)]) \in Nat
        BY PeerFacts, Counters
      <4>. QED
        BY <1>1, <2>4, <2>5, <2>6, <2>9, <3>1, <4>1 DEF WindowInv, recvVars
    <3>4. DataInv(n)'
      <4>. SUFFICES ASSUME NEW q \in net, q.type = "RELIABLE", q.to = Peer(n)
           PROVE  /\ q.msg \in 1 .. submitted[n] /\ q.msg <= Acked(n) + 1 + 1
                  /\ q.seq = (q.msg - 1) % SeqMod
        BY <1>1, <3>1 DEF DataInv
      <4>. QED
        BY <2>6, <3>0 DEF DataInv
    <3>. QED
      BY <2>7, <3>2, <3>3, <3>4
  <2>. QED
    BY <2>8, <2>9
<1>. QED
  BY <1>2, <1>3

\* NET_Conn_Run sends the head of the list with the number it was queued under.
LEMMA ChannelRun ==
  ASSUME TypeOK, Channel, NEW s \in Node,
         NEW timeout \in BOOLEAN, NEW late \in BOOLEAN, Run(s, timeout, late)
  PROVE  Channel'
<1>1. UNCHANGED <<reliable_send_seq, submitted, recvVars>>
  BY DEF Run
<1>2. CASE RunConnected(s, timeout, late) /\ HeadDue(s, late)
  <2>. DEFINE rp == Head(reliable_packets[s])
              q == Reliable(Peer(s), rp.seq, rp.msg)
  <2>1. /\ reliable_packets[s] # <<>> /\ rp = reliable_packets[s][1]
        /\ reliable_packets' = [reliable_packets EXCEPT ![s][1] =
                                  Item(rp.seq, rp.msg, "PAST")]
        /\ net' = net \cup {q}
    BY <1>2 DEF RunConnected, HeadDue, Send
  <2>2. /\ \A n \in Node : Len(reliable_packets'[n]) = Len(reliable_packets[n])
        /\ \A n \in Node : \A i \in 1 .. Len(reliable_packets[n]) :
             /\ reliable_packets'[n][i].msg = reliable_packets[n][i].msg
             /\ reliable_packets'[n][i].seq = reliable_packets[n][i].seq
    BY <2>1, ListSent
  <2>3. reliable_packets[s] \in Seq(ListItem) /\ 1 \in 1 .. Len(reliable_packets[s])
    BY <2>1 DEF TypeOK
  <2>4. /\ rp.msg = Acked(s) + 1 /\ rp.seq = (Acked(s) + 1 - 1) % SeqMod
        /\ Acked(s) + 1 \in 1 .. submitted[s]
    <3>1. /\ reliable_packets[s][1].msg = Acked(s) + 1
          /\ reliable_packets[s][1].seq = (Acked(s) + 1 - 1) % SeqMod
          /\ Len(reliable_packets[s]) <= submitted[s]
      BY <2>3 DEF Channel, ListInv
    <3>2. Acked(s) + 1 \in 1 .. submitted[s]
      BY <2>3, <3>1, Counters DEF Acked
    <3>. QED
      BY <2>1, <3>1, <3>2
  <2>5. q.type = "RELIABLE" /\ q.to = Peer(s) /\ q.msg = rp.msg /\ q.seq = rp.seq
    BY DEF Reliable
  <2>. HIDE DEF rp, q
  <2>6. Sound(q)
    BY <2>4, <2>5, Counters DEF Sound
  <2>. QED
    BY <1>1, <2>1, <2>2, <2>6, ChannelFrame
<1>3. CASE RunRetry(s, late)
  <2>1. UNCHANGED reliable_packets
        /\ net' \subseteq net \cup {Pkt(Retried(state[s]), Peer(s))}
    BY <1>3 DEF RunRetry, Send
  <2>2. Pkt(Retried(state[s]), Peer(s)).type \in Plain
    BY DEF Pkt, Retried, Plain
  <2>. QED
    BY <1>1, <2>1, <2>2, ChannelFrame
<1>4. CASE \/ RunConnected(s, timeout, late) /\ ~HeadDue(s, late)
           \/ RunSleep(s, late) \/ RunDisconnected(s)
  <2>1. UNCHANGED <<reliable_packets, net>>
    BY <1>4 DEF RunConnected, RunSleep, RunDisconnected
  <2>. QED
    BY <1>1, <2>1, ChannelFrame
<1>. QED
  BY <1>2, <1>3, <1>4 DEF Run

(***************************************************************************)
(* An end that has not begun runs nothing and has sent and received        *)
(* nothing: the SYN that first opens the slot finds it as NET_Conn_Init    *)
(* leaves it.                                                              *)
(***************************************************************************)
Unbegun ==
    /\ began[Client] >= 1
    /\ \A n \in running : began[n] >= 1
    /\ \A n \in Node : began[n] = 0 => /\ reliable_packets[n] = <<>>
                                       /\ reliable_send_seq[n] = 0
                                       /\ reliable_recv_seq[n] = 0

LEMMA UnbegunInit == Init => Unbegun
  BY DEF Init, Unbegun, Node, Client, Server

LEMMA UnbegunStep == TypeOK /\ Unbegun /\ [Next]_vars => Unbegun'
<1>. SUFFICES ASSUME TypeOK, Unbegun, [Next]_vars PROVE Unbegun'
  OBVIOUS
<1>0. /\ Client \in Node /\ Server \in Node /\ Client # Server
      /\ running \subseteq Node /\ began \in [Node -> Nat]
      /\ reliable_packets \in [Node -> Seq(ListItem)]
      /\ reliable_send_seq \in [Node -> 0 .. SeqMod - 1]
      /\ reliable_recv_seq \in [Node -> 0 .. SeqMod - 1]
  BY DEF TypeOK, Node, Client, Server
<1>1. ASSUME UNCHANGED <<reliable_packets, reliable_send_seq, reliable_recv_seq, began>>,
             running' \subseteq running
      PROVE  Unbegun'
  BY <1>1 DEF Unbegun
<1>2. ASSUME NEW n \in Node, NEW s, NET_Conn_Init(n, s) PROVE Unbegun'
  <2>1. /\ began' = [began EXCEPT ![n] = began[n] + 1] /\ running' = running \cup {n}
        /\ reliable_packets' = [reliable_packets EXCEPT ![n] = <<>>]
        /\ reliable_send_seq' = [reliable_send_seq EXCEPT ![n] = 0]
        /\ reliable_recv_seq' = [reliable_recv_seq EXCEPT ![n] = 0]
    BY <1>2 DEF NET_Conn_Init, Begin
  <2>2. began'[n] = began[n] + 1 /\ began[n] \in Nat
        /\ \A m \in Node : m # n => began'[m] = began[m]
    BY <1>0, <2>1
  <2>3. began'[Client] >= 1 /\ \A m \in running' : began'[m] >= 1
    BY <1>0, <2>1, <2>2 DEF Unbegun
  <2>4. ASSUME NEW m \in Node, began'[m] = 0 PROVE m # n /\ began[m] = 0
    BY <2>2, <2>4
  <2>. QED
    BY <1>0, <2>1, <2>3, <2>4 DEF Unbegun
<1>3. ASSUME NEW n \in Node, n \in running, UNCHANGED began, running' \subseteq running,
             \A m \in Node : m # n =>
               /\ reliable_packets'[m] = reliable_packets[m]
               /\ reliable_send_seq'[m] = reliable_send_seq[m]
               /\ reliable_recv_seq'[m] = reliable_recv_seq[m]
      PROVE  Unbegun'
  <2>1. began[n] # 0
    BY <1>0, <1>3 DEF Unbegun
  <2>. QED
    BY <1>3, <2>1 DEF Unbegun
<1>4. CASE Connect \/ \E p \in net : ParseSYN(p)
  BY <1>0, <1>1, <1>2, <1>4 DEF Connect, ParseSYN, sendVars, recvVars, history
<1>5. CASE \/ SendSYN \/ GiveUp \/ UNCHANGED vars
           \/ \E p \in net : Drop(p) \/ Lose(p)
           \/ \E n \in Node : Disconnect(n) \/ Crash(n)
  BY <1>1, <1>5
  DEF SendSYN, GiveUp, Drop, Lose, Disconnect, Crash, vars, sendVars, recvVars, history
<1>6. ASSUME NEW n \in Node, NewReliable(n) PROVE Unbegun'
  BY <1>0, <1>3, <1>6 DEF NewReliable, recvVars, history
<1>7. ASSUME NEW n \in Node, NEW timeout \in BOOLEAN, NEW late \in BOOLEAN,
             Run(n, timeout, late)
      PROVE  Unbegun'
  <2>1. /\ n \in running /\ running' \subseteq running
        /\ UNCHANGED <<began, reliable_send_seq, reliable_recv_seq>>
    BY <1>7 DEF Run, Settle, history, recvVars
  <2>2. \A m \in Node : m # n => reliable_packets'[m] = reliable_packets[m]
    BY <1>0, <1>7 DEF Run, RunConnected, RunRetry, RunSleep, RunDisconnected
  <2>. QED
    BY <1>3, <2>1, <2>2
<1>8. ASSUME NEW n \in Node, NEW p \in net, ConnPacket(n, p) PROVE Unbegun'
  <2>1. n \in running /\ UNCHANGED <<running, began>>
    BY <1>8 DEF ConnPacket, ParseACK, ParseReject, ReliablePacket, ParseReliableACK,
                ParseDisconnect, ParseDisconnectACK, history
  <2>2. \A m \in Node : m # n =>
           /\ reliable_packets'[m] = reliable_packets[m]
           /\ reliable_send_seq'[m] = reliable_send_seq[m]
           /\ reliable_recv_seq'[m] = reliable_recv_seq[m]
    BY <1>0, <1>8 DEF ConnPacket, ParseACK, ParseReject, ReliablePacket,
         ParseReliableACK, ParseDisconnect, ParseDisconnectACK, sendVars, recvVars
  <2>. QED
    BY <1>3, <2>1, <2>2
<1>. QED
  BY <1>4, <1>5, <1>6, <1>7, <1>8 DEF Next

\* While no end has begun a second time none had, and the slot that a SYN
\* opens is as it was.
LEMMA FirstBegin ==
  ASSUME TypeOK, Unbegun, [Next]_vars, First'
  PROVE  /\ First /\ ~Connect
         /\ \A p \in net : ParseSYN(p) => UNCHANGED <<sendVars, recvVars>>
<1>0. /\ Client \in Node /\ Server \in Node /\ began \in [Node -> Nat]
      /\ reliable_packets \in [Node -> Seq(ListItem)]
      /\ reliable_send_seq \in [Node -> 0 .. SeqMod - 1]
      /\ reliable_recv_seq \in [Node -> 0 .. SeqMod - 1]
  BY DEF TypeOK, Node
<1>1. ASSUME NEW n \in Node, NEW s, NET_Conn_Init(n, s)
      PROVE  First /\ began[n] = 0 /\ UNCHANGED <<sendVars, recvVars>>
  <2>1. began' = [began EXCEPT ![n] = began[n] + 1]
    BY <1>1 DEF NET_Conn_Init, Begin
  <2>2. /\ began'[n] = began[n] + 1 /\ began[n] \in Nat
        /\ \A m \in Node : m # n => began'[m] = began[m]
    BY <1>0, <2>1
  <2>3. First /\ began[n] = 0
    <3>1. \A m \in Node : began'[m] <= 1
      BY DEF First
    <3>2. began[n] = 0
      BY <2>2, <3>1
    <3>. QED
      BY <2>2, <3>1, <3>2 DEF First
  <2>4. /\ reliable_packets[n] = <<>> /\ reliable_send_seq[n] = 0
        /\ reliable_recv_seq[n] = 0
    BY <2>3 DEF Unbegun
  <2>. QED
    BY <1>0, <1>1, <2>3, <2>4 DEF NET_Conn_Init, Begin, sendVars, recvVars
<1>2. ~Connect
  BY <1>0, <1>1 DEF Connect, Unbegun
<1>3. ASSUME NEW p \in net, ParseSYN(p)
      PROVE  UNCHANGED <<sendVars, recvVars>> /\ (UNCHANGED began \/ First)
  BY <1>0, <1>1, <1>3 DEF ParseSYN, history
<1>4. UNCHANGED began => First
  BY DEF First
<1>5. CASE ~ \E p \in net : ParseSYN(p)
  <2>1. ASSUME NEW n \in Node, NEW p \in net, ConnPacket(n, p) PROVE UNCHANGED began
    BY <2>1 DEF ConnPacket, ParseACK, ParseReject, ReliablePacket, ParseReliableACK,
                ParseDisconnect, ParseDisconnectACK, history
  <2>2. ASSUME NEW n \in Node, \/ NewReliable(n) \/ Disconnect(n) \/ Crash(n)
                              \/ \E timeout, late \in BOOLEAN : Run(n, timeout, late)
        PROVE  UNCHANGED began
    BY <2>2 DEF NewReliable, Disconnect, Crash, Run, history
  <2>3. ASSUME SendSYN \/ GiveUp \/ UNCHANGED vars \/ \E p \in net : Drop(p) \/ Lose(p)
        PROVE  UNCHANGED began
    BY <2>3 DEF SendSYN, GiveUp, Drop, Lose, vars, history
  <2>. QED
    BY <1>2, <1>4, <1>5, <2>1, <2>2, <2>3 DEF Next
<1>. QED
  BY <1>2, <1>3, <1>4, <1>5

LEMMA ChannelStep ==
  TypeOK /\ Unbegun /\ ChannelInv /\ [Next]_vars => ChannelInv'
<1>. SUFFICES ASSUME TypeOK, Unbegun, ChannelInv, [Next]_vars, First'
     PROVE  Channel'
  BY DEF ChannelInv
<1>0. First /\ Channel
  BY FirstBegin DEF ChannelInv
\* Everything else sends plain packets at most.
<1>1. ASSUME UNCHANGED <<sendVars, recvVars>>,
             \A q \in net' : q \in net \/ q.type \in Plain
      PROVE  Channel'
  BY <1>0, <1>1, ChannelFrame DEF sendVars
<1>2. CASE SendSYN \/ GiveUp
  BY <1>1, <1>2 DEF SendSYN, GiveUp, Send, Pkt, Plain
<1>3. ASSUME NEW p \in net, ParseSYN(p) PROVE Channel'
  <2>1. UNCHANGED <<sendVars, recvVars>>
    BY <1>3, FirstBegin
  <2>2. \A q \in net' : q \in net \/ q.type \in Plain
    BY <1>3 DEF ParseSYN, Exchange, Pkt, Plain
  <2>. QED
    BY <1>1, <2>1, <2>2
<1>4. ASSUME NEW p \in net, Drop(p) \/ Lose(p) PROVE Channel'
  BY <1>1, <1>4 DEF Drop, Lose
<1>5. ASSUME NEW n \in Node, NewReliable(n) PROVE Channel'
  BY <1>0, <1>5, ChannelNewReliable
<1>6. ASSUME NEW n \in Node, Disconnect(n) \/ Crash(n) PROVE Channel'
  BY <1>1, <1>6 DEF Disconnect, Crash
<1>7. ASSUME NEW n \in Node, NEW timeout \in BOOLEAN, NEW late \in BOOLEAN,
             Run(n, timeout, late)
      PROVE  Channel'
  BY <1>0, <1>7, ChannelRun
<1>8. ASSUME NEW n \in Node, NEW p \in net, ConnPacket(n, p) PROVE Channel'
  <2>1. CASE ReliablePacket(n, p)
    BY <1>0, <1>8, <2>1, ChannelReliablePacket DEF ConnPacket
  <2>2. CASE ParseReliableACK(n, p)
    BY <1>0, <1>8, <2>2, ChannelParseReliableACK DEF ConnPacket
  <2>3. CASE ParseACK(n, p) \/ ParseReject(n, p)
    BY <1>1, <2>3 DEF ParseACK, ParseReject, Exchange, Pkt, Plain
  <2>4. CASE ParseDisconnect(n, p) \/ ParseDisconnectACK(n, p)
    BY <1>1, <2>4 DEF ParseDisconnect, ParseDisconnectACK, Exchange, Pkt, Plain
  <2>. QED
    BY <1>8, <2>1, <2>2, <2>3, <2>4 DEF ConnPacket
<1>9. CASE UNCHANGED vars
  BY <1>1, <1>9 DEF vars
<1>. QED
  BY <1>2, <1>3, <1>4, <1>5, <1>6, <1>7, <1>8, <1>9, FirstBegin DEF Next

\* The list, the counters and the packets of the reliable channel agree, for
\* every number of messages, losses and duplicates and every width of the
\* sequence number, as long as no end begins its connection a second time
\* (net_common.c:173-256, 334-372, 449-486).
THEOREM ChannelCorrect == Spec => []ChannelInv
<1>1. Init => ChannelInv
  BY ChannelInit DEF ChannelInv
<1>. QED
  BY <1>1, TypeInit, TypeStep, UnbegunInit, UnbegunStep, ChannelStep, PTL DEF Spec

\* NET_Conn_ParseReliableACK never frees a message the peer has not passed up.
THEOREM AckedCorrect == Spec => []AckedIsDelivered
<1>1. ChannelInv => AckedIsDelivered
  BY DEF ChannelInv, Channel, WindowInv, AckedIsDelivered
<1>. QED
  BY <1>1, ChannelCorrect, PTL

----------------------------------------------------------------------------
(* Refinement                                                              *)

LEMMA FifoInit == Init => Fifo!Init
  BY DEF Init, Fifo!Init, First, Node, Client, Server

LEMMA FifoStep ==
  TypeOK /\ Unbegun /\ ChannelInv /\ [Next]_vars => [Fifo!Next]_(Fifo!vars)
<1>. SUFFICES ASSUME TypeOK, Unbegun, ChannelInv, [Next]_vars
     PROVE  [Fifo!Next]_(Fifo!vars)
  OBVIOUS
<1>. SUFFICES ASSUME First'
     PROVE  Fifo!Next \/ UNCHANGED <<submitted, delivered>>
  <2>1. First' => First
    BY FirstBegin
  <2>2. ~First' => Fifo!Next
    BY DEF Fifo!Next
  <2>. QED
    BY <2>1, <2>2 DEF Fifo!vars
<1>0. First /\ Channel
  BY FirstBegin DEF ChannelInv
<1>1. ASSUME NEW n \in Node, NewReliable(n) PROVE Fifo!Next
  BY <1>0, <1>1 DEF NewReliable, recvVars, Fifo!Next, Fifo!Submit
<1>2. ASSUME NEW n \in Node, NEW p \in net, ConnPacket(n, p), ReliablePacket(n, p)
      PROVE  Fifo!Next \/ UNCHANGED <<submitted, delivered>>
  <2>1. UNCHANGED submitted
    BY <1>2 DEF ReliablePacket, sendVars
  <2>2. CASE ~Expected(n, p)
    <3>1. delivered' = [delivered EXCEPT ![n] = delivered[n]]
      BY <1>2, <2>2 DEF ReliablePacket
    <3>. QED
      BY <2>1, <3>1 DEF TypeOK
  <2>3. CASE Expected(n, p)
    <3>1. /\ p.type = "RELIABLE" /\ p.to = n /\ Fresh(p)
          /\ delivered' = [delivered EXCEPT ![n] = Append(delivered[n], p.msg)]
      BY <1>2, <2>3 DEF ReliablePacket, ConnPacket
    <3>2. p.msg = Len(delivered[n]) + 1 /\ p.msg <= submitted[Peer(n)]
      BY <1>0, <2>3, <3>1, ExpectedIsNext
    <3>3. Len(delivered[n]) \in Nat /\ submitted[Peer(n)] \in Nat
      BY PeerFacts, Counters
    <3>4. Fifo!Deliver(n)
      BY <1>0, <2>1, <3>1, <3>2, <3>3 DEF Fifo!Deliver
    <3>. QED
      BY <3>4 DEF Fifo!Next
  <2>. QED
    BY <2>2, <2>3
<1>3. ASSUME NEW n \in Node, NEW p \in net, ConnPacket(n, p), ~ReliablePacket(n, p)
      PROVE  UNCHANGED <<submitted, delivered>>
  BY <1>3 DEF ConnPacket, ParseACK, ParseReject, ParseReliableACK, ParseDisconnect,
              ParseDisconnectACK, sendVars, recvVars
<1>4. ASSUME NEW n \in Node, \/ Disconnect(n) \/ Crash(n)
                            \/ \E timeout, late \in BOOLEAN : Run(n, timeout, late)
      PROVE  UNCHANGED <<submitted, delivered>>
  BY <1>4 DEF Disconnect, Crash, Run, sendVars, recvVars
<1>5. ASSUME NEW p \in net, ParseSYN(p) \/ Drop(p) \/ Lose(p)
      PROVE  UNCHANGED <<submitted, delivered>>
  BY <1>5, FirstBegin DEF Drop, Lose, sendVars, recvVars
<1>6. CASE SendSYN \/ GiveUp \/ UNCHANGED vars
  BY <1>6 DEF SendSYN, GiveUp, vars, sendVars, recvVars
<1>. QED
  BY <1>1, <1>2, <1>3, <1>4, <1>5, <1>6, FirstBegin DEF Next

\* The connection implements two FIFO pipes: every reliable message is passed up
\* at most once and in the order of submission, until an end begins anew.
THEOREM FifoCorrect == Spec => FifoSpec
  BY TypeInit, TypeStep, UnbegunInit, UnbegunStep, ChannelCorrect, FifoInit,
     FifoStep, PTL DEF Spec, FifoSpec, Fifo!Spec

----------------------------------------------------------------------------
(* Handshake and disconnect                                                *)

(***************************************************************************)
(* The inductive invariant behind NoHalfAccepted: only a client that was   *)
(* accepted ever sends an ACK, so an ACK on its way to the server, like a  *)
(* CONNECTED server, means that the client has left CONNECTING (the first, *)
(* where the program is started again: the packets do not say).  It rests  *)
(* on each end having states of its own: only the server waits for an ACK  *)
(* (and so retries one), only the client is CONNECTING.                    *)
(***************************************************************************)
HandshakeInv ==
    /\ state[Client] \notin {Closed, "WAITING_ACK"}
    /\ state[Server] # "CONNECTING"
    /\ began[Client] >= 1
    /\ began[Client] = 1 =>
         /\ \A p \in net : p.type = "ACK" /\ p.to = Server =>
              state[Client] # "CONNECTING"
         /\ state[Server] = "CONNECTED" => state[Client] # "CONNECTING"

(***************************************************************************)
(* The inductive invariant behind RemoteIsRemote: a DISCONNECT comes from  *)
(* an end that asked to disconnect, a REJECTED from the server's refusal,  *)
(* an end retries a DISCONNECT only if it asked, and sleeps only if the    *)
(* other did.                                                              *)
(***************************************************************************)
ClosingInv ==
    /\ \A p \in net : p.type = "DISCONNECT" => Peer(p.to) \in asked
    /\ \A p \in net : p.type = "REJECTED" => p.to \in rejected
    /\ \A n \in Node : state[n] = "DISCONNECTING" => n \in asked
    /\ \A n \in Node : state[n] = "DISCONNECTED_SLEEP" => Peer(n) \in asked
    /\ RemoteIsRemote

LEMMA HandshakeInit == Init => HandshakeInv
  BY DEF Init, HandshakeInv, Node, Client, Server, Closed

LEMMA HandshakeStep == TypeOK /\ HandshakeInv /\ [Next]_vars => HandshakeInv'
<1>. SUFFICES ASSUME TypeOK, HandshakeInv, [Next]_vars PROVE HandshakeInv'
  OBVIOUS
<1>. USE DEF HandshakeInv
<1>0. Client \in Node /\ Server \in Node /\ Client # Server /\ state \in [Node -> ConnState]
  BY DEF Node, Client, Server, TypeOK
\* Nothing else sends an ACK or moves the state.
<1>1. ASSUME UNCHANGED <<state, began>>,
             \A q \in net' : q \in net \/ q.type # "ACK"
      PROVE  HandshakeInv'
  BY <1>1
<1>10. CASE Connect
  <2>1. /\ state' = [state EXCEPT ![Client] = "CONNECTING"]
        /\ began' = [began EXCEPT ![Client] = began[Client] + 1]
    BY <1>10 DEF Connect, NET_Conn_Init, Begin
  <2>2. began'[Client] = began[Client] + 1 /\ began[Client] \in Nat
    BY <1>0, <2>1 DEF TypeOK
  <2>3. began'[Client] >= 1 /\ began'[Client] # 1
    BY <2>2
  <2>. QED
    BY <1>0, <2>1, <2>3 DEF Closed
<1>2. CASE SendSYN \/ GiveUp
  BY <1>1, <1>2 DEF SendSYN, GiveUp, Send, Pkt, connVars, history
<1>3. ASSUME NEW p \in net, ParseSYN(p) PROVE HandshakeInv'
  <2>1. \A q \in net' : q \in net \/ q.type # "ACK"
    BY <1>3 DEF ParseSYN, Exchange, Pkt
  <2>2. UNCHANGED state \/ state' = [state EXCEPT ![Server] = "WAITING_ACK"]
    BY <1>3 DEF ParseSYN, NET_Conn_Init, Begin, connVars
  <2>3. UNCHANGED began \/ began' = [began EXCEPT ![Server] = began[Server] + 1]
    BY <1>3 DEF ParseSYN, NET_Conn_Init, Begin, history
  <2>4. began'[Client] = began[Client]
    BY <1>0, <2>3 DEF TypeOK
  <2>. QED
    BY <1>0, <2>1, <2>2, <2>4
<1>4. ASSUME NEW p \in net, Drop(p) \/ Lose(p) PROVE HandshakeInv'
  BY <1>1, <1>4 DEF Drop, Lose, connVars, history
<1>5. ASSUME NEW n \in Node, NewReliable(n) \/ Crash(n) PROVE HandshakeInv'
  BY <1>1, <1>5 DEF NewReliable, Crash, connVars, history
<1>6. ASSUME NEW n \in Node, Disconnect(n) PROVE HandshakeInv'
  <2>1. UNCHANGED <<net, began>> /\ state' = [state EXCEPT ![n] = "DISCONNECTING"]
    BY <1>6 DEF Disconnect
  <2>. QED
    BY <1>0, <2>1 DEF Closed
<1>7. ASSUME NEW n \in Node, NEW timeout \in BOOLEAN, NEW late \in BOOLEAN,
             Run(n, timeout, late)
      PROVE  HandshakeInv'
  <2>0. UNCHANGED began
    BY <1>7 DEF Run, history
  <2>1. \/ UNCHANGED state
        \/ state' = [state EXCEPT ![n] = "DISCONNECTED"]
    BY <1>7 DEF Run, RunConnected, RunRetry, RunSleep, RunDisconnected, connVars
  <2>2. ASSUME NEW q \in net', q \notin net, q.type = "ACK" PROVE q.to = Client
    <3>1. CASE RunConnected(n, timeout, late)
      BY <2>2, <3>1 DEF RunConnected, Send, Reliable
    <3>2. CASE RunRetry(n, late)
      <4>1. q = Pkt(Retried(state[n]), Peer(n))
        BY <2>2, <3>2 DEF RunRetry, Send
      <4>2. state[n] = "WAITING_ACK"
        BY <2>2, <4>1 DEF Pkt, Retried
      <4>3. n = Server
        BY <1>0, <4>2 DEF Node
      <4>. QED
        BY <4>1, <4>3 DEF Pkt, Peer, Client, Server
    <3>. QED
      BY <1>7, <2>2, <3>1, <3>2 DEF Run, RunSleep, RunDisconnected
  <2>. QED
    BY <1>0, <2>0, <2>1, <2>2 DEF Closed
<1>8. ASSUME NEW n \in Node, NEW p \in net, ConnPacket(n, p) PROVE HandshakeInv'
  <2>0. p.to = n /\ UNCHANGED began
    BY <1>8 DEF ConnPacket, ParseACK, ParseReject, ReliablePacket, ParseReliableACK,
                ParseDisconnect, ParseDisconnectACK, history
  <2>1. CASE ParseACK(n, p)
    <3>1. state' = [state EXCEPT ![n] = AfterACK(state[n])] /\ p.type = "ACK"
      BY <2>1 DEF ParseACK
    <3>2. began[Client] = 1 => state'[Client] # "CONNECTING"
      <4>1. p \in net /\ (n = Client \/ n = Server)
        BY DEF Node
      <4>. QED
        BY <1>0, <2>0, <3>1, <4>1 DEF AfterACK
    <3>. QED
      BY <1>0, <2>0, <3>1, <3>2 DEF AfterACK, Closed
  <2>2. CASE ParseReject(n, p) \/ ParseDisconnect(n, p) \/ ParseDisconnectACK(n, p)
    <3>1. \A q \in net' : q \in net \/ q.type # "ACK"
      BY <2>2 DEF ParseReject, ParseDisconnect, ParseDisconnectACK, Exchange, Pkt
    <3>2. \/ UNCHANGED state
          \/ state' = [state EXCEPT ![n] = "DISCONNECTED"]
          \/ state' = [state EXCEPT ![n] = "DISCONNECTED_SLEEP"]
      BY <2>2 DEF ParseReject, ParseDisconnect, ParseDisconnectACK
    <3>. QED
      BY <1>0, <2>0, <3>1, <3>2 DEF Closed
  <2>3. CASE ReliablePacket(n, p) \/ ParseReliableACK(n, p)
    BY <1>1, <2>0, <2>3
    DEF ReliablePacket, ParseReliableACK, Exchange, ReliableACK, connVars
  <2>. QED
    BY <1>8, <2>1, <2>2, <2>3 DEF ConnPacket
<1>9. CASE UNCHANGED vars
  BY <1>1, <1>9 DEF vars, connVars, history
<1>. QED
  BY <1>2, <1>3, <1>4, <1>5, <1>6, <1>7, <1>8, <1>9, <1>10 DEF Next

\* The server never takes a connection for accepted that the client does not
\* (NET_Conn_ParseACK), whatever packets are lost, repeated or late.
THEOREM NoHalfAcceptedCorrect == Spec => []NoHalfAccepted
<1>1. TypeOK /\ HandshakeInv => NoHalfAccepted
  BY DEF TypeOK, HandshakeInv, NoHalfAccepted, ConnState, Node
<1>. QED
  BY <1>1, TypeInit, TypeStep, HandshakeInit, HandshakeStep, PTL DEF Spec

LEMMA ClosingInit == Init => ClosingInv
  BY DEF Init, ClosingInv, RemoteIsRemote, Node, Client, Server, Closed

LEMMA ClosingStep == TypeOK /\ ClosingInv /\ [Next]_vars => ClosingInv'
<1>. SUFFICES ASSUME TypeOK, ClosingInv, [Next]_vars PROVE ClosingInv'
  OBVIOUS
<1>0. /\ Client \in Node /\ Server \in Node /\ Client # Server
      /\ state \in [Node -> ConnState] /\ disconnect_reason \in [Node -> Reason]
  BY DEF Node, Client, Server, TypeOK
\* asked and rejected only grow; what is left to show is that the new packets
\* and the new states have their cause.
<1>1. ASSUME asked \subseteq asked', rejected \subseteq rejected',
             \A q \in net' : \/ q \in net \/ q.type \notin {"DISCONNECT", "REJECTED"}
                             \/ q.type = "DISCONNECT" /\ Peer(q.to) \in asked'
                             \/ q.type = "REJECTED" /\ q.to \in rejected',
             \A n \in Node : \/ state'[n] = state[n]
                             \/ state'[n] \notin {"DISCONNECTING", "DISCONNECTED_SLEEP"}
                             \/ state'[n] = "DISCONNECTING" /\ n \in asked'
                             \/ state'[n] = "DISCONNECTED_SLEEP" /\ Peer(n) \in asked',
             \A n \in Node : \/ disconnect_reason'[n] = disconnect_reason[n]
                             \/ disconnect_reason'[n] # "REMOTE"
                             \/ Peer(n) \in asked' \/ n \in rejected'
      PROVE  ClosingInv'
  BY <1>1 DEF ClosingInv, RemoteIsRemote
<1>2. CASE SendSYN \/ GiveUp
  BY <1>1, <1>2 DEF SendSYN, GiveUp, Send, Pkt, connVars, history
<1>10. CASE Connect
  <2>1. /\ state' = [state EXCEPT ![Client] = "CONNECTING"]
        /\ disconnect_reason' = [disconnect_reason EXCEPT ![Client] = "NONE"]
        /\ UNCHANGED <<asked, rejected, net>>
    BY <1>10 DEF Connect, NET_Conn_Init, Begin
  <2>. QED
    BY <1>0, <1>1, <2>1
<1>3. ASSUME NEW p \in net, ParseSYN(p) PROVE ClosingInv'
  <2>1. asked' = asked /\ rejected \subseteq rejected' /\ UNCHANGED disconnect_reason
    BY <1>3 DEF ParseSYN, NET_Conn_Init, Begin, history, connVars
  <2>2. \A q \in net' :
          \/ q \in net
          \/ q.type = "REJECTED" /\ q.to \in rejected'
    BY <1>3 DEF ParseSYN, Exchange, Pkt
  <2>3. UNCHANGED state \/ state' = [state EXCEPT ![Server] = "WAITING_ACK"]
    BY <1>3 DEF ParseSYN, NET_Conn_Init, Begin, connVars
  <2>. QED
    BY <1>0, <1>1, <2>1, <2>2, <2>3
<1>4. ASSUME NEW p \in net, Drop(p) \/ Lose(p) PROVE ClosingInv'
  BY <1>1, <1>4 DEF Drop, Lose, connVars, history
<1>5. ASSUME NEW n \in Node, NewReliable(n) \/ Crash(n) PROVE ClosingInv'
  BY <1>1, <1>5 DEF NewReliable, Crash, connVars, history
<1>6. ASSUME NEW n \in Node, Disconnect(n) PROVE ClosingInv'
  BY <1>0, <1>1, <1>6 DEF Disconnect
<1>7. ASSUME NEW n \in Node, NEW timeout \in BOOLEAN, NEW late \in BOOLEAN,
             Run(n, timeout, late)
      PROVE  ClosingInv'
  <2>0. UNCHANGED <<asked, rejected>>
    BY <1>7 DEF Run, history
  <2>1. CASE RunConnected(n, timeout, late) \/ RunDisconnected(n)
    <3>1. \A q \in net' : q \in net \/ q.type = "RELIABLE"
      BY <2>1 DEF RunConnected, RunDisconnected, Send, Reliable
    <3>2. \/ UNCHANGED <<state, disconnect_reason>>
          \/ /\ state' = [state EXCEPT ![n] = "DISCONNECTED"]
             /\ disconnect_reason' = [disconnect_reason EXCEPT ![n] = "TIMEOUT"]
      BY <2>1 DEF RunConnected, RunDisconnected, connVars
    <3>. QED
      BY <1>0, <1>1, <2>0, <3>1, <3>2
  <2>2. CASE RunRetry(n, late)
    <3>1. ASSUME NEW q \in net', q \notin net
          PROVE  q.type # "REJECTED" /\ (q.type = "DISCONNECT" => Peer(q.to) \in asked)
      <4>1. q = Pkt(Retried(state[n]), Peer(n))
        BY <2>2, <3>1 DEF RunRetry, Send
      <4>2. q.to = Peer(n) /\ q.type = Retried(state[n])
        BY <4>1 DEF Pkt
      <4>3. state[n] \in {"WAITING_ACK", "DISCONNECTING"}
        BY <2>2 DEF RunRetry
      <4>. QED
        BY <4>2, <4>3, PeerFacts DEF Retried, ClosingInv
    <3>2. \/ UNCHANGED <<state, disconnect_reason>>
          \/ /\ state' = [state EXCEPT ![n] = "DISCONNECTED"]
             /\ disconnect_reason' = [disconnect_reason EXCEPT ![n] = NoAnswer(state[n])]
      BY <2>2 DEF RunRetry
    <3>3. NoAnswer(state[n]) # "REMOTE"
      BY DEF NoAnswer
    <3>. QED
      BY <1>0, <1>1, <2>0, <3>1, <3>2, <3>3
  <2>3. CASE RunSleep(n, late)
    <3>1. UNCHANGED net /\ state[n] = "DISCONNECTED_SLEEP"
      BY <2>3 DEF RunSleep
    <3>2. Peer(n) \in asked
      BY <3>1 DEF ClosingInv
    <3>3. \/ UNCHANGED <<state, disconnect_reason>>
          \/ /\ state' = [state EXCEPT ![n] = "DISCONNECTED"]
             /\ disconnect_reason' = [disconnect_reason EXCEPT ![n] = "REMOTE"]
      BY <2>3 DEF RunSleep
    <3>. QED
      BY <1>0, <1>1, <2>0, <3>1, <3>2, <3>3
  <2>. QED
    BY <1>7, <2>1, <2>2, <2>3 DEF Run
<1>8. ASSUME NEW n \in Node, NEW p \in net, ConnPacket(n, p) PROVE ClosingInv'
  <2>0. p.to = n
    BY <1>8 DEF ConnPacket
  <2>1. CASE ParseACK(n, p)
    <3>1. /\ state' = [state EXCEPT ![n] = AfterACK(state[n])]
          /\ UNCHANGED <<disconnect_reason, asked, rejected>>
      BY <2>1 DEF ParseACK, history
    <3>2. \A q \in net' : q \in net \/ q.type = "ACK"
      BY <2>1 DEF ParseACK, Exchange, Pkt
    <3>3. AfterACK(state[n]) \in {state[n], "CONNECTED"}
      BY DEF AfterACK
    <3>. QED
      BY <1>0, <1>1, <3>1, <3>2, <3>3
  <2>2. CASE ParseReject(n, p)
    <3>1. UNCHANGED <<asked, rejected>> /\ net' \subseteq net /\ n \in rejected
      BY <2>0, <2>2 DEF ParseReject, Exchange, history, ClosingInv
    <3>2. \/ UNCHANGED <<state, disconnect_reason>>
          \/ /\ state' = [state EXCEPT ![n] = "DISCONNECTED"]
             /\ disconnect_reason' = [disconnect_reason EXCEPT ![n] = "REMOTE"]
      BY <2>2 DEF ParseReject
    <3>. QED
      BY <1>0, <1>1, <3>1, <3>2
  <2>3. CASE ParseDisconnect(n, p)
    <3>1. UNCHANGED <<asked, rejected>> /\ Peer(n) \in asked
      BY <2>0, <2>3 DEF ParseDisconnect, history, ClosingInv
    <3>2. \A q \in net' : q \in net \/ q.type = "DISCONNECT_ACK"
      BY <2>3 DEF ParseDisconnect, Exchange, Pkt
    <3>3. /\ state' = [state EXCEPT ![n] = "DISCONNECTED_SLEEP"]
          /\ disconnect_reason' = [disconnect_reason EXCEPT ![n] = "REMOTE"]
      BY <2>3 DEF ParseDisconnect
    <3>. QED
      BY <1>0, <1>1, <3>1, <3>2, <3>3
  <2>4. CASE ParseDisconnectACK(n, p)
    <3>1. UNCHANGED <<asked, rejected>> /\ net' \subseteq net
      BY <2>4 DEF ParseDisconnectACK, Exchange, history
    <3>2. \/ UNCHANGED <<state, disconnect_reason>>
          \/ /\ state' = [state EXCEPT ![n] = "DISCONNECTED"]
             /\ disconnect_reason' = [disconnect_reason EXCEPT ![n] = "LOCAL"]
      BY <2>4 DEF ParseDisconnectACK
    <3>. QED
      BY <1>0, <1>1, <3>1, <3>2
  <2>5. CASE ReliablePacket(n, p) \/ ParseReliableACK(n, p)
    BY <1>1, <2>5
    DEF ReliablePacket, ParseReliableACK, Exchange, ReliableACK, connVars, history
  <2>. QED
    BY <1>8, <2>1, <2>2, <2>3, <2>4, <2>5 DEF ConnPacket
<1>9. CASE UNCHANGED vars
  BY <1>1, <1>9 DEF vars, connVars, history
<1>. QED
  BY <1>2, <1>3, <1>4, <1>5, <1>6, <1>7, <1>8, <1>9, <1>10 DEF Next

\* An end blames the other for the end of the connection only when the other
\* asked for it or refused it (disconnect_reason, net_common.c:273-372).
THEOREM RemoteCorrect == Spec => []RemoteIsRemote
<1>1. ClosingInv => RemoteIsRemote
  BY DEF ClosingInv
<1>. QED
  BY <1>1, TypeInit, TypeStep, ClosingInit, ClosingStep, PTL DEF Spec

LEMMA ClosingStays ==
  TypeOK /\ [Next]_vars =>
    [\A n \in Node : state[n] \in Closing =>
       state'[n] \in Closing \/ BeginsAnew(n)]_vars
<1>. SUFFICES ASSUME TypeOK, Next, NEW m \in Node, state[m] \in Closing
     PROVE  state'[m] \in Closing \/ BeginsAnew(m)
  OBVIOUS
<1>0. Client \in Node /\ Server \in Node /\ state \in [Node -> ConnState] /\ Closed \notin Closing
  BY DEF Node, TypeOK, Closed, Closing
<1>1. CASE SendSYN \/ GiveUp
  BY <1>1 DEF SendSYN, GiveUp, connVars
\* NET_Conn_Init is all that leaves a closing state.
<1>7. ASSUME NEW n \in Node, NEW s \in {"CONNECTING", "WAITING_ACK"}, NET_Conn_Init(n, s)
      PROVE  state'[m] \in Closing \/ BeginsAnew(m)
  <2>1. CASE n = m
    <3>1. /\ began' = [began EXCEPT ![n] = began[n] + 1]
          /\ state' = [state EXCEPT ![n] = s]
          /\ reliable_packets' = [reliable_packets EXCEPT ![n] = <<>>]
          /\ num_retries' = [num_retries EXCEPT ![n] = 0]
          /\ reliable_send_seq' = [reliable_send_seq EXCEPT ![n] = 0]
          /\ reliable_recv_seq' = [reliable_recv_seq EXCEPT ![n] = 0]
      BY <1>7 DEF NET_Conn_Init, Begin
    <3>. QED
      BY <1>7, <2>1, <3>1 DEF BeginsAnew, TypeOK
  <2>2. CASE n # m
    BY <1>0, <1>7, <2>2 DEF NET_Conn_Init, Begin
  <2>. QED
    BY <2>1, <2>2
<1>8. CASE Connect
  BY <1>0, <1>7, <1>8 DEF Connect
<1>2. ASSUME NEW p \in net, ParseSYN(p) \/ Drop(p) \/ Lose(p)
      PROVE  state'[m] \in Closing \/ BeginsAnew(m)
  BY <1>0, <1>2, <1>7 DEF ParseSYN, Drop, Lose, connVars
<1>3. ASSUME NEW n \in Node, NewReliable(n) \/ Crash(n) PROVE state'[m] \in Closing
  BY <1>3 DEF NewReliable, Crash, connVars
<1>4. ASSUME NEW n \in Node, Disconnect(n) PROVE state'[m] \in Closing
  BY <1>0, <1>4 DEF Disconnect
<1>5. ASSUME NEW n \in Node, NEW timeout \in BOOLEAN, NEW late \in BOOLEAN,
             Run(n, timeout, late)
      PROVE  state'[m] \in Closing
  <2>1. \/ UNCHANGED state
        \/ state' = [state EXCEPT ![n] = "DISCONNECTED"]
    BY <1>5 DEF Run, RunConnected, RunRetry, RunSleep, RunDisconnected, connVars
  <2>. QED
    BY <1>0, <2>1 DEF Closing
<1>6. ASSUME NEW n \in Node, NEW p \in net, ConnPacket(n, p)
      PROVE  state'[m] \in Closing
  <2>1. \/ UNCHANGED state
        \/ state' = [state EXCEPT ![n] = AfterACK(state[n])]
        \/ state' = [state EXCEPT ![n] = "DISCONNECTED"]
        \/ state' = [state EXCEPT ![n] = "DISCONNECTED_SLEEP"]
    BY <1>6 DEF ConnPacket, ParseACK, ParseReject, ReliablePacket,
                ParseReliableACK, ParseDisconnect, ParseDisconnectACK, connVars
  <2>. QED
    BY <1>0, <2>1 DEF AfterACK, Closing
<1>. QED
  BY <1>1, <1>2, <1>3, <1>4, <1>5, <1>6, <1>8 DEF Next

\* A connection that began to close stays closed: no ACK or timer brings it back
\* (NET_Conn_ParseACK tests the state), and a SYN only by a new one
\* (NET_SV_ParseSYN, NET_Conn_Init).
THEOREM NeverReopenedCorrect == Spec => NeverReopened
  BY TypeInit, TypeStep, ClosingStays, PTL DEF Spec, NeverReopened

=============================================================================
