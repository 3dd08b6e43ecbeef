--------------------------- MODULE OplMusicProofs ---------------------------
(***************************************************************************)
(* The queue of callbacks stays a heap, and with it every callback that is *)
(* due is called before the next samples are mixed; of every track that    *)
(* has not ended one callback waits (opl/opl_queue.c, opl/opl_sdl.c,       *)
(* i_oplmusic.c).                                                          *)
(***************************************************************************)
EXTENDS OplMusic, ByteArith

----------------------------------------------------------------------------
(* The way of an entry through the heap                                    *)

\* next leads from each hole to another place or ends there.
Leads(n, next) == next \in [1 .. n -> 0 .. n]

LEMMA HolesClosed ==
  ASSUME NEW n \in Nat, NEW next, Leads(n, next), NEW first \in 1 .. n,
         NEW holes, holes = Holes(first, next)
  PROVE  /\ holes \subseteq 1 .. n /\ first \in holes
         /\ \A i \in holes : next[i] # 0 => next[i] \in holes
<1>. DEFINE Closed(S) == first \in S /\ \A i \in S : next[i] # 0 => next[i] \in S
<1>1. holes = {i \in 1 .. n : \A S \in SUBSET (1 .. n) : Closed(S) => i \in S}
  <2>1. DOMAIN next = 1 .. n
    BY DEF Leads
  <2>. QED
    BY <2>1 DEF Holes
<1>2. first \in holes
  BY <1>1
<1>3. ASSUME NEW i \in holes, next[i] # 0 PROVE next[i] \in holes
  <2>1. i \in 1 .. n /\ next[i] \in 1 .. n
    BY <1>1, <1>3 DEF Leads
  <2>2. ASSUME NEW S \in SUBSET (1 .. n), Closed(S) PROVE next[i] \in S
    BY <1>1, <1>3, <2>2
  <2>. QED
    BY <1>1, <2>1, <2>2
<1>. QED
  BY <1>1, <1>2, <1>3

\* The entry has come to each hole but the first from another.
LEMMA HoleFrom ==
  ASSUME NEW n \in Nat, NEW next, Leads(n, next), NEW first \in 1 .. n,
         NEW i \in Holes(first, next), i # first
  PROVE  \E j \in Holes(first, next) : next[j] = i /\ next[j] # 0
<1>. DEFINE holes == Holes(first, next)
            Closed(S) == first \in S /\ \A k \in S : next[k] # 0 => next[k] \in S
            S0 == holes \ {i}
<1>1. /\ holes \subseteq 1 .. n /\ first \in holes
      /\ \A k \in holes : next[k] # 0 => next[k] \in holes
  BY HolesClosed
<1>2. \A S \in SUBSET (1 .. n) : Closed(S) => i \in S
  BY DEF Leads, Holes
<1>. HIDE DEF holes
<1>3. ~Closed(S0)
  BY <1>1, <1>2
<1>4. PICK j \in S0 : next[j] # 0 /\ next[j] \notin S0
  BY <1>1, <1>3
<1>. QED
  BY <1>1, <1>4 DEF holes

LEMMA PercolatedIs ==
  ASSUME NEW n \in Nat, NEW next, Leads(n, next), NEW q, NEW e, NEW first,
         NEW r, r = Percolated(q, e, first, next)
  PROVE  /\ r = [i \in 1 .. n |-> r[i]]
         /\ \A i \in 1 .. n :
              /\ i \notin Holes(first, next) => r[i] = q[i]
              /\ i \in Holes(first, next) /\ next[i] = 0 => r[i] = e
              /\ i \in Holes(first, next) /\ next[i] # 0 => r[i] = q[next[i]]
<1>1. DOMAIN next = 1 .. n
  BY DEF Leads
<1>2. r = [i \in 1 .. n |-> IF i \notin Holes(first, next) THEN q[i]
                            ELSE IF next[i] = 0 THEN e ELSE q[next[i]]]
  BY <1>1 DEF Percolated
<1>. QED
  BY <1>2

----------------------------------------------------------------------------
(* The heap                                                                *)

Entries == Seq(EntryType)
Heap(q) == \A i \in 2 .. Len(q) : q[i \div 2].time <= q[i].time

LEMMA EntryFields ==
  ASSUME NEW q \in Entries
  PROVE  /\ Len(q) \in Nat /\ DOMAIN q = 1 .. Len(q)
         /\ \A i \in 1 .. Len(q) : q[i] \in EntryType /\ q[i].time \in Int
<1>1. Len(q) \in Nat /\ DOMAIN q = 1 .. Len(q) /\ \A i \in 1 .. Len(q) : q[i] \in EntryType
  BY DEF Entries
<1>2. \A x \in EntryType : x.time \in Int
  BY DEF EntryType
<1>. QED
  BY <1>1, <1>2

LEMMA TimeSet ==
  ASSUME NEW x \in EntryType, NEW t \in Int, NEW y, y = [x EXCEPT !.time = t]
  PROVE  /\ y \in EntryType /\ y.time = t
         /\ y.play = x.play /\ y.callback = x.callback /\ y.track = x.track
  BY DEF EntryType

LEMMA Half ==
  ASSUME NEW i \in Nat, i > 1
  PROVE  i \div 2 \in 1 .. i - 1 /\ i \in {2 * (i \div 2), 2 * (i \div 2) + 1}
  OBVIOUS

LEMMA RiseLeads ==
  ASSUME NEW q \in Entries, NEW e \in EntryType
  PROVE  Leads(Len(q) + 1, Rise(q, e))
<1>1. Len(q) \in Nat
  BY DEF Entries
<1>2. ASSUME NEW i \in 1 .. Len(q) + 1 PROVE Rise(q, e)[i] \in 0 .. Len(q) + 1
  BY <1>1, <1>2, Half DEF Rise
<1>. QED
  BY <1>2 DEF Leads, Rise


\* Push, and what the new entry passes.
LEMMA PushIs ==
  ASSUME NEW q \in Entries, NEW e \in EntryType, Len(q) < MAX_OPL_QUEUE,
         NEW r, r = OPL_Queue_Push(q, e), NEW n, n = Len(q) + 1,
         NEW H, H = Holes(n, Rise(q, e))
  PROVE  /\ n \in Nat /\ r = [i \in 1 .. n |-> r[i]] /\ n \in H /\ H \subseteq 1 .. n
         /\ \A i \in 1 .. n :
              /\ i \notin H => r[i] = q[i]
              /\ i \in H /\ ~(i > 1 /\ e.time < q[i \div 2].time) => r[i] = e
              /\ i \in H /\ i > 1 /\ e.time < q[i \div 2].time =>
                   r[i] = q[i \div 2] /\ i \div 2 \in H
         /\ \A i \in H : i # n => e.time < q[i].time
<1>. DEFINE next == Rise(q, e)
<1>1. n \in Nat /\ n \in 1 .. n /\ Leads(n, next) /\ MAX_OPL_QUEUE \in Nat
  BY RiseLeads, QueueAssumption DEF Entries
<1>2. r = Percolated(q, e, n, next)
  BY <1>1 DEF OPL_Queue_Push, Entries
<1>3. \A i \in 1 .. n : /\ i > 1 /\ e.time < q[i \div 2].time => next[i] = i \div 2 /\ next[i] # 0
                        /\ ~(i > 1 /\ e.time < q[i \div 2].time) => next[i] = 0
  BY <1>1, Half DEF Rise
<1>. HIDE DEF next
<1>4. H = Holes(n, next)
  BY DEF next
<1>5. /\ H \subseteq 1 .. n /\ n \in H
      /\ \A i \in H : next[i] # 0 => next[i] \in H
  BY <1>1, <1>4, HolesClosed
<1>6. /\ r = [i \in 1 .. n |-> r[i]]
      /\ \A i \in 1 .. n :
           /\ i \notin H => r[i] = q[i]
           /\ i \in H /\ next[i] = 0 => r[i] = e
           /\ i \in H /\ next[i] # 0 => r[i] = q[next[i]]
  BY <1>1, <1>2, <1>4, PercolatedIs
<1>7. ASSUME NEW i \in H, i # n PROVE e.time < q[i].time
  <2>1. PICK j \in H : next[j] = i /\ next[j] # 0
    BY <1>1, <1>4, <1>7, HoleFrom
  <2>. QED
    BY <1>3, <1>5, <2>1
<1>. QED
  BY <1>1, <1>3, <1>5, <1>6, <1>7

LEMMA PushTypes ==
  ASSUME NEW q \in Entries, NEW e \in EntryType, Len(q) <= MAX_OPL_QUEUE,
         NEW r, r = OPL_Queue_Push(q, e)
  PROVE  /\ r \in Entries /\ Len(r) <= MAX_OPL_QUEUE
         /\ \A i \in DOMAIN r : r[i] = e \/ \E j \in DOMAIN q : r[i] = q[j]
<1>0. MAX_OPL_QUEUE \in Nat /\ Len(q) \in Nat
  BY QueueAssumption DEF Entries
<1>1. CASE Len(q) >= MAX_OPL_QUEUE
  BY <1>0, <1>1 DEF OPL_Queue_Push
<1>2. CASE Len(q) < MAX_OPL_QUEUE
  <2>1. PICK n : n = Len(q) + 1
    OBVIOUS
  <2>2. PICK H : H = Holes(n, Rise(q, e))
    OBVIOUS
  <2>3. /\ n \in Nat /\ r = [i \in 1 .. n |-> r[i]] /\ n \in H /\ H \subseteq 1 .. n
        /\ \A i \in 1 .. n :
             /\ i \notin H => r[i] = q[i]
             /\ i \in H /\ ~(i > 1 /\ e.time < q[i \div 2].time) => r[i] = e
             /\ i \in H /\ i > 1 /\ e.time < q[i \div 2].time =>
                  r[i] = q[i \div 2] /\ i \div 2 \in H
    BY <1>2, <2>1, <2>2, PushIs
  <2>4. DOMAIN q = 1 .. Len(q) /\ \A j \in 1 .. Len(q) : q[j] \in EntryType
    BY DEF Entries
  <2>5. \A i \in 1 .. n : r[i] = e \/ \E j \in DOMAIN q : r[i] = q[j]
    <3>. SUFFICES ASSUME NEW i \in 1 .. n
         PROVE  r[i] = e \/ \E j \in DOMAIN q : r[i] = q[j]
      OBVIOUS
    <3>1. CASE i \notin H
      BY <1>0, <2>1, <2>3, <2>4, <3>1
    <3>2. CASE i \in H /\ i > 1 /\ e.time < q[i \div 2].time
      <4>1. i \div 2 \in 1 .. Len(q)
        BY <1>0, <2>1, <3>2, Half
      <4>. QED
        BY <2>3, <2>4, <3>2, <4>1
    <3>. QED
      BY <2>3, <3>1, <3>2
  <2>6. r \in Entries /\ Len(r) = n /\ DOMAIN r = 1 .. n
    <3>1. \A i \in 1 .. n : r[i] \in EntryType
      BY <2>4, <2>5
    <3>2. n \in Nat /\ r = [i \in 1 .. n |-> r[i]]
      BY <2>3
    <3>. QED
      BY ONLY <3>1, <3>2 DEF Entries
  <2>. QED
    BY <1>0, <1>2, <2>1, <2>5, <2>6
<1>. QED
  BY <1>0, <1>1, <1>2

LEMMA PushHeap ==
  ASSUME NEW q \in Entries, NEW e \in EntryType, Heap(q), Len(q) <= MAX_OPL_QUEUE,
         NEW r, r = OPL_Queue_Push(q, e)
  PROVE  Heap(r)
<1>0. MAX_OPL_QUEUE \in Nat /\ Len(q) \in Nat
  BY QueueAssumption DEF Entries
<1>1. CASE Len(q) >= MAX_OPL_QUEUE
  BY <1>0, <1>1 DEF OPL_Queue_Push
<1>2. CASE Len(q) < MAX_OPL_QUEUE
  <2>1. PICK n : n = Len(q) + 1
    OBVIOUS
  <2>2. PICK H : H = Holes(n, Rise(q, e))
    OBVIOUS
  <2>3. /\ n \in Nat /\ r = [i \in 1 .. n |-> r[i]] /\ n \in H /\ H \subseteq 1 .. n
        /\ \A i \in 1 .. n :
             /\ i \notin H => r[i] = q[i]
             /\ i \in H /\ ~(i > 1 /\ e.time < q[i \div 2].time) => r[i] = e
             /\ i \in H /\ i > 1 /\ e.time < q[i \div 2].time =>
                  r[i] = q[i \div 2] /\ i \div 2 \in H
        /\ \A i \in H : i # n => e.time < q[i].time
    BY <1>2, <2>1, <2>2, PushIs
  <2>4. Len(r) = n
    BY <2>3
  <2>5. /\ e.time \in Int
        /\ \A i \in 1 .. Len(q) : q[i].time \in Int
        /\ \A i \in 2 .. Len(q) : q[i \div 2].time <= q[i].time
    <3>1. \A i \in 1 .. Len(q) : q[i].time \in Int
      BY EntryFields
    <3>. QED
      BY <3>1 DEF Heap, EntryType
  <2>. SUFFICES ASSUME NEW i \in 2 .. n, NEW j, j = i \div 2
       PROVE  r[j].time <= r[i].time
    BY <2>4 DEF Heap
  <2>6. j \in 1 .. i - 1 /\ j \in 1 .. Len(q) /\ q[j].time \in Int
    BY <1>0, <2>1, <2>5, Half
  \* Wherever the entry is or is not put, what comes into j is not later
  \* than what was there.
  <2>7. CASE i \notin H
    <3>1. i \in 2 .. Len(q) /\ r[i] = q[i] /\ q[j].time <= q[i].time
      BY <1>0, <2>1, <2>3, <2>5, <2>7
    <3>2. r[j].time <= q[j].time
      <4>1. CASE j \notin H
        BY <2>3, <2>6, <4>1
      <4>2. CASE j \in H /\ j > 1 /\ e.time < q[j \div 2].time
        BY <2>3, <2>5, <2>6, <4>2
      <4>3. CASE j \in H /\ ~(j > 1 /\ e.time < q[j \div 2].time)
        <5>1. r[j] = e
          BY <2>3, <4>3
        <5>2. e.time < q[j].time
          BY <1>0, <2>1, <2>3, <2>6, <4>3
        <5>. QED
          BY <2>5, <2>6, <5>1, <5>2
      <4>. QED
        BY <4>1, <4>2, <4>3
    <3>3. r[j].time \in Int /\ q[i].time \in Int
      <4>1. r \in Entries /\ j \in 1 .. Len(r)
        BY <2>4, <2>6, PushTypes
      <4>2. r[j].time \in Int
        BY ONLY <4>1, EntryFields
      <4>3. i \in 1 .. Len(q)
        BY <1>0, <3>1
      <4>. QED
        BY <2>5, <4>2, <4>3
    <3>. QED
      BY <2>6, <3>1, <3>2, <3>3
  <2>8. CASE i \in H /\ ~(e.time < q[j].time)
    <3>1. r[i] = e /\ q[j].time <= e.time
      BY <2>3, <2>5, <2>6, <2>8
    <3>2. j \notin H
      BY <2>1, <2>3, <2>6, <2>8
    <3>. QED
      BY <2>3, <2>6, <3>1, <3>2
  <2>9. CASE i \in H /\ e.time < q[j].time
    <3>1. r[i] = q[j] /\ j \in H
      BY <2>3, <2>9
    <3>2. CASE j > 1 /\ e.time < q[j \div 2].time
      <4>1. r[j] = q[j \div 2]
        BY <2>1, <2>3, <2>6, <3>1, <3>2
      <4>2. q[j \div 2].time <= q[j].time
        BY <2>5, <2>6, <3>2
      <4>. QED
        BY <3>1, <4>1, <4>2
    <3>3. CASE ~(j > 1 /\ e.time < q[j \div 2].time)
      BY <2>3, <2>5, <2>6, <2>9, <3>1, <3>3
    <3>. QED
      BY <3>2, <3>3
  <2>. QED
    BY <2>7, <2>8, <2>9
<1>. QED
  BY <1>0, <1>1, <1>2

\* Pop: what the last entry passes on its way down.
LEMMA FirstIs ==
  ASSUME NEW q \in Entries, NEW i \in 1 .. Len(q), Earlier(q, i) # {},
         NEW c, c = First(q, Earlier(q, i))
  PROVE  c \in Earlier(q, i) /\ \A d \in Earlier(q, i) : q[c].time <= q[d].time
<1>. DEFINE cs == Earlier(q, i)
            Before(x, y) == q[x].time < q[y].time \/ (q[x].time = q[y].time /\ x <= y)
<1>1. /\ cs \subseteq {2 * i, 2 * i + 1}
      /\ \A x \in cs : x \in Int /\ q[x].time \in Int
  <2>1. \A x \in 1 .. Len(q) : q[x].time \in Int
    BY EntryFields
  <2>. QED
    BY <2>1 DEF Earlier, Entries
<1>. HIDE DEF cs
<1>2. \E x \in cs : \A y \in cs : Before(x, y)
  <2>1. CASE 2 * i \notin cs
    <3>1. cs = {2 * i + 1}
      BY <1>1, <2>1 DEF cs
    <3>. QED
      BY <1>1, <3>1
  <2>2. CASE 2 * i + 1 \notin cs
    <3>1. cs = {2 * i}
      BY <1>1, <2>2 DEF cs
    <3>. QED
      BY <1>1, <3>1
  <2>3. CASE 2 * i \in cs /\ 2 * i + 1 \in cs
    <3>1. q[2 * i].time \in Int /\ q[2 * i + 1].time \in Int
      BY <1>1, <2>3
    <3>2. Before(2 * i, 2 * i) /\ Before(2 * i + 1, 2 * i + 1)
      BY <3>1
    <3>3. Before(2 * i, 2 * i + 1) \/ Before(2 * i + 1, 2 * i)
      BY <3>1
    <3>. HIDE DEF Before
    <3>. QED
      BY <1>1, <2>3, <3>2, <3>3
  <2>. QED
    BY <2>1, <2>2, <2>3
<1>3. c = CHOOSE x \in cs : \A y \in cs : Before(x, y)
  BY DEF First, cs
<1>4. c \in cs /\ \A y \in cs : Before(c, y)
  <2>. HIDE DEF Before
  <2>. QED
    BY <1>2, <1>3
<1>. QED
  BY <1>1, <1>4 DEF cs

LEMMA SinkLeads ==
  ASSUME NEW q \in Entries
  PROVE  /\ Leads(Len(q) - 1, Sink(q))
         /\ \A i \in 1 .. Len(q) - 1 :
              /\ Earlier(q, i) = {} => Sink(q)[i] = 0
              /\ Earlier(q, i) # {} => Sink(q)[i] = First(q, Earlier(q, i)) /\ Sink(q)[i] > i
<1>1. Len(q) \in Nat
  BY DEF Entries
<1>2. Sink(q) = [i \in 1 .. Len(q) - 1 |->
                   IF Earlier(q, i) = {} THEN 0 ELSE First(q, Earlier(q, i))]
  BY DEF Sink
<1>3. ASSUME NEW i \in 1 .. Len(q) - 1, Earlier(q, i) # {}
      PROVE  First(q, Earlier(q, i)) \in i + 1 .. Len(q) - 1
  <2>1. First(q, Earlier(q, i)) \in Earlier(q, i)
    BY <1>1, <1>3, FirstIs
  <2>. QED
    BY <1>1, <2>1 DEF Earlier
<1>. QED
  BY <1>1, <1>2, <1>3 DEF Leads

LEMMA PopIs ==
  ASSUME NEW q \in Entries, q # <<>>, NEW e, e = q[Len(q)],
         NEW r, r = OPL_Queue_Pop(q), NEW n, n = Len(q) - 1,
         NEW H, H = Holes(1, Sink(q))
  PROVE  /\ n \in Nat /\ e \in EntryType /\ r = [i \in 1 .. n |-> r[i]]
         /\ n > 0 => 1 \in H /\ H \subseteq 1 .. n
         /\ \A i \in 1 .. n :
              /\ i \notin H => r[i] = q[i]
              /\ i \in H /\ Earlier(q, i) = {} => r[i] = e
              /\ i \in H /\ Earlier(q, i) # {} =>
                   \E c \in Earlier(q, i) :
                     /\ c \in H /\ r[i] = q[c] /\ c \in 1 .. n
                     /\ \A d \in Earlier(q, i) : q[c].time <= q[d].time
         /\ \A i \in H : n > 0 /\ i > 1 =>
              i \div 2 \in H /\ r[i \div 2] = q[i] /\ q[i].time < e.time
<1>. DEFINE next == Sink(q)
<1>1. n \in Nat /\ e \in EntryType /\ Len(q) = n + 1
  BY DEF Entries
<1>2. Leads(n, next) /\ r = Percolated(q, e, 1, next)
  BY SinkLeads DEF OPL_Queue_Pop
<1>3. \A i \in 1 .. n : /\ Earlier(q, i) = {} => next[i] = 0
                        /\ Earlier(q, i) # {} =>
                             /\ next[i] # 0 /\ next[i] \in Earlier(q, i) /\ next[i] \in 1 .. n
                             /\ \A d \in Earlier(q, i) : q[next[i]].time <= q[d].time
  <2>. SUFFICES ASSUME NEW i \in 1 .. n, Earlier(q, i) # {}
       PROVE  /\ next[i] # 0 /\ next[i] \in Earlier(q, i) /\ next[i] \in 1 .. n
              /\ \A d \in Earlier(q, i) : q[next[i]].time <= q[d].time
    BY <1>1, SinkLeads
  <2>1. next[i] = First(q, Earlier(q, i)) /\ next[i] > i
    BY <1>1, SinkLeads
  <2>2. next[i] \in 0 .. n
    BY <1>2 DEF Leads
  <2>. QED
    BY <1>1, <2>1, <2>2, FirstIs
<1>. HIDE DEF next
<1>4. H = Holes(1, next)
  BY DEF next
<1>5. n > 0 => /\ H \subseteq 1 .. n /\ 1 \in H
               /\ \A i \in H : next[i] # 0 => next[i] \in H
  BY <1>1, <1>2, <1>4, HolesClosed
<1>6. /\ r = [i \in 1 .. n |-> r[i]]
      /\ \A i \in 1 .. n :
           /\ i \notin H => r[i] = q[i]
           /\ i \in H /\ next[i] = 0 => r[i] = e
           /\ i \in H /\ next[i] # 0 => r[i] = q[next[i]]
  BY <1>1, <1>2, <1>4, PercolatedIs
<1>7. ASSUME NEW i \in H, n > 0, i > 1
      PROVE  i \div 2 \in H /\ r[i \div 2] = q[i] /\ q[i].time < e.time
  <2>1. PICK j \in H : next[j] = i /\ next[j] # 0
    BY <1>1, <1>2, <1>4, <1>7, HoleFrom
  <2>2. i \in Earlier(q, j) /\ j \in 1 .. n
    BY <1>3, <1>5, <1>7, <2>1
  <2>3. i \in {2 * j, 2 * j + 1} /\ q[i].time < e.time
    BY <2>2 DEF Earlier
  <2>4. i \div 2 = j
    BY <2>2, <2>3
  <2>. QED
    BY <1>6, <2>1, <2>2, <2>3, <2>4
<1>8. ASSUME NEW i \in 1 .. n, i \in H, Earlier(q, i) # {}
      PROVE  \E c \in Earlier(q, i) : /\ c \in H /\ r[i] = q[c] /\ c \in 1 .. n
                                      /\ \A d \in Earlier(q, i) : q[c].time <= q[d].time
  BY <1>3, <1>5, <1>6, <1>8
<1>. QED
  BY <1>1, <1>3, <1>5, <1>6, <1>7, <1>8

LEMMA PopTypes ==
  ASSUME NEW q \in Entries, q # <<>>, NEW r, r = OPL_Queue_Pop(q)
  PROVE  /\ r \in Entries /\ Len(r) = Len(q) - 1
         /\ \A i \in DOMAIN r : \E j \in DOMAIN q : r[i] = q[j]
<1>1. PICK n : n = Len(q) - 1
  OBVIOUS
<1>2. PICK H : H = Holes(1, Sink(q))
  OBVIOUS
<1>3. PICK e : e = q[Len(q)]
  OBVIOUS
<1>4. /\ n \in Nat /\ r = [i \in 1 .. n |-> r[i]]
      /\ \A i \in 1 .. n :
           /\ i \notin H => r[i] = q[i]
           /\ i \in H /\ Earlier(q, i) = {} => r[i] = e
           /\ i \in H /\ Earlier(q, i) # {} =>
                \E c \in Earlier(q, i) : r[i] = q[c] /\ c \in 1 .. n
  <2>. HIDE DEF EntryType, Entries
  <2>. QED
    BY <1>1, <1>2, <1>3, PopIs
<1>5. /\ Len(q) \in Nat /\ DOMAIN q = 1 .. Len(q)
      /\ \A i \in 1 .. Len(q) : q[i] \in EntryType
  BY EntryFields
<1>6. \A i \in 1 .. n : \E j \in 1 .. Len(q) : r[i] = q[j]
  <2>. SUFFICES ASSUME NEW i \in 1 .. n PROVE \E j \in 1 .. Len(q) : r[i] = q[j]
    OBVIOUS
  <2>1. n + 1 = Len(q) /\ 1 .. n \subseteq 1 .. Len(q) /\ Len(q) \in 1 .. Len(q)
    BY <1>1, <1>4, <1>5
  <2>. QED
    BY <1>3, <1>4, <2>1
<1>7. \A i \in 1 .. n : r[i] \in EntryType
  BY <1>5, <1>6
<1>8. r \in Entries /\ Len(r) = n /\ DOMAIN r = 1 .. n
  BY <1>4, <1>7 DEF Entries
<1>. QED
  BY <1>1, <1>5, <1>6, <1>8

LEMMA PopHeap ==
  ASSUME NEW q \in Entries, q # <<>>, Heap(q), NEW r, r = OPL_Queue_Pop(q)
  PROVE  Heap(r)
<1>1. PICK n : n = Len(q) - 1
  OBVIOUS
<1>2. PICK H : H = Holes(1, Sink(q))
  OBVIOUS
<1>3. PICK e : e = q[Len(q)]
  OBVIOUS
<1>4. /\ n \in Nat /\ r = [i \in 1 .. n |-> r[i]]
      /\ n > 0 => 1 \in H /\ H \subseteq 1 .. n
      /\ \A i \in 1 .. n :
           /\ i \notin H => r[i] = q[i]
           /\ i \in H /\ Earlier(q, i) = {} => r[i] = e
           /\ i \in H /\ Earlier(q, i) # {} =>
                \E c \in Earlier(q, i) :
                  /\ c \in H /\ r[i] = q[c] /\ c \in 1 .. n
                  /\ \A d \in Earlier(q, i) : q[c].time <= q[d].time
      /\ \A i \in H : n > 0 /\ i > 1 =>
           i \div 2 \in H /\ r[i \div 2] = q[i] /\ q[i].time < e.time
  BY <1>1, <1>2, <1>3, PopIs
<1>5. /\ Len(q) = n + 1 /\ \A i \in 1 .. n + 1 : q[i].time \in Int
      /\ e.time \in Int /\ Len(r) = n
  <2>1. Len(q) \in Nat /\ \A i \in 1 .. Len(q) : q[i].time \in Int
    BY EntryFields
  <2>. QED
    BY <1>1, <1>3, <1>4, <2>1
<1>6. \A i \in 2 .. n : q[i \div 2].time <= q[i].time
  BY <1>4, <1>5 DEF Heap
<1>7. \A i, c \in 1 .. n : c \in Earlier(q, i) <=> /\ c = 2 * i \/ c = 2 * i + 1
                                                  /\ q[c].time < e.time
  BY <1>3, <1>4, <1>5 DEF Earlier
<1>. SUFFICES ASSUME NEW i \in 2 .. n, NEW j, j = i \div 2
     PROVE  r[j].time <= r[i].time
  BY <1>5 DEF Heap
<1>8. /\ j \in 1 .. i - 1 /\ j \in 1 .. n /\ i \in 1 .. n /\ n > 0
      /\ i \in {2 * j, 2 * j + 1}
  <2>1. n \in Nat /\ i \in Nat /\ i > 1 /\ i \in 1 .. n /\ n > 0
    BY <1>4
  <2>2. j \in 1 .. i - 1 /\ i \in {2 * j, 2 * j + 1}
    BY <2>1, Half
  <2>. QED
    BY <2>1, <2>2
<1>9. CASE i \in H
  <2>1. r[j] = q[i] /\ q[i].time < e.time
    <3>1. \A k \in H : k > 1 => r[k \div 2] = q[k] /\ q[k].time < e.time
      BY <1>4, <1>8
    <3>. QED
      BY ONLY <1>8, <1>9, <3>1, j = i \div 2
  <2>2. CASE Earlier(q, i) = {}
    <3>1. r[i] = e
      BY <1>4, <1>8, <1>9, <2>2
    <3>2. q[i].time \in Int
      BY <1>4, <1>5, <1>8
    <3>. QED
      BY <1>5, <2>1, <3>1, <3>2
  <2>3. CASE Earlier(q, i) # {}
    <3>1. PICK c \in Earlier(q, i) : r[i] = q[c] /\ c \in 1 .. n
      BY <1>4, <1>8, <1>9, <2>3
    <3>2. c \div 2 = i /\ c \in 2 .. n
      BY <1>7, <1>8, <3>1
    <3>. QED
      BY <1>6, <2>1, <3>1, <3>2
  <2>. QED
    BY <2>2, <2>3
<1>10. CASE i \notin H
  <2>1. r[i] = q[i] /\ q[j].time <= q[i].time /\ q[i].time \in Int /\ q[j].time \in Int
    <3>1. r[i] = q[i]
      BY <1>4, <1>8, <1>10
    <3>2. q[j].time <= q[i].time
      BY <1>6
    <3>3. q[i].time \in Int /\ q[j].time \in Int
      BY <1>4, <1>5, <1>8
    <3>. QED
      BY <3>1, <3>2, <3>3
  <2>2. CASE j \notin H
    BY <1>4, <1>8, <2>1, <2>2
  <2>3. CASE j \in H /\ Earlier(q, j) = {}
    <3>1. ~(q[i].time < e.time)
      BY <1>7, <1>8, <2>3
    <3>2. r[j] = e
      BY <1>4, <1>8, <2>3
    <3>. QED
      BY <1>5, <2>1, <3>1, <3>2
  <2>4. CASE j \in H /\ Earlier(q, j) # {}
    <3>1. PICK c \in Earlier(q, j) :
             /\ r[j] = q[c] /\ c \in 1 .. n
             /\ \A d \in Earlier(q, j) : q[c].time <= q[d].time
      BY <1>4, <1>8, <2>4
    <3>2. q[c].time < e.time /\ q[c].time \in Int
      BY <1>5, <1>7, <1>8, <3>1
    <3>3. i \in Earlier(q, j) \/ ~(q[i].time < e.time)
      BY <1>7, <1>8
    <3>. QED
      BY <1>5, <2>1, <3>1, <3>2, <3>3
  <2>. QED
    BY <2>2, <2>3, <2>4
<1>. QED
  BY <1>9, <1>10

\* A heap has the earliest entry on top.
LEMMA HeapTop ==
  ASSUME NEW q \in Entries, Heap(q)
  PROVE  EarliestOnTop(q)
<1>1. /\ Len(q) \in Nat /\ DOMAIN q = 1 .. Len(q)
      /\ \A i \in 1 .. Len(q) : q[i].time \in Int
  BY EntryFields
<1>. DEFINE Bad == {i \in 1 .. Len(q) : ~(q[1].time <= q[i].time)}
<1>. SUFFICES ASSUME Bad # {} PROVE FALSE
  BY <1>1 DEF EarliestOnTop
<1>2. PICK i \in Bad : \A k \in Bad : i <= k
  <2>1. Bad \subseteq Nat
    BY <1>1
  <2>. HIDE DEF Bad
  <2>. QED
    BY <2>1, LeastNatural
<1>3. i \in 2 .. Len(q)
  BY <1>1, <1>2
<1>4. i \div 2 \in 1 .. i - 1 /\ i \div 2 \in 1 .. Len(q)
  BY <1>1, <1>3, Half
<1>5. q[1].time <= q[i \div 2].time
  BY <1>1, <1>2, <1>4
<1>6. q[i \div 2].time <= q[i].time
  BY <1>3 DEF Heap
<1>. QED
  BY <1>1, <1>2, <1>3, <1>4, <1>5, <1>6

----------------------------------------------------------------------------
(* Changes of tempo                                                        *)

LEMMA TimesMonotone ==
  ASSUME NEW a \in Int, NEW b \in Int, a <= b, NEW c \in Nat
  PROVE  a * c <= b * c
<1>1. PICK d \in Nat : b = a + d
  OBVIOUS
<1>2. b * c = a * c + d * c
  BY <1>1
<1>3. d * c >= 0
  OBVIOUS
<1>. QED
  BY <1>2, <1>3

LEMMA DivMonotone ==
  ASSUME NEW a \in Nat, NEW b \in Nat, a <= b, NEW y \in Nat, y > 0
  PROVE  a \div y <= b \div y
<1>. DEFINE p == a \div y
            s == b \div y
<1>1. p \in Nat /\ a % y \in 0 .. y - 1 /\ a = y * p + (a % y)
  BY DivMod
<1>2. s \in Nat /\ b % y \in 0 .. y - 1 /\ b = y * s + (b % y)
  BY DivMod
<1>. HIDE DEF p, s
<1>3. ASSUME s < p PROVE FALSE
  <2>1. PICK d \in Nat : p = s + 1 + d
    BY <1>1, <1>2, <1>3
  <2>2. y * p = y * s + y + y * d
    BY <2>1, <1>2
  <2>3. y * d >= 0
    OBVIOUS
  <2>. QED
    BY <1>1, <1>2, <2>2, <2>3
<1>4. p <= s
  BY <1>1, <1>2, <1>3
<1>. QED
  BY <1>4 DEF p, s

LEMMA QuotientMonotone ==
  ASSUME NEW a \in Int, NEW b \in Int, a <= b, NEW y \in Nat, y > 0
  PROVE  /\ Quotient(a, y) \in Int /\ Quotient(b, y) \in Int
         /\ Quotient(a, y) <= Quotient(b, y)
         /\ a >= 0 => Quotient(a, y) >= 0
<1>1. \A x \in Nat : x \div y \in Nat
  BY DivMod
<1>2. CASE a >= 0
  <2>1. Quotient(a, y) = a \div y /\ Quotient(b, y) = b \div y /\ a \in Nat /\ b \in Nat
    BY <1>2 DEF Quotient
  <2>. QED
    BY <1>1, <2>1, DivMonotone
<1>3. CASE a < 0 /\ b >= 0
  <2>1. Quotient(a, y) = -((-a) \div y) /\ Quotient(b, y) = b \div y /\ -a \in Nat /\ b \in Nat
    BY <1>3 DEF Quotient
  <2>2. (-a) \div y \in Nat /\ b \div y \in Nat
    BY <1>1, <2>1
  <2>. QED
    BY <1>3, <2>1, <2>2
<1>4. CASE b < 0
  <2>1. /\ Quotient(a, y) = -((-a) \div y) /\ Quotient(b, y) = -((-b) \div y)
        /\ -a \in Nat /\ -b \in Nat /\ -b <= -a
    BY <1>4 DEF Quotient
  <2>2. (-a) \div y \in Nat /\ (-b) \div y \in Nat
    BY <1>1, <2>1
  <2>3. (-b) \div y <= (-a) \div y
    BY <2>1, DivMonotone
  <2>. QED
    BY <1>4, <2>1, <2>2, <2>3
<1>. QED
  BY <1>2, <1>3, <1>4

\* r is q scaled by new / old: callback i is to wait y[i] from current_time on.
ScaledTo(q, offset, old, new, r, err, y) ==
    /\ DOMAIN r = 1 .. Len(q) /\ r = [i \in 1 .. Len(q) |-> r[i]]
    /\ \A i \in 1 .. Len(q) :
         /\ y[i] = Quotient((q[i].time - offset) * new, old) + err[i]
         /\ r[i] = [q[i] EXCEPT !.time = y[i] + offset]
         /\ q[i].time - offset >= 0 => y[i] >= 0
         /\ q[i].time - offset <= 0 => y[i] <= 0
         /\ \A j \in 1 .. Len(q) :
              q[i].time - offset <= q[j].time - offset => y[i] <= y[j]

\* What a change of tempo makes of the time of each callback.
LEMMA ScaledIs ==
  ASSUME NEW q \in Entries, NEW offset \in Nat,
         NEW old \in Nat, old > 0, NEW new \in Nat, new > 0,
         NEW r \in OPL_Queue_AdjustCallbacks(q, offset, old, new)
  PROVE  \E err \in [1 .. Len(q) -> -AdjustError .. AdjustError],
            y \in [1 .. Len(q) -> Int] : ScaledTo(q, offset, old, new, r, err, y)
<1>1. /\ Len(q) \in Nat /\ DOMAIN q = 1 .. Len(q)
      /\ \A i \in 1 .. Len(q) : q[i] \in EntryType /\ q[i].time \in Int
  BY EntryFields
<1>. DEFINE Left(i) == q[i].time - offset
            Result(e, i) == Quotient(Left(i) * new, old) + e[i]
            Ordered(e) == \A i, j \in DOMAIN q :
                /\ Left(i) <= Left(j) => Result(e, i) <= Result(e, j)
                /\ Left(i) >= 0 => Result(e, i) >= 0
                /\ Left(i) <= 0 => Result(e, i) <= 0
<1>2. PICK err \in [DOMAIN q -> -AdjustError .. AdjustError] :
         /\ Ordered(err)
         /\ r = [i \in DOMAIN q |-> [q[i] EXCEPT !.time = Result(err, i) + offset]]
  BY DEF OPL_Queue_AdjustCallbacks, Scaled
<1>3. AdjustError \in Nat
  BY QueueAssumption
<1>4. ASSUME NEW i \in 1 .. Len(q) PROVE Result(err, i) \in Int
  <2>1. PICK x : x = Left(i) * new
    OBVIOUS
  <2>2. x \in Int /\ x <= x
    BY <1>1, <2>1
  <2>3. Quotient(x, old) \in Int
    BY ONLY <2>2, old \in Nat, old > 0, QuotientMonotone
  <2>4. err[i] \in Int
    BY <1>1, <1>2, <1>3
  <2>. QED
    BY <2>1, <2>3, <2>4
<1>. HIDE DEF Result
<1>5. PICK y : y = [i \in 1 .. Len(q) |-> Result(err, i)]
  OBVIOUS
<1>6. y \in [1 .. Len(q) -> Int] /\ \A i \in 1 .. Len(q) : y[i] = Result(err, i)
  BY <1>4, <1>5
<1>7. /\ DOMAIN r = 1 .. Len(q) /\ r = [i \in 1 .. Len(q) |-> r[i]]
      /\ \A i \in 1 .. Len(q) : r[i] = [q[i] EXCEPT !.time = y[i] + offset]
  BY <1>1, <1>2, <1>6
<1>8. ASSUME NEW i \in 1 .. Len(q)
      PROVE  /\ y[i] = Quotient((q[i].time - offset) * new, old) + err[i]
             /\ q[i].time - offset >= 0 => y[i] >= 0
             /\ q[i].time - offset <= 0 => y[i] <= 0
             /\ \A j \in 1 .. Len(q) :
                     q[i].time - offset <= q[j].time - offset => y[i] <= y[j]
  <2>1. y[i] = Quotient((q[i].time - offset) * new, old) + err[i]
    BY <1>6 DEF Result
  <2>. QED
    BY <1>1, <1>2, <1>6, <2>1
<1>9. err \in [1 .. Len(q) -> -AdjustError .. AdjustError]
  BY <1>1, <1>2
<1>10. ScaledTo(q, offset, old, new, r, err, y)
  BY <1>7, <1>8 DEF ScaledTo
<1>. QED
  BY <1>6, <1>9, <1>10

\* A change of tempo keeps the order of the callbacks.
LEMMA AdjustKeeps ==
  ASSUME NEW q \in Entries, NEW offset \in Nat,
         NEW old \in Nat, old > 0, NEW new \in Nat, new > 0,
         NEW r \in OPL_Queue_AdjustCallbacks(q, offset, old, new)
  PROVE  /\ r \in Entries /\ Len(r) = Len(q)
         /\ \A i \in 1 .. Len(q) : /\ r[i].play = q[i].play /\ r[i].track = q[i].track
                                   /\ r[i].callback = q[i].callback
         /\ Heap(q) => Heap(r)
<1>1. /\ Len(q) \in Nat /\ DOMAIN q = 1 .. Len(q)
      /\ \A i \in 1 .. Len(q) : q[i] \in EntryType /\ q[i].time \in Int
  BY EntryFields
<1>2. PICK err \in [1 .. Len(q) -> -AdjustError .. AdjustError],
           y \in [1 .. Len(q) -> Int] : ScaledTo(q, offset, old, new, r, err, y)
  BY ScaledIs
<1>3. /\ DOMAIN r = 1 .. Len(q) /\ r = [i \in 1 .. Len(q) |-> r[i]]
      /\ \A i \in 1 .. Len(q) :
           /\ r[i] = [q[i] EXCEPT !.time = y[i] + offset]
           /\ \A j \in 1 .. Len(q) :
                q[i].time - offset <= q[j].time - offset => y[i] <= y[j]
  BY <1>2 DEF ScaledTo
<1>4. ASSUME NEW i \in 1 .. Len(q)
      PROVE  /\ r[i].time = y[i] + offset /\ r[i] \in EntryType
             /\ r[i].play = q[i].play /\ r[i].track = q[i].track
             /\ r[i].callback = q[i].callback
  <2>1. q[i] \in EntryType /\ y[i] + offset \in Int
    BY <1>1
  <2>2. r[i] = [q[i] EXCEPT !.time = y[i] + offset]
    BY <1>3
  <2>. QED
    BY <2>1, <2>2, TimeSet
<1>5. r \in Entries /\ Len(r) = Len(q)
  <2>1. r = [i \in 1 .. Len(q) |-> r[i]] /\ \A i \in 1 .. Len(q) : r[i] \in EntryType
    BY <1>3, <1>4
  <2>. QED
    BY <1>1, <2>1 DEF Entries
<1>6. ASSUME Heap(q) PROVE Heap(r)
  <2>. SUFFICES ASSUME NEW i \in 2 .. Len(q) PROVE r[i \div 2].time <= r[i].time
    BY <1>5 DEF Heap
  <2>1. PICK j : j = i \div 2
    OBVIOUS
  <2>2. j \in 1 .. Len(q) /\ i \in 1 .. Len(q)
    BY <1>1, <2>1, Half
  <2>3. q[j].time <= q[i].time
    BY <1>6, <2>1 DEF Heap
  <2>4. q[j].time - offset <= q[i].time - offset
    BY <1>1, <2>2, <2>3
  <2>5. y[j] <= y[i] /\ y[j] \in Int /\ y[i] \in Int
    BY <1>3, <2>2, <2>4
  <2>. QED
    BY <1>4, <2>1, <2>2, <2>5
<1>. QED
  BY <1>1, <1>4, <1>5, <1>6

----------------------------------------------------------------------------
(* ScheduleTrack for all tracks                                            *)

\* q is the queue after each of the first n tracks.
Setting(wild, t) ==
    IF t \in Unstarted THEN Entry(wild[t], "Track", 0, t)
    ELSE Entry(Wait(t, 0, us_per_beat), "Track", plays, t)
Scheduling(q, n, wild) ==
    q = [t \in 0 .. n |->
            IF t = 0 THEN queue ELSE OPL_Queue_Push(q[t - 1], Setting(wild, t))]
SongLength == IF song = None THEN 0 ELSE Len(song)

LEMMA SchedulingExists ==
  ASSUME NEW n \in Nat, NEW wild
  PROVE  \E q : Scheduling(q, n, wild)
<1>. DEFINE e(t) == Setting(wild, t)
            Bad == {k \in Nat : ~\E q : Scheduling(q, k, wild)}
<1>. SUFFICES ASSUME Bad # {} PROVE FALSE
  OBVIOUS
<1>1. PICK k \in Bad : \A j \in Bad : k <= j
  <2>. HIDE DEF Bad
  <2>1. Bad \subseteq Nat
    BY DEF Bad
  <2>. QED
    BY <2>1, LeastNatural
<1>2. CASE k = 0
  <2>1. Scheduling([t \in 0 .. 0 |-> queue], 0, wild)
    BY DEF Scheduling
  <2>. QED
    BY <1>1, <1>2, <2>1
<1>3. CASE k > 0
  <2>1. k - 1 \in Nat /\ k - 1 \notin Bad
    BY <1>1, <1>3
  <2>2. PICK p : Scheduling(p, k - 1, wild)
    BY <2>1
  <2>. DEFINE q == [t \in 0 .. k |-> IF t = k THEN OPL_Queue_Push(p[k - 1], e(k)) ELSE p[t]]
  <2>3. \A t \in 0 .. k - 1 : q[t] = p[t]
    BY <1>1
  <2>4. \A t \in 0 .. k - 1 : p[t] = IF t = 0 THEN queue ELSE OPL_Queue_Push(p[t - 1], e(t))
    <3>. HIDE DEF e
    <3>1. p = [t \in 0 .. k - 1 |-> IF t = 0 THEN queue ELSE OPL_Queue_Push(p[t - 1], e(t))]
      BY <2>2 DEF Scheduling, e
    <3>. QED
      BY <3>1
  <2>. HIDE DEF e
  <2>5. \A t \in 0 .. k : q[t] = IF t = 0 THEN queue ELSE OPL_Queue_Push(q[t - 1], e(t))
    <3>. SUFFICES ASSUME NEW t \in 0 .. k
         PROVE  q[t] = IF t = 0 THEN queue ELSE OPL_Queue_Push(q[t - 1], e(t))
      OBVIOUS
    <3>1. CASE t = k
      BY <1>1, <1>3, <2>3, <3>1
    <3>2. CASE t # k
      <4>1. t \in 0 .. k - 1 /\ (t # 0 => t - 1 \in 0 .. k - 1)
        BY <1>1, <3>2
      <4>2. q[t] = p[t] /\ (t # 0 => q[t - 1] = p[t - 1])
        BY <2>3, <4>1
      <4>. HIDE DEF q
      <4>. QED
        BY <2>4, <4>1, <4>2
    <3>. QED
      BY <3>1, <3>2
  <2>6. q = [t \in 0 .. k |-> q[t]]
    OBVIOUS
  <2>. HIDE DEF q
  <2>7. Scheduling(q, k, wild)
    BY <2>5, <2>6 DEF Scheduling, e
  <2>. QED
    BY <1>1, <2>7
<1>. QED
  BY <1>1, <1>2, <1>3

LEMMA RescheduledIs ==
  ASSUME NEW n, n = SongLength, n \in Nat, NEW wild
  PROVE  \E q : Scheduling(q, n, wild) /\ Rescheduled(wild) = q[n]
<1>. DEFINE q == CHOOSE f : f = [t \in 0 .. n |->
            IF t = 0 THEN queue ELSE OPL_Queue_Push(f[t - 1], Setting(wild, t))]
<1>1. q = [t \in 0 .. n |->
            IF t = 0 THEN queue ELSE OPL_Queue_Push(q[t - 1], Setting(wild, t))]
  BY SchedulingExists DEF Scheduling
<1>2. Rescheduled(wild) = q[n]
  BY DEF Rescheduled, SongLength, Setting
<1>. HIDE DEF q
<1>. QED
  BY <1>1, <1>2 DEF Scheduling

----------------------------------------------------------------------------
(* The invariant                                                           *)

\* A callback of play p, where d are the tracks that have started.
CurrentTo(c, p, d) == c.play <= p /\ (c.callback = "Track" /\ c.play = p => c.track \in d)
Sound(q, p, d) ==
    /\ q \in Entries /\ Len(q) <= MAX_OPL_QUEUE /\ Heap(q)
    /\ \A i \in 1 .. Len(q) : CurrentTo(q[i], p, d)
Coming(q) == \A i \in 1 .. Len(q) : q[i].time >= 0

Started == IF song = None THEN Nat ELSE DOMAIN iter

MusicTypes ==
    /\ pause_offset \in 0 .. MaxPause
    /\ opl_sdl_paused \in BOOLEAN /\ mus_paused \in BOOLEAN /\ song_looping \in BOOLEAN
    /\ step \in {"mix", "fill", "call", "next"}
    /\ (held # None) <=> (step = "call")
    /\ held \in EntryType \cup {None}
    /\ nsamples \in 0 .. MaxBuffer
    /\ song \in Songs \cup {None}
    /\ running_tracks \in Int /\ us_per_beat \in Nat \ {0}
    /\ us \in Nat \cup {None} /\ plays \in 0 .. MaxPlays /\ tempos \in Nat
    /\ races \subseteq {"apart", "skewed", "overtaken"}

\* The tracks are started in turn, and no track is read beyond its end.
Reading ==
    /\ song = None => iter = <<>> /\ start = 0 /\ us = None
    /\ song # None =>
         /\ plays > 0 /\ start \in 0 .. Len(song) /\ iter \in Seq(Nat)
         /\ Len(iter) = IF start = 0 THEN Len(song)
                        ELSE IF us = None THEN start - 1 ELSE start
         /\ start = 0 => us = None
         /\ \A t \in 1 .. Len(iter) : iter[t] <= Len(song[t])

(***************************************************************************)
(* The inductive invariant behind EarliestFirst and NothingLate: the queue *)
(* is a heap of callbacks, each of which is of a track that has started or *)
(* of a song of the past; what waits when samples are mixed is yet to come.*)
(***************************************************************************)
MusicInv ==
    /\ MusicTypes /\ Reading
    /\ Sound(queue, plays, Started)
    /\ held # None => CurrentTo(held, plays, Started)
    /\ step = "mix" => Coming(queue)

LEMMA SongFields ==
  ASSUME NEW s \in Songs
  PROVE  /\ Len(s) \in Nat \ {0} /\ DOMAIN s = 1 .. Len(s)
         /\ \A t \in 1 .. Len(s) :
              /\ Len(s[t]) \in Nat \ {0} /\ DOMAIN s[t] = 1 .. Len(s[t])
              /\ \A k \in 1 .. Len(s[t]) :
                   /\ s[t][k] \in Event
                   /\ s[t][k].type = "END_OF_TRACK" <=> k = Len(s[t])
<1>1. s \in Seq(Seq(Event)) /\ s # <<>>
  BY SongAssumption
<1>2. \A t \in DOMAIN s : s[t] # <<>> /\ \A k \in DOMAIN s[t] :
         s[t][k].type = "END_OF_TRACK" <=> k = Len(s[t])
  BY SongAssumption
<1>3. ASSUME NEW x \in Seq(Event), x # <<>>
      PROVE  /\ Len(x) \in Nat \ {0} /\ DOMAIN x = 1 .. Len(x)
             /\ \A k \in 1 .. Len(x) : x[k] \in Event
  BY <1>3
<1>4. Len(s) \in Nat \ {0} /\ DOMAIN s = 1 .. Len(s) /\ \A t \in 1 .. Len(s) : s[t] \in Seq(Event)
  BY <1>1
<1>. QED
  BY <1>2, <1>3, <1>4

LEMMA EventFields ==
  ASSUME NEW e \in Event
  PROVE  e.delta \in Nat /\ (e.type = "SET_TEMPO" => e.tempo \in Nat \ {0})
  BY DEF Event

LEMMA EntryIs ==
  ASSUME NEW time \in Int, NEW callback \in {"Track", "RestartSong"},
         NEW p \in Nat, NEW track \in Nat,
         NEW e, e = Entry(time, callback, p, track)
  PROVE  /\ e \in EntryType /\ e.time = time /\ e.callback = callback
         /\ e.play = p /\ e.track = track
  BY DEF Entry, EntryType

LEMMA PushSound ==
  ASSUME NEW p, NEW d, NEW q, Sound(q, p, d), NEW e \in EntryType, CurrentTo(e, p, d),
         NEW r, r = OPL_Queue_Push(q, e)
  PROVE  Sound(r, p, d) /\ (Coming(q) /\ e.time >= 0 => Coming(r))
<1>1. /\ q \in Entries /\ Len(q) <= MAX_OPL_QUEUE /\ Heap(q)
      /\ \A i \in 1 .. Len(q) : CurrentTo(q[i], p, d)
  BY DEF Sound
<1>2. /\ r \in Entries /\ Len(r) <= MAX_OPL_QUEUE /\ Heap(r)
      /\ \A i \in DOMAIN r : r[i] = e \/ \E j \in DOMAIN q : r[i] = q[j]
  BY <1>1, PushTypes, PushHeap
<1>3. DOMAIN q = 1 .. Len(q) /\ DOMAIN r = 1 .. Len(r)
  BY <1>1, <1>2, EntryFields
<1>4. \A i \in 1 .. Len(r) : CurrentTo(r[i], p, d)
  BY <1>1, <1>2, <1>3
<1>5. ASSUME Coming(q), e.time >= 0 PROVE Coming(r)
  BY <1>2, <1>3, <1>5 DEF Coming
<1>. QED
  BY <1>2, <1>4, <1>5 DEF Sound

LEMMA AtTempoSound ==
  ASSUME NEW p, NEW d, NEW q, Sound(q, p, d), pause_offset \in Nat,
         us_per_beat \in Nat \ {0}, NEW tempo \in Nat \ {0}, NEW r \in AtTempo(q, tempo)
  PROVE  Sound(r, p, d)
<1>1. /\ q \in Entries /\ Len(q) <= MAX_OPL_QUEUE /\ Heap(q)
      /\ \A i \in 1 .. Len(q) : CurrentTo(q[i], p, d)
  BY DEF Sound
<1>2. /\ r \in Entries /\ Len(r) = Len(q) /\ Heap(r)
      /\ \A i \in 1 .. Len(q) : /\ r[i].play = q[i].play /\ r[i].track = q[i].track
                                /\ r[i].callback = q[i].callback
  <2>1. PICK old, offset : old = us_per_beat /\ offset = pause_offset
    OBVIOUS
  <2>2. r \in OPL_Queue_AdjustCallbacks(q, offset, old, tempo)
    BY <2>1 DEF AtTempo
  <2>3. /\ old \in Nat /\ old > 0 /\ tempo \in Nat /\ tempo > 0 /\ offset \in Nat
        /\ q \in Entries /\ Heap(q)
    BY <1>1, <2>1
  <2>. QED
    BY ONLY <2>2, <2>3, AdjustKeeps
<1>3. \A i \in 1 .. Len(r) : CurrentTo(r[i], p, d)
  BY <1>1, <1>2 DEF CurrentTo
<1>. QED
  BY <1>1, <1>2, <1>3 DEF Sound

LEMMA WaitIs ==
  ASSUME song \in Songs, NEW t \in 1 .. Len(song), NEW n \in Nat, NEW tempo \in Nat
  PROVE  Wait(t, n, tempo) \in Nat
<1>1. CASE n < Len(song[t])
  <2>1. n + 1 \in 1 .. Len(song[t])
    BY <1>1, SongFields
  <2>2. song[t][n + 1].delta \in Nat
    BY <2>1, SongFields, EventFields
  <2>3. \A x, y \in Nat : x * y \in Nat
    OBVIOUS
  <2>4. \A x \in Nat, z \in Nat \ {0} : x \div z \in Nat
    BY DivMod
  <2>5. ticks_per_beat \in Nat \ {0}
    BY MusicAssumption DEF ticks_per_beat
  <2>6. song[t][n + 1].delta * tempo \in Nat
    BY <2>2, <2>3
  <2>. QED
    BY <1>1, <2>4, <2>5, <2>6 DEF Wait
<1>2. CASE ~(n < Len(song[t]))
  BY <1>2 DEF Wait
<1>. QED
  BY <1>1, <1>2

\* ns samples go by.
LEMMA PassSound ==
  ASSUME NEW p, NEW d, NEW q, Sound(q, p, d), NEW ns \in Nat,
         NEW r, r = [i \in DOMAIN q |-> [q[i] EXCEPT !.time = @ - ns]]
  PROVE  Sound(r, p, d)
<1>1. /\ q \in Entries /\ Len(q) <= MAX_OPL_QUEUE /\ Heap(q)
      /\ \A i \in 1 .. Len(q) : CurrentTo(q[i], p, d)
  BY DEF Sound
<1>2. /\ Len(q) \in Nat /\ DOMAIN q = 1 .. Len(q)
      /\ \A i \in 1 .. Len(q) : q[i] \in EntryType /\ q[i].time \in Int
  BY <1>1, EntryFields
<1>3. ASSUME NEW i \in 1 .. Len(q)
      PROVE  /\ r[i] \in EntryType /\ r[i].time = q[i].time - ns
             /\ r[i].play = q[i].play /\ r[i].callback = q[i].callback
             /\ r[i].track = q[i].track
  <2>1. r[i] = [q[i] EXCEPT !.time = q[i].time - ns]
    BY <1>2
  <2>2. q[i] \in EntryType /\ q[i].time - ns \in Int
    BY <1>2
  <2>. QED
    BY <2>1, <2>2, TimeSet
<1>4. r \in Entries /\ Len(r) = Len(q)
  <2>1. r = [i \in 1 .. Len(q) |-> r[i]]
    BY <1>2
  <2>. QED
    BY ONLY <1>2, <1>3, <2>1 DEF Entries
<1>5. \A i \in 1 .. Len(r) : CurrentTo(r[i], p, d)
  BY <1>1, <1>3, <1>4 DEF CurrentTo
<1>6. Heap(r)
  <2>. SUFFICES ASSUME NEW i \in 2 .. Len(q) PROVE r[i \div 2].time <= r[i].time
    BY <1>4 DEF Heap
  <2>1. i \div 2 \in 1 .. Len(q) /\ i \in 1 .. Len(q)
    BY <1>2, Half
  <2>2. q[i \div 2].time <= q[i].time
    BY <1>1 DEF Heap
  <2>3. PICK j : j = i \div 2
    OBVIOUS
  <2>4. r[j].time = q[j].time - ns /\ r[i].time = q[i].time - ns
    BY <1>3, <2>1, <2>3
  <2>5. q[j].time \in Int /\ q[i].time \in Int /\ q[j].time <= q[i].time
    BY <1>2, <2>1, <2>2, <2>3
  <2>. QED
    BY <2>3, <2>4, <2>5
<1>. QED
  BY <1>1, <1>4, <1>5, <1>6 DEF Sound

\* When none is due, all are yet to come.
LEMMA PopDueKeeps ==
  ASSUME NEW p, NEW d, NEW q, Sound(q, p, d), PopDue(q), None \notin EntryType
  PROVE  /\ Sound(queue', p, d)
         /\ held' \in EntryType \cup {None} /\ step' \in {"call", "mix"}
         /\ (held' # None) <=> (step' = "call")
         /\ held' # None => CurrentTo(held', p, d)
         /\ step' = "mix" => Coming(queue')
<1>1. /\ q \in Entries /\ Len(q) <= MAX_OPL_QUEUE /\ Heap(q)
      /\ \A i \in 1 .. Len(q) : CurrentTo(q[i], p, d)
  BY DEF Sound
<1>2. /\ Len(q) \in Nat /\ DOMAIN q = 1 .. Len(q)
      /\ \A i \in 1 .. Len(q) : q[i] \in EntryType /\ q[i].time \in Int
  BY <1>1, EntryFields
<1>3. q # <<>> => 1 \in 1 .. Len(q)
  BY <1>1 DEF Entries
<1>4. CASE q # <<>> /\ OPL_Queue_Peek(q) <= 0
  <2>1. queue' = OPL_Queue_Pop(q) /\ held' = q[1] /\ step' = "call"
    BY <1>4 DEF PopDue
  <2>2. PICK r : r = OPL_Queue_Pop(q)
    OBVIOUS
  <2>3. /\ r \in Entries /\ Len(r) = Len(q) - 1 /\ Heap(r)
        /\ \A i \in DOMAIN r : \E j \in DOMAIN q : r[i] = q[j]
    BY <1>1, <1>4, <2>2, PopTypes, PopHeap
  <2>4. DOMAIN r = 1 .. Len(r)
    BY <2>3, EntryFields
  <2>5. \A i \in 1 .. Len(r) : CurrentTo(r[i], p, d)
    BY <1>1, <1>2, <2>3, <2>4
  <2>6. Len(r) <= MAX_OPL_QUEUE
    BY <1>1, <1>2, <2>3, QueueAssumption
  <2>7. Sound(r, p, d)
    BY <2>3, <2>5, <2>6 DEF Sound
  <2>8. held' \in EntryType /\ CurrentTo(held', p, d)
    BY <1>1, <1>2, <1>3, <1>4, <2>1
  <2>. QED
    BY <2>1, <2>2, <2>7, <2>8
<1>5. CASE ~(q # <<>> /\ OPL_Queue_Peek(q) <= 0)
  <2>1. queue' = q /\ held' = None /\ step' = "mix"
    BY <1>5 DEF PopDue
  <2>2. Coming(q)
    <3>1. \A i \in 1 .. Len(q) : q[1].time <= q[i].time
      BY <1>1, <1>2, HeapTop DEF EarliestOnTop
    <3>2. q # <<>> => ~(q[1].time <= 0)
      BY <1>5 DEF OPL_Queue_Peek
    <3>3. q = <<>> => Len(q) = 0
      OBVIOUS
    <3>. QED
      BY <1>2, <1>3, <3>1, <3>2, <3>3 DEF Coming
  <2>. QED
    BY <2>1, <2>2
<1>. QED
  BY <1>4, <1>5

LEMMA RescheduledSound ==
  ASSUME MusicTypes, Reading, NEW p, p = plays, NEW d, d = Started, Sound(queue, p, d),
         NEW wild \in [Unstarted -> WildWaits]
  PROVE  Sound(Rescheduled(wild), p, d)
<1>1. SongLength \in Nat
  <2>1. CASE song = None
    BY <2>1 DEF SongLength
  <2>2. CASE song # None
    BY <2>2, SongFields DEF MusicTypes, SongLength
  <2>. QED
    BY <2>1, <2>2
<1>. DEFINE n == SongLength
<1>2. PICK q : Scheduling(q, n, wild) /\ Rescheduled(wild) = q[n]
  BY <1>1, RescheduledIs
<1>. DEFINE e(t) == Setting(wild, t)
            Bad == {t \in 0 .. n : ~Sound(q[t], p, d)}
<1>3. \A t \in 0 .. n : q[t] = IF t = 0 THEN queue ELSE OPL_Queue_Push(q[t - 1], e(t))
  <2>. HIDE DEF e, n
  <2>1. q = [t \in 0 .. n |-> IF t = 0 THEN queue ELSE OPL_Queue_Push(q[t - 1], e(t))]
    BY <1>2 DEF Scheduling, e
  <2>. QED
    BY <2>1
<1>4. ASSUME NEW t \in 1 .. n
      PROVE  e(t) \in EntryType /\ CurrentTo(e(t), p, d)
  <2>1. song # None /\ song \in Songs /\ Len(song) \in Nat /\ t \in 1 .. Len(song)
    <3>1. song # None
      BY <1>1 DEF SongLength
    <3>. QED
      BY <3>1, SongFields DEF MusicTypes, SongLength
  <2>2. plays \in Nat /\ plays > 0 /\ t \in Nat /\ 0 \in Nat /\ iter \in Seq(Nat)
    BY <2>1, MusicAssumption DEF MusicTypes, Reading
  <2>3. CASE t \in Unstarted
    <3>1. PICK time : time = wild[t]
      OBVIOUS
    <3>2. time \in Int /\ "Track" \in {"Track", "RestartSong"}
      BY <2>3, <3>1, MusicAssumption
    <3>3. PICK x : x = Entry(time, "Track", 0, t)
      OBVIOUS
    <3>4. x \in EntryType /\ x.callback = "Track" /\ x.play = 0 /\ x.track = t
      BY ONLY <2>2, <3>2, <3>3, EntryIs
    <3>5. CurrentTo(x, p, d)
      BY <2>2, <3>4 DEF CurrentTo
    <3>. QED
      BY <2>3, <3>1, <3>3, <3>4, <3>5 DEF Setting
  <2>4. CASE t \notin Unstarted
    <3>1. t \in d
      BY <2>1, <2>2, <2>4 DEF Unstarted, Started
    <3>2. Wait(t, 0, us_per_beat) \in Nat
      BY <2>1, WaitIs DEF MusicTypes
    <3>3. PICK time : time = Wait(t, 0, us_per_beat)
      OBVIOUS
    <3>4. time \in Int /\ "Track" \in {"Track", "RestartSong"}
      BY <3>2, <3>3
    <3>5. PICK x : x = Entry(time, "Track", plays, t)
      OBVIOUS
    <3>6. x \in EntryType /\ x.callback = "Track" /\ x.play = plays /\ x.track = t
      BY ONLY <2>2, <3>4, <3>5, EntryIs
    <3>7. CurrentTo(x, p, d)
      BY <2>2, <3>1, <3>6 DEF CurrentTo
    <3>. QED
      BY <2>4, <3>3, <3>5, <3>6, <3>7 DEF Setting
  <2>. QED
    BY <2>3, <2>4
<1>. HIDE DEF e, n
<1>. USE DEF n
<1>5. Bad = {}
  <2>. SUFFICES ASSUME Bad # {} PROVE FALSE
    OBVIOUS
  <2>1. PICK k \in Bad : \A j \in Bad : k <= j
    <3>1. Bad \subseteq Nat
      BY <1>1
    <3>. HIDE DEF Bad
    <3>. QED
      BY <3>1, LeastNatural
  <2>2. k # 0
    BY <1>1, <1>3, <2>1
  <2>3. k \in 1 .. n /\ k - 1 \in 0 .. n /\ ~(k <= k - 1)
    BY <1>1, <2>1, <2>2
  <2>4. Sound(q[k - 1], p, d)
    BY <2>1, <2>3
  <2>5. q[k] = OPL_Queue_Push(q[k - 1], e(k))
    BY <1>3, <2>2, <2>3
  <2>6. Sound(q[k], p, d)
    BY <1>4, <2>3, <2>4, <2>5, PushSound
  <2>. QED
    BY <2>1, <2>6
<1>. QED
  BY <1>1, <1>2, <1>5

----------------------------------------------------------------------------
(* The callbacks                                                           *)

\* What every callback leaves behind.
Called ==
    /\ Sound(queue', plays, Started)
    /\ running_tracks' \in Int /\ us_per_beat' \in Nat \ {0} /\ tempos' \in Nat
    /\ song = None => iter' = <<>>
    /\ song # None => /\ iter' \in Seq(Nat) /\ Len(iter') = Len(iter)
                      /\ \A t \in 1 .. Len(iter) : iter'[t] <= Len(song[t])

LEMMA ReadingIs ==
  ASSUME MusicTypes, Reading, song # None
  PROVE  /\ song \in Songs /\ Len(song) \in Nat \ {0}
         /\ iter \in Seq(Nat) /\ Len(iter) \in 0 .. Len(song) /\ DOMAIN iter = 1 .. Len(iter)
         /\ Started = 1 .. Len(iter)
         /\ \A t \in 1 .. Len(iter) : iter[t] \in Nat /\ iter[t] <= Len(song[t])
<1>1. song \in Songs /\ Len(song) \in Nat \ {0}
  BY SongFields DEF MusicTypes
<1>2. /\ iter \in Seq(Nat) /\ start \in 0 .. Len(song)
      /\ Len(iter) = IF start = 0 THEN Len(song) ELSE IF us = None THEN start - 1 ELSE start
      /\ \A t \in 1 .. Len(iter) : iter[t] <= Len(song[t])
  BY DEF Reading
<1>3. DOMAIN iter = 1 .. Len(iter) /\ \A t \in 1 .. Len(iter) : iter[t] \in Nat
  BY <1>2
<1>4. Len(iter) \in 0 .. Len(song)
  BY <1>1, <1>2
<1>5. Started = 1 .. Len(iter)
  BY <1>3 DEF Started
<1>. QED
  BY <1>1, <1>2, <1>3, <1>4, <1>5

LEMMA EndKeeps ==
  ASSUME MusicInv, EndOfTrack
  PROVE  Sound(queue', plays, Started) /\ running_tracks' \in Int
<1>1. Sound(queue, plays, Started) /\ running_tracks \in Int /\ plays \in Nat
  BY MusicAssumption DEF MusicInv, MusicTypes
<1>2. PICK e : e = RestartIn(RestartDelay)
  OBVIOUS
<1>3. e \in EntryType /\ e.callback = "RestartSong" /\ e.play = 0
  BY <1>2, EntryIs, MusicAssumption DEF RestartIn
<1>4. CurrentTo(e, plays, Started)
  BY <1>1, <1>3 DEF CurrentTo
<1>5. queue' = queue \/ queue' = OPL_Queue_Push(queue, e)
  BY <1>2 DEF EndOfTrack
<1>6. running_tracks' = running_tracks - 1
  BY DEF EndOfTrack
<1>7. PICK q, p, d : q = queue /\ p = plays /\ d = Started
  OBVIOUS
<1>8. Sound(OPL_Queue_Push(q, e), p, d)
  BY <1>1, <1>3, <1>4, <1>7, PushSound
<1>. QED
  BY <1>1, <1>5, <1>6, <1>7, <1>8

LEMMA TrackKeeps ==
  ASSUME MusicInv, song # None, NEW t \in DOMAIN iter, TrackTimerCallback(t)
  PROVE  Called
<1>1. /\ song \in Songs /\ Len(song) \in Nat \ {0}
      /\ iter \in Seq(Nat) /\ Len(iter) \in 0 .. Len(song) /\ DOMAIN iter = 1 .. Len(iter)
      /\ Started = 1 .. Len(iter)
      /\ \A k \in 1 .. Len(iter) : iter[k] \in Nat /\ iter[k] <= Len(song[k])
  BY ReadingIs DEF MusicInv
<1>2. /\ Sound(queue, plays, Started) /\ running_tracks \in Int
      /\ us_per_beat \in Nat \ {0} /\ plays \in Nat /\ pause_offset \in Nat /\ tempos \in Nat
  BY MusicAssumption DEF MusicInv, MusicTypes
<1>3. CASE iter[t] = Len(song[t])
  <2>1. UNCHANGED <<queue, iter, running_tracks, us_per_beat, tempos>>
    BY <1>3 DEF TrackTimerCallback
  <2>. QED
    BY <1>1, <1>2, <2>1 DEF Called
<1>4. CASE iter[t] # Len(song[t])
  <2>1. PICK event : event = song[t][iter[t] + 1]
    OBVIOUS
  <2>2. PICK tempo : tempo = IF event.type = "SET_TEMPO" THEN event.tempo ELSE us_per_beat
    OBVIOUS
  <2>3. /\ iter' = [iter EXCEPT ![t] = @ + 1] /\ us_per_beat' = tempo
        /\ tempos' = tempos \/ tempos' = tempos + 1
        /\ \/ EndOfTrack
           \/ /\ \E r \in AtTempo(queue, tempo) \cup {queue} :
                   queue' = OPL_Queue_Push(r,
                              Entry(Wait(t, iter[t] + 1, tempo), "Track", plays, t))
              /\ UNCHANGED running_tracks
    BY <1>4, <2>1, <2>2 DEF TrackTimerCallback
  <2>4. t \in 1 .. Len(song) /\ iter[t] \in Nat /\ Len(song[t]) \in Nat /\ iter[t] < Len(song[t])
    <3>1. t \in 1 .. Len(song)
      BY <1>1
    <3>2. Len(song[t]) \in Nat
      BY <1>1, <3>1, SongFields
    <3>. QED
      BY <1>1, <1>4, <3>1, <3>2
  <2>5. tempo \in Nat \ {0}
    <3>1. event \in Event
      BY <1>1, <2>1, <2>4, SongFields
    <3>. QED
      BY <1>2, <2>2, <3>1, EventFields
  <2>6. /\ iter' \in Seq(Nat) /\ Len(iter') = Len(iter)
        /\ \A k \in 1 .. Len(iter) : iter'[k] <= Len(song[k])
    <3>1. iter' = [k \in 1 .. Len(iter) |-> IF k = t THEN iter[t] + 1 ELSE iter[k]]
      BY <1>1, <2>3
    <3>2. \A k \in 1 .. Len(iter) : iter'[k] \in Nat /\ iter'[k] <= Len(song[k])
      BY <1>1, <2>4, <3>1
    <3>. QED
      BY <1>1, <3>1, <3>2
  <2>7. CASE EndOfTrack
    BY <1>2, <2>3, <2>5, <2>6, <2>7, EndKeeps DEF Called
  <2>8. ASSUME NEW r \in AtTempo(queue, tempo) \cup {queue},
               queue' = OPL_Queue_Push(r,
                             Entry(Wait(t, iter[t] + 1, tempo), "Track", plays, t)),
               UNCHANGED running_tracks
        PROVE  Called
    <3>1. PICK q, p, d : q = queue /\ p = plays /\ d = Started
      OBVIOUS
    <3>2. PICK e : e = Entry(Wait(t, iter[t] + 1, tempo), "Track", plays, t)
      OBVIOUS
    <3>3. Sound(r, p, d)
      <4>1. CASE r \in AtTempo(q, tempo)
        BY <1>2, <2>5, <3>1, <4>1, AtTempoSound
      <4>2. CASE r = q
        BY <1>2, <3>1, <4>2
      <4>. QED
        BY <2>8, <3>1, <4>1, <4>2
    <3>4. Wait(t, iter[t] + 1, tempo) \in Nat
      <4>1. song \in Songs /\ t \in 1 .. Len(song) /\ iter[t] + 1 \in Nat /\ tempo \in Nat
        BY <1>1, <2>4, <2>5
      <4>. QED
        BY ONLY <4>1, WaitIs
    <3>5. /\ e \in EntryType /\ e.callback = "Track" /\ e.play = p /\ e.track = t
          /\ t \in d /\ p \in Nat
      <4>1. t \in d /\ t \in Nat /\ p \in Nat /\ p = plays
        BY <1>1, <1>2, <3>1
      <4>2. PICK w : w = Wait(t, iter[t] + 1, tempo)
        OBVIOUS
      <4>3. w \in Int /\ e = Entry(w, "Track", p, t)
        BY <3>2, <3>4, <4>1, <4>2
      <4>. QED
        BY <4>1, <4>3, EntryIs
    <3>6. CurrentTo(e, p, d)
      BY <3>5 DEF CurrentTo
    <3>7. Sound(OPL_Queue_Push(r, e), p, d)
      BY <3>3, <3>5, <3>6, PushSound
    <3>. QED
      <4>1. Sound(queue', plays, Started)
        BY <2>8, <3>1, <3>2, <3>7
      <4>2. running_tracks' \in Int /\ us_per_beat' \in Nat \ {0} /\ tempos' \in Nat
        BY <1>2, <2>3, <2>5, <2>8
      <4>. QED
        BY <2>6, <4>1, <4>2 DEF Called
  <2>. QED
    BY <2>3, <2>7, <2>8
<1>. QED
  BY <1>3, <1>4

LEMMA StaleKeeps ==
  ASSUME MusicInv, held \in EntryType, Stale(held), StaleCallback(held)
  PROVE  Called
<1>1. /\ Sound(queue, plays, Started) /\ CurrentTo(held, plays, Started)
      /\ running_tracks \in Int /\ us_per_beat \in Nat \ {0} /\ tempos \in Nat
      /\ MusicTypes /\ Reading
      /\ None \notin EntryType
  BY MusicAssumption DEF MusicInv, MusicTypes
<1>2. ASSUME UNCHANGED <<iter, us_per_beat, tempos>>, running_tracks' \in Int,
             Sound(queue', plays, Started)
      PROVE  Called
  <2>1. song = None => iter = <<>>
    BY <1>1 DEF Reading
  <2>2. song # None => /\ iter \in Seq(Nat)
                       /\ \A t \in 1 .. Len(iter) : iter[t] <= Len(song[t])
    BY <1>1 DEF Reading
  <2>. QED
    BY <1>1, <1>2, <2>1, <2>2 DEF Called
<1>3. CASE UNCHANGED <<queue, running_tracks, iter, us_per_beat, tempos>>
  BY <1>1, <1>2, <1>3
<1>4. CASE EndOfTrack /\ UNCHANGED <<iter, us_per_beat, tempos>>
  BY <1>2, <1>4, EndKeeps
<1>5. ASSUME NEW us0 \in WildWaits,
             queue' = OPL_Queue_Push(queue, [held EXCEPT !.time = us0]),
             UNCHANGED <<running_tracks, iter, us_per_beat, tempos>>
      PROVE  Called
  <2>1. PICK q, p, d, h : q = queue /\ p = plays /\ d = Started /\ h = held
    OBVIOUS
  <2>2. PICK e : e = [h EXCEPT !.time = us0]
    OBVIOUS
  <2>3. us0 \in Int
    BY MusicAssumption
  <2>4. /\ e \in EntryType /\ e.play = h.play /\ e.callback = h.callback /\ e.track = h.track
    BY <2>1, <2>2, <2>3, TimeSet
  <2>5. CurrentTo(e, p, d)
    BY <1>1, <2>1, <2>4 DEF CurrentTo
  <2>6. Sound(OPL_Queue_Push(q, e), p, d)
    BY <1>1, <2>1, <2>4, <2>5, PushSound
  <2>. QED
    BY <1>1, <1>2, <1>5, <2>1, <2>2, <2>6
<1>6. CASE held.track \in DOMAIN iter /\ TrackTimerCallback(held.track)
  <2>1. song # None
    BY <1>1, <1>6 DEF Reading
  <2>. QED
    BY <1>6, <2>1, TrackKeeps
<1>. QED
  BY <1>3, <1>4, <1>5, <1>6 DEF StaleCallback

LEMMA CallKeeps ==
  ASSUME MusicInv, CallCallback
  PROVE  Called
<1>1. /\ MusicTypes /\ Reading /\ Sound(queue, plays, Started)
      /\ held \in EntryType /\ CurrentTo(held, plays, Started)
  BY DEF MusicInv, MusicTypes, CallCallback
<1>2. CASE held.callback = "RestartSong"
  <2>1. /\ running_tracks' = (IF song = None THEN 0 ELSE Len(song))
        /\ iter' = [t \in DOMAIN iter |-> 0]
        /\ \E wild \in [Unstarted -> WildWaits] : queue' = Rescheduled(wild)
        /\ us_per_beat' = us_per_beat /\ tempos' = 0
    BY <1>2 DEF CallCallback, RestartSong
  <2>2. PICK p, d : p = plays /\ d = Started
    OBVIOUS
  <2>3. Sound(queue', plays, Started)
    BY <1>1, <2>1, <2>2, RescheduledSound
  <2>4. CASE song = None
    BY <1>1, <2>1, <2>3, <2>4 DEF Called, MusicTypes, Reading
  <2>5. CASE song # None
    <3>1. /\ song \in Songs /\ Len(song) \in Nat \ {0}
          /\ DOMAIN iter = 1 .. Len(iter) /\ Len(iter) \in 0 .. Len(song)
      BY <1>1, <2>5, ReadingIs
    <3>2. \A t \in 1 .. Len(iter) : 0 <= Len(song[t])
      BY <3>1, SongFields
    <3>3. iter' \in Seq(Nat) /\ Len(iter') = Len(iter) /\ \A t \in 1 .. Len(iter) : iter'[t] = 0
      BY <2>1, <3>1
    <3>. QED
      BY <1>1, <2>1, <2>3, <2>5, <3>1, <3>2, <3>3 DEF Called, MusicTypes
  <2>. QED
    BY <2>4, <2>5
<1>3. CASE held.callback # "RestartSong" /\ Stale(held)
  BY <1>1, <1>3, StaleKeeps DEF CallCallback
<1>4. CASE held.callback # "RestartSong" /\ ~Stale(held)
  <2>1. held.callback = "Track" /\ held.play = plays /\ song # None
    BY <1>1, <1>4 DEF Stale, EntryType
  <2>2. held.track \in DOMAIN iter
    BY <1>1, <2>1 DEF CurrentTo, Started
  <2>. QED
    BY <1>4, <2>1, <2>2, TrackKeeps DEF CallCallback
<1>. QED
  BY <1>2, <1>3, <1>4

----------------------------------------------------------------------------
(* The steps                                                               *)

LEMMA MusicInit == Init => MusicInv
<1>. SUFFICES ASSUME Init PROVE MusicInv
  OBVIOUS
<1>1. MusicTypes
  <2>1. 0 \in 0 .. MaxPause /\ 0 \in 0 .. MaxBuffer /\ 0 \in 0 .. MaxPlays
    BY MusicAssumption
  <2>2. DefaultTempo \in Nat \ {0}
    BY MusicAssumption
  <2>3. /\ held = None
        /\ (held # None) <=> (step = "call")
        /\ step \in {"mix", "fill", "call", "next"}
        /\ races \subseteq {"apart", "skewed", "overtaken"}
    BY DEF Init
  <2>4. opl_sdl_paused \in BOOLEAN /\ mus_paused \in BOOLEAN /\ song_looping \in BOOLEAN
    BY Zenon DEF Init
  <2>5. /\ pause_offset = 0 /\ nsamples = 0 /\ song = None /\ running_tracks = 0
        /\ us_per_beat = DefaultTempo /\ us = None /\ plays = 0 /\ tempos = 0
    BY DEF Init
  <2>6. running_tracks \in Int /\ tempos \in Nat /\ nsamples \in 0 .. MaxBuffer /\ plays \in 0 .. MaxPlays
        /\ pause_offset \in 0 .. MaxPause /\ us_per_beat \in Nat \ {0}
    BY <2>1, <2>2, <2>5
  <2>. QED
    BY <2>3, <2>4, <2>5, <2>6 DEF MusicTypes
<1>2. Reading
  BY DEF Init, Reading
<1>3. queue = <<>> /\ held = None
  BY DEF Init
<1>4. <<>> \in Entries /\ Len(<<>>) = 0
  BY DEF Entries
<1>5. Sound(queue, plays, Started)
  BY <1>3, <1>4, QueueAssumption DEF Sound, Heap
<1>6. Coming(queue)
  BY <1>3, <1>4 DEF Coming
<1>. QED
  BY <1>1, <1>2, <1>3, <1>5, <1>6 DEF MusicInv

\* A step that leaves the song alone.
LEMMA SameSong ==
  ASSUME Reading, UNCHANGED <<song, iter, start, us, plays>>
  PROVE  Reading' /\ Started' = Started
  BY DEF Reading, Started

LEMMA SamplesForIs ==
  ASSUME NEW time \in Nat
  PROVE  SamplesFor(time) \in Nat
<1>1. time * mixing_freq \in Nat /\ OPL_SECOND \in Nat \ {0}
  BY MusicAssumption
<1>2. time * mixing_freq + OPL_SECOND - 1 \in Nat
  BY <1>1
<1>. QED
  BY <1>1, <1>2, DivMod DEF SamplesFor

LEMMA TimeOfIs ==
  ASSUME NEW n \in Nat
  PROVE  TimeOf(n) \in Nat
<1>1. n * OPL_SECOND \in Nat /\ mixing_freq \in Nat \ {0}
  BY MusicAssumption
<1>. QED
  BY <1>1, DivMod DEF TimeOf

LEMMA MixKeeps ==
  ASSUME MusicInv, Mix
  PROVE  MusicInv'
<1>1. /\ MusicTypes /\ Reading /\ Sound(queue, plays, Started)
      /\ held # None => CurrentTo(held, plays, Started)
      /\ step = "mix" /\ step' = "fill" /\ nsamples' \in 0 .. MaxBuffer
      /\ UNCHANGED <<driverVars, held, songVars, mainVars, tempos, races>>
  <2>1. MaxBuffer \in Nat
    BY MusicAssumption
  <2>2. PICK room \in 1 .. MaxBuffer : nsamples' = IF \/ opl_sdl_paused \/ queue = <<>>
                           \/ OPL_Queue_Peek(queue) < 0
                           \/ SamplesFor(OPL_Queue_Peek(queue)) > room
                        THEN room ELSE SamplesFor(OPL_Queue_Peek(queue))
    BY DEF Mix
  <2>3. CASE nsamples' = room
    BY <2>1, <2>3 DEF Mix, MusicInv
  <2>4. CASE nsamples' # room
    <3>1. PICK time : time = OPL_Queue_Peek(queue)
      OBVIOUS
    <3>2. queue # <<>> /\ ~(time < 0) /\ nsamples' = SamplesFor(time) /\ ~(SamplesFor(time) > room)
      BY <2>2, <2>4, <3>1
    <3>3. time \in Nat
      <4>1. queue \in Entries /\ DOMAIN queue = 1 .. Len(queue) /\ Len(queue) \in Nat
        BY EntryFields DEF MusicInv, Sound
      <4>2. 1 \in 1 .. Len(queue)
        BY <3>2, <4>1 DEF Entries
      <4>3. queue[1].time \in Int
        BY <4>1, <4>2, EntryFields
      <4>. QED
        BY <3>1, <3>2, <4>3 DEF OPL_Queue_Peek
    <3>4. nsamples' \in Nat
      BY <3>2, <3>3, SamplesForIs
    <3>5. nsamples' \in 0 .. MaxBuffer
      BY <2>1, <3>2, <3>4
    <3>. QED
      BY <3>5 DEF Mix, MusicInv
  <2>. QED
    BY <2>3, <2>4
<1>2. Reading' /\ Started' = Started
  BY <1>1, SameSong DEF songVars, mainVars
<1>3. MusicTypes'
  BY <1>1 DEF MusicTypes, driverVars, songVars, mainVars
<1>4. UNCHANGED <<queue, held, plays>> /\ step' # "mix"
  BY <1>1 DEF driverVars, mainVars
<1>. QED
  BY <1>1, <1>2, <1>3, <1>4 DEF MusicInv

LEMMA AdvanceKeeps ==
  ASSUME MusicInv, AdvanceTime \/ AdvanceOn
  PROVE  MusicInv'
<1>1. /\ MusicTypes /\ Reading /\ Sound(queue, plays, Started) /\ None \notin EntryType
  BY MusicAssumption DEF MusicInv
<1>2. PICK q : PopDue(q) /\ Sound(q, plays, Started)
  <2>1. ASSUME AdvanceTime, ~opl_sdl_paused
        PROVE  \E q : PopDue(q) /\ Sound(q, plays, Started)
    <3>1. PICK q, p, d, ns : q = queue /\ p = plays /\ d = Started /\ ns = TimeOf(nsamples)
      OBVIOUS
    <3>2. PICK r : r = [i \in DOMAIN q |-> [q[i] EXCEPT !.time = @ - ns]]
      OBVIOUS
    <3>3. ns \in Nat
      BY <1>1, <3>1, TimeOfIs, MusicAssumption DEF MusicTypes
    <3>4. Sound(r, p, d)
      BY <1>1, <3>1, <3>2, <3>3, PassSound
    <3>5. PopDue(r)
      BY <2>1, <3>1, <3>2 DEF AdvanceTime
    <3>. QED
      BY <3>1, <3>4, <3>5
  <2>2. ASSUME AdvanceTime, opl_sdl_paused
        PROVE  \E q : PopDue(q) /\ Sound(q, plays, Started)
    BY <1>1, <2>2 DEF AdvanceTime
  <2>3. ASSUME AdvanceOn
        PROVE  \E q : PopDue(q) /\ Sound(q, plays, Started)
    BY <1>1, <2>3 DEF AdvanceOn
  <2>. QED
    BY <2>1, <2>2, <2>3
<1>3. /\ UNCHANGED <<opl_sdl_paused, songVars, mainVars, tempos>>
      /\ pause_offset' \in 0 .. MaxPause /\ nsamples' \in 0 .. MaxBuffer
      /\ races' \subseteq {"apart", "skewed", "overtaken"}
  <2>1. MaxPause \in Nat /\ MaxBuffer \in Nat
    BY MusicAssumption
  <2>2. CASE AdvanceOn
    BY <1>1, <2>2 DEF AdvanceOn, MusicTypes
  <2>3. CASE AdvanceTime
    <3>1. \/ pause_offset' = pause_offset
          \/ /\ pause_offset + TimeOf(nsamples) <= MaxPause
             /\ pause_offset' = pause_offset + TimeOf(nsamples)
      BY <2>3 DEF AdvanceTime
    <3>2. pause_offset' \in 0 .. MaxPause
      <4>1. nsamples \in Nat
        BY <1>1, <2>1 DEF MusicTypes
      <4>. QED
        BY <1>1, <2>1, <3>1, <4>1, TimeOfIs DEF MusicTypes
    <3>3. races' \subseteq {"apart", "skewed", "overtaken"}
      BY <1>1, <2>3 DEF AdvanceTime, MusicTypes
    <3>4. nsamples' = 0 /\ UNCHANGED <<opl_sdl_paused, songVars, mainVars, tempos>>
      BY <2>3 DEF AdvanceTime
    <3>. QED
      BY <2>1, <3>2, <3>3, <3>4
  <2>. QED
    BY <2>2, <2>3
<1>4. PICK p, d : p = plays /\ d = Started
  OBVIOUS
<1>5. /\ Sound(queue', p, d)
      /\ held' \in EntryType \cup {None} /\ step' \in {"call", "mix"}
      /\ (held' # None) <=> (step' = "call")
      /\ held' # None => CurrentTo(held', p, d)
      /\ step' = "mix" => Coming(queue')
  BY <1>1, <1>2, <1>4, PopDueKeeps
<1>6. Reading' /\ Started' = Started /\ plays' = plays
  BY <1>1, <1>3, SameSong DEF songVars, mainVars
<1>7. MusicTypes'
  BY <1>1, <1>3, <1>5 DEF MusicTypes, songVars, mainVars
<1>. QED
  BY <1>4, <1>5, <1>6, <1>7 DEF MusicInv

LEMMA CallCallbackKeeps ==
  ASSUME MusicInv, CallCallback
  PROVE  MusicInv'
<1>1. MusicTypes /\ Reading /\ Called
  BY CallKeeps DEF MusicInv
<1>2. /\ step' = "next" /\ held' = None
      /\ races' \subseteq races \cup {"skewed", "apart"}
      /\ UNCHANGED <<pause_offset, opl_sdl_paused, nsamples, song, song_looping, mainVars>>
  BY DEF CallCallback
<1>3. Reading'
  BY <1>1, <1>2 DEF Called, Reading, mainVars
<1>4. Started' = Started
  <2>1. CASE song = None
    BY <1>2, <2>1 DEF Started
  <2>2. CASE song # None
    <3>1. DOMAIN iter = 1 .. Len(iter) /\ DOMAIN iter' = 1 .. Len(iter')
      BY <1>1, <2>2 DEF Called, Reading
    <3>. QED
      BY <1>1, <1>2, <2>2, <3>1 DEF Called, Started
  <2>. QED
    BY <2>1, <2>2
<1>5. MusicTypes'
  BY <1>1, <1>2 DEF MusicTypes, Called, mainVars
<1>6. Sound(queue', plays', Started')
  BY <1>1, <1>2, <1>4 DEF Called, mainVars
<1>. QED
  BY <1>2, <1>3, <1>5, <1>6 DEF MusicInv

LEMMA PlayKeeps ==
  ASSUME MusicInv, I_OPL_PlaySong
  PROVE  MusicInv'
<1>1. /\ MusicTypes /\ Reading /\ Sound(queue, plays, Started)
      /\ held # None => CurrentTo(held, plays, Started)
      /\ step = "mix" => Coming(queue)
      /\ held \in EntryType \cup {None} /\ us = None
      /\ plays \in Nat /\ MaxPlays \in Nat
  BY MusicAssumption DEF MusicInv, MusicTypes, Reading, I_OPL_PlaySong
<1>2. /\ song = None /\ plays < MaxPlays /\ plays' = plays + 1 /\ start' = 1
      /\ song' \in Songs /\ song_looping' \in BOOLEAN /\ iter' = <<>> /\ tempos' = 0
      /\ running_tracks' = Len(song') /\ us_per_beat' = DefaultTempo
      /\ UNCHANGED <<driverVars, audioVars, us, mus_paused, races>>
  BY DEF I_OPL_PlaySong
<1>3. song' # None /\ Len(song') \in Nat \ {0}
  BY <1>2, SongFields, MusicAssumption
<1>4. Reading'
  BY <1>1, <1>2, <1>3 DEF Reading
<1>5. MusicTypes'
  BY <1>1, <1>2, <1>3, MusicAssumption DEF MusicTypes, driverVars, audioVars
<1>6. ASSUME NEW c \in EntryType, CurrentTo(c, plays, Started)
      PROVE  CurrentTo(c, plays', Started')
  <2>1. c.play \in Nat /\ c.play <= plays
    BY <1>6 DEF CurrentTo, EntryType
  <2>. QED
    BY <1>1, <1>2, <2>1 DEF CurrentTo
<1>7. UNCHANGED <<queue, held, step>>
  BY <1>2 DEF driverVars, audioVars
<1>8. Sound(queue', plays', Started')
  <2>1. queue \in Entries /\ \A i \in 1 .. Len(queue) : CurrentTo(queue[i], plays, Started)
    BY <1>1 DEF Sound
  <2>2. \A i \in 1 .. Len(queue) : queue[i] \in EntryType
    BY <2>1, EntryFields
  <2>3. \A i \in 1 .. Len(queue) : CurrentTo(queue[i], plays', Started')
    BY <1>6, <2>1, <2>2
  <2>. QED
    BY <1>1, <1>7, <2>3 DEF Sound
<1>. QED
  BY <1>1, <1>4, <1>5, <1>6, <1>7, <1>8 DEF MusicInv

LEMMA StartKeeps ==
  ASSUME MusicInv, StartTrack
  PROVE  MusicInv'
<1>1. /\ MusicTypes /\ Reading /\ Sound(queue, plays, Started)
      /\ held # None => CurrentTo(held, plays, Started)
      /\ step = "mix" => Coming(queue)
      /\ start > 0 /\ us = None /\ song # None
      /\ iter' = Append(iter, 0) /\ us' = Wait(start, 0, us_per_beat)
      /\ UNCHANGED <<driverVars, audioVars, song, running_tracks, song_looping,
                     us_per_beat, start, mus_paused, plays, tempos, races>>
  BY DEF MusicInv, Reading, StartTrack
<1>2. /\ song \in Songs /\ Len(song) \in Nat \ {0}
      /\ iter \in Seq(Nat) /\ Len(iter) \in 0 .. Len(song)
      /\ Started = 1 .. Len(iter)
      /\ \A t \in 1 .. Len(iter) : iter[t] \in Nat /\ iter[t] <= Len(song[t])
  BY <1>1, ReadingIs
<1>3. start \in 1 .. Len(song) /\ Len(iter) = start - 1
  BY <1>1, <1>2 DEF Reading
<1>4. us' \in Nat /\ None \notin Nat
  <2>1. us_per_beat \in Nat
    BY <1>1 DEF MusicTypes
  <2>. QED
    BY <1>1, <1>2, <1>3, <2>1, WaitIs, MusicAssumption
<1>5. iter' \in Seq(Nat) /\ Len(iter') = start /\ \A t \in 1 .. start : iter'[t] <= Len(song[t])
  <2>1. Len(song[start]) \in Nat
    BY <1>2, <1>3, SongFields
  <2>2. /\ iter' \in Seq(Nat) /\ Len(iter') = start
        /\ \A t \in 1 .. start : iter'[t] = IF t = start THEN 0 ELSE iter[t]
    BY <1>1, <1>2, <1>3
  <2>3. \A t \in 1 .. start : t # start => t \in 1 .. Len(iter)
    BY <1>3
  <2>. QED
    BY <1>2, <2>1, <2>2, <2>3
<1>6. Reading'
  BY <1>1, <1>2, <1>3, <1>4, <1>5 DEF Reading
<1>7. MusicTypes'
  BY <1>1, <1>4 DEF MusicTypes, driverVars, audioVars
<1>8. Started' = 1 .. start /\ Started \subseteq Started'
  <2>1. DOMAIN iter' = 1 .. start
    BY <1>5
  <2>. QED
    BY <1>1, <1>2, <1>3, <2>1 DEF Started
<1>9. ASSUME NEW c, CurrentTo(c, plays, Started) PROVE CurrentTo(c, plays', Started')
  BY <1>1, <1>8, <1>9 DEF CurrentTo
<1>10. UNCHANGED <<queue, held, step, plays>>
  BY <1>1 DEF driverVars, audioVars
<1>11. Sound(queue', plays', Started')
  BY <1>1, <1>9, <1>10 DEF Sound
<1>. QED
  BY <1>1, <1>6, <1>7, <1>9, <1>10, <1>11 DEF MusicInv

LEMMA SetKeeps ==
  ASSUME MusicInv, SetCallback
  PROVE  MusicInv'
<1>1. /\ MusicTypes /\ Reading /\ Sound(queue, plays, Started)
      /\ held # None => CurrentTo(held, plays, Started)
      /\ step = "mix" => Coming(queue)
      /\ us # None /\ us' = None /\ start' = (IF start = Len(song) THEN 0 ELSE start + 1)
      /\ queue' = OPL_Queue_Push(queue, Entry(us, "Track", plays, start))
      /\ UNCHANGED <<pause_offset, opl_sdl_paused, audioVars, songVars, mus_paused, plays,
                     tempos, races>>
  BY DEF MusicInv, SetCallback
<1>2. song # None /\ start # 0
  BY <1>1 DEF Reading
<1>3. /\ Len(song) \in Nat \ {0} /\ iter \in Seq(Nat) /\ Started = 1 .. Len(iter)
  BY <1>1, <1>2, ReadingIs
<1>4. start \in 1 .. Len(song) /\ Len(iter) = start
  BY <1>1, <1>2, <1>3 DEF Reading
<1>5. us \in Nat /\ plays \in Nat /\ start \in Nat /\ start \in Started
  BY <1>1, <1>3, <1>4, MusicAssumption DEF MusicTypes
<1>6. PICK q, p, d, e : /\ q = queue /\ p = plays /\ d = Started
                        /\ e = Entry(us, "Track", plays, start)
  OBVIOUS
<1>7. /\ e \in EntryType /\ e.time = us /\ e.callback = "Track"
      /\ e.play = p /\ e.track = start
  BY <1>5, <1>6, EntryIs
<1>8. CurrentTo(e, p, d)
  BY <1>5, <1>6, <1>7 DEF CurrentTo
<1>9. /\ Sound(OPL_Queue_Push(q, e), p, d)
      /\ Coming(q) => Coming(OPL_Queue_Push(q, e))
  <2>1. e.time >= 0
    BY <1>5, <1>7
  <2>. QED
    BY <1>1, <1>6, <1>7, <1>8, <2>1, PushSound
<1>10. Reading'
  BY <1>1, <1>2, <1>3, <1>4 DEF Reading, songVars
<1>11. MusicTypes'
  BY <1>1 DEF MusicTypes, audioVars, songVars
<1>12. UNCHANGED <<plays, held, step>> /\ Started' = Started
  BY <1>1 DEF Started, audioVars, songVars
<1>. QED
  BY <1>1, <1>6, <1>9, <1>10, <1>11, <1>12 DEF MusicInv

LEMMA StopKeeps ==
  ASSUME MusicInv, S_StopMusic
  PROVE  MusicInv'
<1>1. /\ MusicTypes /\ Reading
      /\ held # None => CurrentTo(held, plays, Started)
      /\ start = 0 /\ us = None /\ opl_sdl_paused' = FALSE /\ queue' = <<>>
      /\ song' = None /\ iter' = <<>>
      /\ races' = IF held # None THEN races \cup {"overtaken"} ELSE races
      /\ UNCHANGED <<pause_offset, audioVars, running_tracks, song_looping,
                     us_per_beat, mainVars, tempos>>
  BY DEF MusicInv, Reading, S_StopMusic
<1>2. Reading'
  BY <1>1 DEF Reading, mainVars
<1>3. MusicTypes'
  BY <1>1 DEF MusicTypes, audioVars, mainVars
<1>4. <<>> \in Entries /\ Len(<<>>) = 0
  BY DEF Entries
<1>5. Sound(queue', plays', Started') /\ Coming(queue')
  BY <1>1, <1>4, QueueAssumption DEF Sound, Heap, Coming
<1>6. held # None => CurrentTo(held, plays, Started')
  <2>1. Started' = Nat
    BY <1>1 DEF Started
  <2>2. held # None => held.track \in Nat
    BY <1>1 DEF MusicTypes, EntryType
  <2>. QED
    BY <1>1, <2>1, <2>2 DEF CurrentTo
<1>. QED
  BY <1>1, <1>2, <1>3, <1>5, <1>6 DEF MusicInv, audioVars, mainVars

LEMMA PauseKeeps ==
  ASSUME MusicInv, S_PauseSound \/ S_ResumeSound
  PROVE  MusicInv'
<1>1. /\ MusicTypes /\ Reading
      /\ mus_paused' \in BOOLEAN /\ opl_sdl_paused' \in BOOLEAN
      /\ UNCHANGED <<queue, pause_offset, audioVars, songVars, start, us, plays, tempos, races>>
  BY DEF MusicInv, S_PauseSound, S_ResumeSound
<1>2. Reading' /\ Started' = Started
  BY <1>1, SameSong DEF songVars
<1>3. MusicTypes'
  BY <1>1 DEF MusicTypes, audioVars, songVars
<1>. QED
  BY <1>1, <1>2, <1>3 DEF MusicInv, audioVars

LEMMA MusicStep == MusicInv /\ [Next]_vars => MusicInv'
<1>. SUFFICES ASSUME MusicInv, [Next]_vars PROVE MusicInv'
  OBVIOUS
<1>1. CASE UNCHANGED vars
  <2>1. MusicTypes' /\ Reading' /\ Started' = Started
    BY <1>1 DEF MusicInv, MusicTypes, Reading, Started, vars, driverVars, audioVars,
                songVars, mainVars
  <2>. QED
    BY <1>1, <2>1 DEF MusicInv, vars, driverVars, audioVars, mainVars
<1>2. CASE Audio
  BY <1>2, MixKeeps, AdvanceKeeps, CallCallbackKeeps DEF Audio
<1>3. CASE Game
  BY <1>3, PlayKeeps, StartKeeps, SetKeeps, StopKeeps, PauseKeeps DEF Game, Starting
<1>. QED
  BY <1>1, <1>2, <1>3 DEF Next

\* The inductive invariant of queue and players holds in every state.
THEOREM MusicInvCorrect == Spec => []MusicInv
<1>1. Init => MusicInv
  BY MusicInit
<1>2. MusicInv /\ [Next]_vars => MusicInv'
  BY MusicStep
<1>. QED
  BY <1>1, <1>2, PTL DEF Spec

\* The callback on top of the queue is the one that is due first
\* (opl_queue.c:65-190), whatever is set, popped and rescaled.
THEOREM EarliestFirstCorrect == Spec => []EarliestFirst
<1>1. MusicInv => EarliestFirst
  <2>. SUFFICES ASSUME MusicInv PROVE EarliestFirst
    OBVIOUS
  <2>1. queue \in Entries /\ Heap(queue)
    BY DEF MusicInv, Sound
  <2>. QED
    BY <2>1, HeapTop DEF EarliestFirst
<1>. QED
  BY <1>1, MusicInvCorrect, PTL

\* No callback is overdue when the next samples are counted, so that the
\* unsigned difference of opl_sdl.c:206 does not wrap.
THEOREM NothingLateCorrect == Spec => []NothingLate
<1>1. MusicInv => NothingLate
  <2>. SUFFICES ASSUME MusicInv PROVE NothingLate
    OBVIOUS
  <2>1. DOMAIN queue = 1 .. Len(queue)
    BY EntryFields DEF MusicInv, Sound
  <2>. QED
    BY <2>1 DEF MusicInv, NothingLate, Coming
<1>. QED
  BY <1>1, MusicInvCorrect, PTL

\* Callbacks, threads and song are of their types: the queue is not longer than
\* its array, and no track is read that the song does not have.
THEOREM TypeCorrect == Spec => []TypeOK
<1>1. MusicInv => TypeOK
  <2>. SUFFICES ASSUME MusicInv PROVE TypeOK
    OBVIOUS
  <2>1. /\ MusicTypes /\ Reading /\ Sound(queue, plays, Started)
        /\ held # None => CurrentTo(held, plays, Started)
    BY DEF MusicInv
  <2>2. ASSUME NEW c \in EntryType, CurrentTo(c, plays, Started)
        PROVE  /\ c.time \in Int /\ c.callback \in {"Track", "RestartSong"}
               /\ c.play \in 0 .. MaxPlays
    <3>1. c.time \in Int /\ c.callback \in {"Track", "RestartSong"} /\ c.play \in Nat
      BY DEF EntryType
    <3>2. plays \in 0 .. MaxPlays /\ MaxPlays \in Nat /\ c.play <= plays
      BY <2>1, <2>2, MusicAssumption DEF MusicTypes, CurrentTo
    <3>. QED
      BY <3>1, <3>2
  <2>3. \A i \in DOMAIN Callbacks :
           /\ Callbacks[i].time \in Int /\ Callbacks[i].callback \in {"Track", "RestartSong"}
           /\ Callbacks[i].play \in 0 .. MaxPlays
    <3>1. /\ queue \in Entries /\ \A i \in 1 .. Len(queue) : CurrentTo(queue[i], plays, Started)
      BY <2>1 DEF Sound
    <3>2. \A i \in 1 .. Len(queue) : queue[i] \in EntryType
      BY <3>1, EntryFields
    <3>3. held # None => held \in EntryType
      BY <2>1 DEF MusicTypes
    <3>4. \A i \in DOMAIN Callbacks :
             \/ held # None /\ Callbacks[i] = held
             \/ \E j \in 1 .. Len(queue) : Callbacks[i] = queue[j]
      <4>1. queue \in Seq(EntryType) /\ Len(queue) \in Nat
        BY <3>1, EntryFields DEF Entries
      <4>. QED
        BY <3>3, <4>1 DEF Callbacks
    <3>. QED
      BY <2>1, <2>2, <3>1, <3>2, <3>3, <3>4
  <2>4. /\ DOMAIN iter \subseteq Tracks
        /\ \A t \in DOMAIN iter : iter[t] \in 0 .. Len(song[t])
        /\ start \in Tracks \cup {0}
    <3>1. CASE song = None
      BY <2>1, <3>1 DEF Reading, Tracks
    <3>2. CASE song # None
      <4>1. /\ song \in Songs /\ Len(song) \in Nat \ {0} /\ DOMAIN iter = 1 .. Len(iter)
            /\ Len(iter) \in 0 .. Len(song)
            /\ \A t \in 1 .. Len(iter) : iter[t] \in Nat /\ iter[t] <= Len(song[t])
        BY <2>1, <3>2, ReadingIs
      <4>2. DOMAIN song = 1 .. Len(song) /\ \A t \in 1 .. Len(song) : Len(song[t]) \in Nat
        BY <4>1, SongFields
      <4>3. start \in 0 .. Len(song)
        BY <2>1, <3>2 DEF Reading
      <4>. QED
        BY <3>2, <4>1, <4>2, <4>3 DEF Tracks
    <3>. QED
      BY <3>1, <3>2
  <2>. QED
    BY <2>1, <2>3, <2>4 DEF TypeOK, MusicTypes, Sound
<1>. QED
  BY <1>1, MusicInvCorrect, PTL

----------------------------------------------------------------------------
(* One callback each                                                       *)

\* What a callback is for: a track, or None for the restart of the song.
For(c) == IF c.callback = "Track" THEN c.track ELSE None
Keys(q) == {For(q[i]) : i \in 1 .. Len(q)}
Distinct(q) == \A i, j \in 1 .. Len(q) : For(q[i]) = For(q[j]) => i = j

\* A way through the heap goes up or it goes down.
OneWay(n, next) ==
    \/ \A i \in 1 .. n : next[i] # 0 => next[i] < i
    \/ \A i \in 1 .. n : next[i] # 0 => next[i] > i

\* So it leads to an end.
LEMMA HoleEnd ==
  ASSUME NEW n \in Nat, NEW next, Leads(n, next), NEW first \in 1 .. n, OneWay(n, next)
  PROVE  \E i \in Holes(first, next) : next[i] = 0
<1>1. PICK H : H = Holes(first, next)
  OBVIOUS
<1>2. /\ H \subseteq 1 .. n /\ first \in H
      /\ \A i \in H : next[i] # 0 => next[i] \in H
  BY <1>1, HolesClosed
<1>3. H \subseteq Int /\ H # {} /\ (\A y \in H : 1 <= y) /\ (\A y \in H : y <= n)
  BY <1>2
<1>4. CASE \A i \in 1 .. n : next[i] # 0 => next[i] < i
  <2>1. 1 \in Int
    OBVIOUS
  <2>2. PICK i \in H : \A y \in H : i <= y
    BY ONLY <1>3, <2>1, LeastInteger
  <2>. QED
    BY <1>1, <1>2, <1>3, <1>4, <2>2
<1>5. CASE \A i \in 1 .. n : next[i] # 0 => next[i] > i
  <2>1. n \in Int
    OBVIOUS
  <2>2. PICK i \in H : \A y \in H : i >= y
    BY ONLY <1>3, <2>1, GreatestInteger
  <2>. QED
    BY <1>1, <1>2, <1>3, <1>5, <2>2
<1>. QED
  BY <1>4, <1>5 DEF OneWay

\* Where each entry comes from: first stands for the entry that is put in.
Comes(g, n) ==
    /\ g \in [1 .. n -> 1 .. n]
    /\ \A i, j \in 1 .. n : g[i] = g[j] => i = j
    /\ \A j \in 1 .. n : \E i \in 1 .. n : g[i] = j

LEMMA PercolatedFrom ==
  ASSUME NEW n \in Nat, NEW next, Leads(n, next), NEW first \in 1 .. n, OneWay(n, next),
         NEW q, NEW e, NEW r, r = Percolated(q, e, first, next)
  PROVE  \E g : Comes(g, n) /\ \A i \in 1 .. n : /\ g[i] = first => r[i] = e
                                                 /\ g[i] # first => r[i] = q[g[i]]
<1>1. PICK H : H = Holes(first, next)
  OBVIOUS
<1>2. /\ H \subseteq 1 .. n /\ first \in H
      /\ \A i \in H : next[i] # 0 => next[i] \in H
  BY <1>1, HolesClosed
<1>3. \A i \in 1 .. n : /\ i \notin H => r[i] = q[i]
                        /\ i \in H /\ next[i] = 0 => r[i] = e
                        /\ i \in H /\ next[i] # 0 => r[i] = q[next[i]]
  BY <1>1, PercolatedIs
<1>4. \A j \in H : j # first => \E i \in H : next[i] = j /\ next[i] # 0
  BY <1>1, HoleFrom
<1>5. PICK end \in H : next[end] = 0
  BY <1>1, HoleEnd
<1>6. PICK g : g = [i \in 1 .. n |-> IF i \notin H THEN i
                                      ELSE IF next[i] = 0 THEN first ELSE next[i]]
  OBVIOUS
<1>7. g \in [1 .. n -> 1 .. n]
  BY <1>2, <1>6
<1>8. \A i \in 1 .. n : /\ i \notin H => g[i] = i
                        /\ i \in H /\ next[i] = 0 => g[i] = first
                        /\ i \in H /\ next[i] # 0 => g[i] = next[i]
  BY <1>6
<1>9. ASSUME NEW j \in 1 .. n PROVE \E i \in 1 .. n : g[i] = j
  <2>1. CASE j \notin H
    BY <1>8, <2>1
  <2>2. CASE j = first
    BY <1>2, <1>5, <1>8, <2>2
  <2>3. CASE j \in H /\ j # first
    BY <1>2, <1>4, <1>8, <2>3
  <2>. QED
    BY <2>1, <2>2, <2>3
<1>10. \A i, j \in 1 .. n : g[i] = g[j] => i = j
  <2>1. g \in Surjection(1 .. n, 1 .. n)
    BY <1>7, <1>9 DEF Surjection
  <2>2. IsFiniteSet(1 .. n)
    BY FS_Interval
  <2>3. g \in Injection(1 .. n, 1 .. n)
    BY <2>1, <2>2, FS_SurjSameCardinalityImpliesInj
  <2>. QED
    BY <1>7, <2>3 DEF Injection, IsInjective
\* Nothing but the entry itself comes from first.
<1>11. \A i \in H : next[i] # 0 => next[i] # first
  <2>. SUFFICES ASSUME NEW i \in H, next[i] # 0, next[i] = first PROVE FALSE
    OBVIOUS
  <2>1. g[i] = first /\ g[end] = first
    BY <1>2, <1>5, <1>8
  <2>2. i = end
    BY <1>2, <1>5, <1>10, <2>1
  <2>. QED
    BY <1>5, <2>2
<1>12. \A i \in 1 .. n : /\ g[i] = first => r[i] = e
                         /\ g[i] # first => r[i] = q[g[i]]
  BY <1>2, <1>3, <1>8, <1>11
<1>13. Comes(g, n)
  BY <1>7, <1>9, <1>10 DEF Comes
<1>. QED
  BY <1>12, <1>13

\* A push adds its entry to those there were, ...
LEMMA PushKeys ==
  ASSUME NEW q \in Entries, NEW e \in EntryType, Len(q) < MAX_OPL_QUEUE,
         NEW r, r = OPL_Queue_Push(q, e)
  PROVE  /\ Keys(r) = Keys(q) \cup {For(e)}
         /\ Distinct(q) /\ For(e) \notin Keys(q) => Distinct(r)
<1>1. PICK n, next : n = Len(q) + 1 /\ next = Rise(q, e)
  OBVIOUS
<1>2. /\ Len(q) \in Nat /\ n \in Nat /\ n \in 1 .. n /\ Leads(n, next)
      /\ MAX_OPL_QUEUE \in Nat
  BY <1>1, RiseLeads, EntryFields, QueueAssumption
<1>3. r = Percolated(q, e, n, next)
  BY <1>1, <1>2 DEF OPL_Queue_Push
<1>4. OneWay(n, next)
  <2>1. \A i \in 1 .. n : next[i] # 0 => next[i] < i
    BY <1>1, <1>2, Half DEF Rise
  <2>. QED
    BY <2>1 DEF OneWay
<1>5. Len(r) = n
  BY <1>2, <1>3, PercolatedIs
<1>6. PICK g : Comes(g, n) /\ \A i \in 1 .. n : /\ g[i] = n => r[i] = e
                                                /\ g[i] # n => r[i] = q[g[i]]
  BY ONLY <1>2, <1>3, <1>4, PercolatedFrom
<1>7. /\ \A i \in 1 .. n : g[i] \in 1 .. n /\ (g[i] # n => g[i] \in 1 .. Len(q))
      /\ \A i, j \in 1 .. n : g[i] = g[j] => i = j
      /\ \A j \in 1 .. n : \E i \in 1 .. n : g[i] = j
  <2>1. \A i \in 1 .. n : g[i] \in 1 .. n
    BY <1>6 DEF Comes
  <2>2. \A x \in 1 .. n : x # n => x \in 1 .. Len(q)
    BY <1>1, <1>2
  <2>3. /\ \A i, j \in 1 .. n : g[i] = g[j] => i = j
        /\ \A j \in 1 .. n : \E i \in 1 .. n : g[i] = j
    BY <1>6 DEF Comes
  <2>. QED
    BY <2>1, <2>2, <2>3
<1>8. Keys(r) \subseteq Keys(q) \cup {For(e)}
  <2>1. ASSUME NEW i \in 1 .. n PROVE For(r[i]) \in Keys(q) \cup {For(e)}
    <3>1. CASE g[i] = n
      BY <1>6, <3>1
    <3>2. CASE g[i] # n
      <4>1. r[i] = q[g[i]] /\ g[i] \in 1 .. Len(q)
        BY <1>6, <1>7, <3>2
      <4>. QED
        BY <4>1 DEF Keys
    <3>. QED
      BY <3>1, <3>2
  <2>. QED
    BY <1>5, <2>1 DEF Keys
<1>9. Keys(q) \cup {For(e)} \subseteq Keys(r)
  <2>1. For(e) \in Keys(r)
    BY <1>2, <1>5, <1>6, <1>7 DEF Keys
  <2>2. ASSUME NEW j \in 1 .. Len(q) PROVE For(q[j]) \in Keys(r)
    <3>1. j \in 1 .. n /\ j # n
      BY <1>1, <1>2
    <3>2. PICK i \in 1 .. n : g[i] = j
      BY <1>7, <3>1
    <3>. QED
      BY <1>5, <1>6, <3>1, <3>2 DEF Keys
  <2>. QED
    BY <2>1, <2>2 DEF Keys
<1>10. ASSUME Distinct(q), For(e) \notin Keys(q) PROVE Distinct(r)
  <2>. SUFFICES ASSUME NEW i \in 1 .. n, NEW j \in 1 .. n, For(r[i]) = For(r[j])
       PROVE  g[i] = g[j]
    BY <1>5, <1>7 DEF Distinct
  <2>1. ASSUME NEW k \in 1 .. n, g[k] # n PROVE For(r[k]) \in Keys(q)
    <3>1. r[k] = q[g[k]] /\ g[k] \in 1 .. Len(q)
      BY <1>6, <1>7, <2>1
    <3>. QED
      BY <3>1 DEF Keys
  <2>2. CASE g[i] = n
    BY <1>6, <1>10, <2>1, <2>2
  <2>3. CASE g[j] = n
    BY <1>6, <1>10, <2>1, <2>3
  <2>4. CASE g[i] # n /\ g[j] # n
    <3>1. r[i] = q[g[i]] /\ g[i] \in 1 .. Len(q) /\ r[j] = q[g[j]] /\ g[j] \in 1 .. Len(q)
      BY <1>6, <1>7, <2>4
    <3>2. For(q[g[i]]) = For(q[g[j]])
      BY <3>1
    <3>. QED
      BY <1>10, <3>1, <3>2 DEF Distinct
  <2>. QED
    BY <2>2, <2>3, <2>4
<1>. QED
  BY <1>8, <1>9, <1>10

\* ... and a pop takes the first.
LEMMA PopKeys ==
  ASSUME NEW q \in Entries, q # <<>>, Distinct(q), NEW r, r = OPL_Queue_Pop(q)
  PROVE  Keys(r) = Keys(q) \ {For(q[1])} /\ Distinct(r)
<1>1. PICK n, next, e : n = Len(q) - 1 /\ next = Sink(q) /\ e = q[Len(q)]
  OBVIOUS
<1>2. Len(q) \in Nat /\ n \in Nat /\ Len(q) = n + 1 /\ Leads(n, next)
  BY <1>1, SinkLeads, EntryFields DEF Entries
<1>3. r = Percolated(q, e, 1, next) /\ Len(r) = n
  BY <1>1, PopTypes DEF OPL_Queue_Pop
<1>4. \E h : /\ \A i \in 1 .. n : h[i] \in 2 .. n + 1 /\ r[i] = q[h[i]]
             /\ \A i, j \in 1 .. n : h[i] = h[j] => i = j
             /\ \A j \in 2 .. n + 1 : \E i \in 1 .. n : h[i] = j
  <2>1. CASE n = 0
    BY <2>1
  <2>2. CASE n # 0
    <3>1. 1 \in 1 .. n
      BY <1>2, <2>2
    <3>2. OneWay(n, next)
      <4>1. \A i \in 1 .. n : next[i] # 0 => next[i] > i
        BY <1>1, SinkLeads
      <4>. QED
        BY <4>1 DEF OneWay
    <3>3. PICK g : Comes(g, n) /\ \A i \in 1 .. n : /\ g[i] = 1 => r[i] = e
                                                    /\ g[i] # 1 => r[i] = q[g[i]]
      BY ONLY <1>2, <1>3, <3>1, <3>2, PercolatedFrom
    <3>4. PICK h : h = [i \in 1 .. n |-> IF g[i] = 1 THEN n + 1 ELSE g[i]]
      OBVIOUS
    <3>5. \A i \in 1 .. n : /\ g[i] \in 1 .. n
                            /\ g[i] = 1 => h[i] = n + 1
                            /\ g[i] # 1 => h[i] = g[i]
      BY <3>3, <3>4 DEF Comes
    <3>6. \A i \in 1 .. n : h[i] \in 2 .. n + 1 /\ r[i] = q[h[i]]
      BY <1>1, <1>2, <3>3, <3>5
    <3>7. \A i, j \in 1 .. n : h[i] = h[j] => i = j
      <4>1. \A i, j \in 1 .. n : h[i] = h[j] => g[i] = g[j]
        BY <1>2, <3>5
      <4>. QED
        BY <3>3, <4>1 DEF Comes
    <3>8. ASSUME NEW j \in 2 .. n + 1 PROVE \E i \in 1 .. n : h[i] = j
      <4>1. CASE j = n + 1
        BY <3>1, <3>3, <3>5, <4>1 DEF Comes
      <4>2. CASE j # n + 1
        <5>1. j \in 1 .. n /\ j # 1
          BY <1>2, <4>2
        <5>2. PICK i \in 1 .. n : g[i] = j
          BY <3>3, <5>1 DEF Comes
        <5>. QED
          BY <3>5, <5>1, <5>2
      <4>. QED
        BY <4>1, <4>2
    <3>. QED
      BY <3>6, <3>7, <3>8
  <2>. QED
    BY <2>1, <2>2
<1>5. PICK h : /\ \A i \in 1 .. n : h[i] \in 2 .. n + 1 /\ r[i] = q[h[i]]
               /\ \A i, j \in 1 .. n : h[i] = h[j] => i = j
               /\ \A j \in 2 .. n + 1 : \E i \in 1 .. n : h[i] = j
  BY <1>4
<1>6. \A i \in 1 .. n : h[i] \in 1 .. Len(q) /\ h[i] # 1 /\ 1 \in 1 .. Len(q)
  BY <1>2, <1>5
<1>7. Distinct(r)
  <2>. SUFFICES ASSUME NEW i \in 1 .. n, NEW j \in 1 .. n, For(r[i]) = For(r[j]) PROVE i = j
    BY <1>3 DEF Distinct
  <2>1. r[i] = q[h[i]] /\ h[i] \in 1 .. Len(q) /\ r[j] = q[h[j]] /\ h[j] \in 1 .. Len(q)
    BY <1>5, <1>6
  <2>2. For(q[h[i]]) = For(q[h[j]])
    BY <2>1
  <2>3. h[i] = h[j]
    BY <2>1, <2>2 DEF Distinct
  <2>. QED
    BY <1>5, <2>3
<1>8. Keys(r) \subseteq Keys(q) \ {For(q[1])}
  <2>1. ASSUME NEW i \in 1 .. n PROVE For(r[i]) \in Keys(q) /\ For(r[i]) # For(q[1])
    <3>1. r[i] = q[h[i]] /\ h[i] \in 1 .. Len(q) /\ h[i] # 1 /\ 1 \in 1 .. Len(q)
      BY <1>5, <1>6
    <3>2. For(q[h[i]]) # For(q[1])
      BY <3>1 DEF Distinct
    <3>. QED
      BY <3>1, <3>2 DEF Keys
  <2>. QED
    BY <1>3, <2>1 DEF Keys
<1>9. ASSUME NEW j \in 1 .. Len(q), For(q[j]) # For(q[1]) PROVE For(q[j]) \in Keys(r)
  <2>1. j \in 2 .. n + 1
    <3>1. j # 1
      BY <1>9
    <3>. QED
      BY <1>2, <3>1
  <2>. QED
    BY <1>3, <1>5, <2>1 DEF Keys
<1>. QED
  BY <1>7, <1>8, <1>9 DEF Keys

\* A callback of the song of play p; a queue of such callbacks, none twice; the
\* same with the callback h that is out of the queue: they are what is due.
Present(c, p) == c.callback = "Track" => c.play = p
Alone(q, p) == Distinct(q) /\ \A i \in 1 .. Len(q) : Present(q[i], p)
Each(q, h, due, p) ==
    /\ Alone(q, p)
    /\ h = None => Keys(q) = due
    /\ h # None => For(h) \in due /\ Keys(q) = due \ {For(h)} /\ Present(h, p)

LEMMA RoomLeft ==
  ASSUME NEW q \in Entries, Distinct(q), NEW K, IsFiniteSet(K), Keys(q) \subseteq K
  PROVE  Len(q) <= Cardinality(K)
<1>1. Len(q) \in Nat
  BY EntryFields
<1>2. PICK f : f = [i \in 1 .. Len(q) |-> For(q[i])]
  OBVIOUS
<1>3. f \in [1 .. Len(q) -> K] /\ \A i, j \in 1 .. Len(q) : f[i] = f[j] => i = j
  BY <1>2 DEF Keys, Distinct
<1>4. f \in Injection(1 .. Len(q), K)
  BY <1>3 DEF Injection, IsInjective
<1>5. Cardinality(1 .. Len(q)) <= Cardinality(K)
  BY <1>4, FS_Injection
<1>6. Cardinality(1 .. Len(q)) = Len(q)
  <2>1. 1 \in Int /\ Len(q) \in Int
    BY <1>1
  <2>2. Cardinality(1 .. Len(q)) = IF 1 > Len(q) THEN 0 ELSE Len(q) - 1 + 1
    BY ONLY <2>1, FS_Interval
  <2>. QED
    BY <1>1, <2>2
<1>. QED
  BY <1>5, <1>6

\* Times do not matter here.
LEMMA SameKeys ==
  ASSUME NEW q \in Entries, NEW r \in Entries, NEW p, Len(r) = Len(q),
         \A i \in 1 .. Len(q) : /\ r[i].play = q[i].play /\ r[i].track = q[i].track
                                /\ r[i].callback = q[i].callback
  PROVE  Keys(r) = Keys(q) /\ (Alone(q, p) => Alone(r, p))
<1>1. \A i \in 1 .. Len(q) : For(r[i]) = For(q[i]) /\ (Present(q[i], p) => Present(r[i], p))
  BY DEF For, Present
<1>2. Keys(r) = Keys(q)
  BY <1>1 DEF Keys
<1>3. Distinct(q) => Distinct(r)
  BY <1>1 DEF Distinct
<1>. QED
  BY <1>1, <1>2, <1>3 DEF Alone

LEMMA PassAlone ==
  ASSUME NEW q \in Entries, NEW p, Alone(q, p), NEW ns \in Nat,
         NEW r, r = [i \in DOMAIN q |-> [q[i] EXCEPT !.time = @ - ns]]
  PROVE  r \in Entries /\ Keys(r) = Keys(q) /\ Alone(r, p)
<1>1. /\ Len(q) \in Nat /\ DOMAIN q = 1 .. Len(q)
      /\ \A i \in 1 .. Len(q) : q[i] \in EntryType /\ q[i].time \in Int
  BY EntryFields
<1>2. ASSUME NEW i \in 1 .. Len(q)
      PROVE  /\ r[i] \in EntryType
             /\ r[i].play = q[i].play /\ r[i].callback = q[i].callback
             /\ r[i].track = q[i].track
  <2>1. r[i] = [q[i] EXCEPT !.time = q[i].time - ns]
    BY <1>1
  <2>2. q[i] \in EntryType /\ q[i].time - ns \in Int
    BY <1>1
  <2>. QED
    BY <2>1, <2>2, TimeSet
<1>3. r \in Entries /\ Len(r) = Len(q)
  <2>1. r = [i \in 1 .. Len(q) |-> r[i]]
    BY <1>1
  <2>. QED
    BY ONLY <1>1, <1>2, <2>1 DEF Entries
<1>4. \A i \in 1 .. Len(q) : /\ r[i].play = q[i].play /\ r[i].track = q[i].track
                             /\ r[i].callback = q[i].callback
  BY <1>2
<1>. QED
  BY ONLY <1>3, <1>4, SameKeys, q \in Entries, Alone(q, p)

LEMMA AtTempoAlone ==
  ASSUME NEW q \in Entries, NEW p, Alone(q, p), pause_offset \in Nat,
         us_per_beat \in Nat \ {0}, NEW tempo \in Nat \ {0}, NEW r \in AtTempo(q, tempo)
  PROVE  r \in Entries /\ Len(r) = Len(q) /\ Keys(r) = Keys(q) /\ Alone(r, p)
<1>1. /\ r \in Entries /\ Len(r) = Len(q)
      /\ \A i \in 1 .. Len(q) : /\ r[i].play = q[i].play /\ r[i].track = q[i].track
                                /\ r[i].callback = q[i].callback
  <2>1. PICK offset, old : offset = pause_offset /\ old = us_per_beat
    OBVIOUS
  <2>2. /\ offset \in Nat /\ old \in Nat /\ old > 0 /\ tempo \in Nat /\ tempo > 0
        /\ r \in OPL_Queue_AdjustCallbacks(q, offset, old, tempo)
    BY <2>1 DEF AtTempo
  <2>. QED
    BY ONLY <2>2, q \in Entries, AdjustKeeps
<1>. QED
  BY ONLY <1>1, SameKeys, q \in Entries, Alone(q, p)

LEMMA PushAlone ==
  ASSUME NEW q \in Entries, NEW p, Alone(q, p), NEW e \in EntryType, Present(e, p),
         For(e) \notin Keys(q), Len(q) < MAX_OPL_QUEUE, NEW r, r = OPL_Queue_Push(q, e)
  PROVE  r \in Entries /\ Keys(r) = Keys(q) \cup {For(e)} /\ Alone(r, p)
<1>1. MAX_OPL_QUEUE \in Nat /\ Len(q) \in Nat /\ DOMAIN q = 1 .. Len(q)
  BY QueueAssumption, EntryFields
<1>2. Len(q) <= MAX_OPL_QUEUE
  BY <1>1
<1>3. r \in Entries /\ \A i \in DOMAIN r : r[i] = e \/ \E j \in DOMAIN q : r[i] = q[j]
  BY <1>2, PushTypes
<1>4. DOMAIN r = 1 .. Len(r)
  BY <1>3, EntryFields
<1>5. \A i \in 1 .. Len(r) : Present(r[i], p)
  BY <1>1, <1>3, <1>4 DEF Alone
<1>6. Keys(r) = Keys(q) \cup {For(e)} /\ Distinct(r)
  BY PushKeys DEF Alone
<1>. QED
  BY <1>3, <1>5, <1>6 DEF Alone

LEMMA PopDueEach ==
  ASSUME NEW q \in Entries, NEW p, Alone(q, p), PopDue(q), None \notin EntryType
  PROVE  Each(queue', held', Keys(q), p)
<1>1. Len(q) \in Nat /\ DOMAIN q = 1 .. Len(q) /\ \A i \in 1 .. Len(q) : q[i] \in EntryType
  BY EntryFields
<1>2. CASE q # <<>> /\ OPL_Queue_Peek(q) <= 0
  <2>1. queue' = OPL_Queue_Pop(q) /\ held' = q[1]
    BY <1>2 DEF PopDue
  <2>2. PICK r : r = OPL_Queue_Pop(q)
    OBVIOUS
  <2>3. Keys(r) = Keys(q) \ {For(q[1])} /\ Distinct(r)
    BY <1>2, <2>2, PopKeys DEF Alone
  <2>4. r \in Entries /\ \A i \in DOMAIN r : \E j \in DOMAIN q : r[i] = q[j]
    BY <1>2, <2>2, PopTypes
  <2>5. DOMAIN r = 1 .. Len(r)
    BY <2>4, EntryFields
  <2>6. Alone(r, p)
    BY <1>1, <2>3, <2>4, <2>5 DEF Alone
  <2>7. 1 \in 1 .. Len(q)
    BY <1>1, <1>2 DEF Entries
  <2>8. For(q[1]) \in Keys(q) /\ Present(q[1], p) /\ q[1] # None
    BY <1>1, <2>7 DEF Keys, Alone
  <2>. QED
    BY <2>1, <2>2, <2>3, <2>6, <2>8 DEF Each
<1>3. CASE ~(q # <<>> /\ OPL_Queue_Peek(q) <= 0)
  <2>1. queue' = q /\ held' = None
    BY <1>3 DEF PopDue
  <2>. QED
    BY <2>1 DEF Each
<1>. QED
  BY <1>2, <1>3

----------------------------------------------------------------------------
(* What is due                                                             *)

\* s is a song, it what was read of each track that was started; st is the track
\* that is being started, u the time of its first event once that was read.
Reads(s, it) == s \in Songs /\ it \in Seq(Nat) /\ Len(it) <= Len(s)
Unended(s, it) == {t \in 1 .. Len(s) : ~(t \in 1 .. Len(it) /\ it[t] = Len(s[t]))}
DueTracks(s, it, st, u) ==
    {t \in 1 .. Len(it) : it[t] # Len(s[t]) /\ ~(t = st /\ u # None)}
Due(s, it, st, u, loop) ==
    IF s # None /\ loop /\ Unended(s, it) = {} THEN {None} ELSE DueTracks(s, it, st, u)

LEMMA ReadsFields ==
  ASSUME NEW s, NEW it, Reads(s, it)
  PROVE  /\ s # None /\ Len(s) \in Nat \ {0} /\ Len(it) \in Nat /\ Len(it) <= Len(s)
         /\ DOMAIN it = 1 .. Len(it) /\ 1 .. Len(it) \subseteq 1 .. Len(s)
         /\ \A t \in 1 .. Len(it) : it[t] \in Nat
         /\ \A t \in 1 .. Len(s) : Len(s[t]) \in Nat \ {0} /\ t # None /\ t \in Nat
<1>1. s \in Songs /\ it \in Seq(Nat) /\ Len(it) <= Len(s)
  BY DEF Reads
<1>2. Len(s) \in Nat \ {0} /\ \A t \in 1 .. Len(s) : Len(s[t]) \in Nat \ {0}
  BY <1>1, SongFields
<1>3. Len(it) \in Nat /\ DOMAIN it = 1 .. Len(it) /\ \A t \in 1 .. Len(it) : it[t] \in Nat
  BY <1>1
<1>4. s # None /\ \A t \in 1 .. Len(s) : t \in Nat /\ t # None
  BY <1>1, MusicAssumption
<1>. QED
  BY <1>1, <1>2, <1>3, <1>4

LEMMA UnendedFinite ==
  ASSUME NEW s, NEW it, Reads(s, it)
  PROVE  /\ IsFiniteSet(1 .. Len(s)) /\ Cardinality(1 .. Len(s)) = Len(s)
         /\ IsFiniteSet(Unended(s, it)) /\ Cardinality(Unended(s, it)) \in Nat
         /\ Cardinality(Unended(s, it)) = 0 <=> Unended(s, it) = {}
<1>1. Len(s) \in Nat \ {0}
  BY ReadsFields
<1>2. IsFiniteSet(1 .. Len(s)) /\ Cardinality(1 .. Len(s)) = Len(s)
  <2>1. 1 \in Int /\ Len(s) \in Int
    BY <1>1
  <2>2. /\ IsFiniteSet(1 .. Len(s))
        /\ Cardinality(1 .. Len(s)) = IF 1 > Len(s) THEN 0 ELSE Len(s) - 1 + 1
    BY ONLY <2>1, FS_Interval
  <2>. QED
    BY <1>1, <2>2
<1>3. PICK U : U = Unended(s, it)
  OBVIOUS
<1>4. U \subseteq 1 .. Len(s)
  BY <1>3 DEF Unended
<1>5. IsFiniteSet(U)
  BY <1>2, <1>4, FS_Subset
<1>6. Cardinality(U) \in Nat /\ (Cardinality(U) = 0 <=> U = {})
  BY <1>5, FS_CardinalityType, FS_EmptySet
<1>. QED
  BY <1>2, <1>3, <1>5, <1>6

\* The first event of a track is read.
LEMMA DueStart ==
  ASSUME NEW s, NEW it, Reads(s, it), NEW st \in 1 .. Len(s), Len(it) = st - 1,
         NEW u, u # None, NEW loop,
         NEW it2, Len(it2) = st, it2[st] = 0, \A t \in 1 .. Len(it) : it2[t] = it[t]
  PROVE  /\ Unended(s, it2) = Unended(s, it)
         /\ Due(s, it2, st, u, loop) = Due(s, it, st, None, loop)
<1>1. /\ Len(s) \in Nat \ {0} /\ Len(it) \in Nat
      /\ \A t \in 1 .. Len(it) : it[t] \in Nat
      /\ \A t \in 1 .. Len(s) : Len(s[t]) \in Nat \ {0}
  BY ReadsFields
<1>2. /\ st \in 1 .. Len(s) /\ st \notin 1 .. Len(it) /\ st \in 1 .. st /\ Len(s[st]) # 0
      /\ \A t \in 1 .. st : t \in 1 .. Len(it) \/ t = st
      /\ 1 .. Len(it) \subseteq 1 .. st
  BY <1>1
<1>3. Unended(s, it2) = Unended(s, it)
  BY <1>2 DEF Unended
<1>4. DueTracks(s, it2, st, u) = DueTracks(s, it, st, None)
  BY <1>2 DEF DueTracks
<1>. QED
  BY <1>3, <1>4 DEF Due

\* Its callback is set.
LEMMA DueSet ==
  ASSUME NEW s, NEW it, Reads(s, it), NEW st \in 1 .. Len(it), it[st] = 0,
         NEW u, u # None, NEW loop, NEW st2,
         NEW D, D = Due(s, it, st, u, loop)
  PROVE  /\ Due(s, it, st2, None, loop) = D \cup {st}
         /\ D \subseteq 1 .. Len(s) /\ st \notin D /\ st \in 1 .. Len(s)
<1>1. /\ 1 .. Len(it) \subseteq 1 .. Len(s)
      /\ \A t \in 1 .. Len(s) : Len(s[t]) \in Nat \ {0}
  BY ReadsFields
<1>2. st \in 1 .. Len(s) /\ it[st] # Len(s[st])
  BY <1>1
<1>3. Unended(s, it) # {}
  BY <1>2 DEF Unended
<1>4. D = DueTracks(s, it, st, u)
  BY <1>3 DEF Due
<1>5. Due(s, it, st2, None, loop) = DueTracks(s, it, st2, None)
  BY <1>3 DEF Due
<1>6. DueTracks(s, it, st2, None) = DueTracks(s, it, st, u) \cup {st}
  BY <1>2 DEF DueTracks
<1>7. DueTracks(s, it, st, u) \subseteq 1 .. Len(s) /\ st \notin DueTracks(s, it, st, u)
  BY <1>1 DEF DueTracks
<1>. QED
  BY <1>2, <1>4, <1>5, <1>6, <1>7

\* The song is to be repeated only when all of it was played.
LEMMA DueNone ==
  ASSUME NEW s, NEW it, Reads(s, it), NEW st, NEW u, NEW loop,
         NEW D, D = Due(s, it, st, u, loop), None \in D
  PROVE  /\ D = {None} /\ Len(it) = Len(s)
         /\ \A t \in 1 .. Len(s) : it[t] = Len(s[t])
<1>1. /\ Len(s) \in Nat \ {0} /\ Len(it) \in Nat /\ Len(it) <= Len(s)
      /\ 1 .. Len(it) \subseteq 1 .. Len(s) /\ \A t \in 1 .. Len(s) : t # None
  BY ReadsFields
<1>2. None \notin DueTracks(s, it, st, u)
  BY <1>1 DEF DueTracks
<1>3. D = {None} /\ Unended(s, it) = {}
  BY <1>2 DEF Due
<1>4. \A t \in 1 .. Len(s) : t \in 1 .. Len(it) /\ it[t] = Len(s[t])
  BY <1>3 DEF Unended
<1>5. Len(s) \in 1 .. Len(it)
  BY <1>1, <1>4
<1>. QED
  BY <1>1, <1>3, <1>4, <1>5

LEMMA DueAgain ==
  ASSUME NEW s, NEW it, Reads(s, it), Len(it) = Len(s),
         \A t \in 1 .. Len(s) : it[t] = 0, NEW st, NEW loop
  PROVE  Unended(s, it) = 1 .. Len(s) /\ Due(s, it, st, None, loop) = 1 .. Len(s)
<1>1. /\ Len(s) \in Nat \ {0} /\ \A t \in 1 .. Len(s) : Len(s[t]) \in Nat \ {0}
  BY ReadsFields
<1>2. Unended(s, it) = 1 .. Len(s)
  BY <1>1 DEF Unended
<1>3. 1 \in 1 .. Len(s)
  BY <1>1
<1>4. DueTracks(s, it, st, None) = 1 .. Len(s)
  BY <1>1 DEF DueTracks
<1>. QED
  BY <1>2, <1>3, <1>4 DEF Due

\* The callback of a track is called, ...
LEMMA DueTrack ==
  ASSUME NEW s, NEW it, Reads(s, it), NEW st, NEW u, NEW loop,
         NEW D, D = Due(s, it, st, u, loop), NEW t \in D, t # None
  PROVE  /\ t \in 1 .. Len(it) /\ it[t] # Len(s[t]) /\ ~(t = st /\ u # None)
         /\ t \in Unended(s, it) /\ D = DueTracks(s, it, st, u) /\ D \subseteq 1 .. Len(s)
<1>1. 1 .. Len(it) \subseteq 1 .. Len(s)
  BY ReadsFields
<1>2. D = DueTracks(s, it, st, u)
  BY DEF Due
<1>3. t \in 1 .. Len(it) /\ it[t] # Len(s[t]) /\ ~(t = st /\ u # None)
  BY <1>2 DEF DueTracks
<1>4. t \in Unended(s, it)
  BY <1>1, <1>3 DEF Unended
<1>. QED
  BY <1>1, <1>2, <1>3, <1>4 DEF DueTracks

\* ... which goes on ...
LEMMA DueGoesOn ==
  ASSUME NEW s, NEW it, Reads(s, it), NEW st, NEW u, NEW loop,
         NEW t \in 1 .. Len(it), it[t] # Len(s[t]),
         NEW it2, Len(it2) = Len(it), it2[t] # Len(s[t]),
         \A k \in 1 .. Len(it) : k # t => it2[k] = it[k]
  PROVE  /\ Unended(s, it2) = Unended(s, it)
         /\ Due(s, it2, st, u, loop) = Due(s, it, st, u, loop)
<1>1. Unended(s, it2) = Unended(s, it)
  BY DEF Unended
<1>2. DueTracks(s, it2, st, u) = DueTracks(s, it, st, u)
  BY DEF DueTracks
<1>. QED
  BY <1>1, <1>2 DEF Due

\* ... or ends.
LEMMA DueEnds ==
  ASSUME NEW s, NEW it, Reads(s, it), NEW st, NEW u,
         NEW t \in 1 .. Len(it), it[t] # Len(s[t]),
         NEW it2, Len(it2) = Len(it), it2[t] = Len(s[t]),
         \A k \in 1 .. Len(it) : k # t => it2[k] = it[k],
         NEW U, U = Unended(s, it), NEW U2, U2 = Unended(s, it2),
         NEW T, T = DueTracks(s, it, st, u), NEW T2, T2 = DueTracks(s, it2, st, u)
  PROVE  U2 = U \ {t} /\ T2 = T \ {t} /\ T2 \subseteq U2
<1>1. 1 .. Len(it) \subseteq 1 .. Len(s)
  BY ReadsFields
<1>2. Unended(s, it2) = Unended(s, it) \ {t}
  BY <1>1 DEF Unended
<1>3. DueTracks(s, it2, st, u) = DueTracks(s, it, st, u) \ {t}
  BY DEF DueTracks
<1>4. DueTracks(s, it2, st, u) \subseteq Unended(s, it2)
  BY <1>1 DEF Unended, DueTracks
<1>. QED
  BY <1>2, <1>3, <1>4

----------------------------------------------------------------------------
(* One callback each: the invariant                                        *)

(***************************************************************************)
(* The inductive invariant behind OneCallbackEach: the callbacks in the    *)
(* queue and the one that is held are those that are due, once each.       *)
(***************************************************************************)
EachInv ==
    "overtaken" \notin races =>
        /\ Each(queue, held, Due(song, iter, start, us, song_looping), plays)
        /\ us # None => iter[start] = 0
        /\ song # None => running_tracks = Cardinality(Unended(song, iter))

\* The queue has a place for each track: beyond that it would lose callbacks.
Fits == \A s \in Songs : Len(s) <= MAX_OPL_QUEUE

\* With all but one of the tracks in it there is room for that one.
LEMMA RoomForOne ==
  ASSUME Fits, NEW s, NEW it, Reads(s, it), NEW t \in 1 .. Len(s),
         NEW q \in Entries, Distinct(q), Keys(q) \subseteq 1 .. Len(s), t \notin Keys(q)
  PROVE  Len(q) < MAX_OPL_QUEUE
<1>1. PICK n, K : n = Len(s) /\ K = (1 .. n) \ {t}
  OBVIOUS
<1>2. n \in Nat /\ n <= MAX_OPL_QUEUE /\ MAX_OPL_QUEUE \in Nat /\ Len(q) \in Nat
  BY <1>1, ReadsFields, EntryFields, QueueAssumption DEF Reads, Fits
<1>3. IsFiniteSet(1 .. n) /\ Cardinality(1 .. n) = n /\ t \in 1 .. n
  BY <1>1, UnendedFinite
<1>4. IsFiniteSet(K) /\ Cardinality(K) = n - 1
  BY <1>1, <1>3, FS_RemoveElement
<1>5. Keys(q) \subseteq K
  BY <1>1
<1>6. Len(q) <= Cardinality(K)
  BY <1>4, <1>5, RoomLeft
<1>. QED
  BY <1>2, <1>4, <1>6

LEMMA NoKeys ==
  ASSUME NEW q \in Entries, Keys(q) = {}
  PROVE  Len(q) = 0 /\ \A p : Alone(q, p)
<1>1. Len(q) \in Nat
  BY EntryFields
<1>2. 1 .. Len(q) = {}
  BY DEF Keys
<1>3. Len(q) = 0
  BY <1>1, <1>2
<1>. QED
  BY <1>2, <1>3 DEF Alone, Distinct

\* ScheduleTrack's entry.
LEMMA TrackEntry ==
  ASSUME song \in Songs, plays \in Nat, NEW t \in 1 .. Len(song), NEW n \in Nat,
         NEW tempo \in Nat, NEW x, x = Entry(Wait(t, n, tempo), "Track", plays, t)
  PROVE  x \in EntryType /\ For(x) = t /\ Present(x, plays)
<1>1. PICK time : time = Wait(t, n, tempo)
  OBVIOUS
<1>2. time \in Int
  BY <1>1, WaitIs
<1>3. t \in Nat
  BY SongFields
<1>4. "Track" \in {"Track", "RestartSong"}
  OBVIOUS
<1>5. PICK p : p = plays
  OBVIOUS
<1>6. x = Entry(time, "Track", p, t) /\ p \in Nat
  BY <1>1, <1>5
<1>7. x \in EntryType /\ x.callback = "Track" /\ x.play = p /\ x.track = t
  BY ONLY <1>2, <1>3, <1>4, <1>6, EntryIs
<1>. QED
  BY <1>5, <1>7 DEF For, Present

LEMMA RescheduledAlone ==
  ASSUME Fits, song \in Songs, Reads(song, iter), Len(iter) = Len(song),
         us_per_beat \in Nat, plays \in Nat, queue \in Entries, Keys(queue) = {}, NEW wild
  PROVE  /\ Rescheduled(wild) \in Entries /\ Alone(Rescheduled(wild), plays)
         /\ Keys(Rescheduled(wild)) = 1 .. Len(song)
<1>1. PICK n, p, s, it : n = Len(song) /\ p = plays /\ s = song /\ it = iter
  OBVIOUS
<1>2. n \in Nat /\ Reads(s, it) /\ n = Len(s) /\ n = Len(iter)
  BY <1>1, ReadsFields
<1>3. PICK q : Scheduling(q, n, wild) /\ Rescheduled(wild) = q[n]
  <2>1. n = SongLength
    BY <1>1, MusicAssumption DEF SongLength
  <2>. QED
    BY <1>2, <2>1, RescheduledIs
<1>4. Unstarted = {}
  <2>1. Len(iter) + 1 .. Len(song) = {}
    BY <1>1, <1>2
  <2>. QED
    BY <2>1 DEF Unstarted
<1>. DEFINE e(t) == Entry(Wait(t, 0, us_per_beat), "Track", plays, t)
            Good(t) == q[t] \in Entries /\ Alone(q[t], p) /\ Keys(q[t]) = 1 .. t
            Bad == {t \in 0 .. n : ~Good(t)}
<1>50. \A t \in 0 .. n : q[t] = IF t = 0 THEN queue ELSE OPL_Queue_Push(q[t - 1], e(t))
  <2>. HIDE DEF e
  <2>1. q = [t \in 0 .. n |-> IF t = 0 THEN queue ELSE OPL_Queue_Push(q[t - 1], e(t))]
    BY <1>3, <1>4 DEF Scheduling, Setting, e
  <2>. QED
    BY <2>1
<1>5. ASSUME NEW t \in 1 .. n PROVE e(t) \in EntryType /\ For(e(t)) = t /\ Present(e(t), p)
  <2>1. PICK x : x = e(t)
    OBVIOUS
  <2>2. 0 \in Nat
    OBVIOUS
  <2>3. x \in EntryType /\ For(x) = t /\ Present(x, plays)
    BY <1>1, <2>1, <2>2, TrackEntry
  <2>. HIDE DEF e
  <2>. QED
    BY <1>1, <2>1, <2>3
<1>. HIDE DEF e
<1>6. Good(0)
  <2>1. q[0] = queue
    BY <1>2, <1>50
  <2>2. Alone(queue, p)
    BY NoKeys
  <2>3. 1 .. 0 = {}
    OBVIOUS
  <2>. QED
    BY <2>1, <2>2, <2>3
<1>7. ASSUME NEW k \in 1 .. n, Good(k - 1) PROVE Good(k)
  <2>1. PICK r, x : r = q[k - 1] /\ x = e(k)
    OBVIOUS
  <2>2. q[k] = OPL_Queue_Push(r, x)
    BY <1>2, <1>50, <2>1
  <2>3. /\ r \in Entries /\ Alone(r, p) /\ Keys(r) = 1 .. k - 1
        /\ x \in EntryType /\ For(x) = k /\ Present(x, p)
    BY <1>5, <1>7, <2>1
  <2>4. k \notin 1 .. k - 1 /\ 1 .. k - 1 \subseteq 1 .. n /\ 1 .. k = (1 .. k - 1) \cup {k}
    BY <1>2
  <2>5. Len(r) < MAX_OPL_QUEUE
    <3>1. /\ Keys(r) \subseteq 1 .. Len(s) /\ k \notin Keys(r) /\ k \in 1 .. Len(s)
          /\ Distinct(r)
      BY <1>2, <2>3, <2>4 DEF Alone
    <3>. QED
      BY ONLY Fits, <1>2, <2>3, <3>1, RoomForOne
  <2>6. PICK z : z = OPL_Queue_Push(r, x)
    OBVIOUS
  <2>7. For(x) \notin Keys(r)
    BY <2>3, <2>4
  <2>8. z \in Entries /\ Keys(z) = Keys(r) \cup {For(x)} /\ Alone(z, p)
    BY ONLY <2>3, <2>5, <2>6, <2>7, PushAlone
  <2>. QED
    BY <2>2, <2>3, <2>4, <2>6, <2>8
<1>8. Bad = {}
  <2>. SUFFICES ASSUME Bad # {} PROVE FALSE
    OBVIOUS
  <2>1. PICK k \in Bad : \A j \in Bad : k <= j
    <3>1. Bad \subseteq Nat
      BY <1>2
    <3>. HIDE DEF Bad
    <3>. QED
      BY <3>1, LeastNatural
  <2>2. k # 0 /\ k \in 0 .. n /\ ~Good(k)
    BY <1>6, <2>1
  <2>3. k \in 1 .. n /\ k - 1 \in 0 .. n /\ ~(k <= k - 1)
    BY <1>2, <2>2
  <2>4. Good(k - 1)
    BY <2>1, <2>3
  <2>. HIDE DEF Good, Bad
  <2>. QED
    BY <1>7, <2>2, <2>3, <2>4
<1>9. Good(n)
  BY <1>2, <1>8
<1>. QED
  BY <1>1, <1>3, <1>9

LEMMA DueNothing ==
  ASSUME NEW st, NEW u, NEW loop
  PROVE  Due(None, <<>>, st, u, loop) = {}
  BY DEF Due, DueTracks

LEMMA Playing ==
  ASSUME MusicInv, song # None
  PROVE  /\ song \in Songs /\ Reads(song, iter)
         /\ us_per_beat \in Nat \ {0} /\ plays \in Nat /\ pause_offset \in Nat
         /\ start \in 0 .. Len(song) /\ (us # None => start # 0)
         /\ Len(iter) = IF start = 0 THEN Len(song)
                        ELSE IF us = None THEN start - 1 ELSE start
<1>1. song \in Songs /\ iter \in Seq(Nat) /\ Len(iter) \in 0 .. Len(song) /\ Len(song) \in Nat
  BY ReadingIs DEF MusicInv
<1>2. Reads(song, iter)
  BY <1>1 DEF Reads
<1>3. us_per_beat \in Nat \ {0} /\ plays \in Nat /\ pause_offset \in Nat
  BY MusicAssumption DEF MusicInv, MusicTypes
<1>. QED
  BY <1>1, <1>2, <1>3 DEF MusicInv, Reading

LEMMA HeldDue ==
  ASSUME MusicInv, EachInv, "overtaken" \notin races, held # None
  PROVE  /\ song # None /\ held \in EntryType /\ Present(held, plays)
         /\ queue \in Entries /\ Alone(queue, plays)
         /\ For(held) \in Due(song, iter, start, us, song_looping)
         /\ Keys(queue) = Due(song, iter, start, us, song_looping) \ {For(held)}
<1>1. held \in EntryType /\ queue \in Entries
  BY DEF MusicInv, MusicTypes, Sound
<1>2. /\ Present(held, plays) /\ Alone(queue, plays)
      /\ For(held) \in Due(song, iter, start, us, song_looping)
      /\ Keys(queue) = Due(song, iter, start, us, song_looping) \ {For(held)}
  BY DEF EachInv, Each
<1>3. song # None
  <2>. SUFFICES ASSUME song = None PROVE FALSE
    OBVIOUS
  <2>1. iter = <<>>
    BY DEF MusicInv, Reading
  <2>2. Due(song, iter, start, us, song_looping) = {}
    BY <2>1, DueNothing
  <2>. QED
    BY <1>2, <2>2
<1>. QED
  BY <1>1, <1>2, <1>3

\* What a callback leaves behind that was due.
CalledEach ==
    /\ Alone(queue', plays) /\ Keys(queue') = Due(song, iter', start, us, song_looping)
    /\ us # None => iter'[start] = 0
    /\ running_tracks' = Cardinality(Unended(song, iter'))

LEMMA RestartEach ==
  ASSUME Fits, MusicInv, EachInv, "overtaken" \notin races, held # None,
         held.callback = "RestartSong", RestartSong
  PROVE  CalledEach
<1>1. /\ song # None /\ queue \in Entries
      /\ For(held) \in Due(song, iter, start, us, song_looping)
      /\ Keys(queue) = Due(song, iter, start, us, song_looping) \ {For(held)}
  BY HeldDue
<1>2. /\ song \in Songs /\ Reads(song, iter)
      /\ us_per_beat \in Nat \ {0} /\ plays \in Nat
      /\ start \in 0 .. Len(song) /\ (us # None => start # 0)
  BY <1>1, Playing
<1>3. PICK s, it, st, u, loop : /\ s = song /\ it = iter /\ st = start /\ u = us
                                /\ loop = song_looping
  OBVIOUS
<1>4. PICK D : D = Due(s, it, st, u, loop)
  OBVIOUS
<1>5. For(held) = None
  BY DEF For
<1>6. Reads(s, it) /\ None \in D
  BY <1>1, <1>2, <1>3, <1>4, <1>5
<1>7. D = {None} /\ Len(it) = Len(s) /\ \A t \in 1 .. Len(s) : it[t] = Len(s[t])
  BY ONLY <1>4, <1>6, DueNone
<1>8. /\ DOMAIN it = 1 .. Len(it) /\ Len(s) \in Nat
      /\ \A t \in 1 .. Len(s) : Len(s[t]) \in Nat \ {0}
  BY <1>6, ReadsFields
<1>9. u = None
  <2>. SUFFICES ASSUME u # None PROVE FALSE
    OBVIOUS
  <2>1. st \in 1 .. Len(s)
    BY <1>2, <1>3, <1>8
  <2>2. it[st] = 0
    BY <1>3 DEF EachInv
  <2>. QED
    BY <1>7, <1>8, <2>1, <2>2
<1>10. Keys(queue) = {}
  BY <1>1, <1>3, <1>4, <1>5, <1>7
<1>11. \A wild : Alone(Rescheduled(wild), plays) /\ Keys(Rescheduled(wild)) = 1 .. Len(song)
  <2>1. Len(iter) = Len(song) /\ us_per_beat \in Nat
    BY <1>2, <1>3, <1>7
  <2>. QED
    BY <1>1, <1>2, <1>10, <2>1, RescheduledAlone
<1>12. PICK it2 : it2 = iter'
  OBVIOUS
<1>13. /\ it2 \in Seq(Nat) /\ Len(it2) = Len(s) /\ \A t \in 1 .. Len(s) : it2[t] = 0
       /\ \E wild : queue' = Rescheduled(wild)
       /\ running_tracks' = Len(s)
  BY <1>1, <1>3, <1>7, <1>8, <1>12 DEF RestartSong
<1>14. Reads(s, it2)
  BY <1>6, <1>8, <1>13 DEF Reads
<1>15. Unended(s, it2) = 1 .. Len(s) /\ Due(s, it2, st, None, loop) = 1 .. Len(s)
  BY <1>13, <1>14, DueAgain
<1>16. Cardinality(1 .. Len(s)) = Len(s)
  BY <1>6, UnendedFinite
<1>. QED
  BY <1>3, <1>9, <1>11, <1>12, <1>13, <1>15, <1>16 DEF CalledEach

LEMMA EndEach ==
  ASSUME Fits, MusicInv, EachInv, "overtaken" \notin races, held # None,
         NEW t, t = For(held), t \in 1 .. Len(iter), iter[t] # Len(song[t]),
         Len(iter') = Len(iter), iter'[t] = Len(song[t]),
         \A k \in 1 .. Len(iter) : k # t => iter'[k] = iter[k],
         EndOfTrack
  PROVE  CalledEach
<1>1. /\ song # None /\ queue \in Entries /\ Alone(queue, plays)
      /\ t \in Due(song, iter, start, us, song_looping)
      /\ Keys(queue) = Due(song, iter, start, us, song_looping) \ {t}
      /\ running_tracks = Cardinality(Unended(song, iter))
      /\ us # None => iter[start] = 0
  BY HeldDue DEF EachInv
<1>2. PICK s, it, it2, st, u, loop : /\ s = song /\ it = iter /\ it2 = iter' /\ st = start
                                     /\ u = us /\ loop = song_looping
  OBVIOUS
<1>3. /\ Reads(s, it) /\ (u # None => st = Len(it)) /\ loop \in BOOLEAN
      /\ st \in 0 .. Len(s) /\ (u # None => st # 0)
  <2>1. loop \in BOOLEAN
    BY <1>2, Zenon DEF MusicInv, MusicTypes
  <2>. QED
    BY <1>1, <1>2, <2>1, Playing
<1>4. /\ t \in 1 .. Len(it) /\ it[t] # Len(s[t]) /\ Len(it2) = Len(it)
      /\ it2[t] = Len(s[t]) /\ \A k \in 1 .. Len(it) : k # t => it2[k] = it[k]
  BY <1>2
<1>5. t # None /\ 1 .. Len(it) \subseteq 1 .. Len(s) /\ s # None /\ Len(it) \in Nat
  BY <1>3, <1>4, ReadsFields
<1>6. PICK D : D = Due(s, it, st, u, loop)
  OBVIOUS
<1>7. /\ ~(t = st /\ u # None) /\ t \in Unended(s, it) /\ D = DueTracks(s, it, st, u)
  <2>1. t \in D
    BY <1>1, <1>2, <1>6
  <2>. QED
    BY ONLY <1>3, <1>5, <1>6, <2>1, DueTrack
<1>8. /\ Unended(s, it2) = Unended(s, it) \ {t}
      /\ DueTracks(s, it2, st, u) = D \ {t}
      /\ DueTracks(s, it2, st, u) \subseteq Unended(s, it2)
  <2>1. PICK U, U2, T, T2 : /\ U = Unended(s, it) /\ U2 = Unended(s, it2)
                           /\ T = DueTracks(s, it, st, u) /\ T2 = DueTracks(s, it2, st, u)
    OBVIOUS
  <2>2. U2 = U \ {t} /\ T2 = T \ {t} /\ T2 \subseteq U2
    <3>1. /\ Reads(s, it) /\ t \in 1 .. Len(it) /\ it[t] # Len(s[t]) /\ Len(it2) = Len(it)
          /\ it2[t] = Len(s[t]) /\ \A k \in 1 .. Len(it) : k # t => it2[k] = it[k]
      BY <1>3, <1>4
    <3>. QED
      BY ONLY <2>1, <3>1, DueEnds
  <2>. QED
    BY <1>7, <2>2, <2>1
<1>9. PICK U, U2 : U = Unended(s, it) /\ U2 = Unended(s, it2)
  OBVIOUS
<1>10. IsFiniteSet(U) /\ Cardinality(U) \in Nat
  BY <1>3, <1>9, UnendedFinite
<1>11. /\ Cardinality(U2) = Cardinality(U) - 1 /\ IsFiniteSet(U2)
       /\ Cardinality(U2) \in Nat /\ (Cardinality(U2) = 0 <=> U2 = {})
  <2>1. U2 = U \ {t} /\ t \in U
    BY <1>7, <1>8, <1>9
  <2>2. IsFiniteSet(U2) /\ Cardinality(U2) = Cardinality(U) - 1
    BY <1>10, <2>1, FS_RemoveElement
  <2>. QED
    BY <2>2, FS_CardinalityType, FS_EmptySet
<1>12. running_tracks' = Cardinality(U2) /\ (running_tracks = 1 <=> U2 = {})
  <2>1. running_tracks = Cardinality(U)
    BY <1>1, <1>2, <1>9
  <2>2. running_tracks' = running_tracks - 1
    BY DEF EndOfTrack
  <2>. QED
    BY <1>10, <1>11, <2>1, <2>2
<1>13. u # None => it2[st] = 0
  <2>1. u # None => st \in 1 .. Len(it) /\ st # t /\ it[st] = 0
    BY <1>1, <1>2, <1>3, <1>5, <1>7
  <2>. QED
    BY <1>4, <2>1
<1>14. Keys(queue) = DueTracks(s, it2, st, u)
  BY <1>1, <1>2, <1>6, <1>8
<1>15. CASE U2 = {} /\ loop
  <2>1. Keys(queue) = {}
    BY <1>8, <1>9, <1>14, <1>15
  <2>2. PICK q, e, p : q = queue /\ e = RestartIn(RestartDelay) /\ p = plays
    OBVIOUS
  <2>3. e \in EntryType /\ For(e) = None /\ Present(e, p)
    <3>1. e \in EntryType /\ e.callback = "RestartSong"
      <4>1. RestartDelay \in Int /\ 0 \in Nat /\ "RestartSong" \in {"Track", "RestartSong"}
        BY MusicAssumption
      <4>2. e = Entry(RestartDelay, "RestartSong", 0, 0)
        BY <2>2 DEF RestartIn
      <4>. QED
        BY ONLY <4>1, <4>2, EntryIs
    <3>. QED
      BY <3>1 DEF For, Present
  <2>4. PICK r : r = OPL_Queue_Push(q, e)
    OBVIOUS
  <2>5. q \in Entries /\ Alone(q, p) /\ For(e) \notin Keys(q) /\ Len(q) < MAX_OPL_QUEUE
    BY <1>1, <2>1, <2>2, NoKeys, QueueAssumption
  <2>6. Keys(r) = Keys(q) \cup {For(e)} /\ Alone(r, p)
    BY ONLY <2>3, <2>4, <2>5, PushAlone
  <2>7. queue' = r
    BY <1>2, <1>12, <1>15, <2>2, <2>4 DEF EndOfTrack
  <2>8. Due(s, it2, st, u, loop) = {None}
    BY <1>5, <1>9, <1>15 DEF Due
  <2>9. Keys(r) = {None}
    BY <2>1, <2>2, <2>3, <2>6
  <2>. QED
    BY <1>2, <1>9, <1>12, <1>13, <2>2, <2>6, <2>7, <2>8, <2>9 DEF CalledEach
<1>16. CASE ~(U2 = {} /\ loop)
  <2>1. queue' = queue
    BY <1>2, <1>12, <1>16 DEF EndOfTrack
  <2>2. Due(s, it2, st, u, loop) = DueTracks(s, it2, st, u)
    BY <1>9, <1>16 DEF Due
  <2>. QED
    BY <1>1, <1>2, <1>9, <1>12, <1>13, <1>14, <2>1, <2>2 DEF CalledEach
<1>. QED
  BY <1>15, <1>16

LEMMA TrackEach ==
  ASSUME Fits, MusicInv, EachInv, "overtaken" \notin races, held # None,
         held.callback = "Track", TrackTimerCallback(held.track)
  PROVE  CalledEach
<1>1. PICK t : t = held.track
  OBVIOUS
<1>2. /\ song # None /\ queue \in Entries /\ Alone(queue, plays) /\ t = For(held)
      /\ t \in Due(song, iter, start, us, song_looping)
      /\ Keys(queue) = Due(song, iter, start, us, song_looping) \ {t}
      /\ running_tracks = Cardinality(Unended(song, iter))
      /\ us # None => iter[start] = 0
      /\ held \in EntryType
  BY <1>1, HeldDue DEF EachInv, For
<1>3. /\ song \in Songs /\ Reads(song, iter)
      /\ us_per_beat \in Nat \ {0} /\ plays \in Nat /\ pause_offset \in Nat
      /\ start \in 0 .. Len(song) /\ (us # None => start # 0)
      /\ us # None => start = Len(iter)
  BY <1>2, Playing
<1>4. t \in Nat /\ t # None
  <2>1. \A x \in EntryType : x.track \in Nat
    BY DEF EntryType
  <2>. QED
    BY <1>1, <1>2, <2>1, MusicAssumption
<1>5. PICK s, it, st, u, loop : /\ s = song /\ it = iter /\ st = start
                                /\ u = us /\ loop = song_looping
  OBVIOUS
<1>6. PICK D : D = Due(s, it, st, u, loop)
  OBVIOUS
<1>7. Reads(s, it) /\ t \in D /\ Keys(queue) = D \ {t}
  BY <1>2, <1>3, <1>5, <1>6
<1>8. /\ t \in 1 .. Len(it) /\ it[t] # Len(s[t]) /\ ~(t = st /\ u # None)
      /\ t \in Unended(s, it) /\ D \subseteq 1 .. Len(s)
  BY ONLY <1>4, <1>6, <1>7, DueTrack
<1>9. /\ Len(s) \in Nat /\ Len(it) \in Nat /\ DOMAIN it = 1 .. Len(it)
      /\ 1 .. Len(it) \subseteq 1 .. Len(s) /\ it[t] \in Nat
  BY <1>7, <1>8, ReadsFields
<1>10. it[t] < Len(s[t]) /\ Len(s[t]) \in Nat
  <2>1. it[t] <= Len(s[t])
    <3>1. \A k \in 1 .. Len(iter) : iter[k] <= Len(song[k])
      BY <1>2, ReadingIs DEF MusicInv
    <3>. QED
      BY <1>5, <1>8, <3>1
  <2>2. Len(s[t]) \in Nat
    <3>1. s \in Songs /\ t \in 1 .. Len(s)
      BY <1>3, <1>5, <1>8, <1>9
    <3>. QED
      BY ONLY <3>1, SongFields
  <2>. QED
    BY <1>8, <1>9, <2>1, <2>2
<1>11. PICK event : event = s[t][it[t] + 1]
  OBVIOUS
<1>12. event \in Event /\ (event.type = "END_OF_TRACK" <=> it[t] + 1 = Len(s[t]))
  <2>1. it[t] + 1 \in 1 .. Len(s[t]) /\ t \in 1 .. Len(s) /\ s \in Songs
    <3>1. it[t] + 1 \in 1 .. Len(s[t])
      BY ONLY <1>9, <1>10
    <3>. QED
      BY <1>3, <1>5, <1>8, <1>9, <3>1
  <2>. QED
    BY ONLY <1>11, <2>1, SongFields
<1>13. PICK tempo : tempo = IF event.type = "SET_TEMPO" THEN event.tempo ELSE us_per_beat
  OBVIOUS
<1>14. /\ iter' = [iter EXCEPT ![t] = @ + 1]
       /\ event.type = "END_OF_TRACK" => EndOfTrack
       /\ event.type # "END_OF_TRACK" =>
            /\ \E r \in AtTempo(queue, tempo) \cup {queue} :
                 queue' = OPL_Queue_Push(r,
                            Entry(Wait(t, iter[t] + 1, tempo), "Track", plays, t))
            /\ UNCHANGED running_tracks
  BY <1>1, <1>5, <1>8, <1>11, <1>13 DEF TrackTimerCallback
<1>15. PICK it2 : it2 = iter'
  OBVIOUS
<1>16. /\ Len(it2) = Len(it) /\ it2[t] = it[t] + 1
       /\ \A k \in 1 .. Len(it) : k # t => it2[k] = it[k]
  <2>1. it \in Seq(Nat)
    BY <1>7 DEF Reads
  <2>2. it2 = [it EXCEPT ![t] = it[t] + 1]
    BY <1>5, <1>14, <1>15
  <2>. QED
    BY <1>8, <1>9, <2>1, <2>2
<1>17. CASE event.type = "END_OF_TRACK"
  <2>1. it2[t] = Len(s[t]) /\ EndOfTrack
    BY <1>12, <1>14, <1>16, <1>17
  <2>2. /\ t = For(held) /\ t \in 1 .. Len(iter) /\ iter[t] # Len(song[t])
        /\ Len(iter') = Len(iter) /\ iter'[t] = Len(song[t])
        /\ \A k \in 1 .. Len(iter) : k # t => iter'[k] = iter[k]
    BY <1>2, <1>5, <1>8, <1>15, <1>16, <2>1
  <2>. QED
    BY <2>1, <2>2, EndEach
<1>18. CASE event.type # "END_OF_TRACK"
  <2>1. it2[t] # Len(s[t])
    BY <1>12, <1>16, <1>18
  <2>2. Unended(s, it2) = Unended(s, it) /\ Due(s, it2, st, u, loop) = D
    BY ONLY <1>6, <1>7, <1>8, <1>16, <2>1, DueGoesOn
  <2>3. tempo \in Nat \ {0}
    BY <1>3, <1>12, <1>13, EventFields
  <2>4. PICK q, p, r :
           /\ q = queue /\ p = plays /\ r \in AtTempo(q, tempo) \cup {q}
           /\ queue' = OPL_Queue_Push(r,
                           Entry(Wait(t, iter[t] + 1, tempo), "Track", plays, t))
    BY <1>14, <1>18
  <2>5. r \in Entries /\ Keys(r) = D \ {t} /\ Alone(r, p)
    <3>1. q \in Entries /\ Alone(q, p) /\ Keys(q) = D \ {t}
      BY <1>2, <1>7, <2>4
    <3>2. CASE r = q
      BY <3>1, <3>2
    <3>3. CASE r \in AtTempo(q, tempo)
      BY <1>3, <2>3, <3>1, <3>3, AtTempoAlone
    <3>. QED
      BY <2>4, <3>2, <3>3
  <2>6. Len(r) < MAX_OPL_QUEUE
    <3>1. /\ Distinct(r) /\ Keys(r) \subseteq 1 .. Len(s) /\ t \notin Keys(r)
          /\ t \in 1 .. Len(s)
      BY <1>8, <1>9, <2>5 DEF Alone
    <3>. QED
      BY ONLY Fits, <1>7, <2>5, <3>1, RoomForOne
  <2>7. PICK e : e = Entry(Wait(t, it[t] + 1, tempo), "Track", plays, t)
    OBVIOUS
  <2>8. e \in EntryType /\ For(e) = t /\ Present(e, p)
    <3>1. PICK n : n = it[t] + 1
      OBVIOUS
    <3>2. /\ song \in Songs /\ plays \in Nat /\ t \in 1 .. Len(song) /\ n \in Nat
          /\ tempo \in Nat /\ e = Entry(Wait(t, n, tempo), "Track", plays, t)
      <4>1. n \in Nat /\ tempo \in Nat
        BY ONLY <1>9, <2>3, <3>1
      <4>2. e = Entry(Wait(t, n, tempo), "Track", plays, t)
        BY <2>7, <3>1
      <4>3. song \in Songs /\ plays \in Nat /\ t \in 1 .. Len(song)
        BY <1>3, <1>5, <1>8, <1>9
      <4>. QED
        BY <4>1, <4>2, <4>3
    <3>3. e \in EntryType /\ For(e) = t /\ Present(e, plays)
      BY ONLY <3>2, TrackEntry
    <3>. QED
      BY <2>4, <3>3
  <2>9. PICK z : z = OPL_Queue_Push(r, e)
    OBVIOUS
  <2>10. For(e) \notin Keys(r)
    BY <2>5, <2>8
  <2>11. Keys(z) = Keys(r) \cup {For(e)} /\ Alone(z, p)
    BY ONLY <2>5, <2>6, <2>8, <2>9, <2>10, PushAlone
  <2>12. Keys(z) = D
    BY <1>7, <2>5, <2>8, <2>11
  <2>13. queue' = z /\ running_tracks' = running_tracks
    BY <1>5, <1>14, <1>18, <2>4, <2>7, <2>9
  <2>14. u # None => it2[st] = 0
    <3>1. u # None => st \in 1 .. Len(it) /\ st # t /\ it[st] = 0
      BY <1>2, <1>3, <1>5, <1>8, <1>9
    <3>. QED
      BY <1>16, <3>1
  <2>. QED
    BY <1>2, <1>5, <1>15, <2>2, <2>4, <2>11, <2>12, <2>13, <2>14 DEF CalledEach
<1>. QED
  BY <1>17, <1>18

LEMMA Undisturbed ==
  ASSUME EachInv, races \subseteq races',
         UNCHANGED <<song, iter, start, us, song_looping, running_tracks, plays>>,
         "overtaken" \notin races =>
             Each(queue', held', Due(song, iter, start, us, song_looping), plays)
  PROVE  EachInv'
<1>. SUFFICES ASSUME "overtaken" \notin races' PROVE
        /\ Each(queue', held', Due(song', iter', start', us', song_looping'), plays')
        /\ us' # None => iter'[start'] = 0
        /\ song' # None => running_tracks' = Cardinality(Unended(song', iter'))
  BY DEF EachInv
<1>1. "overtaken" \notin races
  OBVIOUS
<1>2. /\ us # None => iter[start] = 0
      /\ song # None => running_tracks = Cardinality(Unended(song, iter))
  BY <1>1 DEF EachInv
<1>. QED
  BY <1>1, <1>2

LEMMA AdvanceEach ==
  ASSUME MusicInv, EachInv, AdvanceTime \/ AdvanceOn
  PROVE  EachInv'
<1>1. held = None /\ queue \in Entries /\ None \notin EntryType
  BY MusicAssumption DEF MusicInv, MusicTypes, Sound, AdvanceTime, AdvanceOn
<1>2. /\ races \subseteq races'
      /\ UNCHANGED <<song, iter, start, us, song_looping, running_tracks, plays>>
  BY DEF AdvanceTime, AdvanceOn, songVars, mainVars
<1>3. ASSUME "overtaken" \notin races
      PROVE  Each(queue', held', Due(song, iter, start, us, song_looping), plays)
  <2>1. PICK p, D : p = plays /\ D = Due(song, iter, start, us, song_looping)
    OBVIOUS
  <2>2. Alone(queue, p) /\ Keys(queue) = D
    BY <1>1, <1>3, <2>1 DEF EachInv, Each
  <2>3. \E q \in Entries : PopDue(q) /\ Alone(q, p) /\ Keys(q) = D
    <3>1. ASSUME AdvanceTime, ~opl_sdl_paused
          PROVE  \E q \in Entries : PopDue(q) /\ Alone(q, p) /\ Keys(q) = D
      <4>1. PICK q, ns : q = queue /\ ns = TimeOf(nsamples)
        OBVIOUS
      <4>2. PICK r : r = [i \in DOMAIN q |-> [q[i] EXCEPT !.time = @ - ns]]
        OBVIOUS
      <4>3. ns \in Nat /\ q \in Entries /\ Alone(q, p) /\ Keys(q) = D
        BY <1>1, <2>2, <4>1, TimeOfIs, MusicAssumption DEF MusicInv, MusicTypes
      <4>4. r \in Entries /\ Keys(r) = Keys(q) /\ Alone(r, p)
        BY ONLY <4>2, <4>3, PassAlone
      <4>5. PopDue(r)
        BY <3>1, <4>1, <4>2 DEF AdvanceTime
      <4>. QED
        BY <4>3, <4>4, <4>5
    <3>2. ASSUME AdvanceOn \/ (AdvanceTime /\ opl_sdl_paused)
          PROVE  \E q \in Entries : PopDue(q) /\ Alone(q, p) /\ Keys(q) = D
      <4>1. PopDue(queue)
        BY <3>2 DEF AdvanceOn, AdvanceTime
      <4>. QED
        BY <1>1, <2>2, <4>1
    <3>. QED
      BY <3>1, <3>2
  <2>4. PICK q \in Entries : PopDue(q) /\ Alone(q, p) /\ Keys(q) = D
    BY <2>3
  <2>5. Each(queue', held', Keys(q), p)
    BY ONLY <1>1, <2>4, PopDueEach
  <2>. QED
    BY <2>1, <2>4, <2>5
<1>. QED
  BY <1>2, <1>3, Undisturbed

LEMMA CallEach ==
  ASSUME Fits, MusicInv, EachInv, CallCallback
  PROVE  EachInv'
<1>1. /\ held' = None /\ races \subseteq races'
      /\ UNCHANGED <<song, song_looping, start, us, plays>>
  BY DEF CallCallback, mainVars
<1>. SUFFICES ASSUME "overtaken" \notin races PROVE EachInv'
  BY <1>1 DEF EachInv
<1>2. held # None
  BY DEF MusicInv, MusicTypes, CallCallback
<1>3. song # None /\ held \in EntryType /\ Present(held, plays)
  BY <1>2, HeldDue
<1>4. CalledEach
  <2>1. CASE held.callback = "RestartSong"
    BY <1>2, <2>1, RestartEach DEF CallCallback
  <2>2. CASE held.callback # "RestartSong"
    <3>1. held.callback = "Track"
      BY <1>3, <2>2 DEF EntryType
    <3>2. ~Stale(held)
      BY <1>3, <3>1 DEF Stale, Present
    <3>. QED
      BY <1>2, <2>2, <3>1, <3>2, TrackEach DEF CallCallback
  <2>. QED
    BY <2>1, <2>2
<1>. QED
  BY <1>1, <1>4 DEF CalledEach, EachInv, Each

LEMMA PlayEach ==
  ASSUME MusicInv, EachInv, I_OPL_PlaySong
  PROVE  EachInv'
<1>1. /\ song = None /\ song' \in Songs /\ iter' = <<>> /\ running_tracks' = Len(song')
      /\ UNCHANGED <<queue, held, us, races>>
  BY DEF I_OPL_PlaySong, driverVars, audioVars
<1>2. iter = <<>> /\ us = None /\ queue \in Entries
  BY <1>1 DEF MusicInv, Reading, Sound
<1>. SUFFICES ASSUME "overtaken" \notin races PROVE EachInv'
  BY <1>1 DEF EachInv
<1>3. held = None /\ Keys(queue) = {}
  <2>1. Due(song, iter, start, us, song_looping) = {}
    BY <1>1, <1>2, DueNothing
  <2>. QED
    BY <2>1 DEF EachInv, Each
<1>4. \A p : Alone(queue, p)
  BY <1>2, <1>3, NoKeys
<1>5. PICK s, it : s = song' /\ it = iter'
  OBVIOUS
<1>6. Len(s) \in Nat \ {0} /\ Len(it) = 0 /\ Reads(s, it)
  BY <1>1, <1>5, SongFields DEF Reads
<1>7. Unended(s, it) = 1 .. Len(s) /\ 1 \in 1 .. Len(s)
  BY <1>6 DEF Unended
<1>8. Due(s, it, start', us', song_looping') = {}
  BY <1>6, <1>7 DEF Due, DueTracks
<1>9. Cardinality(Unended(s, it)) = Len(s)
  BY <1>6, <1>7, UnendedFinite
<1>. QED
  BY <1>1, <1>2, <1>3, <1>4, <1>5, <1>8, <1>9 DEF EachInv, Each

LEMMA StartEach ==
  ASSUME MusicInv, EachInv, StartTrack
  PROVE  EachInv'
<1>1. /\ start > 0 /\ us = None /\ song # None
      /\ iter' = Append(iter, 0) /\ us' = Wait(start, 0, us_per_beat)
      /\ UNCHANGED <<queue, held, song, running_tracks, song_looping, start, plays, races>>
  BY DEF MusicInv, Reading, StartTrack, driverVars, audioVars
<1>. SUFFICES ASSUME "overtaken" \notin races PROVE EachInv'
  BY <1>1 DEF EachInv
<1>2. /\ song \in Songs /\ Reads(song, iter) /\ us_per_beat \in Nat \ {0}
      /\ start \in 0 .. Len(song) /\ Len(iter) = start - 1
  BY <1>1, Playing
<1>3. PICK s, it, it2, st, u, loop : /\ s = song /\ it = iter /\ it2 = iter' /\ st = start
                                     /\ u = us' /\ loop = song_looping
  OBVIOUS
<1>4. /\ Reads(s, it) /\ it2 = Append(it, 0) /\ Len(s) \in Nat /\ Len(it) \in Nat
      /\ st = Len(it) + 1 /\ st <= Len(s) /\ st \in 1 .. Len(s)
  <2>1. Reads(s, it) /\ it2 = Append(it, 0) /\ st \in 0 .. Len(s) /\ Len(it) = st - 1 /\ st > 0
    BY <1>1, <1>2, <1>3
  <2>2. Len(s) \in Nat /\ Len(it) \in Nat
    BY <2>1, ReadsFields
  <2>. QED
    BY <2>1, <2>2
<1>5. u # None
  <2>1. song \in Songs /\ st \in 1 .. Len(song) /\ 0 \in Nat /\ us_per_beat \in Nat
    BY <1>2, <1>3, <1>4
  <2>2. Wait(st, 0, us_per_beat) \in Nat
    BY ONLY <2>1, WaitIs
  <2>. QED
    BY <1>1, <1>3, <2>2, MusicAssumption
<1>6. /\ it2[st] = 0 /\ Unended(s, it2) = Unended(s, it)
      /\ Due(s, it2, st, u, loop) = Due(s, it, st, None, loop)
  <2>1. Len(it2) = st /\ it2[st] = 0 /\ \A t \in 1 .. Len(it) : it2[t] = it[t]
    BY <1>4 DEF Reads
  <2>2. Reads(s, it) /\ st \in 1 .. Len(s) /\ Len(it) = st - 1
    BY <1>4
  <2>3. /\ Unended(s, it2) = Unended(s, it)
        /\ Due(s, it2, st, u, loop) = Due(s, it, st, None, loop)
    BY ONLY <1>5, <2>1, <2>2, DueStart
  <2>. QED
    BY <2>1, <2>3
<1>7. /\ Each(queue, held, Due(s, it, st, None, loop), plays)
      /\ running_tracks = Cardinality(Unended(s, it))
  BY <1>1, <1>3 DEF EachInv
<1>. QED
  BY <1>1, <1>3, <1>6, <1>7 DEF EachInv

LEMMA SetEach ==
  ASSUME Fits, MusicInv, EachInv, SetCallback
  PROVE  EachInv'
<1>1. /\ us # None /\ us' = None
      /\ queue' = OPL_Queue_Push(queue, Entry(us, "Track", plays, start))
      /\ UNCHANGED <<held, song, iter, running_tracks, song_looping, plays, races>>
  BY DEF SetCallback, audioVars, songVars
<1>. SUFFICES ASSUME "overtaken" \notin races PROVE EachInv'
  BY <1>1 DEF EachInv
<1>2. song # None
  BY <1>1 DEF MusicInv, Reading
<1>3. /\ Reads(song, iter) /\ plays \in Nat /\ us \in Nat
      /\ start \in 0 .. Len(song) /\ start # 0 /\ Len(iter) = start
      /\ queue \in Entries /\ iter[start] = 0
      /\ Each(queue, held, Due(song, iter, start, us, song_looping), plays)
      /\ running_tracks = Cardinality(Unended(song, iter))
  BY <1>1, <1>2, Playing DEF MusicInv, MusicTypes, Sound, EachInv
<1>4. PICK s, it, st, u, loop, st2, q, p, h :
         /\ s = song /\ it = iter /\ st = start /\ u = us /\ loop = song_looping
         /\ st2 = start' /\ q = queue /\ p = plays /\ h = held
  OBVIOUS
<1>5. PICK D : D = Due(s, it, st, u, loop)
  OBVIOUS
<1>6. /\ Reads(s, it) /\ st \in 1 .. Len(it) /\ it[st] = 0 /\ u # None /\ u \in Nat
      /\ q \in Entries /\ Each(q, h, D, p) /\ p \in Nat
  <2>1. st \in 1 .. Len(it)
    <3>1. Len(it) \in Nat /\ Len(it) = st /\ st # 0
      BY <1>3, <1>4, ReadsFields
    <3>. QED
      BY <3>1
  <2>. QED
    BY <1>1, <1>3, <1>4, <1>5, <2>1
<1>7. PICK D2 : D2 = Due(s, it, st2, None, loop)
  OBVIOUS
<1>8. D2 = D \cup {st} /\ D \subseteq 1 .. Len(s) /\ st \notin D /\ st \in 1 .. Len(s)
  BY ONLY <1>5, <1>6, <1>7, DueSet
<1>9. PICK e : e = Entry(u, "Track", p, st)
  OBVIOUS
<1>10. e \in EntryType /\ For(e) = st /\ Present(e, p)
  <2>1. u \in Int /\ "Track" \in {"Track", "RestartSong"} /\ st \in Nat /\ p \in Nat
    BY <1>6, <1>8, ReadsFields
  <2>2. e \in EntryType /\ e.callback = "Track" /\ e.play = p /\ e.track = st
    BY ONLY <1>9, <2>1, EntryIs
  <2>. QED
    BY <2>2 DEF For, Present
<1>11. Alone(q, p) /\ Distinct(q) /\ Keys(q) \subseteq D
  BY <1>6 DEF Each, Alone
<1>12. Len(q) < MAX_OPL_QUEUE
  <2>1. Keys(q) \subseteq 1 .. Len(s) /\ st \notin Keys(q)
    BY <1>8, <1>11
  <2>. QED
    BY ONLY Fits, <1>6, <1>8, <1>11, <2>1, RoomForOne
<1>13. PICK r : r = OPL_Queue_Push(q, e)
  OBVIOUS
<1>14. Keys(r) = Keys(q) \cup {For(e)} /\ Alone(r, p)
  <2>1. For(e) \notin Keys(q)
    BY <1>8, <1>10, <1>11
  <2>. QED
    BY ONLY <1>6, <1>10, <1>11, <1>12, <1>13, <2>1, PushAlone
<1>15. Each(r, h, D2, p)
  <2>1. CASE h = None
    <3>1. Keys(r) = D2
      BY <1>6, <1>8, <1>10, <1>14, <2>1 DEF Each
    <3>. QED
      BY <1>14, <2>1, <3>1 DEF Each
  <2>2. CASE h # None
    <3>1. For(h) \in D /\ Keys(q) = D \ {For(h)} /\ Present(h, p)
      BY <1>6, <2>2 DEF Each
    <3>2. Keys(r) = D2 \ {For(h)} /\ For(h) \in D2
      BY <1>8, <1>10, <1>14, <3>1
    <3>. QED
      BY <1>14, <2>2, <3>1, <3>2 DEF Each
  <2>. QED
    BY <2>1, <2>2
<1>16. queue' = r
  BY <1>1, <1>4, <1>9, <1>13
<1>. QED
  BY <1>1, <1>3, <1>4, <1>7, <1>15, <1>16 DEF EachInv

LEMMA StopEach ==
  ASSUME MusicInv, EachInv, S_StopMusic
  PROVE  EachInv'
<1>1. /\ queue' = <<>> /\ song' = None /\ iter' = <<>> /\ us = None /\ us' = us
      /\ held' = held
      /\ races' = IF held # None THEN races \cup {"overtaken"} ELSE races
  BY DEF MusicInv, Reading, S_StopMusic, audioVars, mainVars
<1>. SUFFICES ASSUME "overtaken" \notin races' PROVE EachInv'
  BY DEF EachInv
<1>2. held = None
  BY <1>1
<1>3. <<>> \in Entries /\ Len(<<>>) = 0
  BY DEF Entries
<1>4. Keys(<<>>) = {}
  BY <1>3 DEF Keys
<1>5. \A p : Alone(<<>>, p)
  BY <1>3, <1>4, NoKeys
<1>6. Due(song', iter', start', us', song_looping') = {}
  BY <1>1, DueNothing
<1>. QED
  BY <1>1, <1>2, <1>4, <1>5, <1>6 DEF EachInv, Each

LEMMA EachStep ==
  ASSUME Fits, MusicInv, EachInv, [Next]_vars
  PROVE  EachInv'
<1>1. ASSUME \/ Mix \/ S_PauseSound \/ S_ResumeSound
             \/ UNCHANGED vars
      PROVE  EachInv'
  <2>1. UNCHANGED <<queue, held, song, iter, start, us, song_looping, running_tracks,
                    plays, races>>
    BY <1>1 DEF Mix, S_PauseSound, S_ResumeSound, vars, driverVars, audioVars, songVars,
                mainVars
  <2>2. "overtaken" \notin races =>
           Each(queue', held', Due(song, iter, start, us, song_looping), plays)
    BY <2>1 DEF EachInv
  <2>. QED
    BY <2>1, <2>2, Undisturbed
<1>2. CASE Audio
  BY <1>1, <1>2, AdvanceEach, CallEach DEF Audio
<1>3. CASE Game
  BY <1>1, <1>3, PlayEach, StartEach, SetEach, StopEach DEF Game, Starting
<1>. QED
  BY <1>1, <1>2, <1>3 DEF Next

\* How often something is waited for in a queue that waits for nothing twice.
LEMMA OneOf ==
  ASSUME NEW c, Len(c) \in Nat, Distinct(c), NEW k,
         NEW S, S = {i \in 1 .. Len(c) : For(c[i]) = k}
  PROVE  /\ k \in Keys(c) => Cardinality(S) = 1
         /\ k \notin Keys(c) => Cardinality(S) = 0
<1>1. CASE k \in Keys(c)
  <2>1. PICK i \in 1 .. Len(c) : For(c[i]) = k
    BY <1>1 DEF Keys
  <2>2. S = {i}
    BY <2>1 DEF Distinct
  <2>. QED
    BY <1>1, <2>2, FS_Singleton
<1>2. CASE k \notin Keys(c)
  <2>1. S = {}
    BY <1>2 DEF Keys
  <2>. QED
    BY <1>2, <2>1, FS_EmptySet
<1>. QED
  BY <1>1, <1>2

\* The queue with the callback that is held before it.
Both(h, q) == (IF h = None THEN <<>> ELSE <<h>>) \o q

LEMMA WithHeld ==
  ASSUME NEW q \in Entries, NEW h \in EntryType \cup {None}, NEW due, NEW p,
         Each(q, h, due, p),
         NEW c, c = Both(h, q)
  PROVE  /\ Len(c) \in Nat /\ DOMAIN c = 1 .. Len(c) /\ Distinct(c) /\ Keys(c) = due
         /\ \A i \in 1 .. Len(c) : c[i] \in EntryType
<1>1. /\ Len(q) \in Nat /\ DOMAIN q = 1 .. Len(q) /\ q \in Seq(EntryType)
      /\ \A i \in 1 .. Len(q) : q[i] \in EntryType
  BY EntryFields DEF Entries
<1>2. Distinct(q)
  BY DEF Each, Alone
<1>3. CASE h = None
  <2>1. c = <<>> \o q
    BY <1>3 DEF Both
  <2>2. /\ Len(c) = Len(q) /\ DOMAIN c = 1 .. Len(c)
        /\ \A i \in 1 .. Len(q) : c[i] = q[i]
    BY <1>1, <2>1
  <2>3. Keys(q) = due
    BY <1>3 DEF Each
  <2>4. Keys(c) = Keys(q)
    BY <2>2 DEF Keys
  <2>5. Distinct(c)
    BY <1>2, <2>2 DEF Distinct
  <2>. QED
    BY <1>1, <2>2, <2>3, <2>4, <2>5
<1>4. CASE h # None
  <2>1. h \in EntryType /\ c = <<h>> \o q
    BY <1>4 DEF Both
  <2>2. /\ Len(c) = Len(q) + 1 /\ DOMAIN c = 1 .. Len(c) /\ c[1] = h
        /\ \A i \in 2 .. Len(q) + 1 : c[i] = q[i - 1]
    BY <1>1, <2>1
  <2>3. For(h) \in due /\ Keys(q) = due \ {For(h)}
    BY <1>4 DEF Each
  <2>4. \A i \in 1 .. Len(c) : i = 1 \/ (i \in 2 .. Len(q) + 1 /\ i - 1 \in 1 .. Len(q))
    BY <1>1, <2>2
  <2>5. \A i \in 1 .. Len(q) : i + 1 \in 1 .. Len(c) /\ c[i + 1] = q[i]
    BY <1>1, <2>2
  <2>6. Keys(c) \subseteq Keys(q) \cup {For(h)}
    BY <2>2, <2>4 DEF Keys
  <2>7. Keys(q) \cup {For(h)} \subseteq Keys(c)
    <3>1. For(h) \in Keys(c)
      BY <1>1, <2>2 DEF Keys
    <3>2. Keys(q) \subseteq Keys(c)
      BY <2>5 DEF Keys
    <3>. QED
      BY <3>1, <3>2
  <2>8. Distinct(c)
    <3>. SUFFICES ASSUME NEW i \in 1 .. Len(c), NEW j \in 1 .. Len(c), For(c[i]) = For(c[j])
         PROVE  i = j
      BY DEF Distinct
    <3>1. ASSUME NEW k \in 1 .. Len(c), k # 1 PROVE For(c[k]) \in Keys(q) /\ For(c[k]) # For(h)
      BY <2>2, <2>3, <2>4, <3>1 DEF Keys
    <3>2. CASE i = 1 \/ j = 1
      BY <2>2, <3>1, <3>2
    <3>3. CASE i # 1 /\ j # 1
      <4>1. PICK k, l : k = i - 1 /\ l = j - 1
        OBVIOUS
      <4>2. /\ k \in 1 .. Len(q) /\ l \in 1 .. Len(q) /\ c[i] = q[k] /\ c[j] = q[l]
        BY <2>2, <2>4, <3>3, <4>1
      <4>3. k = l
        BY <1>2, <4>2 DEF Distinct
      <4>. QED
        BY <4>1, <4>3
    <3>. QED
      BY <3>2, <3>3
  <2>9. \A i \in 1 .. Len(c) : c[i] \in EntryType
    BY <1>1, <2>1, <2>2, <2>4
  <2>. QED
    BY <1>1, <2>2, <2>3, <2>6, <2>7, <2>8, <2>9
<1>. QED
  BY <1>3, <1>4

LEMMA EachMeans ==
  ASSUME MusicInv, EachInv
  PROVE  OneCallbackEach
<1>. SUFFICES ASSUME song # None, "overtaken" \notin races PROVE
        /\ \A t \in DOMAIN iter :
             Pending(t) = IF Ended(t) \/ (t = start /\ us # None) THEN 0 ELSE 1
        /\ Restarts = IF song_looping /\ \A t \in Tracks : Ended(t) THEN 1 ELSE 0
        /\ running_tracks = Cardinality({t \in Tracks : ~Ended(t)})
  BY DEF OneCallbackEach
<1>1. PICK c, s, it, st, u, loop, D, U :
         /\ c = Callbacks /\ s = song /\ it = iter /\ st = start /\ u = us
         /\ loop = song_looping /\ D = Due(s, it, st, u, loop) /\ U = Unended(s, it)
  OBVIOUS
<1>2. /\ Len(c) \in Nat /\ DOMAIN c = 1 .. Len(c) /\ Distinct(c) /\ Keys(c) = D
      /\ \A i \in 1 .. Len(c) : c[i] \in EntryType
  <2>1. PICK q, h, p : q = queue /\ h = held /\ p = plays
    OBVIOUS
  <2>2. q \in Entries /\ h \in EntryType \cup {None}
    BY <2>1 DEF MusicInv, MusicTypes, Sound
  <2>3. Each(q, h, D, p)
    BY <1>1, <2>1 DEF EachInv
  <2>4. c = Both(h, q)
    BY <1>1, <2>1 DEF Callbacks, Both
  <2>. QED
    BY ONLY <2>2, <2>3, <2>4, WithHeld
<1>3. Reads(s, it) /\ s # None /\ DOMAIN s = 1 .. Len(s)
  <2>1. song \in Songs /\ Reads(song, iter)
    BY Playing
  <2>. QED
    BY <1>1, <2>1, SongFields
<1>4. /\ DOMAIN it = 1 .. Len(it) /\ 1 .. Len(it) \subseteq 1 .. Len(s)
      /\ \A t \in 1 .. Len(s) : t # None /\ t \in Nat
  BY <1>3, ReadsFields
<1>5. \A x \in EntryType : /\ x.track # None
                           /\ x.callback = "Track" \/ x.callback = "RestartSong"
  <2>1. \A x \in EntryType : x.track \in Nat /\ x.callback \in {"Track", "RestartSong"}
    BY DEF EntryType
  <2>. QED
    BY <2>1, MusicAssumption
<1>6. \A t \in 1 .. Len(s) : Ended(t) <=> t \notin U
  BY <1>1, <1>4 DEF Ended, Unended
<1>7. ASSUME NEW t \in DOMAIN iter
      PROVE  Pending(t) = IF Ended(t) \/ (t = start /\ us # None) THEN 0 ELSE 1
  <2>1. t \in 1 .. Len(it) /\ t \in 1 .. Len(s) /\ t # None
    BY <1>1, <1>4, <1>7
  <2>2. PICK S : S = {i \in 1 .. Len(c) : For(c[i]) = t}
    OBVIOUS
  <2>3. Pending(t) = Cardinality(S)
    <3>1. \A i \in 1 .. Len(c) : For(c[i]) = t <=> /\ c[i].callback = "Track"
                                                   /\ c[i].track = t
      BY <2>1 DEF For
    <3>2. S = {i \in DOMAIN c : c[i].callback = "Track" /\ c[i].track = t}
      BY <1>2, <2>2, <3>1
    <3>. QED
      BY <1>1, <3>2 DEF Pending
  <2>4. /\ t \in D => Cardinality(S) = 1
        /\ t \notin D => Cardinality(S) = 0
    BY <1>2, <2>2, OneOf
  <2>5. t \in D <=> ~(Ended(t) \/ (t = start /\ us # None))
    <3>1. t \in DueTracks(s, it, st, u) <=> /\ it[t] # Len(s[t])
                                            /\ ~(t = st /\ u # None)
      BY <2>1 DEF DueTracks
    <3>2. Ended(t) <=> it[t] = Len(s[t])
      BY <1>1, <1>7 DEF Ended
    <3>3. CASE loop /\ U = {}
      <4>1. D = {None} /\ Ended(t)
        BY <1>1, <1>3, <1>6, <2>1, <3>3 DEF Due
      <4>. QED
        BY <2>1, <4>1
    <3>4. CASE ~(loop /\ U = {})
      <4>1. D = DueTracks(s, it, st, u)
        BY <1>1, <3>4 DEF Due
      <4>. QED
        BY <1>1, <3>1, <3>2, <4>1
    <3>. QED
      BY <3>3, <3>4
  <2>. QED
    BY <2>3, <2>4, <2>5
<1>8. Tracks = 1 .. Len(s)
  BY <1>1, <1>3 DEF Tracks
<1>9. Restarts = IF song_looping /\ \A t \in Tracks : Ended(t) THEN 1 ELSE 0
  <2>1. PICK S : S = {i \in 1 .. Len(c) : For(c[i]) = None}
    OBVIOUS
  <2>2. Restarts = Cardinality(S)
    <3>1. \A i \in 1 .. Len(c) : For(c[i]) = None <=> c[i].callback = "RestartSong"
      BY <1>2, <1>5 DEF For
    <3>2. S = {i \in DOMAIN c : c[i].callback = "RestartSong"}
      BY <1>2, <2>1, <3>1
    <3>. QED
      BY <1>1, <3>2 DEF Restarts
  <2>3. /\ None \in D => Cardinality(S) = 1
        /\ None \notin D => Cardinality(S) = 0
    BY <1>2, <2>1, OneOf
  <2>4. None \notin DueTracks(s, it, st, u)
    BY <1>4 DEF DueTracks
  <2>5. None \in D <=> loop /\ U = {}
    BY <1>1, <1>3, <2>4 DEF Due
  <2>6. U = {} <=> \A t \in Tracks : Ended(t)
    <3>1. U \subseteq 1 .. Len(s)
      BY <1>1 DEF Unended
    <3>. QED
      BY <1>6, <1>8, <3>1
  <2>. QED
    BY <1>1, <2>2, <2>3, <2>5, <2>6
<1>10. running_tracks = Cardinality({t \in Tracks : ~Ended(t)})
  <2>1. U \subseteq 1 .. Len(s)
    BY <1>1 DEF Unended
  <2>2. U = {t \in Tracks : ~Ended(t)}
    BY <1>6, <1>8, <2>1
  <2>3. running_tracks = Cardinality(U)
    BY <1>1 DEF EachInv
  <2>. QED
    BY <2>2, <2>3
<1>. QED
  BY <1>7, <1>9, <1>10

LEMMA EachInit == Init => EachInv
<1>. SUFFICES ASSUME Init PROVE EachInv
  OBVIOUS
<1>1. queue = <<>> /\ held = None /\ song = None /\ iter = <<>> /\ us = None
  BY DEF Init
<1>2. <<>> \in Entries /\ Len(<<>>) = 0
  BY DEF Entries
<1>3. Keys(<<>>) = {} /\ \A p : Alone(<<>>, p)
  BY <1>2, NoKeys DEF Keys
<1>4. Due(song, iter, start, us, song_looping) = {}
  BY <1>1, DueNothing
<1>. QED
  BY <1>1, <1>3, <1>4 DEF EachInv, Each

\* Each track has one callback until it ends, and the song one to repeat it when
\* all have; TrackTimerCallback's count of running tracks is right
\* (i_oplmusic.c:1363-1425).  The queue must have a place for every track.
THEOREM OneCallbackEachCorrect ==
  ASSUME Fits
  PROVE  Spec => []OneCallbackEach
<1>1. Init => MusicInv /\ EachInv
  BY MusicInit, EachInit
<1>2. MusicInv /\ EachInv /\ [Next]_vars => (MusicInv /\ EachInv)'
  BY MusicStep, EachStep
<1>3. MusicInv /\ EachInv => OneCallbackEach
  BY EachMeans
<1>. QED
  BY <1>1, <1>2, <1>3, PTL DEF Spec

=============================================================================
