----------------------------- MODULE ZoneProofs -----------------------------
(***************************************************************************)
(* For every value of the constants: what one step of the zone allocator   *)
(* does to the list of blocks, to the owners of the blocks and to the      *)
(* cursors of the call in progress. LumpCacheProofs uses it for every      *)
(* caller.                                                                 *)
(***************************************************************************)
EXTENDS Zone, Integers, FiniteSetTheorems, TLAPS

\* The blocks of the current arena, where an arena ends, where a block ends,
\* and the address the block after b in arena a must have.
Here == {b \in DOMAIN block : zone <= b}
Limit(a) == a + block[a].size
End(b) == IF b \in arenas THEN b + Header ELSE b + block[b].size
After(a, b) == IF End(b) = Limit(a) THEN a ELSE End(b)

(***************************************************************************)
(* The inductive invariant. HeapIntact says what the links are, but not    *)
(* that a size is positive, that arenas lie apart, or that a cursor of a   *)
(* loop is where the loop expects it; without those a step from a state    *)
(* that satisfies it need not preserve it.                                 *)
(***************************************************************************)
HeaderType == [size : Nat \ {0}, user : Pointer \cup {NoUser}, tag : Tag,
               next : Nat, prev : Nat]

BlockTypes ==
    /\ DOMAIN block \subseteq Nat \ {0}
    /\ block \in [DOMAIN block -> HeaderType]
    /\ arenas \subseteq DOMAIN block
    /\ zone \in arenas
    /\ IsFiniteSet(arenas) /\ Cardinality(arenas) <= MaxZones

CallTypes ==
    /\ rover \in Here
    /\ pointer \in [Pointer -> Nat]
    /\ malloc \in [op : {"none", "scan", "take", "error"}, base : Nat, at : Nat,
                   start : Nat, size : Nat, tag : Tag,
                   user : Pointer \cup {NoUser}]
    /\ sweep \in [op : {"none", "sweep"}, at : Nat, stale : Nat]
    /\ result \in Address \cup {Null}

\* Every arena is at most twice as large as the one before.
Growth == Limit(zone) + DefaultRam <= 1 + DefaultRam * 2 ^ Cardinality(arenas)

ArenasApart ==
    /\ \A a \in arenas : block[a].tag = PU_STATIC /\ 3 <= block[a].size
    /\ \A a \in arenas : a <= zone
    /\ \A a, c \in arenas : a < c => Limit(a) <= c

BlocksApart ==
    /\ \A b \in DOMAIN block : \E a \in arenas : a <= b /\ End(b) <= Limit(a)
    /\ \A b, c \in DOMAIN block : b < c => End(b) <= c

Linked ==
    /\ \A a \in arenas, b \in DOMAIN block :
         a <= b /\ b < Limit(a) => block[b].next = After(a, b)
    /\ \A b \in DOMAIN block :
         /\ block[b].next \in DOMAIN block /\ block[block[b].next].prev = b
         /\ block[b].prev \in DOMAIN block /\ block[block[b].prev].next = b
         /\ block[b].tag # PU_FREE \/ block[block[b].next].tag # PU_FREE

Tiling == BlockTypes /\ ArenasApart /\ BlocksApart /\ Linked

\* Where the scan of Z_Malloc is: base is the block it looks at, or the free
\* block just before that one, and what is before base is in use; the block
\* the scan stops at is never freed by it.
Scanning ==
    /\ malloc.op = "none" => malloc = NoMalloc
    /\ malloc.op # "none" =>
         /\ malloc.base \in Here /\ malloc.at \in Here /\ malloc.start \in Here
         /\ 0 < malloc.size /\ malloc.tag # PU_FREE
         /\ malloc.user # NoUser => pointer[malloc.user] = Null
    /\ malloc.op = "scan" =>
         /\ \/ malloc.base = malloc.at
            \/ block[malloc.base].tag = PU_FREE /\ block[malloc.base].next = malloc.at
         /\ block[block[malloc.base].prev].tag # PU_FREE
         /\ block[malloc.start].tag # PU_FREE
    /\ malloc.op = "take" =>
         block[malloc.base].tag = PU_FREE /\ malloc.size <= block[malloc.base].size

\* Where the sweep of Z_FreeTags is: at a block or, when that was merged, at a
\* header whose link still leads to one; behind it nothing is left to free.
Cursor == IF sweep.at \in DOMAIN block THEN sweep.at ELSE sweep.stale

Sweeping ==
    /\ sweep.op = "none" => sweep = NoSweep
    /\ sweep.op = "sweep" =>
         /\ malloc.op = "none"
         /\ zone <= sweep.at /\ sweep.at <= Limit(zone)
         /\ Cursor \in Here /\ (sweep.stale = Null \/ sweep.stale \in Here)
         /\ \A b \in Allocated : zone <= b /\ block[b].tag \in LowTag .. HighTag =>
              Cursor # zone /\ Cursor <= b

ZoneInv == Tiling /\ CallTypes /\ Growth /\ OwnersExact /\ Scanning /\ Sweeping

----------------------------------------------------------------------------
(* Powers of two: the prover knows 2 ^ n only as the number of subsets.    *)

LEMMA PowerSet ==
  \A n \in Nat : /\ IsFiniteSet(SUBSET (1 .. n)) /\ Cardinality(SUBSET (1 .. n)) = 2 ^ n
<1>. TAKE n \in Nat
<1>1. IsFiniteSet(1 .. n) /\ Cardinality(1 .. n) = n
  BY FS_Interval
<1>. QED
  BY <1>1, FS_SUBSET

LEMMA PowerNat == \A n \in Nat : 2 ^ n \in Nat
  BY PowerSet, FS_CardinalityType

LEMMA PowerGrows == \A m, n \in Nat : m <= n => 2 ^ m <= 2 ^ n
<1>. TAKE m, n \in Nat
<1>. HAVE m <= n
<1>1. SUBSET (1 .. m) \subseteq SUBSET (1 .. n)
  OBVIOUS
<1>2. IsFiniteSet(SUBSET (1 .. n))
  BY PowerSet
<1>3. Cardinality(SUBSET (1 .. m)) <= Cardinality(SUBSET (1 .. n))
  <2>. DEFINE A == SUBSET (1 .. m)
              B == SUBSET (1 .. n)
  <2>1. A \in SUBSET B
    BY <1>1
  <2>. HIDE DEF A, B
  <2>2. IsFiniteSet(B)
    BY <1>2 DEF B
  <2>3. Cardinality(A) <= Cardinality(B)
    BY <2>1, <2>2, FS_Subset
  <2>. QED
    BY <2>3 DEF A, B
<1>. QED
  BY <1>3, PowerSet

LEMMA PowerDoubles == \A n \in Nat : 2 ^ (n + 1) = 2 * 2 ^ n
<1>. TAKE n \in Nat
<1>. DEFINE A == SUBSET (1 .. n)
            f == [s \in A |-> s \cup {n + 1}]
            B == {s \cup {n + 1} : s \in A}
<1>1. IsFiniteSet(A) /\ Cardinality(A) = 2 ^ n
  BY PowerSet
<1>2. f \in Bijection(A, B)
  <2>1. ASSUME NEW s \in A, NEW t \in A, s \cup {n + 1} = t \cup {n + 1}
        PROVE  s = t
    <3>1. n + 1 \notin s /\ n + 1 \notin t
      OBVIOUS
    <3>. QED
      BY <2>1, <3>1
  <2>2. f \in [A -> B] /\ \A y \in B : \E s \in A : f[s] = y
    OBVIOUS
  <2>. QED
    BY <2>1, <2>2 DEF Bijection, Injection, Surjection, IsInjective
<1>3. IsFiniteSet(B) /\ Cardinality(B) = Cardinality(A)
  <2>1. ExistsBijection(A, B)
    BY <1>2 DEF ExistsBijection
  <2>. QED
    BY <1>1, <2>1, FS_Bijection
<1>4. A \cap B = {}
  OBVIOUS
<1>5. A \cup B = SUBSET (1 .. n + 1)
  <2>1. ASSUME NEW s \in SUBSET (1 .. n + 1) PROVE s \in A \cup B
    <3>1. CASE n + 1 \in s
      <4>1. s \ {n + 1} \in A /\ s = (s \ {n + 1}) \cup {n + 1}
        BY <2>1, <3>1
      <4>. QED
        BY <4>1
    <3>2. CASE n + 1 \notin s
      BY <2>1, <3>2
    <3>. QED
      BY <3>1, <3>2
  <2>2. 1 .. n \subseteq 1 .. n + 1 /\ n + 1 \in 1 .. n + 1
    OBVIOUS
  <2>3. A \subseteq SUBSET (1 .. n + 1) /\ B \subseteq SUBSET (1 .. n + 1)
    BY <2>2
  <2>. QED
    BY <2>1, <2>3
<1>6. Cardinality(A \cup B) = Cardinality(A) + Cardinality(B)
  <2>. HIDE DEF A, B
  <2>1. Cardinality(A \cup B) = Cardinality(A) + Cardinality(B) - Cardinality({})
    BY <1>1, <1>3, <1>4, FS_Union
  <2>2. Cardinality({}) = 0 /\ Cardinality(A) \in Nat
    BY <1>1, FS_EmptySet, FS_CardinalityType
  <2>. QED
    BY <1>3, <2>1, <2>2
<1>7. Cardinality(SUBSET (1 .. n + 1)) = 2 ^ (n + 1)
  <2>1. n + 1 \in Nat
    OBVIOUS
  <2>. QED
    BY <2>1, PowerSet
<1>8. Cardinality(A) \in Nat
  BY <1>1, FS_CardinalityType
<1>9. 2 ^ (n + 1) = Cardinality(A) + Cardinality(A)
  BY <1>3, <1>5, <1>6, <1>7
<1>. HIDE DEF A
<1>. QED
  BY <1>1, <1>8, <1>9

----------------------------------------------------------------------------
(* Where blocks and arenas lie                                             *)

\* The fields of a header.
LEMMA HeaderFields ==
  ASSUME BlockTypes, NEW b \in DOMAIN block
  PROVE  /\ b \in Nat \ {0}
         /\ block[b] \in HeaderType
         /\ block[b].size \in Nat \ {0} /\ block[b].user \in Pointer \cup {NoUser}
         /\ block[b].tag \in Tag /\ block[b].next \in Nat /\ block[b].prev \in Nat
         /\ End(b) \in Nat /\ b < End(b) /\ Limit(b) \in Nat /\ b < Limit(b)
<1>1. b \in Nat \ {0} /\ block[b] \in HeaderType
  BY DEF BlockTypes
<1>2. /\ block[b].size \in Nat \ {0} /\ block[b].user \in Pointer \cup {NoUser}
      /\ block[b].tag \in Tag /\ block[b].next \in Nat /\ block[b].prev \in Nat
  BY <1>1 DEF HeaderType
<1>. QED
  BY <1>1, <1>2 DEF End, Limit, Header

\* Every block lies in exactly one arena.
LEMMA Home ==
  ASSUME Tiling, NEW b \in DOMAIN block
  PROVE  \E a \in arenas :
           /\ a <= b /\ b < Limit(a) /\ End(b) <= Limit(a)
           /\ \A c \in arenas : c <= b /\ b < Limit(c) => c = a
<1>1. PICK a \in arenas : a <= b /\ End(b) <= Limit(a)
  BY DEF Tiling, BlocksApart
<1>2. arenas \subseteq DOMAIN block /\ BlockTypes
  BY DEF Tiling, BlockTypes
<1>3. a \in Nat /\ b \in Nat /\ End(b) \in Nat /\ b < End(b) /\ Limit(a) \in Nat
  BY <1>2, HeaderFields
<1>4. ASSUME NEW c \in arenas, c <= b, b < Limit(c) PROVE c = a
  <2>1. c \in Nat /\ Limit(c) \in Nat
    BY <1>2, HeaderFields
  <2>2. (a < c => Limit(a) <= c) /\ (c < a => Limit(c) <= a)
    BY DEF Tiling, ArenasApart
  <2>. QED
    BY <1>1, <1>3, <1>4, <2>1, <2>2
<1>. QED
  BY <1>1, <1>3, <1>4

\* The block after b is in the arena of b: next to b, or the list head.
LEMMA NextHome ==
  ASSUME Tiling, NEW b \in DOMAIN block, NEW a \in arenas, a <= b, b < Limit(a),
         NEW n, n = block[b].next
  PROVE  /\ n \in DOMAIN block /\ n = After(a, b) /\ a <= n /\ n < Limit(a)
         /\ End(b) <= Limit(a)
         /\ n \in arenas => n = a /\ End(b) = Limit(a)
         /\ n \notin arenas => n = End(b) /\ b < n
<1>1. arenas \subseteq DOMAIN block /\ BlockTypes
  BY DEF Tiling, BlockTypes
<1>2. /\ a \in Nat /\ b \in Nat /\ End(b) \in Nat /\ b < End(b) /\ Limit(a) \in Nat
      /\ a < Limit(a)
  BY <1>1, HeaderFields
<1>3. End(b) <= Limit(a)
  BY Home
<1>4. n \in DOMAIN block /\ n = After(a, b)
  BY DEF Tiling, Linked
<1>5. CASE End(b) = Limit(a)
  BY <1>2, <1>3, <1>4, <1>5 DEF After
<1>6. CASE End(b) # Limit(a)
  <2>1. n = End(b) /\ b < n /\ a < n /\ n < Limit(a)
    BY <1>2, <1>3, <1>4, <1>6 DEF After
  <2>2. n \notin arenas
    <3>1. ASSUME n \in arenas PROVE FALSE
      <4>1. Limit(a) <= n
        BY <2>1, <3>1 DEF Tiling, ArenasApart
      <4>. QED
        BY <1>2, <2>1, <4>1
    <3>. QED
      BY <3>1
  <2>. QED
    BY <1>2, <1>3, <1>4, <2>1, <2>2
<1>. QED
  BY <1>5, <1>6

\* The block before b is in the arena of b.
LEMMA PrevHome ==
  ASSUME Tiling, NEW b \in DOMAIN block, NEW a \in arenas, a <= b, b < Limit(a),
         NEW p, p = block[b].prev
  PROVE  /\ p \in DOMAIN block /\ block[p].next = b
         /\ a <= p /\ p < Limit(a)
         /\ b \notin arenas => b = End(p) /\ p < b
         /\ b \in arenas => b = a /\ End(p) = Limit(a)
<1>1. p \in DOMAIN block /\ block[p].next = b
  BY DEF Tiling, Linked
<1>2. PICK h \in arenas : h <= p /\ p < Limit(h)
  BY <1>1, Home
<1>3. /\ h <= b /\ b < Limit(h)
      /\ b \in arenas => b = h /\ End(p) = Limit(h)
      /\ b \notin arenas => b = End(p) /\ p < b
  BY <1>1, <1>2, NextHome
<1>4. h = a
  BY <1>3, Home
<1>. QED
  BY <1>1, <1>2, <1>3, <1>4

\* The current arena is the last one.
LEMMA HereHome ==
  ASSUME Tiling, NEW b \in DOMAIN block
  PROVE  /\ zone \in arenas /\ zone \in DOMAIN block /\ zone < Limit(zone)
         /\ zone <= b => b < Limit(zone) /\ End(b) <= Limit(zone)
         /\ b < Limit(zone)
<1>1. arenas \subseteq DOMAIN block /\ BlockTypes /\ zone \in arenas /\ zone \in DOMAIN block
  BY DEF Tiling, BlockTypes
<1>2. PICK a \in arenas : a <= b /\ b < Limit(a) /\ End(b) <= Limit(a)
  BY Home
<1>3. a <= zone /\ (a < zone => Limit(a) <= zone)
  BY <1>1 DEF Tiling, ArenasApart
<1>4. /\ a \in Nat /\ zone \in Nat /\ b \in Nat /\ Limit(a) \in Nat /\ Limit(zone) \in Nat
      /\ zone < Limit(zone)
  BY <1>1, HeaderFields
<1>. QED
  BY <1>1, <1>2, <1>3, <1>4

\* No block ends past the room that MaxZones arenas can have.
LEMMA LimitBound ==
  ASSUME Tiling, Growth
  PROVE  /\ Limit(zone) \in Nat /\ Limit(zone) <= DefaultRam * 2 ^ MaxZones
         /\ DefaultRam * 2 ^ MaxZones \in Nat
         /\ \A b \in DOMAIN block : b \in Address /\ b + Header \in Address
<1>. DEFINE C == Cardinality(arenas)
            T == 2 ^ C
            X == 2 ^ MaxZones
<1>1. zone \in DOMAIN block /\ BlockTypes
  BY DEF Tiling, BlockTypes
<1>2. C \in Nat /\ C <= MaxZones /\ MaxZones \in Nat
  BY <1>1, ZoneAssumption, FS_CardinalityType DEF BlockTypes
<1>3. T <= X /\ T \in Nat /\ X \in Nat
  BY <1>2, PowerNat, PowerGrows
<1>4. Limit(zone) \in Nat
  BY <1>1, HeaderFields
<1>5. Limit(zone) + DefaultRam <= 1 + DefaultRam * T
  BY DEF Growth
<1>. HIDE DEF T, X, C
<1>6. DefaultRam * T <= DefaultRam * X /\ DefaultRam * T \in Nat /\ DefaultRam * X \in Nat
  BY <1>3, ZoneAssumption
<1>. DEFINE D == DefaultRam * T
            E == DefaultRam * X
<1>. HIDE DEF D, E
<1>7. D <= E /\ D \in Nat /\ E \in Nat /\ Limit(zone) + DefaultRam <= 1 + D
  BY <1>5, <1>6 DEF D, E
<1>8. Limit(zone) <= E
  BY <1>4, <1>7, ZoneAssumption
<1>9. ASSUME NEW b \in DOMAIN block PROVE b \in 1 .. E /\ b + Header \in 1 .. E
  <2>1. b < Limit(zone) /\ b \in Nat \ {0}
    BY <1>1, HereHome DEF BlockTypes
  <2>. QED
    BY <1>4, <1>7, <1>8, <2>1 DEF Header
<1>. QED
  BY <1>4, <1>7, <1>8, <1>9 DEF E, X, Address

LEMMA HereLinks ==
  ASSUME Tiling, NEW b \in Here
  PROVE  block[b].next \in Here /\ block[b].prev \in Here
<1>1. b \in DOMAIN block /\ zone \in arenas /\ zone <= b /\ b < Limit(zone)
  BY HereHome DEF Here
<1>. QED
  BY <1>1, NextHome, PrevHome DEF Here

\* List heads are in use, so free blocks are none of them.
LEMMA FreeIsNoHead ==
  ASSUME Tiling, NEW b \in DOMAIN block, block[b].tag # PU_STATIC
  PROVE  b \notin arenas
  BY DEF Tiling, ArenasApart

----------------------------------------------------------------------------
(* Z_Free                                                                  *)

\* What merging with free neighbours means: the block b grows into, the block
\* after it, and the headers that are gone.
BackFree(b) == block[block[b].prev].tag = PU_FREE
NextFree(b) == block[block[b].next].tag = PU_FREE
Left(b) == IF BackFree(b) THEN block[b].prev ELSE b
Right(b) == IF NextFree(b) THEN block[block[b].next].next ELSE block[b].next
Gone(b) == {c \in DOMAIN block : \/ c = b /\ BackFree(b)
                                 \/ c = block[b].next /\ NextFree(b)}
LeftEnd(b) == IF NextFree(b) THEN End(block[b].next) ELSE End(b)

\* The surroundings of an allocated block.
LEMMA Around ==
  ASSUME Tiling, NEW b \in Allocated, NEW p, NEW n,
         p = block[b].prev, n = block[b].next
  PROVE  /\ b \in DOMAIN block /\ b \notin arenas /\ block[b].tag # PU_FREE
         /\ p \in DOMAIN block /\ n \in DOMAIN block /\ p < b
         /\ block[p].next = b /\ block[n].prev = b /\ End(p) = b
         /\ n # b
         /\ block[p].tag = PU_FREE =>
              /\ p \notin arenas /\ p # n /\ block[p].prev # p
              /\ block[block[p].prev].tag # PU_FREE
         /\ block[n].tag = PU_FREE =>
              /\ n \notin arenas /\ n = End(b) /\ b < n /\ n # p
              /\ block[n].next \in DOMAIN block
              /\ block[n].next # b /\ block[n].next # n
              /\ block[p].tag = PU_FREE => block[n].next # p
              /\ block[block[n].next].tag # PU_FREE
              /\ block[block[n].next].prev = n
<1>1. b \in DOMAIN block /\ b \notin arenas /\ block[b].tag # PU_FREE
  BY DEF Allocated
<1>2. PICK a \in arenas : a <= b /\ b < Limit(a)
  BY <1>1, Home
<1>3. /\ n \in DOMAIN block /\ a <= n /\ n < Limit(a)
      /\ n \in arenas => n = a
      /\ n \notin arenas => n = End(b) /\ b < n
  BY <1>1, <1>2, NextHome
<1>4. p \in DOMAIN block /\ block[p].next = b /\ a <= p /\ End(p) = b /\ p < b
  BY <1>1, <1>2, PrevHome
<1>5. block[n].prev = b
  BY <1>1 DEF Tiling, Linked
<1>6. /\ a \in DOMAIN block /\ BlockTypes
      /\ a \in Nat /\ b \in Nat /\ p \in Nat /\ n \in Nat
  <2>1. arenas \subseteq DOMAIN block /\ BlockTypes
    BY DEF Tiling, BlockTypes
  <2>. QED
    BY <1>1, <1>3, <1>4, <2>1, HeaderFields
<1>7. n # b
  BY <1>1, <1>2, <1>3, <1>6
<1>8. ASSUME block[p].tag = PU_FREE
      PROVE  /\ p \notin arenas /\ p # n /\ block[p].prev # p
             /\ block[block[p].prev].tag # PU_FREE
  <2>1. p \notin arenas
    BY <1>4, <1>8, FreeIsNoHead DEF PU_FREE, PU_STATIC
  <2>2. p # n
    BY <1>2, <1>3, <1>4, <1>6, <2>1
  <2>3. block[p].prev \in DOMAIN block /\ block[block[p].prev].next = p
    BY <1>4 DEF Tiling, Linked
  <2>4. block[block[p].prev].tag # PU_FREE
    BY <1>4, <1>8, <2>3 DEF Tiling, Linked
  <2>. QED
    BY <1>8, <2>1, <2>2, <2>4
<1>9. ASSUME block[n].tag = PU_FREE
      PROVE  /\ n \notin arenas /\ n = End(b) /\ b < n /\ n # p
             /\ block[n].next \in DOMAIN block
             /\ block[n].next # b /\ block[n].next # n
             /\ block[p].tag = PU_FREE => block[n].next # p
             /\ block[block[n].next].tag # PU_FREE
             /\ block[block[n].next].prev = n
  <2>1. n \notin arenas /\ n = End(b) /\ b < n
    BY <1>3, <1>9, FreeIsNoHead DEF PU_FREE, PU_STATIC
  <2>2. /\ block[n].next \in DOMAIN block /\ block[block[n].next].tag # PU_FREE
        /\ block[block[n].next].prev = n
    BY <1>3, <1>9 DEF Tiling, Linked
  <2>3. block[b].prev # n
    BY <1>4, <1>6, <2>1
  <2>4. block[p].tag = PU_FREE => block[n].next # p
    <3>1. block[n].next \notin arenas => n < block[n].next
      BY <1>3, NextHome
    <3>. QED
      BY <1>4, <1>6, <1>8, <2>1, <3>1
  <2>. QED
    BY <1>9, <2>1, <2>2, <2>3, <2>4
<1>. QED
  BY <1>1, <1>3, <1>4, <1>5, <1>7, <1>8, <1>9

\* The headers after a merge.
LEMMA MergedIs ==
  ASSUME NEW blk, NEW left \in DOMAIN blk, NEW right \in DOMAIN blk, left # right,
         blk[left] \in HeaderType, blk[right] \in HeaderType,
         NEW new, new = Merged(blk, left, right)
  PROVE  /\ new = [c \in DOMAIN new |-> new[c]]
         /\ DOMAIN new = DOMAIN blk \ {right}
         /\ new[left] = [size |-> blk[left].size + blk[right].size,
                         user |-> blk[left].user, tag |-> blk[left].tag,
                         next |-> blk[right].next, prev |-> blk[left].prev]
         /\ \A c \in DOMAIN new : c # left =>
              new[c] = IF c = blk[right].next THEN [blk[c] EXCEPT !.prev = left]
                       ELSE blk[c]
<1>. DEFINE E(x, s, t) == [x EXCEPT !.size = x.size + s, !.next = t]
<1>1. ASSUME NEW x \in HeaderType, NEW s \in Nat, NEW t \in Nat
      PROVE  E(x, s, t) = [size |-> x.size + s, user |-> x.user, tag |-> x.tag,
                           next |-> t, prev |-> x.prev]
  <2>1. ASSUME NEW z, z = E(x, s, t)
        PROVE  /\ z.size = x.size + s /\ z.next = t
               /\ z.user = x.user /\ z.tag = x.tag /\ z.prev = x.prev
               /\ z = [size |-> z.size, user |-> z.user, tag |-> z.tag,
                       next |-> z.next, prev |-> z.prev]
    BY <2>1 DEF HeaderType
  <2>. HIDE DEF E
  <2>. QED
    BY <2>1
<1>2. new = [b \in DOMAIN blk \ {right} |->
        IF b = left THEN E(blk[b], blk[right].size, blk[right].next)
        ELSE IF b = blk[right].next THEN [blk[b] EXCEPT !.prev = left]
        ELSE blk[b]]
  BY DEF Merged
<1>3. blk[right].size \in Nat /\ blk[right].next \in Nat
  BY DEF HeaderType
<1>. HIDE DEF E
<1>. QED
  BY <1>1, <1>2, <1>3

\* blk has one free block where b and its free neighbours are, and every other
\* header as it is but for one link back. That is what Z_Free leaves.
IsFreed(b, blk) ==
    /\ blk = [c \in DOMAIN blk |-> blk[c]]
    /\ DOMAIN blk = DOMAIN block \ Gone(b)
    /\ Left(b) \in DOMAIN blk
    /\ blk[Left(b)] = [size |-> LeftEnd(b) - Left(b),
                       user |-> IF BackFree(b) THEN block[Left(b)].user ELSE NoUser,
                       tag |-> PU_FREE, next |-> Right(b),
                       prev |-> block[Left(b)].prev]
    /\ \A c \in DOMAIN blk : c # Left(b) =>
         blk[c] = IF c = Right(b) THEN [block[c] EXCEPT !.prev = Left(b)] ELSE block[c]

LEMMA FreedIs ==
  ASSUME Tiling, NEW b \in Allocated
  PROVE  /\ IsFreed(b, Freed(b).block)
         /\ Freed(b).rover = IF rover \in Gone(b) THEN Left(b) ELSE rover
<1>. SUFFICES ASSUME NEW blk, blk = Freed(b).block
     PROVE  /\ IsFreed(b, blk)
            /\ Freed(b).rover = IF rover \in Gone(b) THEN Left(b) ELSE rover
  OBVIOUS
<1>. USE DEF IsFreed
<1>. DEFINE p == block[b].prev
            n == block[b].next
            m == [block EXCEPT ![b].tag = PU_FREE, ![b].user = NoUser]
            marked == [block |-> m, rover |-> rover]
            back == Join(marked, p, b)
            left == IF b \in DOMAIN back.block THEN b ELSE p
<1>1. Freed(b) = Join(back, left, n)
  BY DEF Freed
<1>2. /\ b \in DOMAIN block /\ b \notin arenas /\ block[b].tag # PU_FREE
      /\ p \in DOMAIN block /\ n \in DOMAIN block /\ p < b
      /\ n # b /\ End(p) = b /\ block[n].prev = b
      /\ block[p].tag = PU_FREE => p \notin arenas /\ p # n
      /\ block[n].tag = PU_FREE =>
           /\ n \notin arenas /\ n = End(b) /\ n # p
           /\ block[n].next \in DOMAIN block
           /\ block[n].next # b /\ block[n].next # n
           /\ block[p].tag = PU_FREE => block[n].next # p
           /\ block[block[n].next].tag # PU_FREE
           /\ block[block[n].next].prev = n
  <2>. HIDE DEF p, n
  <2>1. p = block[b].prev /\ n = block[b].next
    BY DEF p, n
  <2>. QED
    BY <2>1, Around
<1>3. /\ block[b] \in HeaderType /\ block[p] \in HeaderType /\ block[n] \in HeaderType
      /\ b \in Nat /\ p \in Nat /\ n \in Nat /\ p # b
  <2>1. b \in Nat /\ p \in Nat /\ n \in Nat
    BY <1>2, HeaderFields DEF Tiling
  <2>2. p # b
    BY <1>2, <2>1
  <2>. QED
    BY <1>2, <2>1, <2>2, HeaderFields DEF Tiling
<1>4. /\ DOMAIN m = DOMAIN block
      /\ m[b] = [size |-> block[b].size, user |-> NoUser, tag |-> PU_FREE,
                 next |-> n, prev |-> p]
      /\ \A c \in DOMAIN block : c # b => m[c] = block[c]
  BY <1>2, <1>3 DEF HeaderType
<1>5. End(b) = b + block[b].size
  BY <1>2 DEF End
<1>6. block[n].tag = PU_FREE => End(n) = n + block[n].size
  BY <1>2 DEF End
<1>7. block[p].tag = PU_FREE => b = p + block[p].size
  BY <1>2 DEF End
<1>8. \A c \in DOMAIN block : \A q : block[c].prev = q => block[c] = [block[c] EXCEPT !.prev = q]
  <2>1. ASSUME NEW c \in DOMAIN block PROVE block[c] = [block[c] EXCEPT !.prev = block[c].prev]
    <3>1. block[c] \in HeaderType
      BY HeaderFields DEF Tiling
    <3>. QED
      BY <3>1 DEF HeaderType
  <2>. QED
    BY <2>1
<1>9. BackFree(b) = (block[p].tag = PU_FREE) /\ NextFree(b) = (block[n].tag = PU_FREE)
  BY DEF BackFree, NextFree
<1>10. Left(b) = (IF BackFree(b) THEN p ELSE b)
  BY DEF Left
<1>11. Right(b) = (IF NextFree(b) THEN block[n].next ELSE n)
  BY DEF Right
<1>12. Gone(b) = {c \in DOMAIN block : \/ c = b /\ BackFree(b)
                                       \/ c = n /\ NextFree(b)}
  BY DEF Gone
<1>13. LeftEnd(b) = (IF NextFree(b) THEN End(n) ELSE End(b))
  BY DEF LeftEnd
<1>. HIDE DEF p, n, m
\* The list after the first join.
<1>. DEFINE k == back.block
            r == back.rover
<1>14. /\ back = [block |-> k, rover |-> r]
       /\ r = IF rover = b /\ BackFree(b) THEN p ELSE rover
       /\ left = IF BackFree(b) THEN p ELSE b
       /\ k = [c \in DOMAIN k |-> k[c]]
       /\ DOMAIN k = DOMAIN block \ (IF BackFree(b) THEN {b} ELSE {})
       /\ k[left] = [size |-> End(b) - left,
                     user |-> IF BackFree(b) THEN block[left].user ELSE NoUser,
                     tag |-> PU_FREE, next |-> n, prev |-> block[left].prev]
       /\ \A c \in DOMAIN k : c # left =>
            k[c] = IF c = n THEN [block[c] EXCEPT !.prev = left] ELSE block[c]
  <2>1. CASE ~BackFree(b)
    <3>0. marked.block[p].tag # PU_FREE
      BY <1>2, <1>3, <1>4, <1>9, <2>1
    <3>1. back = marked /\ k = m /\ r = rover
      BY <3>0 DEF Join
    <3>2. left = b
      BY <1>2, <1>4, <2>1, <3>1
    <3>3. End(b) - b = block[b].size /\ block[b].prev = p
      BY <1>3, <1>5 DEF HeaderType, p
    <3>. HIDE DEF back, left, marked, k, r
    <3>4. \A c \in DOMAIN k : c # left =>
            k[c] = IF c = n THEN [block[c] EXCEPT !.prev = left] ELSE block[c]
      BY <1>2, <1>4, <1>8, <3>1, <3>2
    <3>5. back = [block |-> k, rover |-> r]
      BY <3>1 DEF marked
    <3>6. k = [c \in DOMAIN k |-> k[c]]
      BY <3>1 DEF m
    <3>. QED
      BY <1>2, <1>3, <1>4, <2>1, <3>1, <3>2, <3>3, <3>4, <3>5, <3>6
  <2>2. CASE BackFree(b)
    <3>1. /\ back = [block |-> Merged(m, p, b), rover |-> Moved(rover, p, b)]
      <4>1. marked.block = m /\ marked.rover = rover
        OBVIOUS
      <4>2. m[p].tag = PU_FREE /\ m[b].tag = PU_FREE
        <5>1. m[p] = block[p] /\ block[p].tag = PU_FREE
          BY <1>2, <1>3, <1>4, <1>9, <2>2
        <5>2. m[b].tag = PU_FREE
          BY <1>4
        <5>. QED
          BY <5>1, <5>2
      <4>. HIDE DEF marked
      <4>. QED
        BY <4>1, <4>2 DEF Join
    <3>2. k = Merged(m, p, b) /\ r = Moved(rover, p, b)
      BY <3>1
    <3>. HIDE DEF back, k, r
    <3>3. /\ m[p] \in HeaderType /\ m[b] \in HeaderType
          /\ p \in DOMAIN m /\ b \in DOMAIN m
      BY <1>2, <1>3, <1>4 DEF HeaderType, Tag, PU_FREE
    <3>4. /\ k = [c \in DOMAIN k |-> k[c]]
          /\ DOMAIN k = DOMAIN m \ {b}
          /\ k[p] = [size |-> m[p].size + m[b].size, user |-> m[p].user,
                     tag |-> m[p].tag, next |-> m[b].next, prev |-> m[p].prev]
          /\ \A c \in DOMAIN k : c # p =>
               k[c] = IF c = m[b].next THEN [m[c] EXCEPT !.prev = p] ELSE m[c]
      <4>1. k = Merged(m, p, b) /\ p # b
        BY <1>3, <3>2
      <4>2. /\ k = [c \in DOMAIN k |-> k[c]]
            /\ DOMAIN k = DOMAIN m \ {b}
            /\ k[p] = [size |-> m[p].size + m[b].size, user |-> m[p].user,
                       tag |-> m[p].tag, next |-> m[b].next, prev |-> m[p].prev]
        BY ONLY <3>3, <4>1, MergedIs
      <4>3. \A c \in DOMAIN k : c # p =>
              k[c] = IF c = m[b].next THEN [m[c] EXCEPT !.prev = p] ELSE m[c]
        BY ONLY <4>1 DEF Merged
      <4>. QED
        BY <4>2, <4>3
    <3>5. left = p
      BY <3>2, <3>4 DEF k
    <3>. HIDE DEF left
    <3>6. /\ m[p] = block[p] /\ m[b].size = block[b].size /\ m[b].next = n
          /\ block[p].tag = PU_FREE
      <4>1. m[p] = block[p] /\ block[p].tag = PU_FREE
        BY <1>2, <1>3, <1>4, <1>9, <2>2
      <4>2. m[b].size = block[b].size /\ m[b].next = n
        BY <1>4
      <4>. QED
        BY <4>1, <4>2
    <3>7. block[p].size + block[b].size = End(b) - p
      BY <1>3, <1>5, <1>7, <3>6 DEF HeaderType
    <3>8. \A c \in DOMAIN k : c # p => m[c] = block[c]
      BY <1>4, <3>4
    <3>. QED
      BY <1>4, <2>2, <3>1, <3>2, <3>4, <3>5, <3>6, <3>7, <3>8 DEF Moved
  <2>. QED
    BY <2>1, <2>2
<1>. HIDE DEF back, k, r, left
<1>15. /\ left = Left(b) /\ left # n /\ left \in DOMAIN k /\ n \in DOMAIN k
       /\ k[n] = [block[n] EXCEPT !.prev = left]
  BY <1>2, <1>3, <1>9, <1>10, <1>14
<1>16. k[n].tag = block[n].tag /\ k[left].tag = PU_FREE
  BY <1>3, <1>14, <1>15 DEF HeaderType
<1>17. Freed(b) = IF NextFree(b)
                  THEN [block |-> Merged(k, left, n), rover |-> Moved(r, left, n)]
                  ELSE [block |-> k, rover |-> r]
  <2>1. back.block = k /\ back.rover = r
    BY DEF k, r
  <2>2. back = [block |-> k, rover |-> r]
    BY <1>14
  <2>. QED
    BY <1>1, <1>9, <1>16, <2>1, <2>2 DEF Join
<1>18. CASE ~NextFree(b)
  <2>1. blk = k /\ Freed(b).rover = r
    BY <1>17, <1>18
  <2>2. Gone(b) = IF BackFree(b) THEN {b} ELSE {}
    BY <1>2, <1>12, <1>18
  <2>3. Right(b) = n /\ LeftEnd(b) = End(b)
    BY <1>11, <1>13, <1>18
  <2>4. Freed(b).rover = IF rover \in Gone(b) THEN Left(b) ELSE rover
    BY <1>10, <1>14, <2>1, <2>2
  <2>. QED
    BY <1>14, <1>15, <2>1, <2>2, <2>3, <2>4
<1>19. CASE NextFree(b)
  <2>1. blk = Merged(k, left, n) /\ Freed(b).rover = Moved(r, left, n)
    BY <1>17, <1>19
  <2>2. k[left] \in HeaderType /\ k[n] \in HeaderType
    <3>1. End(b) - left \in Nat \ {0}
      BY <1>2, <1>3, <1>5, <1>14 DEF HeaderType
    <3>2. block[left] \in HeaderType
      BY <1>3, <1>14
    <3>3. left \in Nat
      BY <1>3, <1>14
    <3>. QED
      BY <1>3, <1>14, <1>15, <3>1, <3>2, <3>3 DEF HeaderType, Tag, PU_FREE
  <2>3. /\ blk = [c \in DOMAIN blk |-> blk[c]]
        /\ DOMAIN blk = DOMAIN k \ {n}
        /\ blk[left] = [size |-> k[left].size + k[n].size, user |-> k[left].user,
                        tag |-> k[left].tag, next |-> k[n].next, prev |-> k[left].prev]
        /\ \A c \in DOMAIN blk : c # left =>
             blk[c] = IF c = k[n].next THEN [k[c] EXCEPT !.prev = left] ELSE k[c]
    <3>1. left \in DOMAIN k /\ n \in DOMAIN k /\ left # n
      BY <1>15
    <3>2. ASSUME NEW new, new = Merged(k, left, n)
          PROVE  /\ new = [c \in DOMAIN new |-> new[c]]
                 /\ DOMAIN new = DOMAIN k \ {n}
                 /\ new[left] = [size |-> k[left].size + k[n].size,
                                 user |-> k[left].user, tag |-> k[left].tag,
                                 next |-> k[n].next, prev |-> k[left].prev]
                 /\ \A c \in DOMAIN new : c # left =>
                      new[c] = IF c = k[n].next THEN [k[c] EXCEPT !.prev = left] ELSE k[c]
      BY <2>2, <3>1, <3>2, MergedIs
    <3>. QED
      BY <2>1, <3>2
  <2>4. k[n].size = block[n].size /\ k[n].next = block[n].next
    BY <1>3, <1>15 DEF HeaderType
  <2>5. /\ Right(b) = block[n].next /\ LeftEnd(b) = End(n) /\ End(n) = n + block[n].size
        /\ n = End(b)
    BY <1>2, <1>6, <1>9, <1>11, <1>13, <1>19
  <2>6. DOMAIN blk = DOMAIN block \ Gone(b) /\ left \in DOMAIN blk
    BY <1>12, <1>14, <1>15, <1>19, <2>3
  <2>7. Freed(b).rover = IF rover \in Gone(b) THEN left ELSE rover
    BY <1>2, <1>12, <1>14, <1>19, <2>1 DEF Moved
  <2>8. blk[left] = [size |-> LeftEnd(b) - left,
                     user |-> IF BackFree(b) THEN block[left].user ELSE NoUser,
                     tag |-> PU_FREE, next |-> Right(b), prev |-> block[left].prev]
    <3>1. (End(b) - left) + block[n].size = LeftEnd(b) - left
      BY <1>3, <1>14, <2>5 DEF HeaderType
    <3>. QED
      BY <1>14, <2>3, <2>4, <2>5, <3>1
  <2>9. ASSUME NEW c \in DOMAIN blk, c # left
        PROVE  blk[c] = IF c = Right(b) THEN [block[c] EXCEPT !.prev = left]
                        ELSE block[c]
    <3>1. c \in DOMAIN k /\ c # n
      BY <2>3, <2>9
    <3>2. k[c] = block[c]
      BY <1>14, <2>9, <3>1
    <3>. QED
      BY <2>3, <2>4, <2>5, <2>9, <3>2
  <2>. QED
    BY <1>15, <2>3, <2>6, <2>7, <2>8, <2>9
<1>. QED
  BY <1>18, <1>19

\* The same, header by header, for a step that frees b.
LEMMA FreeFields ==
  ASSUME Tiling, NEW b \in Allocated, FreeBlock(b), UNCHANGED <<zone, arenas>>
  PROVE  /\ DOMAIN block' = DOMAIN block \ Gone(b)
         /\ block' \in [DOMAIN block' -> HeaderType]
         /\ Left(b) \in DOMAIN block' /\ Left(b) \notin arenas
         /\ arenas \subseteq DOMAIN block'
         /\ block'[Left(b)].tag = PU_FREE /\ block'[Left(b)].next = Right(b)
         /\ block'[Left(b)].prev = block[Left(b)].prev
         /\ \A c \in DOMAIN block' : c # Left(b) =>
              /\ block'[c].size = block[c].size /\ block'[c].user = block[c].user
              /\ block'[c].tag = block[c].tag /\ block'[c].next = block[c].next
              /\ block'[c].prev = IF c = Right(b) THEN Left(b) ELSE block[c].prev
         /\ \A a \in arenas : Limit(a)' = Limit(a)
         /\ \A c \in DOMAIN block' : End(c)' = IF c = Left(b) THEN LeftEnd(b) ELSE End(c)
<1>. DEFINE p == block[b].prev
            n == block[b].next
<1>1. /\ block' = [c \in DOMAIN block' |-> block'[c]]
      /\ DOMAIN block' = DOMAIN block \ Gone(b)
      /\ Left(b) \in DOMAIN block'
      /\ block'[Left(b)] = [size |-> LeftEnd(b) - Left(b),
                            user |-> IF BackFree(b) THEN block[Left(b)].user ELSE NoUser,
                            tag |-> PU_FREE, next |-> Right(b),
                            prev |-> block[Left(b)].prev]
      /\ \A c \in DOMAIN block' : c # Left(b) =>
           block'[c] = IF c = Right(b) THEN [block[c] EXCEPT !.prev = Left(b)]
                       ELSE block[c]
  <2>1. block' = Freed(b).block
    BY DEF FreeBlock
  <2>2. IsFreed(b, block')
    BY <2>1, FreedIs
  <2>. QED
    BY <2>2 DEF IsFreed
<1>2. /\ b \in DOMAIN block /\ b \notin arenas
      /\ p \in DOMAIN block /\ n \in DOMAIN block /\ End(p) = b /\ n # b
      /\ block[p].tag = PU_FREE => p \notin arenas
      /\ block[n].tag = PU_FREE => n \notin arenas /\ n = End(b)
                                   /\ block[n].next \in DOMAIN block
  <2>. HIDE DEF p, n
  <2>1. p = block[b].prev /\ n = block[b].next
    BY DEF p, n
  <2>. QED
    BY <2>1, Around
<1>3. /\ Left(b) = IF BackFree(b) THEN p ELSE b
      /\ Right(b) = IF NextFree(b) THEN block[n].next ELSE n
      /\ LeftEnd(b) = IF NextFree(b) THEN End(n) ELSE End(b)
      /\ BackFree(b) => block[p].tag = PU_FREE
      /\ NextFree(b) => block[n].tag = PU_FREE
  BY DEF Left, Right, LeftEnd, BackFree, NextFree
<1>4. Gone(b) \subseteq {b, n} /\ (n \in Gone(b) => NextFree(b))
  BY <1>2 DEF Gone
<1>. HIDE DEF p, n
<1>5. Left(b) \in DOMAIN block /\ Left(b) \notin arenas /\ Right(b) \in DOMAIN block
  BY <1>2, <1>3
<1>6. arenas \subseteq DOMAIN block'
  <2>1. arenas \subseteq DOMAIN block
    BY DEF Tiling, BlockTypes
  <2>. QED
    BY <1>1, <1>2, <1>3, <1>4, <2>1
<1>7. LeftEnd(b) - Left(b) \in Nat \ {0} /\ LeftEnd(b) \in Nat /\ Left(b) \in Nat \ {0}
      /\ Right(b) \in Nat
  <2>1. /\ b < End(b) /\ p < End(p) /\ n < End(n)
        /\ b \in Nat \ {0} /\ p \in Nat \ {0} /\ n \in Nat
        /\ End(b) \in Nat /\ End(n) \in Nat /\ End(p) \in Nat
    BY <1>2, HeaderFields DEF Tiling
  <2>2. Right(b) \in Nat
    BY <1>5, HeaderFields DEF Tiling
  <2>. QED
    BY <1>2, <1>3, <2>1, <2>2
<1>8. /\ block'[Left(b)].tag = PU_FREE /\ block'[Left(b)].next = Right(b)
      /\ block'[Left(b)].prev = block[Left(b)].prev
      /\ block'[Left(b)].size = LeftEnd(b) - Left(b)
      /\ block'[Left(b)] \in HeaderType
  <2>1. block[Left(b)] \in HeaderType
    BY <1>5, HeaderFields DEF Tiling
  <2>. QED
    BY <1>1, <1>7, <2>1 DEF HeaderType, Tag, PU_FREE
<1>9. ASSUME NEW c \in DOMAIN block', c # Left(b)
      PROVE  /\ block'[c].size = block[c].size /\ block'[c].user = block[c].user
             /\ block'[c].tag = block[c].tag /\ block'[c].next = block[c].next
             /\ block'[c].prev = IF c = Right(b) THEN Left(b) ELSE block[c].prev
             /\ block'[c] \in HeaderType
  <2>1. c \in DOMAIN block /\ block[c] \in HeaderType
    BY <1>1, HeaderFields DEF Tiling
  <2>. QED
    BY <1>1, <1>7, <1>9, <2>1 DEF HeaderType
<1>10. block' \in [DOMAIN block' -> HeaderType]
  <2>1. \A c \in DOMAIN block' : block'[c] \in HeaderType
    BY <1>8, <1>9
  <2>. QED
    BY <1>1, <2>1
<1>11. \A a \in arenas : Limit(a)' = Limit(a)
  BY <1>5, <1>6, <1>9 DEF Limit
<1>12. \A c \in DOMAIN block' : End(c)' = IF c = Left(b) THEN LeftEnd(b) ELSE End(c)
  BY <1>5, <1>7, <1>8, <1>9 DEF End
<1>. QED
  BY <1>1, <1>5, <1>6, <1>8, <1>9, <1>10, <1>11, <1>12

\* Freeing keeps the blocks side by side and the links along them.
LEMMA FreeTiling ==
  ASSUME Tiling, NEW b \in Allocated, FreeBlock(b), UNCHANGED <<zone, arenas>>
  PROVE  Tiling'
<1>. DEFINE p == block[b].prev
            n == block[b].next
            l == Left(b)
            r == Right(b)
<1>1. /\ DOMAIN block' = DOMAIN block \ Gone(b)
      /\ block' \in [DOMAIN block' -> HeaderType]
      /\ l \in DOMAIN block' /\ l \notin arenas
      /\ arenas \subseteq DOMAIN block'
      /\ block'[l].tag = PU_FREE /\ block'[l].next = r
      /\ block'[l].prev = block[l].prev
  BY FreeFields
<1>2. \A c \in DOMAIN block' : c # l =>
        /\ block'[c].size = block[c].size /\ block'[c].user = block[c].user
        /\ block'[c].tag = block[c].tag /\ block'[c].next = block[c].next
        /\ block'[c].prev = IF c = r THEN l ELSE block[c].prev
  BY FreeFields
<1>3. /\ \A a \in arenas : Limit(a)' = Limit(a)
      /\ \A c \in DOMAIN block' : End(c)' = IF c = l THEN LeftEnd(b) ELSE End(c)
  BY FreeFields
<1>4. /\ b \in DOMAIN block /\ b \notin arenas /\ block[b].tag # PU_FREE
      /\ p \in DOMAIN block /\ n \in DOMAIN block /\ p < b
      /\ block[p].next = b /\ block[n].prev = b /\ End(p) = b
      /\ n # b
      /\ block[p].tag = PU_FREE =>
           /\ p \notin arenas /\ p # n /\ block[p].prev # p
           /\ block[block[p].prev].tag # PU_FREE
      /\ block[n].tag = PU_FREE =>
           /\ n \notin arenas /\ n = End(b) /\ b < n /\ n # p
           /\ block[n].next \in DOMAIN block
           /\ block[n].next # b /\ block[n].next # n
           /\ block[p].tag = PU_FREE => block[n].next # p
           /\ block[block[n].next].tag # PU_FREE
           /\ block[block[n].next].prev = n
  <2>. HIDE DEF p, n
  <2>1. p = block[b].prev /\ n = block[b].next
    BY DEF p, n
  <2>. QED
    BY <2>1, Around
<1>5. /\ BackFree(b) = (block[p].tag = PU_FREE) /\ NextFree(b) = (block[n].tag = PU_FREE)
      /\ l = IF BackFree(b) THEN p ELSE b
      /\ r = IF NextFree(b) THEN block[n].next ELSE n
      /\ LeftEnd(b) = IF NextFree(b) THEN End(n) ELSE End(b)
      /\ p = block[b].prev /\ n = block[b].next
  BY DEF BackFree, NextFree, Left, Right, LeftEnd
<1>6. Gone(b) = {c \in DOMAIN block : \/ c = b /\ BackFree(b)
                                      \/ c = n /\ NextFree(b)}
  BY DEF Gone
<1>. HIDE DEF p, n, l, r
<1>7. arenas \subseteq DOMAIN block /\ BlockTypes /\ zone \in arenas
  BY DEF Tiling, BlockTypes
<1>8. \A c \in DOMAIN block : c \in Nat /\ End(c) \in Nat /\ c < End(c)
  BY <1>7, HeaderFields
<1>9. \A a \in arenas : a \in Nat /\ Limit(a) \in Nat
  BY <1>7, HeaderFields
<1>10. DOMAIN block' \subseteq DOMAIN block /\ l \in DOMAIN block /\ r \in DOMAIN block
  BY <1>1, <1>4, <1>5
<1>11. BlockTypes'
  BY <1>1, <1>7, <1>10 DEF BlockTypes, HeaderType
<1>12. ArenasApart'
  <2>1. \A a \in arenas : block'[a].tag = block[a].tag /\ block'[a].size = block[a].size
    BY <1>1, <1>2
  <2>. QED
    BY <1>3, <2>1 DEF Tiling, ArenasApart
\* The grown block ends in the arena it begins in, before the next block.
<1>13. PICK a \in arenas : a <= b /\ b < Limit(a) /\ End(b) <= Limit(a)
  BY <1>4, Home
<1>14. /\ a <= l /\ l < Limit(a) /\ LeftEnd(b) <= Limit(a) /\ l < LeftEnd(b)
       /\ r = IF LeftEnd(b) = Limit(a) THEN a ELSE LeftEnd(b)
  <2>1. a <= p /\ p < Limit(a)
    BY <1>4, <1>5, <1>13, PrevHome
  <2>2. /\ a <= n /\ n < Limit(a)
        /\ n = IF End(b) = Limit(a) THEN a ELSE End(b)
    BY <1>4, <1>5, <1>13, NextHome DEF After
  <2>3. NextFree(b) => /\ End(n) <= Limit(a)
                       /\ block[n].next = IF End(n) = Limit(a) THEN a ELSE End(n)
    BY <1>4, <1>13, <2>2, NextHome DEF After
  <2>4. /\ a \in Nat /\ b \in Nat /\ p \in Nat /\ n \in Nat /\ Limit(a) \in Nat
        /\ End(b) \in Nat /\ End(n) \in Nat /\ b < End(b) /\ n < End(n)
    BY <1>4, <1>8, <1>9
  <2>5. a <= l /\ l < Limit(a) /\ l <= b
    BY <1>4, <1>5, <1>13, <2>1, <2>4
  <2>6. CASE NextFree(b)
    <3>1. LeftEnd(b) = End(n) /\ r = block[n].next /\ n = End(b)
      BY <1>4, <1>5, <2>6
    <3>. QED
      BY <1>5, <2>3, <2>4, <2>5, <2>6, <3>1
  <2>7. CASE ~NextFree(b)
    <3>1. LeftEnd(b) = End(b) /\ r = n
      BY <1>5, <2>7
    <3>. QED
      BY <1>5, <1>13, <2>2, <2>4, <2>5, <3>1
  <2>. QED
    BY <2>6, <2>7
<1>15. BlocksApart'
  <2>1. ASSUME NEW c \in DOMAIN block'
        PROVE  \E h \in arenas' : h <= c /\ End(c)' <= Limit(h)'
    <3>1. CASE c = l
      BY <1>1, <1>3, <1>13, <1>14, <3>1
    <3>2. CASE c # l
      <4>1. PICK h \in arenas : h <= c /\ End(c) <= Limit(h)
        BY <1>10 DEF Tiling, BlocksApart
      <4>. QED
        BY <1>3, <3>2, <4>1
    <3>. QED
      BY <3>1, <3>2
  <2>2. ASSUME NEW c \in DOMAIN block', NEW d \in DOMAIN block', c < d
        PROVE  End(c)' <= d
    <3>1. \A x, y \in DOMAIN block : x < y => End(x) <= y
      BY DEF Tiling, BlocksApart
    <3>2. c \in DOMAIN block /\ d \in DOMAIN block /\ c \in Nat /\ d \in Nat
      BY <1>8, <1>10
    <3>3. CASE c # l
      BY <1>3, <2>2, <3>1, <3>2, <3>3
    <3>4. CASE c = l
      <4>1. BackFree(b) => b <= d /\ d # b
        BY <1>1, <1>4, <1>5, <1>6, <2>2, <3>1, <3>2, <3>4
      <4>2. b < d
        BY <1>4, <1>5, <1>8, <2>2, <3>2, <3>4, <4>1
      <4>3. End(b) <= d
        BY <1>4, <3>1, <3>2, <4>2
      <4>4. NextFree(b) => n <= d /\ d # n
        BY <1>1, <1>4, <1>5, <1>6, <3>2, <4>3
      <4>5. NextFree(b) => End(n) <= d
        BY <1>4, <1>8, <3>1, <3>2, <4>4
      <4>. QED
        BY <1>3, <1>5, <3>4, <4>3, <4>5
    <3>. QED
      BY <3>3, <3>4
  <2>. QED
    BY <2>1, <2>2 DEF BlocksApart
<1>16. \A c \in DOMAIN block :
         /\ block[c].next \in DOMAIN block /\ block[block[c].next].prev = c
         /\ block[c].prev \in DOMAIN block /\ block[block[c].prev].next = c
         /\ block[c].tag # PU_FREE \/ block[block[c].next].tag # PU_FREE
  BY DEF Tiling, Linked
\* What is around the grown block.
<1>17. /\ r \in DOMAIN block' /\ r # l /\ block'[r].prev = l
       /\ block[r].tag # PU_FREE
       /\ block[l].prev \in DOMAIN block' /\ block[l].prev # l
       /\ block[block[l].prev].tag # PU_FREE
       /\ block'[block[l].prev].next = l
  <2>1. r # l /\ block[r].tag # PU_FREE /\ r \notin Gone(b)
    BY <1>4, <1>5, <1>6, <1>8
  <2>2. r \in DOMAIN block' /\ block'[r].prev = l
    BY <1>1, <1>2, <1>10, <2>1
  <2>3. /\ block[l].prev \in DOMAIN block /\ block[l].prev # l
        /\ block[block[l].prev].next = l
        /\ block[block[l].prev].tag # PU_FREE
    BY <1>4, <1>5, <1>8, <1>16
  <2>4. block[l].prev \notin Gone(b)
    BY <1>4, <1>5, <1>6, <1>16, <2>3
  <2>. QED
    BY <1>1, <1>2, <2>1, <2>2, <2>3, <2>4
<1>18. ASSUME NEW h \in arenas', NEW c \in DOMAIN block', h <= c, c < Limit(h)'
       PROVE  block'[c].next = After(h, c)'
  <2>1. h \in arenas /\ Limit(h)' = Limit(h) /\ c \in DOMAIN block
    BY <1>3, <1>10
  <2>2. After(h, c)' = IF End(c)' = Limit(h)' THEN h ELSE End(c)'
    BY DEF After
  <2>3. CASE c = l
    <3>1. h = a
      BY <1>10, <1>13, <1>14, <1>18, <2>1, <2>3, Home
    <3>. QED
      BY <1>1, <1>3, <1>14, <2>1, <2>2, <2>3, <3>1
  <2>4. CASE c # l
    <3>1. block[c].next = After(h, c)
      BY <1>18, <2>1 DEF Tiling, Linked
    <3>. QED
      BY <1>2, <1>3, <2>1, <2>2, <2>4, <3>1 DEF After
  <2>. QED
    BY <2>3, <2>4
<1>19. ASSUME NEW c \in DOMAIN block'
       PROVE  /\ block'[c].next \in DOMAIN block' /\ block'[block'[c].next].prev = c
              /\ block'[c].prev \in DOMAIN block' /\ block'[block'[c].prev].next = c
              /\ block'[c].tag # PU_FREE \/ block'[block'[c].next].tag # PU_FREE
  <2>1. CASE c = l
    BY <1>1, <1>2, <1>17, <2>1
  <2>2. CASE c # l
    <3>1. c \in DOMAIN block /\ c \notin Gone(b)
      BY <1>1
    <3>2. /\ block'[c].next = block[c].next /\ block'[c].tag = block[c].tag
          /\ block'[c].prev = IF c = r THEN l ELSE block[c].prev
      BY <1>2, <2>2
    <3>. DEFINE nc == block[c].next
                pc == block[c].prev
    <3>3. /\ nc \in DOMAIN block /\ block[nc].prev = c
          /\ pc \in DOMAIN block /\ block[pc].next = c
          /\ block[c].tag # PU_FREE \/ block[nc].tag # PU_FREE
      BY <1>16, <3>1
    <3>. HIDE DEF nc, pc
    <3>4. c # b /\ (NextFree(b) => c # n)
      BY <1>4, <1>5, <1>6, <2>2, <3>1
    <3>5. nc # b \/ ~BackFree(b)
      BY <1>5, <2>2, <3>3
    <3>6. nc # n
      BY <1>4, <3>3, <3>4
    <3>7. nc \in DOMAIN block' /\ nc # r
      <4>1. nc \notin Gone(b)
        BY <1>6, <3>5, <3>6
      <4>2. NextFree(b) => nc # r
        BY <1>4, <1>5, <3>3, <3>4
      <4>. QED
        BY <1>1, <1>5, <3>3, <3>6, <4>1, <4>2
    <3>8. block'[nc].prev = c
      <4>1. CASE nc = l
        BY <1>1, <3>3, <4>1
      <4>2. CASE nc # l
        BY <1>2, <3>3, <3>7, <4>2
      <4>. QED
        BY <4>1, <4>2
    <3>9. block'[c].prev \in DOMAIN block' /\ block'[block'[c].prev].next = c
      <4>1. CASE c = r
        BY <1>1, <3>2, <4>1
      <4>2. CASE c # r
        <5>1. block'[c].prev = pc
          BY <3>2, <4>2 DEF pc
        <5>2. pc # b
          BY <1>4, <1>5, <3>3, <3>4, <4>2
        <5>3. NextFree(b) => pc # n
          BY <1>5, <3>3, <4>2
        <5>4. pc \in DOMAIN block'
          BY <1>1, <1>6, <3>3, <5>2, <5>3
        <5>5. pc # l
          BY <1>4, <1>5, <3>3, <3>4, <5>2
        <5>. QED
          BY <1>2, <3>3, <5>1, <5>4, <5>5
      <4>. QED
        BY <4>1, <4>2
    <3>10. block'[c].tag # PU_FREE \/ block'[nc].tag # PU_FREE
      <4>1. CASE nc = l
        BY <1>17, <3>2, <3>3, <4>1
      <4>2. CASE nc # l
        BY <1>2, <3>2, <3>3, <3>7, <4>2
      <4>. QED
        BY <4>1, <4>2
    <3>. QED
      BY <3>2, <3>7, <3>8, <3>9, <3>10 DEF nc
  <2>. QED
    BY <2>1, <2>2
<1>20. Linked'
  BY <1>18, <1>19 DEF Linked
<1>. QED
  BY <1>11, <1>12, <1>15, <1>20 DEF Tiling

\* Exactly b stops being allocated; nothing else about an allocation changes.
LEMMA FreeAllocated ==
  ASSUME Tiling, NEW b \in Allocated, FreeBlock(b), UNCHANGED <<zone, arenas>>
  PROVE  /\ Allocated' = Allocated \ {b}
         /\ \A c \in Allocated' : /\ c \in DOMAIN block /\ c \in DOMAIN block'
                                  /\ block'[c].size = block[c].size
                                  /\ block'[c].user = block[c].user
                                  /\ block'[c].tag = block[c].tag
<1>1. /\ DOMAIN block' = DOMAIN block \ Gone(b)
      /\ Left(b) \in DOMAIN block' /\ block'[Left(b)].tag = PU_FREE
      /\ \A c \in DOMAIN block' : c # Left(b) =>
           /\ block'[c].size = block[c].size /\ block'[c].user = block[c].user
           /\ block'[c].tag = block[c].tag
  BY FreeFields
<1>2. Left(b) = b \/ block[Left(b)].tag = PU_FREE
  BY DEF Left, BackFree
<1>3. \A c \in Gone(b) : c = b \/ block[c].tag = PU_FREE
  BY DEF Gone, NextFree
<1>4. b \in Gone(b) \/ Left(b) = b
  BY DEF Gone, Left, Allocated
<1>. QED
  BY <1>1, <1>2, <1>3, <1>4 DEF Allocated

LEMMA FreeOwners ==
  ASSUME Tiling, OwnersExact, pointer \in [Pointer -> Nat],
         NEW b \in Allocated, FreeBlock(b), UNCHANGED <<zone, arenas>>
  PROVE  /\ pointer' \in [Pointer -> Nat]
         /\ \A u \in Pointer : pointer'[u] = IF u = block[b].user THEN Null ELSE pointer[u]
         /\ OwnersExact'
<1>1. /\ pointer' \in [Pointer -> Nat]
      /\ \A u \in Pointer : pointer'[u] = IF u = block[b].user THEN Null ELSE pointer[u]
  BY DEF FreeBlock, SetUser, Null
<1>2. /\ Allocated' = Allocated \ {b}
      /\ \A c \in Allocated' : block'[c].user = block[c].user
  BY FreeAllocated
<1>3. ASSUME NEW u \in Pointer, pointer'[u] # Null
      PROVE  pointer'[u] - Header \in Allocated'
             /\ block'[pointer'[u] - Header].user = u
  <2>1. u # block[b].user /\ pointer'[u] = pointer[u]
    BY <1>1, <1>3
  <2>2. pointer[u] - Header \in Allocated /\ block[pointer[u] - Header].user = u
    BY <1>3, <2>1 DEF OwnersExact
  <2>. QED
    BY <1>2, <2>1, <2>2
<1>4. ASSUME NEW c \in Allocated', block'[c].user # NoUser
      PROVE  pointer'[block'[c].user] = c + Header
  <2>1. c \in Allocated /\ c # b /\ block'[c].user = block[c].user
    BY <1>2
  <2>2. pointer[block[c].user] = c + Header
    BY <1>4, <2>1 DEF OwnersExact
  <2>3. /\ block[c].user \in Pointer /\ c \in Nat /\ b \in Nat
        /\ c \in DOMAIN block /\ b \in DOMAIN block
    BY <1>4, <2>1, HeaderFields DEF Allocated, Tiling
  <2>4. block[c].user # block[b].user
    <3>1. ASSUME block[c].user = block[b].user PROVE FALSE
      <4>1. pointer[block[b].user] = b + Header
        BY <1>4, <2>1, <3>1 DEF OwnersExact
      <4>. QED
        BY <2>1, <2>2, <2>3, <3>1, <4>1 DEF Header
    <3>. QED
      BY <3>1
  <2>. QED
    BY <1>1, <2>1, <2>2, <2>3, <2>4
<1>. QED
  BY <1>1, <1>3, <1>4 DEF OwnersExact

\* What stays in the current arena. A header that goes, goes into one there.
LEMMA FreeHere ==
  ASSUME Tiling, NEW b \in Allocated, FreeBlock(b), UNCHANGED <<zone, arenas>>
  PROVE  /\ Here' = Here \ Gone(b)
         /\ \A c \in Here \cap Gone(b) : Left(b) \in Here'
         /\ rover \in Here => rover' \in Here'
         /\ Limit(zone)' = Limit(zone)
<1>. DEFINE p == block[b].prev
            n == block[b].next
<1>1. /\ DOMAIN block' = DOMAIN block \ Gone(b) /\ Left(b) \in DOMAIN block'
      /\ \A a \in arenas : Limit(a)' = Limit(a)
  BY FreeFields
<1>2. Here' = Here \ Gone(b)
  BY <1>1 DEF Here
<1>3. b \in DOMAIN block /\ n \in DOMAIN block /\ block[n].prev = b
  BY DEF Allocated, Tiling, Linked
<1>4. ASSUME NEW c \in Here \cap Gone(b) PROVE Left(b) \in Here'
  <2>1. c = b \/ c = n
    BY DEF Gone
  <2>2. b \in Here
    BY <1>3, <1>4, <2>1, HereLinks
  <2>3. Left(b) \in Here
    BY <2>2, HereLinks DEF Left
  <2>. QED
    BY <1>1, <2>3 DEF Here
<1>5. rover' = IF rover \in Gone(b) THEN Left(b) ELSE rover
  BY FreedIs DEF FreeBlock
<1>6. zone \in arenas
  BY DEF Tiling, BlockTypes
<1>. QED
  BY <1>1, <1>2, <1>4, <1>5, <1>6

----------------------------------------------------------------------------
(* Z_Malloc                                                                *)

\* A step that leaves the list alone keeps what is said about it.
LEMMA ListFrame ==
  ASSUME UNCHANGED <<block, zone, arenas>>
  PROVE  /\ Tiling => Tiling'
         /\ Growth => Growth'
         /\ Allocated' = Allocated /\ Here' = Here
         /\ OwnersExact /\ UNCHANGED pointer => OwnersExact'
<1>1. /\ Allocated' = Allocated /\ Here' = Here
      /\ \A a : Limit(a)' = Limit(a) /\ End(a)' = End(a)
      /\ \A a, b : After(a, b)' = After(a, b)
  BY DEF Allocated, Here, Limit, End, After
<1>2. Tiling => Tiling'
  BY <1>1 DEF Tiling, BlockTypes, ArenasApart, BlocksApart, Linked, HeaderType
<1>3. Growth => Growth'
  BY <1>1 DEF Growth
<1>4. OwnersExact /\ UNCHANGED pointer => OwnersExact'
  BY <1>1 DEF OwnersExact
<1>. QED
  BY <1>1, <1>2, <1>3, <1>4

\* Where the next pass of the scan begins.
LEMMA ScannedIs ==
  ASSUME CallTypes, NEW b \in Nat, NEW a \in Nat, NEW s \in Nat, Scanned(b, a, s)
  PROVE  /\ malloc' \in [op : {"none", "scan", "take", "error"}, base : Nat, at : Nat,
                         start : Nat, size : Nat, tag : Tag,
                         user : Pointer \cup {NoUser}]
         /\ malloc'.base = b /\ malloc'.at = a /\ malloc'.start = s
         /\ malloc'.size = malloc.size /\ malloc'.tag = malloc.tag
         /\ malloc'.user = malloc.user
         /\ \/ malloc'.op = "scan"
            \/ /\ malloc'.op = "take"
               /\ block'[b].tag = PU_FREE /\ malloc.size <= block'[b].size
<1>. DEFINE enough == /\ block'[b].tag = PU_FREE /\ block'[b].size >= malloc.size
            op == IF enough THEN "take" ELSE "scan"
<1>1. malloc' = [malloc EXCEPT !.op = op, !.base = b, !.at = a, !.start = s]
  BY DEF Scanned
<1>2. op \in {"take", "scan"} /\ (op = "take" => enough)
  OBVIOUS
<1>. HIDE DEF enough, op
<1>3. malloc'.op = op /\ malloc'.base = b /\ malloc'.at = a /\ malloc'.start = s
      /\ malloc'.size = malloc.size /\ malloc'.tag = malloc.tag
      /\ malloc'.user = malloc.user
      /\ malloc' = [op |-> malloc'.op, base |-> malloc'.base, at |-> malloc'.at,
                    start |-> malloc'.start, size |-> malloc'.size,
                    tag |-> malloc'.tag, user |-> malloc'.user]
  BY <1>1 DEF CallTypes
<1>4. /\ malloc.size \in Nat /\ malloc.tag \in Tag
      /\ malloc.user \in Pointer \cup {NoUser}
  BY DEF CallTypes
<1>5. malloc' \in [op : {"none", "scan", "take", "error"}, base : Nat, at : Nat,
                   start : Nat, size : Nat, tag : Tag,
                   user : Pointer \cup {NoUser}]
  BY <1>2, <1>3, <1>4
<1>6. enough => block'[b].tag = PU_FREE /\ malloc.size <= block'[b].size
  BY DEF enough
<1>. QED
  BY <1>2, <1>3, <1>5, <1>6

\* What a pass of the scan has to show: its cursors are where they should be.
LEMMA ScanTo ==
  ASSUME ZoneInv, malloc.op = "scan",
         NEW b, NEW a, NEW s, Scanned(b, a, s), UNCHANGED <<sweep, result>>,
         Tiling', Growth', OwnersExact', rover' \in Here',
         pointer' \in [Pointer -> Nat],
         \A u \in Pointer : pointer[u] = Null => pointer'[u] = Null,
         b \in Here' /\ a \in Here' /\ s \in Here',
         b = a \/ (block'[b].tag = PU_FREE /\ block'[b].next = a),
         block'[block'[b].prev].tag # PU_FREE, block'[s].tag # PU_FREE
  PROVE  ZoneInv'
<1>1. CallTypes /\ Scanning /\ Sweeping
  BY DEF ZoneInv
<1>2. b \in Nat /\ a \in Nat /\ s \in Nat
  BY DEF Here, Tiling, BlockTypes
<1>. DEFINE M == [op : {"none", "scan", "take", "error"}, base : Nat, at : Nat,
                  start : Nat, size : Nat, tag : Tag,
                  user : Pointer \cup {NoUser}]
<1>3. /\ malloc' \in M
      /\ malloc'.base = b /\ malloc'.at = a /\ malloc'.start = s
      /\ malloc'.size = malloc.size /\ malloc'.tag = malloc.tag
      /\ malloc'.user = malloc.user
      /\ \/ malloc'.op = "scan"
         \/ /\ malloc'.op = "take"
            /\ block'[b].tag = PU_FREE /\ malloc.size <= block'[b].size
  BY <1>1, <1>2, ScannedIs
<1>4. CallTypes'
  BY <1>1, <1>3 DEF CallTypes
<1>5. malloc.user # NoUser => pointer'[malloc.user] = Null
  <2>1. malloc.user \in Pointer \cup {NoUser}
    BY <1>1 DEF CallTypes
  <2>2. malloc.user # NoUser => pointer[malloc.user] = Null
    BY <1>1 DEF Scanning
  <2>. QED
    BY <2>1, <2>2
<1>6. 0 < malloc.size /\ malloc.tag # PU_FREE
  BY <1>1 DEF Scanning
<1>7. Scanning'
  BY <1>3, <1>5, <1>6 DEF Scanning
<1>8. sweep.op = "none" /\ sweep = NoSweep
  BY <1>1 DEF Sweeping, CallTypes
<1>9. Sweeping'
  BY <1>8 DEF Sweeping
<1>. QED
  BY <1>4, <1>7, <1>9 DEF ZoneInv

LEMMA ScanPastInv ==
  ASSUME ZoneInv, ScanPast PROVE ZoneInv'
<1>. DEFINE after == block[malloc.at].next
<1>1. /\ malloc.op = "scan" /\ block[malloc.at].tag # PU_FREE
      /\ UNCHANGED <<block, zone, arenas, rover, pointer, sweep, result>>
      /\ Scanned(after, after, malloc.start)
  BY DEF ScanPast
<1>2. /\ Tiling /\ CallTypes /\ Growth /\ OwnersExact
      /\ malloc.at \in Here /\ malloc.start \in Here
      /\ block[malloc.start].tag # PU_FREE
  BY <1>1 DEF ZoneInv, Scanning
<1>3. after \in Here /\ block[after].prev = malloc.at
  BY <1>2, HereLinks DEF Here, Tiling, Linked
<1>4. Tiling' /\ Growth' /\ OwnersExact' /\ Here' = Here
  BY <1>1, <1>2, ListFrame
<1>5. rover' \in Here' /\ pointer' \in [Pointer -> Nat]
      /\ \A u \in Pointer : pointer[u] = Null => pointer'[u] = Null
  BY <1>1, <1>2, <1>4 DEF CallTypes
<1>. HIDE DEF after
<1>. QED
  BY <1>1, <1>2, <1>3, <1>4, <1>5, ScanTo

LEMMA ScanFreeInv ==
  ASSUME ZoneInv, ScanFree PROVE ZoneInv'
<1>. DEFINE base == malloc.base
            at == malloc.at
<1>1. /\ malloc.op = "scan" /\ block[at].tag = PU_FREE
      /\ UNCHANGED <<block, zone, arenas, rover, pointer, sweep, result>>
      /\ Scanned(base, block[at].next, malloc.start)
  BY DEF ScanFree
<1>2. /\ Tiling /\ CallTypes /\ Growth /\ OwnersExact
      /\ base \in Here /\ at \in Here /\ malloc.start \in Here
      /\ base = at \/ (block[base].tag = PU_FREE /\ block[base].next = at)
      /\ block[block[base].prev].tag # PU_FREE
      /\ block[malloc.start].tag # PU_FREE
  BY <1>1 DEF ZoneInv, Scanning
<1>3. base = at
  BY <1>1, <1>2 DEF Tiling, Linked, Here
<1>4. block[at].next \in Here
  BY <1>2, HereLinks
<1>5. Tiling' /\ Growth' /\ OwnersExact' /\ Here' = Here
  BY <1>1, <1>2, ListFrame
<1>6. rover' \in Here' /\ pointer' \in [Pointer -> Nat]
      /\ \A u \in Pointer : pointer[u] = Null => pointer'[u] = Null
  BY <1>1, <1>2, <1>5 DEF CallTypes
<1>. HIDE DEF base, at
<1>. QED
  BY <1>1, <1>2, <1>3, <1>4, <1>5, <1>6, ScanTo

\* A purgable block is an allocated one.
LEMMA PurgableAllocated ==
  ASSUME Tiling, NEW b \in DOMAIN block, Purgable(block[b].tag)
  PROVE  b \in Allocated
<1>1. block[b].tag # PU_FREE /\ block[b].tag # PU_STATIC
  BY DEF Purgable, PU_PURGELEVEL, PU_FREE, PU_STATIC
<1>. QED
  BY <1>1, FreeIsNoHead DEF Allocated

\* The block that is purged becomes part of base: it is base, or base is the
\* free block before it.
LEMMA ScanPurgeInv ==
  ASSUME ZoneInv, ScanPurge PROVE ZoneInv'
<1>. DEFINE at == malloc.at
            start == malloc.start
            behind == block[malloc.base].prev
            base == block'[behind].next
            left == Left(at)
<1>1. /\ malloc.op = "scan" /\ at # start /\ Purgable(block[at].tag)
      /\ FreeBlock(at) /\ Scanned(base, block'[base].next, start)
      /\ UNCHANGED <<zone, arenas, sweep, result>>
  BY DEF ScanPurge
<1>2. /\ Tiling /\ CallTypes /\ Growth /\ OwnersExact
      /\ malloc.base \in Here /\ at \in Here /\ start \in Here
      /\ malloc.base = at \/ (block[malloc.base].tag = PU_FREE /\ block[malloc.base].next = at)
      /\ block[behind].tag # PU_FREE
      /\ block[start].tag # PU_FREE
  BY <1>1 DEF ZoneInv, Scanning
<1>3. at \in Allocated
  BY <1>1, <1>2, PurgableAllocated DEF Here
<1>4. behind \in DOMAIN block /\ block[behind].next = malloc.base
  BY <1>2 DEF Tiling, Linked, Here
<1>5. left = malloc.base /\ behind # left /\ behind \notin Gone(at)
  <2>. DEFINE p == block[at].prev
              n == block[at].next
  <2>1. /\ p \in DOMAIN block /\ p # at /\ n # at /\ block[p].next = at
        /\ block[p].tag = PU_FREE => p # n /\ block[p].prev # p
    <3>1. /\ p < at /\ at \in Nat /\ p \in DOMAIN block /\ n # at /\ block[p].next = at
          /\ block[p].tag = PU_FREE => p # n /\ block[p].prev # p
      BY <1>2, <1>3, Around DEF Tiling, BlockTypes
    <3>. QED
      BY <3>1
  <2>2. BackFree(at) <=> block[p].tag = PU_FREE
    BY DEF BackFree
  <2>3. Gone(at) = {c \in DOMAIN block : \/ c = at /\ BackFree(at)
                                         \/ c = n /\ block[n].tag = PU_FREE}
    BY DEF Gone, NextFree
  <2>4. left = IF BackFree(at) THEN p ELSE at
    BY DEF Left
  <2>5. CASE malloc.base = at
    BY <1>2, <2>1, <2>2, <2>3, <2>4, <2>5
  <2>6. CASE block[malloc.base].tag = PU_FREE /\ block[malloc.base].next = at
    <3>1. p = malloc.base
      BY <1>2, <2>6 DEF Tiling, Linked, Here
    <3>. QED
      BY <1>2, <1>4, <2>1, <2>2, <2>3, <2>4, <2>6, <3>1
  <2>. QED
    BY <1>2, <2>5, <2>6
<1>6. /\ DOMAIN block' = DOMAIN block \ Gone(at) /\ left \in DOMAIN block'
      /\ block'[left].tag = PU_FREE
      /\ \A c \in DOMAIN block' : c # left => /\ block'[c].tag = block[c].tag
                                              /\ block'[c].next = block[c].next
  BY <1>1, <1>2, <1>3, FreeFields
<1>7. base = left
  BY <1>4, <1>5, <1>6
<1>8. Tiling'
  BY <1>1, <1>2, <1>3, FreeTiling
<1>9. /\ pointer' \in [Pointer -> Nat] /\ OwnersExact'
      /\ \A u \in Pointer : pointer[u] = Null => pointer'[u] = Null
  BY <1>1, <1>2, <1>3, FreeOwners DEF CallTypes
<1>10. /\ Here' = Here \ Gone(at) /\ rover' \in Here' /\ Limit(zone)' = Limit(zone)
  BY <1>1, <1>2, <1>3, FreeHere DEF CallTypes
<1>11. Growth'
  BY <1>1, <1>2, <1>10 DEF Growth
<1>12. left \in Here'
  BY <1>2, <1>5, <1>6, <1>10 DEF Here
<1>13. /\ block'[left].next \in DOMAIN block'
       /\ block'[block'[left].prev].tag # PU_FREE
  BY <1>6, <1>8 DEF Tiling, Linked
<1>14. block'[left].next \in Here'
  <2>1. block'[left].next = Right(at)
    BY <1>1, <1>2, <1>3, FreeFields
  <2>2. Right(at) \in Here
    BY <1>2, HereLinks DEF Right
  <2>. QED
    BY <1>6, <1>10, <1>13, <2>1, <2>2 DEF Here
<1>15. start \in Here' /\ block'[start].tag # PU_FREE
  <2>1. start \notin Gone(at)
    BY <1>1, <1>2 DEF Gone, NextFree
  <2>2. start \in DOMAIN block'
    BY <1>2, <1>6, <2>1 DEF Here
  <2>3. start # left
    BY <1>1, <1>2, <1>5
  <2>. QED
    BY <1>2, <1>6, <1>10, <2>1, <2>2, <2>3
<1>16. malloc.op = "scan" /\ Scanned(left, block'[left].next, start)
       /\ UNCHANGED <<sweep, result>>
  BY <1>1, <1>7
<1>. DEFINE next == block'[left].next
<1>17. next \in Here' /\ block'[left].next = next /\ Scanned(left, next, start)
  BY <1>14, <1>16
<1>. HIDE DEF at, start, behind, base, left, next
<1>. QED
  BY <1>6, <1>8, <1>9, <1>10, <1>11, <1>12, <1>13, <1>15, <1>16, <1>17, ScanTo

\* A new arena begins where the current one ends, so behind every block.
IsArena(a, s) ==
    /\ DOMAIN block' = DOMAIN block \cup {a, a + Header}
    /\ block' = [b \in DOMAIN block' |-> block'[b]]
    /\ \A b \in DOMAIN block : block'[b] = block[b]
    /\ block'[a] = [size |-> s, user |-> NoUser, tag |-> PU_STATIC,
                    next |-> a + Header, prev |-> a + Header]
    /\ block'[a + Header] = [size |-> s - Header, user |-> NoUser, tag |-> PU_FREE,
                             next |-> a, prev |-> a]

LEMMA NewArenaTiling ==
  ASSUME Tiling, NEW a, a = Limit(zone), NEW s \in Nat, 3 <= s, IsArena(a, s),
         Cardinality(arenas) < MaxZones, zone' = a, arenas' = arenas \cup {a}
  PROVE  /\ Tiling'
         /\ Limit(zone)' = a + s
         /\ Here' = {a, a + Header} /\ a # a + Header
         /\ Cardinality(arenas') = Cardinality(arenas) + 1
         /\ Allocated' = Allocated
<1>. DEFINE h == a + Header
<1>1. BlockTypes /\ arenas \subseteq DOMAIN block /\ zone \in arenas
      /\ IsFiniteSet(arenas)
  BY DEF Tiling, BlockTypes
<1>2. a \in Nat \ {0} /\ zone \in Nat /\ zone < a /\ h = a + 1 /\ h \in Nat \ {0}
  BY <1>1, HeaderFields DEF Header
<1>3. ASSUME NEW b \in DOMAIN block
      PROVE  /\ b \in Nat \ {0} /\ b < a /\ End(b) \in Nat /\ Limit(b) \in Nat
             /\ End(b) <= a /\ b # a /\ b # h
  <2>1. b \in Nat \ {0} /\ End(b) \in Nat /\ Limit(b) \in Nat /\ b < a
    BY <1>1, HeaderFields, HereHome
  <2>2. PICK c \in arenas : End(b) <= Limit(c)
    BY Home
  <2>3. c <= zone /\ (c < zone => Limit(c) <= zone) /\ c \in Nat /\ Limit(c) \in Nat
    BY <1>1, HeaderFields DEF Tiling, ArenasApart
  <2>4. Limit(c) <= a
    BY <1>2, <2>3
  <2>. QED
    BY <1>2, <2>1, <2>2, <2>3, <2>4
<1>4. /\ DOMAIN block' = DOMAIN block \cup {a, h}
      /\ block' = [b \in DOMAIN block' |-> block'[b]]
      /\ \A b \in DOMAIN block : block'[b] = block[b]
      /\ block'[a] = [size |-> s, user |-> NoUser, tag |-> PU_STATIC,
                      next |-> h, prev |-> h]
      /\ block'[h] = [size |-> s - 1, user |-> NoUser, tag |-> PU_FREE,
                      next |-> a, prev |-> a]
  BY DEF IsArena, Header
<1>. HIDE DEF h
<1>5. a \notin arenas /\ h \notin arenas /\ a \notin DOMAIN block /\ h \notin DOMAIN block
      /\ a # h
  BY <1>1, <1>2, <1>3
<1>6. IsFiniteSet(arenas') /\ Cardinality(arenas') = Cardinality(arenas) + 1
  BY <1>1, <1>5, FS_AddElement
<1>7. \A b \in DOMAIN block : End(b)' = End(b) /\ Limit(b)' = Limit(b)
  BY <1>3, <1>4 DEF End, Limit
<1>8. End(a)' = h /\ End(h)' = a + s /\ Limit(a)' = a + s
  BY <1>2, <1>4, <1>5 DEF End, Limit, Header
<1>9. BlockTypes'
  <2>1. block'[a] \in HeaderType /\ block'[h] \in HeaderType
    BY <1>2, <1>4 DEF HeaderType, Tag, PU_STATIC, PU_FREE
  <2>2. \A b \in DOMAIN block : block'[b] \in HeaderType
    BY <1>1, <1>4, HeaderFields
  <2>3. block' \in [DOMAIN block' -> HeaderType]
    BY <1>4, <2>1, <2>2
  <2>4. Cardinality(arenas') <= MaxZones
    BY <1>1, <1>6, ZoneAssumption, FS_CardinalityType
  <2>5. HeaderType' = HeaderType
    BY DEF HeaderType
  <2>. QED
    BY <1>1, <1>2, <1>3, <1>4, <1>6, <2>3, <2>4, <2>5 DEF BlockTypes
<1>10. ArenasApart'
  <2>1. \A c \in arenas' : block'[c].tag = PU_STATIC /\ 3 <= block'[c].size
    BY <1>1, <1>4 DEF Tiling, ArenasApart
  <2>2. \A c \in arenas' : c <= zone'
    BY <1>1, <1>2, <1>3
  <2>3. ASSUME NEW c \in arenas', NEW d \in arenas', c < d PROVE Limit(c)' <= d
    <3>1. c # a
      BY <1>1, <1>2, <1>3, <2>3
    <3>2. c \in arenas /\ c \in DOMAIN block /\ Limit(c)' = Limit(c) /\ Limit(c) \in Nat
          /\ c \in Nat
      BY <1>1, <1>3, <1>7, <3>1
    <3>3. CASE d = a
      <4>1. c <= zone /\ (c < zone => Limit(c) <= zone)
        BY <1>1, <3>2 DEF Tiling, ArenasApart
      <4>. QED
        BY <1>2, <3>2, <3>3, <4>1
    <3>4. CASE d \in arenas
      BY <2>3, <3>2, <3>4 DEF Tiling, ArenasApart
    <3>. QED
      BY <3>3, <3>4
  <2>. QED
    BY <2>1, <2>2, <2>3 DEF ArenasApart
<1>11. BlocksApart'
  <2>1. ASSUME NEW b \in DOMAIN block'
        PROVE  \E c \in arenas' : c <= b /\ End(b)' <= Limit(c)'
    <3>1. CASE b \in DOMAIN block
      BY <1>1, <1>7, <3>1 DEF Tiling, BlocksApart
    <3>2. CASE b = a
      BY <1>2, <1>8, <3>2
    <3>3. CASE b = h
      BY <1>2, <1>8, <3>3
    <3>. QED
      BY <1>4, <3>1, <3>2, <3>3
  <2>2. ASSUME NEW b \in DOMAIN block', NEW c \in DOMAIN block', b < c
        PROVE  End(b)' <= c
    <3>1. CASE b \in DOMAIN block /\ c \in DOMAIN block
      BY <1>7, <2>2, <3>1 DEF Tiling, BlocksApart
    <3>2. CASE b \in DOMAIN block /\ c \notin DOMAIN block
      BY <1>2, <1>3, <1>4, <1>7, <3>2
    <3>3. CASE b \notin DOMAIN block
      <4>1. b = a \/ b = h
        BY <1>4, <3>3
      <4>2. c \notin DOMAIN block
        BY <1>2, <1>3, <2>2, <4>1
      <4>3. b = a /\ c = h
        BY <1>2, <1>4, <2>2, <4>1, <4>2
      <4>. QED
        BY <1>2, <1>8, <4>3
    <3>. QED
      BY <3>1, <3>2, <3>3
  <2>. QED
    BY <2>1, <2>2 DEF BlocksApart
<1>12. Linked'
  <2>1. ASSUME NEW c \in arenas', NEW b \in DOMAIN block', c <= b, b < Limit(c)'
        PROVE  block'[b].next = After(c, b)'
    <3>1. After(c, b)' = IF End(b)' = Limit(c)' THEN c ELSE End(b)'
      BY DEF After
    <3>2. CASE c \in arenas
      <4>1. c \in DOMAIN block /\ Limit(c)' = Limit(c) /\ Limit(c) \in Nat
        BY <1>1, <1>3, <1>7, <3>2
      <4>2. Limit(c) <= a
        <5>1. c <= zone /\ (c < zone => Limit(c) <= zone) /\ c \in Nat
          BY <1>1, <1>3, <3>2 DEF Tiling, ArenasApart
        <5>. QED
          BY <1>2, <4>1, <5>1
      <4>3. b \in DOMAIN block
        BY <1>2, <1>4, <2>1, <4>1, <4>2
      <4>4. block[b].next = After(c, b)
        BY <2>1, <3>2, <4>1, <4>3 DEF Tiling, Linked
      <4>. QED
        BY <1>4, <1>7, <3>1, <4>1, <4>3, <4>4 DEF After
    <3>3. CASE c = a
      <4>1. b = a \/ b = h
        BY <1>2, <1>3, <1>4, <2>1, <3>3
      <4>2. CASE b = a
        <5>1. h # a + s
          BY <1>2
        <5>. QED
          BY <1>4, <1>8, <3>1, <3>3, <4>2, <5>1
      <4>3. CASE b = h
        BY <1>4, <1>8, <3>1, <3>3, <4>3
      <4>. QED
        BY <4>1, <4>2, <4>3
    <3>. QED
      BY <3>2, <3>3
  <2>2. ASSUME NEW b \in DOMAIN block'
        PROVE  /\ block'[b].next \in DOMAIN block' /\ block'[block'[b].next].prev = b
               /\ block'[b].prev \in DOMAIN block' /\ block'[block'[b].prev].next = b
               /\ block'[b].tag # PU_FREE \/ block'[block'[b].next].tag # PU_FREE
    <3>1. CASE b \in DOMAIN block
      <4>1. /\ block[b].next \in DOMAIN block /\ block[block[b].next].prev = b
            /\ block[b].prev \in DOMAIN block /\ block[block[b].prev].next = b
            /\ block[b].tag # PU_FREE \/ block[block[b].next].tag # PU_FREE
        BY <3>1 DEF Tiling, Linked
      <4>2. block'[b] = block[b] /\ DOMAIN block \subseteq DOMAIN block'
        BY <1>4, <3>1
      <4>3. /\ block'[block[b].next] = block[block[b].next]
            /\ block'[block[b].prev] = block[block[b].prev]
        BY <1>4, <4>1
      <4>. QED
        BY <4>1, <4>2, <4>3
    <3>2. CASE b = a
      BY <1>4, <3>2 DEF PU_STATIC, PU_FREE
    <3>3. CASE b = h
      BY <1>4, <3>3 DEF PU_STATIC, PU_FREE
    <3>. QED
      BY <1>4, <3>1, <3>2, <3>3
  <2>. QED
    BY <2>1, <2>2 DEF Linked
<1>13. Here' = {a, h}
  BY <1>2, <1>3, <1>4 DEF Here
<1>14. Allocated' = Allocated
  BY <1>3, <1>4, <1>5 DEF Allocated
<1>. QED
  BY <1>5, <1>6, <1>8, <1>9, <1>10, <1>11, <1>12, <1>13, <1>14 DEF Tiling, h

LEMMA ScanNewZoneInv ==
  ASSUME ZoneInv, ScanNewZone PROVE ZoneInv'
<1>. DEFINE a == Limit(zone)
            C == Cardinality(arenas)
            T == 2 ^ C
<1>1. /\ malloc.op = "scan" /\ Cardinality(arenas) < MaxZones
      /\ zone' = a /\ arenas' = arenas \cup {a} /\ rover' = a + Header
      /\ Scanned(a + Header, a, a)
      /\ UNCHANGED <<pointer, sweep, result>>
      /\ \E s \in MinRam * T .. DefaultRam * T :
           block' = [b \in DOMAIN block \cup {a, a + Header} |->
                       IF b \in DOMAIN block THEN block[b] ELSE Arena(a, s)[b]]
  BY DEF ScanNewZone, Limit
<1>2. /\ Tiling /\ CallTypes /\ Growth /\ OwnersExact
  BY DEF ZoneInv
<1>3. zone \in DOMAIN block /\ \A b \in DOMAIN block : b < a
  BY <1>2, HereHome DEF Tiling, BlockTypes
<1>4. a \in Nat \ {0} /\ \A b \in DOMAIN block : b \in Nat
  BY <1>2, <1>3, HeaderFields DEF Tiling
<1>5. C \in Nat /\ T \in Nat /\ 1 <= T
  <2>1. C \in Nat
    BY <1>2, FS_CardinalityType DEF Tiling, BlockTypes
  <2>2. 2 ^ 0 \in Nat /\ 2 ^ 0 <= T /\ T \in Nat
    <3>1. 0 \in Nat /\ 0 <= C
      BY <2>1
    <3>2. 2 ^ 0 <= 2 ^ C
      BY <2>1, <3>1, PowerGrows
    <3>. QED
      BY <2>1, <3>1, <3>2, PowerNat
  <2>3. 2 ^ 0 # 0
    <3>1. SUBSET (1 .. 0) # {}
      OBVIOUS
    <3>. QED
      BY <3>1, PowerSet, FS_EmptySet
  <2>. QED
    BY <2>1, <2>2, <2>3
<1>6. PICK s \in MinRam * T .. DefaultRam * T :
        block' = [b \in DOMAIN block \cup {a, a + Header} |->
                    IF b \in DOMAIN block THEN block[b] ELSE Arena(a, s)[b]]
  BY <1>1
<1>. HIDE DEF a, C, T
<1>. DEFINE D == DefaultRam * T
<1>7. MinRam * T \in Nat /\ D \in Nat /\ 3 <= MinRam * T
  BY <1>5, ZoneAssumption
<1>. HIDE DEF D
<1>8. s \in Nat /\ 3 <= s /\ s <= D
  BY <1>6, <1>7 DEF D
<1>9. IsArena(a, s)
  BY <1>3, <1>4, <1>6 DEF IsArena, Arena, Header
<1>10. /\ Tiling' /\ Limit(zone)' = a + s
       /\ Here' = {a, a + Header}
       /\ Cardinality(arenas') = C + 1
       /\ Allocated' = Allocated
  BY <1>1, <1>2, <1>8, <1>9, NewArenaTiling DEF a, C
<1>11. Growth'
  <2>1. 2 ^ (C + 1) = 2 * T
    BY <1>5, PowerDoubles DEF T
  <2>2. DefaultRam * (2 * T) = D + D
    BY <1>5, ZoneAssumption DEF D
  <2>3. a + DefaultRam <= 1 + D
    BY <1>2 DEF Growth, D, T, C, a
  <2>4. a + s + DefaultRam <= 1 + (D + D)
    BY <1>4, <1>7, <1>8, <2>3, ZoneAssumption
  <2>. QED
    BY <1>10, <2>1, <2>2, <2>4 DEF Growth
<1>12. OwnersExact'
  <2>1. \A b \in Allocated : block'[b] = block[b]
    BY <1>9 DEF IsArena, Allocated
  <2>2. pointer' = pointer /\ Allocated' = Allocated
    BY <1>1, <1>10
  <2>. QED
    BY <1>2, <2>1, <2>2 DEF OwnersExact
<1>13. /\ block'[a].tag # PU_FREE
       /\ block'[a + Header].tag = PU_FREE /\ block'[a + Header].next = a
       /\ block'[block'[a + Header].prev].tag # PU_FREE
  BY <1>9 DEF IsArena, PU_STATIC, PU_FREE
<1>14. pointer' \in [Pointer -> Nat]
       /\ \A u \in Pointer : pointer[u] = Null => pointer'[u] = Null
  BY <1>1, <1>2 DEF CallTypes
<1>. DEFINE h == a + Header
<1>15. /\ h \in Here' /\ a \in Here' /\ rover' \in Here'
       /\ block'[h].tag = PU_FREE /\ block'[h].next = a
       /\ block'[block'[h].prev].tag # PU_FREE /\ block'[a].tag # PU_FREE
       /\ Scanned(h, a, a) /\ UNCHANGED <<sweep, result>>
  BY <1>1, <1>10, <1>13
<1>. HIDE DEF h
<1>. QED
  BY <1>1, <1>10, <1>11, <1>12, <1>14, <1>15, ScanTo

LEMMA OutOfMemoryInv ==
  ASSUME ZoneInv, OutOfMemory PROVE ZoneInv'
<1>1. /\ malloc.op = "scan" /\ malloc' = [malloc EXCEPT !.op = "error"]
      /\ UNCHANGED <<block, zone, arenas, rover, pointer, sweep, result>>
  BY DEF OutOfMemory
<1>2. Tiling /\ CallTypes /\ Growth /\ OwnersExact /\ Scanning /\ Sweeping
  BY DEF ZoneInv
<1>3. Tiling' /\ Growth' /\ OwnersExact' /\ Here' = Here
  BY <1>1, <1>2, ListFrame
<1>4. /\ malloc'.op = "error" /\ malloc'.base = malloc.base /\ malloc'.at = malloc.at
      /\ malloc'.start = malloc.start /\ malloc'.size = malloc.size
      /\ malloc'.tag = malloc.tag /\ malloc'.user = malloc.user
  BY <1>1, <1>2 DEF CallTypes
<1>5. CallTypes'
  BY <1>1, <1>2, <1>3 DEF CallTypes
<1>6. Scanning'
  BY <1>1, <1>2, <1>3, <1>4 DEF Scanning
<1>7. Sweeping'
  BY <1>1, <1>2 DEF Sweeping, CallTypes
<1>. QED
  BY <1>3, <1>5, <1>6, <1>7 DEF ZoneInv

\* A change of a block's tag or owner leaves the list as it is.
Relabelled(b) ==
    /\ DOMAIN block' = DOMAIN block
    /\ block' \in [DOMAIN block -> HeaderType]
    /\ block'[b].tag # PU_FREE
    /\ \A c \in DOMAIN block :
         /\ block'[c].size = block[c].size
         /\ block'[c].next = block[c].next /\ block'[c].prev = block[c].prev
         /\ c # b => block'[c].tag = block[c].tag /\ block'[c].user = block[c].user

LEMMA RelabelTiling ==
  ASSUME Tiling, NEW b \in DOMAIN block, b \notin arenas, Relabelled(b),
         UNCHANGED <<zone, arenas>>
  PROVE  /\ Tiling' /\ Here' = Here /\ Limit(zone)' = Limit(zone)
         /\ Allocated' = Allocated \cup {b}
<1>1. \A c \in DOMAIN block : End(c)' = End(c) /\ Limit(c)' = Limit(c)
  BY DEF End, Limit, Relabelled
<1>2. BlockTypes /\ arenas \subseteq DOMAIN block /\ zone \in DOMAIN block
  BY DEF Tiling, BlockTypes
<1>3. BlockTypes'
  BY <1>2 DEF BlockTypes, Relabelled, HeaderType
<1>4. \A a \in arenas : block'[a].tag = block[a].tag /\ block'[a].size = block[a].size
                        /\ Limit(a)' = Limit(a)
  BY <1>1, <1>2 DEF Relabelled
<1>5. ArenasApart'
  BY <1>4 DEF Tiling, ArenasApart
<1>6. BlocksApart'
  <2>1. DOMAIN block' = DOMAIN block
    BY DEF Relabelled
  <2>2. \A c \in DOMAIN block : \E a \in arenas : a <= c /\ End(c) <= Limit(a)
    BY DEF Tiling, BlocksApart
  <2>3. \A c, d \in DOMAIN block : c < d => End(c) <= d
    BY DEF Tiling, BlocksApart
  <2>4. \A c \in DOMAIN block' : \E a \in arenas' : a <= c /\ End(c)' <= Limit(a)'
    BY <1>1, <1>4, <2>1, <2>2
  <2>. QED
    BY <1>1, <2>1, <2>3, <2>4 DEF BlocksApart
<1>7. Linked'
  <2>1. \A a \in arenas, c \in DOMAIN block : After(a, c)' = After(a, c)
    BY <1>1, <1>2 DEF After
  <2>2. \A a \in arenas', c \in DOMAIN block' :
          a <= c /\ c < Limit(a)' => block'[c].next = After(a, c)'
    <3>1. \A a \in arenas, c \in DOMAIN block :
            a <= c /\ c < Limit(a) => block[c].next = After(a, c)
      BY DEF Tiling, Linked
    <3>2. DOMAIN block' = DOMAIN block
          /\ \A c \in DOMAIN block : block'[c].next = block[c].next
      BY DEF Relabelled
    <3>. QED
      BY <1>4, <2>1, <3>1, <3>2
  <2>3. ASSUME NEW c \in DOMAIN block'
        PROVE  /\ block'[c].next \in DOMAIN block' /\ block'[block'[c].next].prev = c
               /\ block'[c].prev \in DOMAIN block' /\ block'[block'[c].prev].next = c
               /\ block'[c].tag # PU_FREE \/ block'[block'[c].next].tag # PU_FREE
    <3>1. /\ c \in DOMAIN block /\ block'[c].next = block[c].next
          /\ block'[c].prev = block[c].prev
      BY <2>3 DEF Relabelled
    <3>2. /\ block[c].next \in DOMAIN block /\ block[block[c].next].prev = c
          /\ block[c].prev \in DOMAIN block /\ block[block[c].prev].next = c
          /\ block[c].tag # PU_FREE \/ block[block[c].next].tag # PU_FREE
      BY <3>1 DEF Tiling, Linked
    <3>3. /\ block'[block[c].next].prev = c /\ block'[block[c].prev].next = c
          /\ DOMAIN block' = DOMAIN block
      BY <3>2 DEF Relabelled
    <3>4. /\ c = b \/ block'[c].tag = block[c].tag
          /\ block[c].next = b \/ block'[block[c].next].tag = block[block[c].next].tag
          /\ block'[b].tag # PU_FREE
      BY <3>1, <3>2 DEF Relabelled
    <3>. QED
      BY <3>1, <3>2, <3>3, <3>4
  <2>. QED
    BY <2>2, <2>3 DEF Linked
<1>8. Here' = Here
  BY DEF Here, Relabelled
<1>9. Allocated' = Allocated \cup {b}
  BY DEF Allocated, Relabelled
<1>. QED
  BY <1>1, <1>2, <1>3, <1>5, <1>6, <1>7, <1>8, <1>9 DEF Tiling

\* A free block of which the first size units are taken and the rest is free.
IsCut(b, size, t, u) ==
    LET rest == b + size
        n == block[b].next
    IN  /\ DOMAIN block' = DOMAIN block \cup {rest}
        /\ block' = [c \in DOMAIN block' |-> block'[c]]
        /\ block'[rest] = [size |-> block[b].size - size, user |-> NoUser,
                           tag |-> PU_FREE, next |-> n, prev |-> b]
        /\ block'[b] = [size |-> size, user |-> u, tag |-> t, next |-> rest,
                        prev |-> block[b].prev]
        /\ \A c \in DOMAIN block : c # b =>
             block'[c] = IF c = n /\ c # rest THEN [block[c] EXCEPT !.prev = rest]
                         ELSE block[c]

LEMMA CutTiling ==
  ASSUME Tiling, NEW b \in DOMAIN block, block[b].tag = PU_FREE,
         NEW size \in Nat \ {0}, size < block[b].size,
         NEW t \in Tag, t # PU_FREE, NEW u \in Pointer \cup {NoUser},
         IsCut(b, size, t, u), UNCHANGED <<zone, arenas>>
  PROVE  /\ Tiling' /\ Limit(zone)' = Limit(zone)
         /\ b + size \notin DOMAIN block /\ b + size \in DOMAIN block'
         /\ Here \subseteq Here'
         /\ Allocated' = Allocated \cup {b}
<1>. DEFINE rest == b + size
            n == block[b].next
            p == block[b].prev
<1>1. BlockTypes /\ arenas \subseteq DOMAIN block /\ zone \in DOMAIN block
  BY DEF Tiling, BlockTypes
<1>2. b \notin arenas
  BY FreeIsNoHead DEF PU_FREE, PU_STATIC
<1>3. /\ b \in Nat /\ block[b].size \in Nat /\ n \in DOMAIN block /\ p \in DOMAIN block
      /\ block[n].prev = b /\ block[p].next = b /\ block[n].tag # PU_FREE
      /\ End(b) = b + block[b].size
  BY <1>1, <1>2, HeaderFields DEF Tiling, Linked, End
<1>4. b < rest /\ rest < End(b) /\ rest \in Nat \ {0}
  BY <1>3
<1>5. ASSUME NEW c \in DOMAIN block PROVE c # rest /\ (c <= b \/ End(b) <= c) /\ c \in Nat
  <2>1. c \in Nat
    BY <1>1, HeaderFields
  <2>2. b < c => End(b) <= c
    BY DEF Tiling, BlocksApart
  <2>. QED
    BY <1>3, <1>4, <2>1, <2>2
<1>6. n # b /\ p # b
  <2>1. PICK a \in arenas : a <= b /\ b < Limit(a)
    BY Home
  <2>2. (n \in arenas => n = a) /\ (n \notin arenas => b < n)
    BY <2>1, NextHome
  <2>. QED
    BY <1>2, <1>3, <2>2
<1>7. /\ DOMAIN block' = DOMAIN block \cup {rest}
      /\ block' = [c \in DOMAIN block' |-> block'[c]]
      /\ block'[rest] = [size |-> block[b].size - size, user |-> NoUser,
                         tag |-> PU_FREE, next |-> n, prev |-> b]
      /\ block'[b] = [size |-> size, user |-> u, tag |-> t, next |-> rest, prev |-> p]
      /\ \A c \in DOMAIN block : c # b =>
           block'[c] = IF c = n THEN [block[c] EXCEPT !.prev = rest] ELSE block[c]
  BY <1>5 DEF IsCut
<1>. HIDE DEF rest, n, p
<1>8. ASSUME NEW c \in DOMAIN block, c # b
      PROVE  /\ block'[c] \in HeaderType
             /\ block'[c].size = block[c].size /\ block'[c].user = block[c].user
             /\ block'[c].tag = block[c].tag /\ block'[c].next = block[c].next
             /\ block'[c].prev = IF c = n THEN rest ELSE block[c].prev
  <2>1. block[c] \in HeaderType
    BY <1>1, HeaderFields
  <2>2. block'[c] = IF c = n THEN [block[c] EXCEPT !.prev = rest] ELSE block[c]
    BY <1>7, <1>8
  <2>. QED
    BY <1>4, <2>1, <2>2 DEF HeaderType
<1>9. /\ End(b)' = rest /\ End(rest)' = End(b)
      /\ \A c \in DOMAIN block : c # b => End(c)' = End(c)
      /\ \A a \in arenas : Limit(a)' = Limit(a)
  <2>1. block'[rest].size = block[b].size - size /\ block'[b].size = size
    BY <1>7
  <2>2. rest = b + size /\ rest \notin arenas
    BY <1>1, <1>5 DEF rest
  <2>3. End(b)' = rest /\ End(rest)' = End(b)
    BY <1>2, <1>3, <2>1, <2>2 DEF End
  <2>4. \A c \in DOMAIN block : c # b => End(c)' = End(c)
    BY <1>8 DEF End
  <2>5. \A a \in arenas : Limit(a)' = Limit(a)
    BY <1>1, <1>2, <1>8 DEF Limit
  <2>. QED
    BY <2>3, <2>4, <2>5
<1>10. BlockTypes'
  <2>1. block'[rest] \in HeaderType /\ block'[b] \in HeaderType
    <3>1. block[b].size - size \in Nat \ {0} /\ n \in Nat /\ p \in Nat /\ PU_FREE \in Tag
      BY <1>3, <1>5 DEF Tag, PU_FREE
    <3>. QED
      BY <1>3, <1>4, <1>7, <3>1 DEF HeaderType
  <2>2. block' \in [DOMAIN block' -> HeaderType]
    BY <1>7, <1>8, <2>1
  <2>3. HeaderType' = HeaderType
    BY DEF HeaderType
  <2>. QED
    BY <1>1, <1>4, <1>7, <2>2, <2>3 DEF BlockTypes
<1>11. ArenasApart'
  <2>1. \A a \in arenas : /\ block'[a].tag = block[a].tag
                          /\ block'[a].size = block[a].size
    BY <1>1, <1>2, <1>8
  <2>. QED
    BY <1>9, <2>1 DEF Tiling, ArenasApart
<1>12. BlocksApart'
  <2>0. PICK h \in arenas : h <= b /\ End(b) <= Limit(h)
    BY DEF Tiling, BlocksApart
  <2>1. ASSUME NEW c \in DOMAIN block'
        PROVE  \E a \in arenas' : a <= c /\ End(c)' <= Limit(a)'
    <3>1. h \in Nat /\ Limit(h) \in Nat /\ End(b) \in Nat
      BY <1>1, HeaderFields
    <3>2. CASE c = b
      BY <1>3, <1>4, <1>9, <2>0, <3>1, <3>2
    <3>3. CASE c = rest
      BY <1>3, <1>4, <1>9, <2>0, <3>1, <3>3
    <3>4. CASE c \in DOMAIN block /\ c # b
      BY <1>9, <3>4 DEF Tiling, BlocksApart
    <3>. QED
      BY <1>7, <3>2, <3>3, <3>4
  <2>2. ASSUME NEW c \in DOMAIN block', NEW d \in DOMAIN block', c < d
        PROVE  End(c)' <= d
    <3>1. End(b) \in Nat
      BY <1>1, HeaderFields
    <3>2. \A e \in DOMAIN block : b < e => End(b) <= e
      BY DEF Tiling, BlocksApart
    <3>3. CASE c = b
      BY <1>3, <1>4, <1>5, <1>7, <1>9, <2>2, <3>1, <3>2, <3>3
    <3>4. CASE c = rest
      BY <1>3, <1>4, <1>5, <1>7, <1>9, <2>2, <3>1, <3>2, <3>4
    <3>5. CASE c \in DOMAIN block /\ c # b
      <4>1. End(c)' = End(c) /\ End(c) \in Nat /\ c \in Nat
        BY <1>1, <1>9, <3>5, HeaderFields
      <4>2. \A e \in DOMAIN block : c < e => End(c) <= e
        BY <3>5 DEF Tiling, BlocksApart
      <4>3. CASE d = rest
        <5>1. c <= b
          BY <1>3, <1>4, <1>5, <2>2, <3>1, <3>5, <4>1, <4>3
        <5>2. End(c) <= b
          BY <1>3, <3>5, <4>1, <4>2, <5>1
        <5>. QED
          BY <1>3, <1>4, <4>1, <4>3, <5>2
      <4>4. CASE d \in DOMAIN block
        BY <2>2, <4>1, <4>2, <4>4
      <4>. QED
        BY <1>7, <4>3, <4>4
    <3>. QED
      BY <1>7, <3>3, <3>4, <3>5
  <2>. QED
    BY <2>1, <2>2 DEF BlocksApart
<1>13. Linked'
  <2>1. ASSUME NEW a \in arenas', NEW c \in DOMAIN block', a <= c, c < Limit(a)'
        PROVE  block'[c].next = After(a, c)'
    <3>1. After(a, c)' = IF End(c)' = Limit(a) THEN a ELSE End(c)'
      BY <1>9 DEF After
    <3>2. a \in Nat /\ Limit(a) \in Nat /\ End(b) \in Nat /\ c < Limit(a) /\ a <= c
      BY <1>1, <1>9, <2>1, HeaderFields
    <3>3. CASE c \in DOMAIN block /\ c # b
      <4>1. block[c].next = After(a, c)
        BY <3>2, <3>3 DEF Tiling, Linked
      <4>. QED
        BY <1>8, <1>9, <3>1, <3>3, <4>1 DEF After
    <3>4. CASE c = b
      <4>1. End(b) <= Limit(a)
        BY <3>2, <3>4, NextHome
      <4>2. rest # Limit(a)
        BY <1>4, <3>2, <4>1
      <4>3. block'[b].next = rest
        BY <1>7
      <4>. QED
        BY <1>9, <3>1, <3>4, <4>2, <4>3
    <3>5. CASE c = rest
      <4>1. PICK h \in arenas : h <= b /\ b < Limit(h) /\ End(b) <= Limit(h)
        BY Home
      <4>2. /\ h \in Nat /\ Limit(h) \in Nat
            /\ (a < h => Limit(a) <= h) /\ (h < a => Limit(h) <= a)
        BY <1>1, HeaderFields DEF Tiling, ArenasApart
      <4>3. a = h
        BY <1>3, <1>4, <3>2, <3>5, <4>1, <4>2
      <4>4. n = After(a, b)
        BY <4>1, <4>3 DEF Tiling, Linked, n
      <4>5. block'[rest].next = n
        BY <1>7
      <4>. QED
        BY <1>9, <3>1, <3>5, <4>4, <4>5 DEF After
    <3>. QED
      BY <1>7, <3>3, <3>4, <3>5
  <2>2. ASSUME NEW c \in DOMAIN block'
        PROVE  /\ block'[c].next \in DOMAIN block' /\ block'[block'[c].next].prev = c
               /\ block'[c].prev \in DOMAIN block' /\ block'[block'[c].prev].next = c
               /\ block'[c].tag # PU_FREE \/ block'[block'[c].next].tag # PU_FREE
    <3>1. CASE c = b
      BY <1>3, <1>6, <1>7, <1>8, <3>1
    <3>2. CASE c = rest
      BY <1>3, <1>6, <1>7, <1>8, <3>2
    <3>3. CASE c \in DOMAIN block /\ c # b
      <4>. DEFINE nc == block[c].next
                  pc == block[c].prev
      <4>1. /\ nc \in DOMAIN block /\ block[nc].prev = c
            /\ pc \in DOMAIN block /\ block[pc].next = c
            /\ block[c].tag # PU_FREE \/ block[nc].tag # PU_FREE
        BY <3>3 DEF Tiling, Linked
      <4>2. /\ block'[c].next = nc /\ block'[c].tag = block[c].tag
            /\ block'[c].prev = IF c = n THEN rest ELSE pc
        BY <1>8, <3>3
      <4>. HIDE DEF nc, pc
      <4>3. block'[nc].prev = c
        <5>1. nc # n
          BY <1>3, <3>3, <4>1
        <5>2. CASE nc = b
          BY <1>7, <4>1, <5>2 DEF p
        <5>3. CASE nc # b
          BY <1>8, <4>1, <5>1, <5>3
        <5>. QED
          BY <5>2, <5>3
      <4>4. block'[block'[c].prev].next = c /\ block'[c].prev \in DOMAIN block'
        <5>1. CASE c = n
          BY <1>7, <4>2, <5>1
        <5>2. CASE c # n
          <6>1. pc # b
            BY <4>1, <5>2 DEF n
          <6>. QED
            BY <1>7, <1>8, <4>1, <4>2, <5>2, <6>1
        <5>. QED
          BY <5>1, <5>2
      <4>5. block'[c].tag # PU_FREE \/ block'[nc].tag # PU_FREE
        BY <1>7, <1>8, <4>1, <4>2
      <4>. QED
        BY <1>7, <4>1, <4>2, <4>3, <4>4, <4>5
    <3>. QED
      BY <1>7, <3>1, <3>2, <3>3
  <2>. QED
    BY <2>1, <2>2 DEF Linked
<1>14. Allocated' = Allocated \cup {b}
  <2>1. block'[rest].tag = PU_FREE /\ block'[b].tag # PU_FREE
    BY <1>7
  <2>. QED
    BY <1>2, <1>7, <1>8, <2>1 DEF Allocated
<1>15. Here \subseteq Here'
  BY <1>7 DEF Here
<1>16. Limit(zone)' = Limit(zone)
  BY <1>9 DEF Tiling, BlockTypes
<1>. QED
  BY <1>5, <1>7, <1>10, <1>11, <1>12, <1>13, <1>14, <1>15, <1>16 DEF Tiling, rest

\* Z_Malloc's block is taken whole, or cut off the beginning.
LEMMA TakeBlock ==
  ASSUME ZoneInv, Take, NEW b, b = malloc.base
  PROVE  /\ b \in DOMAIN block' /\ b \notin Allocated /\ block[b].tag = PU_FREE
         /\ b \in Nat
         /\ Tiling' /\ Limit(zone)' = Limit(zone) /\ Here \subseteq Here'
         /\ rover' \in Here'
         /\ Allocated' = Allocated \cup {b}
         /\ block'[b].user = malloc.user /\ block'[b].tag = malloc.tag
         /\ malloc.size <= block'[b].size
         /\ \A c \in Allocated : /\ c # b /\ c \in DOMAIN block
                                 /\ block'[c].size = block[c].size
                                 /\ block'[c].user = block[c].user
                                 /\ block'[c].tag = block[c].tag
<1>. DEFINE size == malloc.size
            t == malloc.tag
            u == malloc.user
            n == block[b].next
            rest == b + size
            split == Split(b, size)
<1>1. /\ malloc.op = "take"
      /\ block' = [split EXCEPT ![b].user = u, ![b].tag = t]
      /\ rover' = split[b].next
      /\ UNCHANGED <<zone, arenas>>
  BY DEF Take
<1>2. /\ Tiling /\ b \in Here /\ block[b].tag = PU_FREE
      /\ size \in Nat \ {0} /\ size <= block[b].size
      /\ t \in Tag /\ t # PU_FREE /\ u \in Pointer \cup {NoUser}
  BY <1>1 DEF ZoneInv, CallTypes, Scanning
<1>3. /\ b \in DOMAIN block /\ b \in Nat /\ block[b].size \in Nat \ {0}
      /\ b \notin Allocated /\ b \notin arenas /\ n \in Here
      /\ block[b] \in HeaderType /\ BlockTypes
  <2>1. b \in DOMAIN block /\ BlockTypes /\ n \in Here /\ b \notin Allocated
    BY <1>2, HereLinks DEF Here, Tiling, Allocated
  <2>2. b \notin arenas
    BY <1>2, <2>1, FreeIsNoHead DEF PU_FREE, PU_STATIC
  <2>. QED
    BY <2>1, <2>2, HeaderFields
<1>4. \A c \in Allocated : c # b /\ c \in DOMAIN block
  BY <1>3 DEF Allocated
<1>. DEFINE extra == block[b].size - size
<1>5. CASE extra > MINFRAGMENT
  <2>. DEFINE L == [c \in DOMAIN block \cup {rest} |->
               IF c = rest
               THEN [size |-> extra, user |-> NoUser, tag |-> PU_FREE,
                     next |-> n, prev |-> b]
               ELSE IF c = b
               THEN [block[c] EXCEPT !.size = size, !.next = rest]
               ELSE IF c = n
               THEN [block[c] EXCEPT !.prev = rest]
               ELSE block[c]]
  <2>1. split = L
    BY <1>5 DEF Split, WorthSplitting
  <2>2. b # rest
    BY <1>2, <1>3
  <2>3. L[b] = [size |-> size, user |-> block[b].user, tag |-> block[b].tag,
                next |-> rest, prev |-> block[b].prev]
    BY <1>3, <2>2 DEF HeaderType
  <2>4. block'[b] = [size |-> size, user |-> u, tag |-> t, next |-> rest,
                     prev |-> block[b].prev]
    <3>1. b \in DOMAIN L
      BY <1>3
    <3>. DEFINE x == L[b]
    <3>2. block'[b] = [x EXCEPT !.user = u, !.tag = t]
      BY <1>1, <2>1, <3>1
    <3>. HIDE DEF x
    <3>3. x = [size |-> size, user |-> block[b].user, tag |-> block[b].tag,
               next |-> rest, prev |-> block[b].prev]
      BY <2>3 DEF x
    <3>4. rest \in Nat
      BY <1>2, <1>3
    <3>5. x \in HeaderType
      BY <1>2, <1>3, <3>3, <3>4 DEF HeaderType
    <3>. QED
      BY <3>2, <3>3, <3>5 DEF HeaderType
  <2>5. /\ DOMAIN block' = DOMAIN L
        /\ block' = [c \in DOMAIN block' |-> block'[c]]
        /\ \A c \in DOMAIN L : c # b => block'[c] = L[c]
    BY <1>1, <2>1
  <2>6. IsCut(b, size, t, u)
    <3>1. rest \in DOMAIN L /\ DOMAIN L = DOMAIN block \cup {rest}
          /\ L[rest] = [size |-> extra, user |-> NoUser, tag |-> PU_FREE,
                        next |-> n, prev |-> b]
      OBVIOUS
    <3>2. \A c \in DOMAIN block : c # b => L[c] = IF c = rest THEN L[rest]
            ELSE IF c = n THEN [block[c] EXCEPT !.prev = rest] ELSE block[c]
      OBVIOUS
    <3>3. rest \notin DOMAIN block
      <4>1. rest \in Nat /\ b < rest /\ rest < End(b)
        BY <1>2, <1>3, <1>5 DEF End, MINFRAGMENT
      <4>2. \A c \in DOMAIN block : b < c => End(b) <= c
        BY <1>2, <1>3 DEF Tiling, BlocksApart
      <4>3. End(b) \in Nat
        BY <1>3, HeaderFields
      <4>. QED
        BY <4>1, <4>2, <4>3
    <3>4. /\ DOMAIN block' = DOMAIN block \cup {rest}
          /\ block'[rest] = [size |-> extra, user |-> NoUser, tag |-> PU_FREE,
                             next |-> n, prev |-> b]
          /\ \A c \in DOMAIN block : c # b =>
               block'[c] = IF c = n /\ c # rest THEN [block[c] EXCEPT !.prev = rest]
                           ELSE block[c]
      <4>. HIDE DEF L
      <4>. QED
        BY <2>2, <2>5, <3>1, <3>2, <3>3
    <3>. HIDE DEF L
    <3>. QED
      BY <2>4, <2>5, <3>4 DEF IsCut
  <2>7. size < block[b].size
    BY <1>2, <1>3, <1>5 DEF MINFRAGMENT
  <2>. HIDE DEF size, t, u, n, L
  <2>8. /\ Tiling' /\ Limit(zone)' = Limit(zone)
        /\ rest \notin DOMAIN block /\ rest \in DOMAIN block'
        /\ Here \subseteq Here' /\ Allocated' = Allocated \cup {b}
    BY <1>1, <1>2, <1>3, <2>6, <2>7, CutTiling
  <2>9. rover' = rest
    BY <1>1, <2>1, <2>3
  <2>10. rest \in Here'
    <3>1. zone \in Nat
      BY <1>3 DEF BlockTypes
    <3>2. zone <= rest
      BY <1>2, <1>3, <3>1 DEF Here
    <3>. QED
      BY <1>1, <2>8, <3>2 DEF Here
  <2>11. \A c \in Allocated : /\ block'[c].size = block[c].size
                              /\ block'[c].user = block[c].user
                              /\ block'[c].tag = block[c].tag
    <3>1. TAKE c \in Allocated
    <3>2. block'[c] = IF c = n /\ c # rest THEN [block[c] EXCEPT !.prev = rest]
                      ELSE block[c]
      BY <1>4, <2>6 DEF IsCut, n
    <3>3. block[c] \in HeaderType
      BY <1>3, <1>4, HeaderFields
    <3>. QED
      BY <3>2, <3>3 DEF HeaderType
  <2>12. block'[b].user = u /\ block'[b].tag = t /\ size <= block'[b].size
         /\ b \in DOMAIN block'
    BY <1>2, <1>3, <2>4, <2>6 DEF IsCut
  <2>. QED
    BY <1>2, <1>3, <1>4, <2>8, <2>9, <2>10, <2>11, <2>12 DEF size, t, u
<1>6. CASE ~(extra > MINFRAGMENT)
  <2>1. split = block
    BY <1>6 DEF Split, WorthSplitting
  <2>2. block' = [block EXCEPT ![b].user = u, ![b].tag = t]
    BY <1>1, <2>1
  <2>3. /\ DOMAIN block' = DOMAIN block
        /\ \A c \in DOMAIN block : c # b => block'[c] = block[c]
        /\ block'[b] = [size |-> block[b].size, user |-> u, tag |-> t,
                        next |-> block[b].next, prev |-> block[b].prev]
        /\ block' = [c \in DOMAIN block |-> block'[c]]
    BY <1>3, <2>2 DEF HeaderType
  <2>4. Relabelled(b)
    <3>1. block'[b] \in HeaderType
      BY <1>2, <1>3, <2>3 DEF HeaderType
    <3>2. \A c \in DOMAIN block : block'[c] \in HeaderType
      BY <1>3, <2>3, <3>1, HeaderFields
    <3>3. block' \in [DOMAIN block -> HeaderType]
      BY <2>3, <3>2
    <3>4. \A c \in DOMAIN block :
            /\ block'[c].size = block[c].size
            /\ block'[c].next = block[c].next /\ block'[c].prev = block[c].prev
            /\ c # b => block'[c].tag = block[c].tag /\ block'[c].user = block[c].user
      BY <2>3
    <3>5. block'[b].tag # PU_FREE
      BY <1>2, <2>3
    <3>. QED
      BY <2>3, <3>3, <3>4, <3>5 DEF Relabelled
  <2>5. /\ Tiling' /\ Here' = Here /\ Limit(zone)' = Limit(zone)
        /\ Allocated' = Allocated \cup {b}
    BY <1>1, <1>2, <1>3, <2>4, RelabelTiling
  <2>6. rover' \in Here'
    BY <1>1, <1>3, <2>1, <2>5
  <2>7. /\ b \in DOMAIN block' /\ block'[b].user = u /\ block'[b].tag = t
        /\ size <= block'[b].size
    BY <1>2, <1>3, <2>3
  <2>8. \A c \in Allocated : block'[c] = block[c]
    BY <1>4, <2>3
  <2>. QED
    BY <1>2, <1>3, <1>4, <2>5, <2>6, <2>7, <2>8
<1>. QED
  BY <1>5, <1>6

LEMMA TakeInv ==
  ASSUME ZoneInv, Take PROVE ZoneInv'
<1>. DEFINE b == malloc.base
            u == malloc.user
<1>1. /\ malloc.op = "take"
      /\ pointer' = [v \in Pointer |-> IF v = u THEN b + Header ELSE pointer[v]]
      /\ result' = IF u = NoUser THEN b + Header ELSE Null
      /\ malloc' = NoMalloc
      /\ UNCHANGED <<zone, arenas, sweep>>
  BY DEF Take, SetUser
<1>2. /\ Tiling /\ CallTypes /\ Growth /\ OwnersExact
      /\ u \in Pointer \cup {NoUser}
      /\ u # NoUser => pointer[u] = Null
      /\ sweep = NoSweep
  BY <1>1 DEF ZoneInv, CallTypes, Scanning, Sweeping
<1>3. /\ b \notin Allocated /\ b \in Nat
      /\ Tiling' /\ Limit(zone)' = Limit(zone)
      /\ rover' \in Here'
      /\ Allocated' = Allocated \cup {b}
      /\ block'[b].user = u
      /\ \A c \in Allocated : block'[c].user = block[c].user /\ c \in DOMAIN block
  BY TakeBlock
<1>8. b \in DOMAIN block
  BY <1>1 DEF ZoneInv, Scanning, Here
<1>. HIDE DEF b, u
<1>4. CallTypes'
  <2>1. pointer' \in [Pointer -> Nat]
    BY <1>1, <1>2, <1>3 DEF CallTypes, Header
  <2>3. result' \in Address \cup {Null}
    BY <1>1, <1>2, <1>8, LimitBound
  <2>2. malloc' \in [op : {"none", "scan", "take", "error"}, base : Nat, at : Nat,
                     start : Nat, size : Nat, tag : Tag,
                     user : Pointer \cup {NoUser}]
    BY <1>1 DEF NoMalloc, Null, Tag, PU_FREE
  <2>. QED
    BY <1>1, <1>2, <1>3, <2>1, <2>2, <2>3 DEF CallTypes
<1>5. Growth'
  BY <1>1, <1>2, <1>3 DEF Growth
<1>6. OwnersExact'
  <2>1. ASSUME NEW v \in Pointer, pointer'[v] # Null
        PROVE  pointer'[v] - Header \in Allocated' /\ block'[pointer'[v] - Header].user = v
    <3>1. CASE v = u
      <4>1. pointer'[v] - Header = b
        BY <1>1, <1>3, <3>1 DEF Header
      <4>. QED
        BY <1>3, <3>1, <4>1
    <3>2. CASE v # u
      <4>1. pointer'[v] = pointer[v]
        BY <1>1, <3>2
      <4>2. pointer[v] - Header \in Allocated /\ block[pointer[v] - Header].user = v
        BY <1>2, <2>1, <4>1 DEF OwnersExact
      <4>. QED
        BY <1>3, <4>1, <4>2
    <3>. QED
      BY <3>1, <3>2
  <2>2. ASSUME NEW c \in Allocated', block'[c].user # NoUser
        PROVE  pointer'[block'[c].user] = c + Header
    <3>1. CASE c = b
      BY <1>1, <1>2, <1>3, <2>2, <3>1
    <3>2. CASE c \in Allocated
      <4>1. block'[c].user = block[c].user /\ c \in DOMAIN block
        BY <1>3, <3>2
      <4>2. pointer[block[c].user] = c + Header
        BY <1>2, <2>2, <3>2, <4>1 DEF OwnersExact
      <4>3. c \in Nat /\ block[c].user \in Pointer
        BY <1>2, <2>2, <4>1, HeaderFields DEF Tiling
      <4>4. block[c].user # u
        BY <1>2, <2>2, <4>1, <4>2, <4>3 DEF Header, Null
      <4>. QED
        BY <1>1, <4>1, <4>2, <4>3, <4>4
    <3>. QED
      BY <1>3, <3>1, <3>2
  <2>. QED
    BY <2>1, <2>2 DEF OwnersExact
<1>7. Scanning' /\ Sweeping'
  BY <1>1, <1>2 DEF Scanning, Sweeping, NoMalloc, NoSweep
<1>. QED
  BY <1>3, <1>4, <1>5, <1>6, <1>7 DEF ZoneInv

\* The scan starts at a block behind which there is no free one.
LEMMA Z_MallocInv ==
  ASSUME ZoneInv, NEW size \in Nat \ {0}, NEW tag \in Tag, tag # PU_FREE,
         NEW user \in Pointer \cup {NoUser},
         user # NoUser => pointer[user] = Null,
         Z_Malloc(size, tag, user)
  PROVE  /\ ZoneInv'
         /\ malloc' = [op |-> "scan", base |-> malloc'.base, at |-> malloc'.at,
                       start |-> malloc'.start, size |-> size + Header,
                       tag |-> tag, user |-> user]
         /\ UNCHANGED <<block, zone, arenas, rover, pointer, sweep>>
<1>. DEFINE behind == block[rover].prev
            base == IF block[behind].tag = PU_FREE THEN behind ELSE rover
            start == block[base].prev
<1>1. /\ malloc' = [op |-> "scan", base |-> base, at |-> base, start |-> start,
                    size |-> size + Header, tag |-> tag, user |-> user]
      /\ ZoneIdle /\ result' = Null
      /\ UNCHANGED <<block, zone, arenas, rover, pointer, sweep>>
  BY DEF Z_Malloc
<1>2. Tiling /\ CallTypes /\ Growth /\ OwnersExact /\ rover \in Here /\ sweep = NoSweep
  BY <1>1 DEF ZoneInv, CallTypes, ZoneIdle
<1>3. /\ behind \in Here /\ base \in Here /\ start \in Here
      /\ rover \in DOMAIN block /\ behind \in DOMAIN block
  BY <1>2, HereLinks DEF Here
<1>4. block[start].tag # PU_FREE /\ start \in Nat /\ base \in Nat
  <2>1. block[behind].prev \in DOMAIN block /\ block[block[behind].prev].next = behind
    BY <1>2, <1>3 DEF Tiling, Linked
  <2>2. block[block[behind].prev].tag # PU_FREE \/ block[behind].tag # PU_FREE
    BY <1>2, <2>1 DEF Tiling, Linked
  <2>3. block[start].tag # PU_FREE
    BY <2>2
  <2>4. start \in Nat /\ base \in Nat
    BY <1>2, <1>3 DEF Here, Tiling, BlockTypes
  <2>. QED
    BY <2>3, <2>4
<1>5. Tiling' /\ Growth' /\ OwnersExact' /\ Here' = Here
  BY <1>1, <1>2, ListFrame
<1>. HIDE DEF base, start
<1>6. /\ malloc'.op = "scan" /\ malloc'.base = base /\ malloc'.at = base
      /\ malloc'.start = start /\ malloc'.size = size + 1
      /\ malloc'.tag = tag /\ malloc'.user = user
  BY <1>1 DEF Header
<1>7. CallTypes'
  <2>1. size + Header \in Nat
    BY DEF Header
  <2>2. result' = Null
    BY <1>1
  <2>3. malloc' \in [op : {"none", "scan", "take", "error"}, base : Nat, at : Nat,
                     start : Nat, size : Nat, tag : Tag,
                     user : Pointer \cup {NoUser}]
    BY <1>1, <1>4, <2>1
  <2>. QED
    BY <1>1, <1>2, <1>5, <2>2, <2>3 DEF CallTypes
<1>8. Scanning'
  BY <1>1, <1>3, <1>4, <1>5, <1>6 DEF Scanning, start
<1>9. Sweeping'
  BY <1>1, <1>2 DEF Sweeping, NoSweep
<1>. QED
  BY <1>1, <1>5, <1>6, <1>7, <1>8, <1>9 DEF ZoneInv

\* What freeing an allocated block keeps.
LEMMA FreeBlockInv ==
  ASSUME ZoneInv, NEW b \in Allocated, FreeBlock(b), UNCHANGED <<zone, arenas, malloc>>,
         malloc = NoMalloc, result' \in Address \cup {Null},
         sweep' \in [op : {"none", "sweep"}, at : Nat, stale : Nat],
         Sweeping'
  PROVE  ZoneInv'
<1>1. Tiling /\ CallTypes /\ Growth /\ OwnersExact
  BY DEF ZoneInv
<1>2. Tiling'
  BY <1>1, FreeTiling
<1>3. rover' \in Here' /\ Limit(zone)' = Limit(zone)
  BY <1>1, FreeHere DEF CallTypes
<1>4. pointer' \in [Pointer -> Nat] /\ OwnersExact'
  BY <1>1, FreeOwners DEF CallTypes
<1>5. CallTypes'
  BY <1>1, <1>3, <1>4 DEF CallTypes
<1>6. Growth'
  BY <1>1, <1>3 DEF Growth
<1>7. Scanning'
  BY DEF Scanning, NoMalloc
<1>. QED
  BY <1>2, <1>4, <1>5, <1>6, <1>7 DEF ZoneInv

LEMMA Z_FreeInv ==
  ASSUME ZoneInv, NEW ptr, ptr - Header \in Allocated, Z_Free(ptr)
  PROVE  ZoneInv'
<1>1. /\ FreeBlock(ptr - Header) /\ malloc = NoMalloc /\ sweep' = NoSweep
      /\ result' = Null /\ UNCHANGED <<zone, arenas, malloc>>
  BY DEF Z_Free, ZoneIdle
<1>2. /\ result' \in Address \cup {Null}
      /\ sweep' \in [op : {"none", "sweep"}, at : Nat, stale : Nat]
  BY <1>1 DEF Null, NoSweep
<1>3. Sweeping'
  BY <1>1 DEF Sweeping, NoSweep
<1>. QED
  BY <1>1, <1>2, <1>3, FreeBlockInv

\* Past c, no block of the current arena is skipped.
LEMMA NextPass ==
  ASSUME Tiling, NEW c \in Here, NEW b \in DOMAIN block, c < b
  PROVE  /\ block[c].next # zone /\ block[c].next <= b
         /\ block[c].next \in DOMAIN block
<1>1. /\ c \in DOMAIN block /\ zone <= c /\ zone \in arenas
      /\ c < Limit(zone) /\ b < Limit(zone)
  BY HereHome DEF Here
<1>2. End(c) <= b
  BY <1>1 DEF Tiling, BlocksApart
<1>3. /\ c \in Nat /\ b \in Nat /\ End(c) \in Nat /\ Limit(zone) \in Nat /\ zone \in Nat
      /\ c < End(c)
  <2>1. BlockTypes /\ zone \in DOMAIN block
    BY DEF Tiling, BlockTypes
  <2>. QED
    BY <1>1, <2>1, HeaderFields
<1>4. block[c].next \in DOMAIN block /\ block[c].next = After(zone, c)
  BY <1>1, NextHome
<1>5. After(zone, c) = End(c)
  BY <1>1, <1>2, <1>3 DEF After
<1>. QED
  BY <1>1, <1>2, <1>3, <1>4, <1>5

\* A sweep starts behind the list head.
LEMMA Z_FreeTagsInv ==
  ASSUME ZoneInv, Z_FreeTags PROVE ZoneInv'
<1>. DEFINE at == block[zone].next
<1>1. /\ ZoneIdle /\ sweep' = [op |-> "sweep", at |-> at, stale |-> Null]
      /\ result' = Null
      /\ UNCHANGED <<block, zone, arenas, rover, pointer, malloc>>
  BY DEF Z_FreeTags
<1>2. Tiling /\ CallTypes /\ Growth /\ OwnersExact /\ malloc = NoMalloc
  BY <1>1 DEF ZoneInv, ZoneIdle
<1>3. Tiling' /\ Growth' /\ OwnersExact' /\ Here' = Here /\ Allocated' = Allocated
  BY <1>1, <1>2, ListFrame
<1>4. zone \in Here /\ zone \in arenas /\ zone \in DOMAIN block /\ zone \in Nat
  BY <1>2 DEF Tiling, BlockTypes, Here
<1>5. at \in Here /\ at \in DOMAIN block /\ at \in Nat /\ zone <= at
  <2>1. at \in Here
    BY <1>2, <1>4, HereLinks
  <2>. QED
    BY <1>2, <2>1 DEF Here, Tiling, BlockTypes
<1>6. at <= Limit(zone)
  <2>1. at < Limit(zone) /\ Limit(zone) \in Nat
    BY <1>2, <1>4, <1>5, HereHome, HeaderFields DEF Tiling
  <2>. QED
    BY <1>5, <2>1
<1>7. ASSUME NEW b \in Allocated, zone <= b PROVE at # zone /\ at <= b
  <2>1. b \in DOMAIN block /\ b # zone /\ b \in Nat
    BY <1>2, <1>4 DEF Allocated, Tiling, BlockTypes
  <2>2. zone < b
    BY <1>4, <1>7, <2>1
  <2>. QED
    BY <1>2, <1>4, <2>1, <2>2, NextPass
<1>8. CallTypes'
  BY <1>1, <1>2, <1>3, <1>5 DEF CallTypes, Null
<1>9. Scanning'
  BY <1>1, <1>2 DEF Scanning, NoMalloc
<1>10. Sweeping'
  <2>1. /\ sweep'.op = "sweep" /\ sweep'.at = at /\ sweep'.stale = Null
    BY <1>1
  <2>2. Cursor' = at
    BY <1>1, <1>5, <2>1 DEF Cursor
  <2>3. malloc'.op = "none" /\ Limit(zone)' = Limit(zone)
    BY <1>1, <1>2 DEF NoMalloc, Limit
  <2>4. \A b \in Allocated' : zone' <= b /\ block'[b].tag \in LowTag .. HighTag =>
              Cursor' # zone' /\ Cursor' <= b
    BY <1>1, <1>3, <1>7, <2>2
  <2>. QED
    BY <1>1, <1>3, <1>5, <1>6, <2>1, <2>2, <2>3, <2>4 DEF Sweeping
<1>. QED
  BY <1>3, <1>8, <1>9, <1>10 DEF ZoneInv

\* A swept block may take its free neighbour with it, and the cursor is then at
\* a header that is gone; but its link leads past what was swept.
LEMMA SweepBlockInv ==
  ASSUME ZoneInv, SweepBlock PROVE ZoneInv'
<1>. DEFINE at == sweep.at
            next == Link
            stale == IF next \in DOMAIN block \ DOMAIN block' THEN block[next].next
                     ELSE Null
            level(b) == block[b].tag \in LowTag .. HighTag
            inside == at \in DOMAIN block /\ level(at)
<1>1. /\ sweep.op = "sweep" /\ at # zone
      /\ IF inside THEN FreeBlock(at) ELSE UNCHANGED <<block, rover, pointer>>
      /\ sweep' = [sweep EXCEPT !.at = next, !.stale = stale]
      /\ UNCHANGED <<zone, arenas, malloc, result>>
  BY DEF SweepBlock
<1>2. /\ Tiling /\ CallTypes /\ Growth /\ OwnersExact
      /\ malloc = NoMalloc
      /\ zone <= at /\ at <= Limit(zone)
      /\ Cursor \in Here /\ (sweep.stale = Null \/ sweep.stale \in Here)
      /\ at \in Nat
  BY <1>1 DEF ZoneInv, Scanning, Sweeping, CallTypes
<1>3. ASSUME NEW b \in Allocated, zone <= b, level(b) PROVE Cursor # zone /\ Cursor <= b
  BY <1>1, <1>3 DEF ZoneInv, Sweeping
<1>4. zone \in DOMAIN block /\ zone \in arenas /\ zone \in Nat /\ Limit(zone) \in Nat
      /\ arenas \subseteq DOMAIN block /\ BlockTypes
  <2>1. BlockTypes /\ zone \in arenas /\ arenas \subseteq DOMAIN block
    BY <1>2 DEF Tiling, BlockTypes
  <2>. QED
    BY <2>1, HeaderFields
<1>5. Cursor = IF at \in DOMAIN block THEN at ELSE sweep.stale
  BY DEF Cursor
<1>6. next \in Here
  <2>1. CASE at \in DOMAIN block
    BY <1>2, <1>5, <2>1, HereLinks DEF Link
  <2>2. CASE at \notin DOMAIN block
    BY <1>2, <1>5, <2>2 DEF Link
  <2>. QED
    BY <2>1, <2>2
<1>7. next \in DOMAIN block /\ next \in Nat /\ zone <= next /\ next <= Limit(zone)
  <2>1. next \in DOMAIN block /\ next \in Nat /\ zone <= next
    BY <1>4, <1>6 DEF Here, BlockTypes
  <2>2. next < Limit(zone)
    BY <1>2, <2>1, HereHome
  <2>. QED
    BY <1>4, <2>1, <2>2
\* The next block is not behind what is left to sweep.
<1>8. ASSUME NEW b \in Allocated, zone <= b, level(b), ~inside \/ b # at
      PROVE  next # zone /\ next <= b
  <2>1. Cursor # zone /\ Cursor <= b
    BY <1>3, <1>8
  <2>2. CASE at \notin DOMAIN block
    BY <1>5, <2>1, <2>2 DEF Link
  <2>3. CASE at \in DOMAIN block
    <3>1. b # at /\ b \in DOMAIN block /\ b \in Nat
      BY <1>4, <1>8, <2>3 DEF Allocated, BlockTypes
    <3>2. at < b /\ at \in Here
      BY <1>2, <1>5, <2>1, <2>3, <3>1
    <3>. QED
      BY <1>2, <2>3, <3>1, <3>2, NextPass DEF Link
  <2>. QED
    BY <2>2, <2>3
<1>9. /\ sweep'.op = "sweep" /\ sweep'.at = next /\ sweep'.stale = stale
      /\ sweep' = [op |-> sweep'.op, at |-> sweep'.at, stale |-> sweep'.stale]
  <2>. HIDE DEF next, stale
  <2>. QED
    BY <1>1, <1>2 DEF CallTypes
<1>10. CASE ~inside
  <2>1. UNCHANGED <<block, rover, pointer>>
    BY <1>1, <1>10
  <2>2. Tiling' /\ Growth' /\ OwnersExact' /\ Here' = Here /\ Allocated' = Allocated
    BY <1>1, <1>2, <2>1, ListFrame
  <2>3. stale = Null /\ Cursor' = next
    BY <1>7, <1>9, <2>1 DEF Cursor
  <2>4. CallTypes'
    <3>1. stale \in Nat
      BY <2>3 DEF Null
    <3>. HIDE DEF next, stale
    <3>. QED
      BY <1>1, <1>2, <1>7, <1>9, <2>1, <2>2, <3>1 DEF CallTypes
  <2>5. Scanning'
    BY <1>1, <1>2 DEF Scanning, NoMalloc
  <2>6. Limit(zone)' = Limit(zone) /\ malloc'.op = "none"
    BY <1>1, <1>2, <2>1 DEF Limit, NoMalloc
  <2>7. \A b \in Allocated' : zone' <= b /\ block'[b].tag \in LowTag .. HighTag =>
          Cursor' # zone' /\ Cursor' <= b
    BY <1>1, <1>8, <1>10, <2>1, <2>2, <2>3
  <2>8. Sweeping'
    BY <1>1, <1>6, <1>7, <1>9, <2>2, <2>3, <2>6, <2>7 DEF Sweeping
  <2>. QED
    BY <2>2, <2>4, <2>5, <2>8 DEF ZoneInv
<1>11. CASE inside
  <2>1. FreeBlock(at) /\ at \in DOMAIN block /\ at \in Here /\ next = block[at].next
    BY <1>1, <1>2, <1>5, <1>11 DEF Link
  <2>2. at \in Allocated
    <3>1. block[at].tag # PU_FREE /\ block[at].tag # PU_STATIC
      BY <1>11 DEF LowTag, HighTag, PU_LEVEL, PU_PURGELEVEL, PU_FREE, PU_STATIC
    <3>. QED
      BY <1>2, <2>1, <3>1, FreeIsNoHead DEF Allocated
  <2>3. /\ DOMAIN block' = DOMAIN block \ Gone(at)
        /\ Left(at) \in DOMAIN block'
        /\ block'[Left(at)].next = Right(at)
    BY <1>1, <1>2, <2>1, <2>2, FreeFields
  <2>4. Tiling'
    BY <1>1, <1>2, <2>1, <2>2, FreeTiling
  <2>5. Right(at) \in DOMAIN block'
    BY <2>3, <2>4 DEF Tiling, Linked
  <2>6. Here' = Here \ Gone(at) /\ Limit(zone)' = Limit(zone)
    BY <1>1, <1>2, <2>1, <2>2, FreeHere
  <2>7. next # at
    BY <1>2, <2>1, <2>2, Around
  <2>8. next \in DOMAIN block' \/
        (next \in Gone(at) /\ block[next].tag = PU_FREE /\ stale = Right(at))
    <3>1. CASE next \in Gone(at)
      <4>1. NextFree(at)
        BY <2>7, <3>1 DEF Gone
      <4>2. Right(at) = block[next].next
        BY <2>1, <4>1 DEF Right
      <4>3. stale = block[next].next
        BY <1>7, <2>3, <3>1
      <4>. QED
        BY <2>1, <3>1, <4>1, <4>2, <4>3 DEF NextFree
    <3>2. CASE next \notin Gone(at)
      BY <1>7, <2>3, <3>2
    <3>. QED
      BY <3>1, <3>2
  <2>9. Right(at) \in Here'
    <3>1. Right(at) \in Here
      BY <1>2, <1>6, <2>1, HereLinks DEF Right
    <3>. QED
      BY <2>3, <2>5, <2>6, <3>1
  <2>10. stale = Null \/ stale \in Here'
    BY <2>8, <2>9
  <2>11. Cursor' = (IF next \in DOMAIN block' THEN next ELSE stale)
    BY <1>9 DEF Cursor
  <2>12. Cursor' \in Here'
    BY <1>6, <2>3, <2>6, <2>8, <2>9, <2>11
  <2>13. ASSUME NEW b \in Allocated', zone' <= b, block'[b].tag \in LowTag .. HighTag
         PROVE  Cursor' # zone' /\ Cursor' <= b
    <3>1. b \in Allocated /\ b # at /\ level(b) /\ zone <= b /\ b \in DOMAIN block
      BY <1>1, <1>2, <2>1, <2>2, <2>13, FreeAllocated
    <3>2. next # zone /\ next <= b
      BY <1>8, <3>1
    <3>3. CASE next \in DOMAIN block'
      BY <1>1, <2>11, <3>2, <3>3
    <3>4. CASE next \notin DOMAIN block'
      <4>1. block[next].tag = PU_FREE /\ stale = block[next].next
        BY <1>7, <2>8, <3>4
      <4>2. next # b /\ b \in Nat
        BY <1>4, <3>1, <4>1 DEF Allocated, BlockTypes
      <4>3. next < b
        BY <1>7, <3>2, <4>2
      <4>4. block[next].next # zone /\ block[next].next <= b
        BY <1>2, <1>6, <3>1, <4>3, NextPass
      <4>. QED
        BY <1>1, <2>11, <3>4, <4>1, <4>4
    <3>. QED
      BY <3>3, <3>4
  <2>14. malloc'.op = "none"
    BY <1>1, <1>2 DEF NoMalloc
  <2>15. zone' <= next /\ next <= Limit(zone)'
    BY <1>1, <1>7, <2>6
  <2>. HIDE DEF next, stale
  <2>16. Sweeping'
    BY <1>9, <2>10, <2>12, <2>13, <2>14, <2>15 DEF Sweeping
  <2>17. stale \in Nat
    BY <2>4, <2>10 DEF Null, Here, Tiling, BlockTypes
  <2>18. /\ sweep' \in [op : {"none", "sweep"}, at : Nat, stale : Nat]
         /\ result' \in Address \cup {Null}
    BY <1>1, <1>2, <1>7, <1>9, <2>17 DEF CallTypes
  <2>. QED
    BY <1>1, <1>2, <2>1, <2>2, <2>16, <2>18, FreeBlockInv
<1>. QED
  BY <1>10, <1>11

LEMMA SweepEndInv ==
  ASSUME ZoneInv, SweepEnd PROVE ZoneInv'
<1>1. /\ sweep.op = "sweep" /\ sweep' = NoSweep
      /\ UNCHANGED <<block, zone, arenas, rover, pointer, malloc, result>>
  BY DEF SweepEnd
<1>2. Tiling /\ CallTypes /\ Growth /\ OwnersExact /\ malloc = NoMalloc
  BY <1>1 DEF ZoneInv, Scanning, Sweeping
<1>3. Tiling' /\ Growth' /\ OwnersExact' /\ Here' = Here
  BY <1>1, <1>2, ListFrame
<1>4. CallTypes'
  BY <1>1, <1>2, <1>3 DEF CallTypes, NoSweep, Null
<1>5. Scanning' /\ Sweeping'
  BY <1>1, <1>2 DEF Scanning, Sweeping, NoMalloc, NoSweep
<1>. QED
  BY <1>3, <1>4, <1>5 DEF ZoneInv

\* The tag of an allocated block changes, and nothing else does.
LEMMA Z_ChangeTagInv ==
  ASSUME ZoneInv, NEW ptr, ptr - Header \in Allocated,
         NEW tag \in Tag, tag # PU_FREE, Z_ChangeTag(ptr, tag)
  PROVE  /\ ZoneInv' /\ Allocated' = Allocated
         /\ \A c \in Allocated : /\ block'[c].size = block[c].size
                                 /\ block'[c].user = block[c].user
                                 /\ c # ptr - Header => block'[c].tag = block[c].tag
         /\ block'[ptr - Header].tag = tag
         /\ UNCHANGED <<zone, arenas, rover, pointer, malloc, sweep>>
<1>. DEFINE b == ptr - Header
<1>1. /\ block' = [block EXCEPT ![b].tag = tag] /\ ZoneIdle /\ result' = Null
      /\ UNCHANGED <<zone, arenas, rover, pointer, malloc, sweep>>
  BY DEF Z_ChangeTag
<1>2. /\ Tiling /\ CallTypes /\ Growth /\ OwnersExact
      /\ malloc = NoMalloc /\ sweep = NoSweep
  BY <1>1 DEF ZoneInv, ZoneIdle
<1>. HIDE DEF b
<1>3. b \in Allocated /\ b \in DOMAIN block /\ b \notin arenas /\ BlockTypes
  BY <1>2 DEF Allocated, Tiling, b
<1>4. \A c \in DOMAIN block : block[c] \in HeaderType
  BY <1>3, HeaderFields
<1>5. /\ DOMAIN block' = DOMAIN block /\ block' = [c \in DOMAIN block |-> block'[c]]
      /\ \A c \in DOMAIN block : c # b => block'[c] = block[c]
      /\ block'[b] = [block[b] EXCEPT !.tag = tag]
  BY <1>1, <1>3
<1>6. /\ block'[b].size = block[b].size /\ block'[b].user = block[b].user
      /\ block'[b].next = block[b].next /\ block'[b].prev = block[b].prev
      /\ block'[b].tag = tag /\ block'[b] \in HeaderType
  BY <1>3, <1>4, <1>5 DEF HeaderType
<1>7. Relabelled(b)
  BY <1>4, <1>5, <1>6 DEF Relabelled
<1>8. Tiling' /\ Here' = Here /\ Limit(zone)' = Limit(zone) /\ Allocated' = Allocated
  BY <1>1, <1>2, <1>3, <1>7, RelabelTiling
<1>9. \A c \in Allocated : /\ block'[c].size = block[c].size
                           /\ block'[c].user = block[c].user
                           /\ c # b => block'[c].tag = block[c].tag
  BY <1>5, <1>6 DEF Allocated
<1>10. OwnersExact'
  BY <1>1, <1>2, <1>8, <1>9 DEF OwnersExact
<1>11. CallTypes' /\ Growth'
  BY <1>1, <1>2, <1>8 DEF CallTypes, Growth, Null
<1>12. Scanning' /\ Sweeping'
  BY <1>1, <1>2 DEF Scanning, Sweeping, NoMalloc, NoSweep
<1>. QED
  BY <1>1, <1>6, <1>8, <1>9, <1>10, <1>11, <1>12 DEF ZoneInv, b

LEMMA ZoneStutterInv ==
  ASSUME ZoneInv, UNCHANGED zoneVars PROVE ZoneInv'
<1>1. UNCHANGED <<block, zone, arenas, rover, pointer, malloc, sweep, result>>
  BY DEF zoneVars
<1>2. Tiling /\ CallTypes /\ Growth /\ OwnersExact /\ Scanning /\ Sweeping
  BY DEF ZoneInv
<1>3. Tiling' /\ Growth' /\ OwnersExact' /\ Here' = Here /\ Allocated' = Allocated
  BY <1>1, <1>2, ListFrame
<1>4. CallTypes' /\ Scanning'
  BY <1>1, <1>2, <1>3 DEF CallTypes, Scanning
<1>5. Sweeping'
  <2>1. Cursor' = Cursor /\ Limit(zone)' = Limit(zone)
    BY <1>1 DEF Cursor, Limit
  <2>. QED
    BY <1>1, <1>2, <1>3, <2>1 DEF Sweeping
<1>. QED
  BY <1>3, <1>4, <1>5 DEF ZoneInv

----------------------------------------------------------------------------
(* The invariant, and what follows from it                                 *)

LEMMA ZoneInitInv == ZoneInit => ZoneInv
<1>. SUFFICES ASSUME ZoneInit PROVE ZoneInv
  OBVIOUS
<1>1. PICK s \in MinRam .. DefaultRam :
        /\ block = Arena(FirstZone, s) /\ zone = FirstZone /\ arenas = {FirstZone}
        /\ rover = FirstZone + Header /\ pointer = [u \in Pointer |-> Null]
        /\ malloc = NoMalloc /\ sweep = NoSweep /\ result = Null
  BY DEF ZoneInit
<1>2. s \in Nat /\ 3 <= s /\ s <= DefaultRam /\ DefaultRam \in Nat /\ MaxZones \in Nat \ {0}
  BY ZoneAssumption
<1>3. /\ DOMAIN block = {1, 2} /\ block = [b \in {1, 2} |-> block[b]]
      /\ block[1] = [size |-> s, user |-> NoUser, tag |-> PU_STATIC, next |-> 2, prev |-> 2]
      /\ block[2] = [size |-> s - 1, user |-> NoUser, tag |-> PU_FREE, next |-> 1, prev |-> 1]
      /\ zone = 1 /\ arenas = {1} /\ rover = 2
  BY <1>1 DEF Arena, FirstZone, Header
<1>4. /\ End(1) = 2 /\ End(2) = 1 + s /\ Limit(1) = 1 + s
  BY <1>2, <1>3 DEF End, Limit, Header
<1>5. Cardinality(arenas) = 1 /\ IsFiniteSet(arenas)
  BY <1>3, FS_Singleton
<1>6. BlockTypes
  <2>1. block[1] \in HeaderType /\ block[2] \in HeaderType
    BY <1>2, <1>3 DEF HeaderType, Tag, PU_STATIC, PU_FREE
  <2>. QED
    BY <1>2, <1>3, <1>5, <2>1 DEF BlockTypes
<1>7. ArenasApart
  BY <1>2, <1>3 DEF ArenasApart
<1>8. BlocksApart
  BY <1>2, <1>3, <1>4 DEF BlocksApart
<1>9. Linked
  <2>1. After(1, 1) = 2 /\ After(1, 2) = 1
    BY <1>2, <1>4 DEF After
  <2>2. \A a \in arenas, b \in DOMAIN block :
          a <= b /\ b < Limit(a) => block[b].next = After(a, b)
    BY <1>3, <2>1
  <2>3. \A b \in DOMAIN block :
         /\ block[b].next \in DOMAIN block /\ block[block[b].next].prev = b
         /\ block[b].prev \in DOMAIN block /\ block[block[b].prev].next = b
         /\ block[b].tag # PU_FREE \/ block[block[b].next].tag # PU_FREE
    BY <1>3 DEF PU_STATIC, PU_FREE
  <2>. QED
    BY <2>2, <2>3 DEF Linked
<1>10. Here = {1, 2} /\ Allocated = {}
  BY <1>3 DEF Here, Allocated
<1>11. CallTypes
  <2>1. malloc \in [op : {"none", "scan", "take", "error"}, base : Nat, at : Nat,
                    start : Nat, size : Nat, tag : Tag,
                    user : Pointer \cup {NoUser}]
    BY <1>1 DEF NoMalloc, Null, Tag, PU_FREE
  <2>. QED
    BY <1>1, <1>3, <1>10, <2>1 DEF CallTypes, Null, NoSweep
<1>12. Growth
  <2>1. 2 ^ 1 = 2 * 2 ^ 0 /\ 2 ^ 0 \in Nat
    BY PowerDoubles, PowerNat
  <2>2. 2 ^ 0 # 0
    <3>1. SUBSET (1 .. 0) # {}
      OBVIOUS
    <3>. QED
      BY <3>1, PowerSet, FS_EmptySet
  <2>. DEFINE T == 2 ^ 0
  <2>3. T \in Nat /\ 1 <= T /\ 2 ^ 1 = 2 * T
    BY <2>1, <2>2
  <2>. HIDE DEF T
  <2>4. DefaultRam <= DefaultRam * T /\ DefaultRam * T \in Nat
        /\ DefaultRam * (2 * T) = DefaultRam * T + DefaultRam * T
    BY <1>2, <2>3
  <2>. DEFINE D == DefaultRam * T
  <2>. HIDE DEF D
  <2>5. DefaultRam <= D /\ D \in Nat /\ DefaultRam * (2 * T) = D + D
    BY <2>4 DEF D
  <2>6. 1 + s + DefaultRam <= 1 + (D + D)
    BY <1>2, <2>5
  <2>. QED
    BY <1>3, <1>4, <1>5, <2>3, <2>5, <2>6 DEF Growth
<1>13. OwnersExact
  BY <1>1, <1>10 DEF OwnersExact
<1>14. Scanning /\ Sweeping
  BY <1>1 DEF Scanning, Sweeping, NoMalloc, NoSweep
<1>. QED
  BY <1>6, <1>7, <1>8, <1>9, <1>11, <1>12, <1>13, <1>14 DEF ZoneInv, Tiling

\* Every pass of a call keeps the invariant.
LEMMA ZoneStepInv ==
  ASSUME ZoneInv, ZoneStep PROVE ZoneInv'
  BY ScanNewZoneInv, OutOfMemoryInv, ScanPastInv, ScanPurgeInv, ScanFreeInv, TakeInv,
     SweepBlockInv, SweepEndInv DEF ZoneStep, ScanStep, SweepStep

LEMMA ZoneInvHeapIntact == ZoneInv => HeapIntact
<1>. SUFFICES ASSUME Tiling, NEW b \in DOMAIN block
     PROVE  /\ block[b].next = Follower(b)
            /\ Follower(b) \in DOMAIN block
            /\ block[Follower(b)].prev = b
            /\ ~(block[b].tag = PU_FREE /\ block[Follower(b)].tag = PU_FREE)
  BY DEF ZoneInv, HeapIntact
<1>1. PICK a \in arenas : /\ a <= b /\ b < Limit(a)
                          /\ \A c \in arenas : c <= b /\ b < Limit(c) => c = a
  BY Home
<1>2. (CHOOSE h \in arenas : h <= b /\ b < h + block[h].size) = a
  BY <1>1 DEF Limit
<1>3. BlockTypes
  BY DEF Tiling
<1>4. End(b) = IF b = a THEN a + Header ELSE b + block[b].size
  <2>1. b \in arenas => b = a
    <3>1. b < Limit(b)
      BY <1>3, HeaderFields
    <3>2. b <= b
      BY <1>3 DEF BlockTypes
    <3>. QED
      BY <1>1, <3>1, <3>2
  <2>. QED
    BY <1>1, <2>1 DEF End
<1>5. Follower(b) = After(a, b)
  <2>. DEFINE h == CHOOSE h \in arenas : h <= b /\ b < h + block[h].size
              end == IF b = h THEN h + Header ELSE b + block[b].size
  <2>1. Follower(b) = IF end = h + block[h].size THEN h ELSE end
    BY DEF Follower
  <2>2. h = a
    BY <1>2
  <2>. HIDE DEF h
  <2>. QED
    BY <1>4, <2>1, <2>2 DEF After, Limit
<1>6. block[b].next = After(a, b)
  BY <1>1 DEF Tiling, Linked
<1>7. /\ block[b].next \in DOMAIN block /\ block[block[b].next].prev = b
      /\ block[b].tag # PU_FREE \/ block[block[b].next].tag # PU_FREE
  BY DEF Tiling, Linked
<1>8. Follower(b) = block[b].next
  BY <1>5, <1>6
<1>. QED
  BY <1>7, <1>8

LEMMA ZoneInvCursorsLive == ZoneInv => CursorsLive
<1>. SUFFICES ASSUME ZoneInv PROVE CursorsLive
  OBVIOUS
<1>1. Tiling /\ rover \in Here
  BY DEF ZoneInv, CallTypes
<1>2. zone \in Nat /\ \A b \in DOMAIN block : b \in Nat
  BY <1>1 DEF Tiling, BlockTypes
<1>3. Here = {b \in DOMAIN block : b >= zone}
  BY <1>2 DEF Here
<1>4. malloc.op \in {"scan", "take"} => {malloc.base, malloc.at, malloc.start} \subseteq Here
  BY DEF ZoneInv, Scanning
<1>5. sweep.op = "sweep" => sweep.at \in Here \/ sweep.stale \in Here
  BY DEF ZoneInv, Sweeping, Cursor
<1>. QED
  BY <1>1, <1>3, <1>4, <1>5 DEF CursorsLive

LEMMA ZoneInvTypeOK == ZoneInv => ZoneTypeOK
<1>. SUFFICES ASSUME ZoneInv PROVE ZoneTypeOK
  OBVIOUS
<1>. DEFINE M == DefaultRam * 2 ^ MaxZones
<1>1. /\ Tiling /\ CallTypes /\ OwnersExact /\ Scanning /\ Sweeping /\ BlockTypes
  BY DEF ZoneInv, Tiling
<1>2. Limit(zone) \in Nat /\ Limit(zone) <= M /\ M \in Nat /\ Address = 1 .. M
  BY LimitBound DEF ZoneInv, Address
<1>. HIDE DEF M
<1>3. ASSUME NEW b \in DOMAIN block
      PROVE  /\ b \in Address /\ b + 1 \in Address /\ block[b].size \in Address
             /\ block[b] \in Headers
  <2>1. b \in Nat \ {0} /\ End(b) \in Nat /\ Limit(b) \in Nat /\ b < Limit(b) /\ b < Limit(zone)
        /\ block[b].size \in Nat \ {0} /\ block[b] \in HeaderType
    BY <1>1, HeaderFields, HereHome
  <2>2. Limit(b) <= Limit(zone) \/ b \notin arenas
    <3>1. ASSUME b \in arenas PROVE Limit(b) <= Limit(zone)
      <4>1. b <= zone /\ (b < zone => Limit(b) <= zone) /\ zone \in Nat
            /\ zone < Limit(zone)
        BY <1>1, <3>1, HereHome DEF Tiling, ArenasApart, BlockTypes
      <4>. QED
        BY <1>2, <2>1, <4>1
    <3>. QED
      BY <3>1
  <2>3. End(b) <= Limit(zone)
    <3>1. PICK a \in arenas : End(b) <= Limit(a)
      BY <1>1, Home
    <3>2. a <= zone /\ (a < zone => Limit(a) <= zone) /\ zone \in Nat /\ a \in Nat
          /\ zone < Limit(zone) /\ Limit(a) \in Nat
      BY <1>1, HereHome, HeaderFields DEF Tiling, ArenasApart, BlockTypes
    <3>. QED
      BY <1>2, <2>1, <3>1, <3>2
  <2>4. b + block[b].size <= Limit(zone)
    BY <2>2, <2>3 DEF End, Limit
  <2>5. b \in Address /\ b + 1 \in Address /\ block[b].size \in Address
    BY <1>2, <2>1, <2>4
  <2>6. /\ block[b].next \in DOMAIN block /\ block[b].prev \in DOMAIN block
    BY <1>1 DEF Tiling, Linked
  <2>7. \A c \in DOMAIN block : c \in Address
    <3>1. TAKE c \in DOMAIN block
    <3>2. c \in Nat \ {0} /\ c < Limit(zone)
      BY <1>1, HereHome DEF BlockTypes
    <3>. QED
      BY <1>2, <3>2
  <2>8. block[b] \in Headers
    BY <2>1, <2>5, <2>6, <2>7 DEF HeaderType, Headers
  <2>. QED
    BY <2>5, <2>8
<1>4. DOMAIN block \subseteq Address /\ block \in [DOMAIN block -> Headers]
  BY <1>1, <1>3 DEF BlockTypes
<1>5. Here \subseteq Address
  BY <1>4 DEF Here
<1>6. rover \in Address /\ zone \in arenas /\ arenas \subseteq DOMAIN block
  BY <1>1, <1>5 DEF CallTypes, BlockTypes
<1>7. pointer \in [Pointer -> Address \cup {Null}]
  <2>1. pointer \in [Pointer -> Nat]
    BY <1>1 DEF CallTypes
  <2>2. ASSUME NEW u \in Pointer, pointer[u] # Null PROVE pointer[u] \in Address
    <3>1. pointer[u] - Header \in DOMAIN block /\ pointer[u] \in Nat
      BY <1>1, <2>1, <2>2 DEF OwnersExact, Allocated
    <3>2. (pointer[u] - Header) + 1 \in Address
      BY <1>3, <3>1
    <3>. QED
      BY <3>1, <3>2 DEF Header
  <2>. QED
    BY <2>1, <2>2
<1>8. malloc \in [op : {"none", "scan", "take", "error"},
                  base : Address \cup {Null}, at : Address \cup {Null},
                  start : Address \cup {Null}, size : Nat, tag : Tag,
                  user : Pointer \cup {NoUser}]
  <2>1. /\ malloc.base \in Address \cup {Null} /\ malloc.at \in Address \cup {Null}
        /\ malloc.start \in Address \cup {Null}
    <3>1. CASE malloc.op = "none"
      BY <1>1, <3>1 DEF Scanning, NoMalloc
    <3>2. CASE malloc.op # "none"
      BY <1>1, <1>5, <3>2 DEF Scanning
    <3>. QED
      BY <3>1, <3>2
  <2>. QED
    BY <1>1, <2>1 DEF CallTypes
<1>9. sweep \in [op : {"none", "sweep"}, at : Address \cup {Null},
                 stale : Address \cup {Null}]
  <2>1. sweep.at \in Address \cup {Null} /\ sweep.stale \in Address \cup {Null}
    <3>1. CASE sweep.op = "none"
      BY <1>1, <3>1 DEF Sweeping, NoSweep
    <3>2. CASE sweep.op = "sweep"
      <4>1. sweep.stale \in Address \cup {Null}
        BY <1>1, <1>5, <3>2 DEF Sweeping
      <4>2. zone <= sweep.at /\ sweep.at <= Limit(zone)
        BY <1>1, <3>2 DEF Sweeping
      <4>3. zone \in Nat \ {0} /\ sweep.at \in Nat
        BY <1>1 DEF BlockTypes, CallTypes
      <4>. QED
        BY <1>2, <4>1, <4>2, <4>3
    <3>. QED
      BY <1>1, <3>1, <3>2 DEF CallTypes
  <2>. QED
    BY <1>1, <2>1 DEF CallTypes
<1>. QED
  BY <1>1, <1>4, <1>6, <1>7, <1>8, <1>9 DEF ZoneTypeOK, CallTypes
=============================================================================
