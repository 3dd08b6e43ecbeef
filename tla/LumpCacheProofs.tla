-------------------------- MODULE LumpCacheProofs --------------------------
(***************************************************************************)
(* The zone allocator under its callers, for every value of the constants: *)
(* the list of blocks stays intact, what a caller holds stays, and every   *)
(* step is one that Heap promises.                                         *)
(***************************************************************************)
EXTENDS LumpCache, ZoneProofs, SequenceTheorems

(***************************************************************************)
(* The inductive invariant. HeldKept says that what is held is allocated;  *)
(* that it stays so depends on its tag, and while a call is in progress on *)
(* what the call was asked for.                                            *)
(***************************************************************************)

\* p is memory with owner l that neither a purge nor a sweep may free (t is
\* PU_STATIC), or no purge (PU_LEVEL).
Held(p, l, t) == Holds(p, l) /\ block[p - Header].tag = t

Jobs ==
    [op : {"none"}] \cup [op : {"static"}] \cup [op : {"wi"}, lump : WiLumps]
      \cup [op : {"map", "copy"}, lump : MapLumps]
      \cup [op : {"composite"}, texture : Texture, left : Seq(PatchLumps),
            block : Address \cup {Null}]

CacheTypes ==
    /\ job \in Jobs
    /\ level \subseteq Address
    /\ wi \in [WiLumps -> Address \cup {Null}]
    /\ kept \in Address \cup {Null}

\* What callers hold from one call to the next.
Keeping ==
    /\ \A p \in level : Held(p, NoUser, PU_LEVEL)
    /\ \A l \in WiLumps : wi[l] # Null => Held(wi[l], l, PU_STATIC)
    /\ StaticLump \notin DrawnLumps /\ kept # Null => Held(kept, StaticLump, PU_STATIC)
    /\ job.op = "composite" /\ job.block # Null => Held(job.block, job.texture, PU_STATIC)
    /\ sweep.op = "sweep" => job = NoJob /\ level = {}

\* What the caller in progress waits for ...
Asks(user, tag) == malloc.op # "none" => malloc.user = user /\ malloc.tag = tag
Waiting ==
    /\ job.op = "static" => Asks(StaticLump, PU_STATIC)
    /\ job.op = "composite" /\ job.block = Null => Asks(job.texture, PU_STATIC)
    /\ job.op = "map" => Asks(NoUser, PU_LEVEL)
    /\ job.op \in {"copy", "wi"} => Asks(job.lump, PU_STATIC)

\* ... and what it finds when the call returns.
Returned ==
    malloc.op = "none" =>
      /\ job.op = "static" => Held(pointer[StaticLump], StaticLump, PU_STATIC)
      /\ job.op = "composite" /\ job.block = Null =>
           Held(pointer[job.texture], job.texture, PU_STATIC)
      /\ job.op = "map" => Held(result, NoUser, PU_LEVEL)
      /\ job.op \in {"copy", "wi"} => Held(pointer[job.lump], job.lump, PU_STATIC)

CacheInv == CacheTypes /\ Keeping /\ Waiting /\ Returned

----------------------------------------------------------------------------
(* What the passes of a call do to memory that is held                     *)

LEMMA AddressNat == Address \subseteq Nat \ {0} /\ Null \notin Address
<1>1. DefaultRam * 2 ^ MaxZones \in Nat
  <2>. DEFINE X == 2 ^ MaxZones
  <2>1. X \in Nat
    BY ZoneAssumption, PowerNat
  <2>. HIDE DEF X
  <2>2. DefaultRam * X \in Nat
    BY <2>1, ZoneAssumption
  <2>. QED
    BY <2>2 DEF X
<1>. QED
  BY <1>1 DEF Address, Null

\* No pass of Z_Malloc or Z_FreeTags frees a block whose tag forbids it.
LEMMA StepAllocated ==
  ASSUME ZoneInv, ZoneStep, NEW b \in Allocated, ~Purgable(block[b].tag),
         sweep.op = "sweep" => block[b].tag \notin LowTag .. HighTag
  PROVE  /\ b \in Allocated' /\ block'[b].size = block[b].size
         /\ block'[b].user = block[b].user /\ block'[b].tag = block[b].tag
<1>1. Tiling
  BY DEF ZoneInv
<1>2. CASE UNCHANGED <<block, arenas>>
  BY <1>2 DEF Allocated
<1>3. CASE ScanNewZone
  <2>1. /\ arenas' = arenas \cup {Limit(zone)}
        /\ \E s \in MinRam * 2 ^ Cardinality(arenas) .. DefaultRam * 2 ^ Cardinality(arenas) :
             block' = [c \in DOMAIN block \cup {Limit(zone), Limit(zone) + Header} |->
                         IF c \in DOMAIN block THEN block[c] ELSE Arena(Limit(zone), s)[c]]
    BY <1>3 DEF ScanNewZone, Limit
  <2>2. b \in DOMAIN block' /\ block'[b] = block[b] /\ b # Limit(zone)
    <3>1. b \in DOMAIN block /\ b < Limit(zone) /\ b \in Nat
      BY <1>1, HereHome DEF Allocated, Tiling, BlockTypes
    <3>. QED
      BY <2>1, <3>1
  <2>. QED
    BY <2>1, <2>2 DEF Allocated
<1>4. CASE ScanPurge
  <2>1. /\ Purgable(block[malloc.at].tag) /\ FreeBlock(malloc.at)
        /\ UNCHANGED <<zone, arenas>> /\ malloc.op = "scan"
    BY <1>4 DEF ScanPurge
  <2>2. malloc.at \in Allocated
    BY <1>1, <2>1, PurgableAllocated DEF ZoneInv, Scanning, Here
  <2>3. b # malloc.at
    BY <2>1
  <2>. QED
    BY <1>1, <2>1, <2>2, <2>3, FreeAllocated
<1>5. CASE Take
  <2>1. Allocated' = Allocated \cup {malloc.base}
        /\ \A c \in Allocated : /\ block'[c].size = block[c].size
                                /\ block'[c].user = block[c].user
                                /\ block'[c].tag = block[c].tag
    BY <1>5, TakeBlock
  <2>. QED
    BY <2>1
<1>6. CASE SweepBlock
  <2>. DEFINE at == sweep.at
  <2>1. /\ sweep.op = "sweep" /\ UNCHANGED <<zone, arenas>>
        /\ IF at \in DOMAIN block /\ block[at].tag \in LowTag .. HighTag
           THEN FreeBlock(at)
           ELSE UNCHANGED <<block, rover, pointer>>
    BY <1>6 DEF SweepBlock
  <2>2. CASE at \in DOMAIN block /\ block[at].tag \in LowTag .. HighTag
    <3>1. block[at].tag # PU_FREE /\ block[at].tag # PU_STATIC
      BY <2>2 DEF LowTag, HighTag, PU_LEVEL, PU_PURGELEVEL, PU_FREE, PU_STATIC
    <3>2. at \in Allocated
      BY <1>1, <2>2, <3>1, FreeIsNoHead DEF Allocated
    <3>3. b # at
      BY <2>1, <2>2
    <3>. QED
      BY <1>1, <2>1, <2>2, <3>2, <3>3, FreeAllocated
  <2>3. CASE ~(at \in DOMAIN block /\ block[at].tag \in LowTag .. HighTag)
    BY <1>2, <2>1, <2>3
  <2>. QED
    BY <2>2, <2>3
<1>7. CASE OutOfMemory \/ ScanPast \/ ScanFree \/ SweepEnd
  BY <1>2, <1>7 DEF OutOfMemory, ScanPast, ScanFree, SweepEnd
<1>. QED
  BY <1>3, <1>4, <1>5, <1>6, <1>7 DEF ZoneStep, ScanStep, SweepStep

LEMMA StepKeeps ==
  ASSUME ZoneInv, ZoneStep, NEW p, NEW l, NEW t, Held(p, l, t), ~Purgable(t),
         sweep.op = "sweep" => t \notin LowTag .. HighTag
  PROVE  Held(p, l, t)'
<1>1. /\ p - Header \in Allocated /\ block[p - Header].user = l
      /\ block[p - Header].tag = t
  BY DEF Held, Holds
<1>2. /\ p - Header \in Allocated' /\ block'[p - Header].user = l
      /\ block'[p - Header].tag = t
  BY <1>1, StepAllocated
<1>. QED
  BY <1>2 DEF Held, Holds

\* A pass of Z_Malloc goes on with the same request, or is the one that grants
\* it: then the block is there, and the owner or the caller knows it.
LEMMA StepCall ==
  ASSUME ZoneInv, ZoneStep
  PROVE  \/ /\ malloc.op # "none" /\ malloc'.op # "none" /\ sweep'.op = "none"
            /\ malloc'.user = malloc.user /\ malloc'.tag = malloc.tag
         \/ /\ malloc.op # "none" /\ malloc'.op = "none" /\ sweep'.op = "none"
            /\ \E p \in Nat : /\ p - Header \in Allocated'
                              /\ block'[p - Header].user = malloc.user
                              /\ block'[p - Header].tag = malloc.tag
                              /\ malloc.user # NoUser => pointer'[malloc.user] = p
                              /\ malloc.user = NoUser => result' = p
         \/ sweep.op = "sweep" /\ malloc.op = "none" /\ malloc'.op = "none"
<1>1. CallTypes /\ Scanning /\ Sweeping
  BY DEF ZoneInv
<1>2. malloc.op # "none" => sweep.op = "none"
  BY <1>1 DEF Sweeping, CallTypes
<1>3. ASSUME NEW b, NEW a, NEW s, Scanned(b, a, s)
      PROVE  malloc'.op # "none" /\ malloc'.user = malloc.user /\ malloc'.tag = malloc.tag
  <2>. DEFINE op == IF /\ block'[b].tag = PU_FREE
                       /\ block'[b].size >= malloc.size
                    THEN "take" ELSE "scan"
  <2>1. malloc' = [malloc EXCEPT !.op = op, !.base = b, !.at = a, !.start = s]
    BY <1>3 DEF Scanned
  <2>2. op # "none"
    OBVIOUS
  <2>. HIDE DEF op
  <2>. QED
    BY <1>1, <2>1, <2>2 DEF CallTypes
<1>4. CASE ScanNewZone \/ ScanPast \/ ScanPurge \/ ScanFree
  BY <1>2, <1>3, <1>4 DEF ScanNewZone, ScanPast, ScanPurge, ScanFree
<1>5. CASE OutOfMemory
  BY <1>1, <1>2, <1>5 DEF OutOfMemory, CallTypes
<1>6. CASE Take
  <2>. DEFINE b == malloc.base
              p == b + Header
  <2>1. /\ malloc.op = "take" /\ malloc' = NoMalloc /\ UNCHANGED sweep
        /\ pointer' = [v \in Pointer |-> IF v = malloc.user THEN p ELSE pointer[v]]
        /\ result' = IF malloc.user = NoUser THEN p ELSE Null
    BY <1>6 DEF Take, SetUser
  <2>2. /\ b \in Nat /\ b \in Allocated'
        /\ block'[b].user = malloc.user /\ block'[b].tag = malloc.tag
    BY <1>6, TakeBlock
  <2>3. malloc.user \in Pointer \cup {NoUser}
    BY <1>1 DEF CallTypes
  <2>4. p \in Nat /\ p - Header = b
    BY <2>2 DEF Header
  <2>. HIDE DEF b, p
  <2>5. /\ p - Header \in Allocated' /\ block'[p - Header].user = malloc.user
        /\ block'[p - Header].tag = malloc.tag
    BY <2>2, <2>4
  <2>. QED
    BY <1>2, <2>1, <2>3, <2>4, <2>5 DEF NoMalloc
<1>7. CASE SweepBlock \/ SweepEnd
  BY <1>1, <1>7 DEF SweepBlock, SweepEnd, Sweeping
<1>. QED
  BY <1>4, <1>5, <1>6, <1>7 DEF ZoneStep, ScanStep, SweepStep

----------------------------------------------------------------------------
(* The callers keep the invariant                                          *)

LEMMA TagFacts ==
  /\ PU_STATIC \in Tag /\ PU_LEVEL \in Tag /\ PU_CACHE \in Tag
  /\ PU_STATIC # PU_FREE /\ PU_LEVEL # PU_FREE /\ PU_CACHE # PU_FREE
  /\ ~Purgable(PU_STATIC) /\ ~Purgable(PU_LEVEL) /\ PU_STATIC \notin LowTag .. HighTag
  BY DEF PU_STATIC, PU_LEVEL, PU_CACHE, PU_FREE, Purgable, PU_PURGELEVEL, Tag, LowTag, HighTag

\* While a call goes on, everything held stays, and when it returns the caller
\* has what it asked for.
LEMMA CallInv ==
  ASSUME ZoneInv, CacheInv, Call PROVE ZoneInv' /\ CacheInv'
<1>1. ZoneStep /\ UNCHANGED <<job, level, wi, kept>>
  BY DEF Call
<1>2. ZoneInv'
  BY <1>1, ZoneStepInv
<1>3. CacheTypes /\ Keeping /\ Waiting /\ Returned
  BY DEF CacheInv
<1>4. \A p, l : Held(p, l, PU_STATIC) => Held(p, l, PU_STATIC)'
  BY <1>1, StepKeeps, TagFacts
<1>5. sweep.op # "sweep" => \A p, l : Held(p, l, PU_LEVEL) => Held(p, l, PU_LEVEL)'
  BY <1>1, StepKeeps, TagFacts
<1>6. CacheTypes'
  BY <1>1, <1>3 DEF CacheTypes, Jobs
<1>7. sweep'.op = "sweep" => sweep.op = "sweep"
  <2>1. sweep.op \in {"none", "sweep"} /\ sweep'.op \in {"none", "sweep"}
    BY <1>2 DEF ZoneInv, CallTypes
  <2>2. malloc.op = "none" => sweep.op = "sweep"
    BY <1>1, StepCall
  <2>3. malloc.op # "none" => sweep'.op # "sweep"
    BY <1>1, StepCall
  <2>. QED
    BY <2>2, <2>3
<1>8. Keeping'
  <2>1. \A p \in level' : Held(p, NoUser, PU_LEVEL)'
    <3>1. sweep.op = "sweep" => level = {}
      BY <1>3 DEF Keeping
    <3>. QED
      BY <1>1, <1>3, <1>5, <3>1 DEF Keeping
  <2>2. \A l \in WiLumps : wi'[l] # Null => Held(wi[l], l, PU_STATIC)'
    BY <1>1, <1>3, <1>4 DEF Keeping, Held, Holds
  <2>3. StaticLump \notin DrawnLumps /\ kept' # Null => Held(kept, StaticLump, PU_STATIC)'
    BY <1>1, <1>3, <1>4 DEF Keeping, Held, Holds
  <2>4. job'.op = "composite" /\ job'.block # Null =>
          Held(job.block, job.texture, PU_STATIC)'
    BY <1>1, <1>3, <1>4 DEF Keeping, Held, Holds
  <2>5. sweep'.op = "sweep" => job' = NoJob /\ level' = {}
    BY <1>1, <1>3, <1>7 DEF Keeping
  <2>. QED
    BY <2>1, <2>2, <2>3, <2>4, <2>5 DEF Keeping
<1>9. CASE /\ malloc.op # "none" /\ malloc'.op # "none"
           /\ malloc'.user = malloc.user /\ malloc'.tag = malloc.tag
  <2>1. Waiting'
    BY <1>1, <1>3, <1>9 DEF Waiting, Asks
  <2>2. Returned'
    BY <1>9 DEF Returned
  <2>. QED
    BY <1>2, <1>6, <1>8, <2>1, <2>2 DEF CacheInv
<1>10. CASE /\ malloc.op # "none" /\ malloc'.op = "none"
            /\ \E p \in Nat : /\ p - Header \in Allocated'
                              /\ block'[p - Header].user = malloc.user
                              /\ block'[p - Header].tag = malloc.tag
                              /\ malloc.user # NoUser => pointer'[malloc.user] = p
                              /\ malloc.user = NoUser => result' = p
  <2>1. PICK p \in Nat : /\ p - Header \in Allocated'
                         /\ block'[p - Header].user = malloc.user
                         /\ block'[p - Header].tag = malloc.tag
                         /\ malloc.user # NoUser => pointer'[malloc.user] = p
                         /\ malloc.user = NoUser => result' = p
    BY <1>10
  <2>2. Waiting'
    BY <1>10 DEF Waiting, Asks
  <2>3. \A l \in Lump \cup Texture : l # NoUser
    BY CacheAssumption, ZoneAssumption
  <2>5. job'.op = "static" => Held(pointer[StaticLump], StaticLump, PU_STATIC)'
    BY <1>1, <1>3, <1>10, <2>1, <2>3, UsesAssumption DEF Waiting, Asks, Held, Holds
  <2>6. job'.op = "composite" /\ job'.block = Null =>
          Held(pointer[job.texture], job.texture, PU_STATIC)'
    <3>1. job.op = "composite" => job.texture \in Texture
      BY <1>3 DEF CacheTypes, Jobs
    <3>. QED
      BY <1>1, <1>3, <1>10, <2>1, <2>3, <3>1 DEF Waiting, Asks, Held, Holds
  <2>7. job'.op = "map" => Held(result, NoUser, PU_LEVEL)'
    BY <1>1, <1>3, <1>10, <2>1 DEF Waiting, Asks, Held, Holds
  <2>8. job'.op \in {"copy", "wi"} => Held(pointer[job.lump], job.lump, PU_STATIC)'
    <3>1. job.op \in {"copy", "wi"} => job.lump \in Lump
      BY <1>3, UsesAssumption DEF CacheTypes, Jobs
    <3>. QED
      BY <1>1, <1>3, <1>10, <2>1, <2>3, <3>1 DEF Waiting, Asks, Held, Holds
  <2>9. Returned'
    BY <2>5, <2>6, <2>7, <2>8 DEF Returned
  <2>. QED
    BY <1>2, <1>6, <1>8, <2>2, <2>9 DEF CacheInv
<1>11. CASE sweep.op = "sweep"
  <2>1. job' = NoJob
    BY <1>1, <1>3, <1>11 DEF Keeping
  <2>2. Waiting' /\ Returned'
    BY <2>1 DEF Waiting, Returned, NoJob
  <2>. QED
    BY <1>2, <1>6, <1>8, <2>2 DEF CacheInv
<1>. QED
  BY <1>1, <1>9, <1>10, <1>11, StepCall

\* The start of an allocation changes no memory.
LEMMA MallocKeeps ==
  ASSUME ZoneInv, NEW size \in Nat \ {0}, NEW tag \in Tag, tag # PU_FREE,
         NEW user \in Pointer \cup {NoUser},
         user # NoUser => pointer[user] = Null,
         Z_Malloc(size, tag, user)
  PROVE  /\ ZoneInv'
         /\ malloc'.op = "scan" /\ malloc'.user = user /\ malloc'.tag = tag
         /\ sweep'.op = "none" /\ UNCHANGED pointer
         /\ \A p, l, t : Held(p, l, t) => Held(p, l, t)'
<1>1. /\ ZoneInv'
      /\ malloc'.op = "scan" /\ malloc'.user = user /\ malloc'.tag = tag
      /\ UNCHANGED <<block, zone, arenas, rover, pointer, sweep>>
  <2>1. /\ ZoneInv'
        /\ malloc' = [op |-> "scan", base |-> malloc'.base, at |-> malloc'.at,
                      start |-> malloc'.start, size |-> size + Header,
                      tag |-> tag, user |-> user]
        /\ UNCHANGED <<block, zone, arenas, rover, pointer, sweep>>
    BY Z_MallocInv
  <2>. QED
    BY <2>1
<1>2. Allocated' = Allocated
  BY <1>1 DEF Allocated
<1>3. sweep' = NoSweep
  BY <1>1 DEF Z_Malloc, ZoneIdle
<1>. QED
  BY <1>1, <1>2, <1>3 DEF Held, Holds, NoSweep

\* A tag is changed for one owner.
LEMMA RetagKeeps ==
  ASSUME ZoneInv, NEW ptr, NEW user, Holds(ptr, user),
         NEW tag \in Tag, tag # PU_FREE, Z_ChangeTag(ptr, tag)
  PROVE  /\ ZoneInv' /\ malloc'.op = "none" /\ sweep'.op = "none" /\ UNCHANGED pointer
         /\ Holds(ptr, user)' /\ block'[ptr - Header].tag = tag
         /\ \A p, l, t : Held(p, l, t) /\ (l # user \/ t = tag) => Held(p, l, t)'
<1>1. ptr - Header \in Allocated /\ block[ptr - Header].user = user
  BY DEF Holds
<1>2. /\ ZoneInv' /\ Allocated' = Allocated
      /\ \A c \in Allocated : /\ block'[c].user = block[c].user
                              /\ c # ptr - Header => block'[c].tag = block[c].tag
      /\ block'[ptr - Header].tag = tag
      /\ UNCHANGED <<pointer, malloc, sweep>>
  BY <1>1, Z_ChangeTagInv
<1>3. malloc' = NoMalloc /\ sweep' = NoSweep
  BY <1>2 DEF Z_ChangeTag, ZoneIdle
<1>4. ASSUME NEW p, NEW l, NEW t, Held(p, l, t), l # user \/ t = tag
      PROVE  Held(p, l, t)'
  <2>1. p - Header \in Allocated /\ block[p - Header].user = l /\ block[p - Header].tag = t
    BY <1>4 DEF Held, Holds
  <2>2. block'[p - Header].user = l /\ block'[p - Header].tag = t
    BY <1>1, <1>2, <1>4, <2>1
  <2>. QED
    BY <1>2, <2>1, <2>2 DEF Held, Holds
<1>. QED
  BY <1>1, <1>2, <1>3, <1>4 DEF Holds, NoMalloc, NoSweep

\* The pointer variable of a loaded lump holds it.
LEMMA PointerHolds ==
  ASSUME ZoneInv, NEW l \in Pointer, pointer[l] # Null
  PROVE  Holds(pointer[l], l)
  BY DEF ZoneInv, OwnersExact, Holds

\* A held lump's pointer variable is where it is.
LEMMA HeldPointer ==
  ASSUME ZoneInv, NEW l \in Pointer, NEW p \in Int, Holds(p, l)
  PROVE  pointer[l] = p /\ p # Null
<1>1. p - Header \in Allocated /\ block[p - Header].user = l /\ l # NoUser
  BY ZoneAssumption DEF Holds
<1>2. pointer[l] = (p - Header) + Header
  BY <1>1 DEF ZoneInv, OwnersExact
<1>3. p - Header \in Nat \ {0}
  BY <1>1 DEF ZoneInv, Tiling, BlockTypes, Allocated
<1>. QED
  BY <1>2, <1>3 DEF Header, Null

\* W_CacheLumpNum leaves every other owner's memory alone, and either asks for
\* memory or has the lump with the tag it was called with.
LEMMA CacheKeeps ==
  ASSUME ZoneInv, NEW l \in Lump, NEW tag \in Tag, tag # PU_FREE, W_CacheLumpNum(l, tag)
  PROVE  /\ ZoneInv' /\ sweep'.op = "none" /\ UNCHANGED pointer
         /\ \A p, m, t : Held(p, m, t) /\ (m # l \/ t = tag) => Held(p, m, t)'
         /\ \/ malloc'.op = "scan" /\ malloc'.user = l /\ malloc'.tag = tag
            \/ /\ malloc'.op = "none"
               /\ Holds(pointer[l], l)' /\ block'[pointer[l] - Header].tag = tag
<1>1. l \in Pointer /\ Size[l] \in Nat \ {0}
  BY CacheAssumption
<1>2. CASE pointer[l] # Null /\ Z_ChangeTag(pointer[l], tag)
  <2>. DEFINE q == pointer[l]
  <2>1. Holds(q, l) /\ Z_ChangeTag(q, tag)
    BY <1>1, <1>2, PointerHolds
  <2>2. q - Header \in Allocated /\ block[q - Header].user = l
    BY <2>1 DEF Holds
  <2>. HIDE DEF q
  <2>3. /\ ZoneInv' /\ malloc'.op = "none" /\ sweep'.op = "none" /\ UNCHANGED pointer
        /\ \A p, m, t : Held(p, m, t) /\ (m # l \/ t = tag) => Held(p, m, t)'
        /\ block'[q - Header].tag = tag
    BY <2>1, RetagKeeps
  <2>4. q - Header \in Allocated' /\ block'[q - Header].user = l
    <3>1. /\ Allocated' = Allocated
          /\ \A c \in Allocated : block'[c].user = block[c].user
      BY <2>1, <2>2, Z_ChangeTagInv
    <3>. QED
      BY <2>2, <3>1
  <2>5. pointer'[l] = q
    BY <2>3 DEF q
  <2>6. Holds(pointer[l], l)'
    BY <2>4, <2>5 DEF Holds
  <2>. QED
    BY <2>3, <2>5, <2>6
<1>3. CASE pointer[l] = Null /\ Z_Malloc(Size[l], tag, l)
  BY <1>1, <1>3, MallocKeeps
<1>. QED
  BY <1>2, <1>3 DEF W_CacheLumpNum

\* The owners are four kinds of things.
LEMMA Owners ==
  /\ \A l \in Lump : l \in Pointer /\ l # NoUser /\ l \notin Texture
  /\ \A t \in Texture : t \in Pointer /\ t # NoUser /\ t \notin Lump
  /\ WiLumps \subseteq Lump /\ MapLumps \subseteq Lump /\ DrawnLumps \subseteq Lump
  /\ StaticLump \in Lump /\ PatchLumps \subseteq Lump
  BY CacheAssumption, ZoneAssumption, UsesAssumption DEF PatchLumps

\* A pass over somebody's lump keeps what others hold. Only a static lump that
\* is drawn like a sprite is not safe.
LEMMA CacheKeeping ==
  ASSUME ZoneInv, CacheInv, NEW l \in Lump, NEW tag \in Tag,
         \A p, m, t : Held(p, m, t) /\ (m # l \/ t = tag) => Held(p, m, t)',
         tag = PU_STATIC \/ (l \notin WiLumps /\ (l = StaticLump => StaticLump \in DrawnLumps)),
         \A p \in level' : Held(p, NoUser, PU_LEVEL),
         UNCHANGED <<wi, kept>>, sweep'.op = "none",
         (job'.op = "composite" /\ job'.block # Null) =>
            /\ job.op = "composite" /\ job'.block = job.block
            /\ job'.texture = job.texture
  PROVE  Keeping'
<1>1. Keeping /\ CacheTypes
  BY DEF CacheInv
<1>2. \A p \in level' : Held(p, NoUser, PU_LEVEL)'
  BY Owners
<1>3. \A m \in WiLumps : wi'[m] # Null => Held(wi'[m], m, PU_STATIC)
  BY <1>1 DEF Keeping
<1>4. \A m \in WiLumps : wi'[m] # Null => Held(wi[m], m, PU_STATIC)'
  <2>1. TAKE m \in WiLumps
  <2>2. HAVE wi'[m] # Null
  <2>3. wi'[m] = wi[m] /\ Held(wi[m], m, PU_STATIC) /\ (m # l \/ tag = PU_STATIC)
    BY <1>3, <2>2
  <2>. QED
    BY <2>3 DEF Held, Holds
<1>5. StaticLump \notin DrawnLumps /\ kept' # Null => Held(kept, StaticLump, PU_STATIC)'
  <2>1. SUFFICES ASSUME StaticLump \notin DrawnLumps, kept' # Null
                 PROVE  Held(kept, StaticLump, PU_STATIC)'
    OBVIOUS
  <2>2. kept' = kept /\ Held(kept, StaticLump, PU_STATIC)
        /\ (StaticLump # l \/ tag = PU_STATIC)
    BY <1>1, <2>1 DEF Keeping
  <2>. QED
    BY <2>2 DEF Held, Holds
<1>6. job'.op = "composite" /\ job'.block # Null =>
        Held(job.block, job.texture, PU_STATIC)'
  <2>1. SUFFICES ASSUME job'.op = "composite", job'.block # Null
                 PROVE  Held(job.block, job.texture, PU_STATIC)'
    OBVIOUS
  <2>2. job.op = "composite" /\ job'.block = job.block /\ job'.texture = job.texture
    BY <2>1
  <2>3. job.texture \in Texture
    BY <1>1, <2>2 DEF CacheTypes, Jobs
  <2>4. Held(job.block, job.texture, PU_STATIC) /\ job.texture # l
    BY <1>1, <2>1, <2>2, <2>3, Owners DEF Keeping
  <2>. QED
    BY <2>2, <2>4 DEF Held, Holds
<1>. QED
  BY <1>2, <1>4, <1>5, <1>6 DEF Keeping

\* A step in which only the callers move.
LEMMA ZoneSame ==
  ASSUME ZoneInv, UNCHANGED zoneVars
  PROVE  /\ ZoneInv' /\ UNCHANGED <<block, pointer, malloc, sweep, result>>
         /\ \A p, l, t : Held(p, l, t) => Held(p, l, t)'
<1>1. ZoneInv' /\ UNCHANGED <<block, zone, arenas, pointer, malloc, sweep, result>>
  BY ZoneStutterInv DEF zoneVars
<1>2. Allocated' = Allocated
  BY <1>1 DEF Allocated
<1>. QED
  BY <1>1, <1>2 DEF Held, Holds

LEMMA DrawLumpInv ==
  ASSUME ZoneInv, CacheInv, DrawLump PROVE ZoneInv' /\ CacheInv'
<1>1. PICK l \in DrawnLumps : W_CacheLumpNum(l, PU_CACHE)
  BY DEF DrawLump
<1>2. job = NoJob /\ UNCHANGED <<job, level, wi, kept>>
  BY DEF DrawLump, Free
<1>3. /\ ZoneInv' /\ sweep'.op = "none"
      /\ \A p, m, t : Held(p, m, t) /\ (m # l \/ t = PU_CACHE) => Held(p, m, t)'
  BY <1>1, CacheKeeps, Owners, TagFacts
<1>4. CacheTypes /\ Keeping
  BY DEF CacheInv
<1>5. CacheTypes'
  BY <1>2, <1>4 DEF CacheTypes, Jobs
<1>6. Keeping'
  <2>1. l \in Lump /\ l \notin WiLumps /\ (l = StaticLump => StaticLump \in DrawnLumps)
    BY <1>1, Owners, UsesAssumption
  <2>2. \A p \in level' : Held(p, NoUser, PU_LEVEL)
    BY <1>2, <1>4 DEF Keeping
  <2>. QED
    BY <1>2, <1>3, <2>1, <2>2, CacheKeeping, TagFacts
<1>7. Waiting' /\ Returned'
  BY <1>2 DEF Waiting, Returned, NoJob
<1>. QED
  BY <1>3, <1>5, <1>6, <1>7 DEF CacheInv

LEMMA LoadStaticInv ==
  ASSUME ZoneInv, CacheInv, LoadStatic PROVE ZoneInv' /\ CacheInv'
<1>1. /\ W_CacheLumpNum(StaticLump, PU_STATIC) /\ job' = [op |-> "static"]
      /\ UNCHANGED <<level, wi, kept>>
  BY DEF LoadStatic
<1>. DEFINE l == StaticLump
<1>2. /\ ZoneInv' /\ sweep'.op = "none"
      /\ \A p, m, t : Held(p, m, t) /\ (m # l \/ t = PU_STATIC) => Held(p, m, t)'
      /\ \/ malloc'.op = "scan" /\ malloc'.user = l /\ malloc'.tag = PU_STATIC
         \/ /\ malloc'.op = "none"
            /\ Holds(pointer[l], l)' /\ block'[pointer[l] - Header].tag = PU_STATIC
            /\ UNCHANGED pointer
  BY <1>1, CacheKeeps, Owners, TagFacts
<1>3. CacheTypes /\ Keeping
  BY DEF CacheInv
<1>4. CacheTypes'
  BY <1>1, <1>3 DEF CacheTypes, Jobs
<1>5. Keeping'
  <2>1. \A p \in level' : Held(p, NoUser, PU_LEVEL)
    BY <1>1, <1>3 DEF Keeping
  <2>. QED
    BY <1>1, <1>2, <2>1, CacheKeeping, TagFacts, Owners
<1>6. Waiting'
  BY <1>1, <1>2 DEF Waiting, Asks
<1>7. Returned'
  BY <1>1, <1>2 DEF Returned, Held
<1>. QED
  BY <1>2, <1>4, <1>5, <1>6, <1>7 DEF CacheInv

\* What Returned says is what is kept.
LEMMA KeepStaticInv ==
  ASSUME ZoneInv, CacheInv, KeepStatic PROVE ZoneInv' /\ CacheInv'
<1>1. /\ job.op = "static" /\ malloc = NoMalloc /\ sweep = NoSweep
      /\ kept' = pointer[StaticLump] /\ job' = NoJob
      /\ UNCHANGED zoneVars /\ UNCHANGED <<level, wi>>
  BY DEF KeepStatic, ZoneIdle
<1>2. /\ ZoneInv' /\ UNCHANGED <<block, pointer, malloc, sweep, result>>
      /\ \A p, l, t : Held(p, l, t) => Held(p, l, t)'
  BY <1>1, ZoneSame
<1>3. CacheTypes /\ Keeping /\ Returned
  BY DEF CacheInv
<1>4. pointer \in [Pointer -> Address \cup {Null}]
  BY ZoneInvTypeOK DEF ZoneTypeOK
<1>5. CacheTypes'
  BY <1>1, <1>3, <1>4, Owners DEF CacheTypes, Jobs, NoJob
<1>6. Held(kept', StaticLump, PU_STATIC)
  BY <1>1, <1>3 DEF Returned, NoMalloc
<1>7. Held(kept, StaticLump, PU_STATIC)'
  BY <1>2, <1>6 DEF Held, Holds
<1>8. \A l \in WiLumps : wi'[l] # Null => Held(wi[l], l, PU_STATIC)'
  BY <1>1, <1>2, <1>3 DEF Keeping, Held, Holds
<1>9. Keeping'
  BY <1>1, <1>2, <1>3, <1>7, <1>8 DEF Keeping, NoJob, NoSweep
<1>10. Waiting' /\ Returned'
  BY <1>1 DEF Waiting, Returned, NoJob
<1>. QED
  BY <1>2, <1>5, <1>9, <1>10 DEF CacheInv

LEMMA StartCompositeInv ==
  ASSUME ZoneInv, CacheInv, StartComposite PROVE ZoneInv' /\ CacheInv'
<1>1. PICK t \in Texture :
        /\ pointer[t] = Null /\ Z_Malloc(Size[t], PU_STATIC, t)
        /\ job' = [op |-> "composite", texture |-> t, left |-> Patches[t], block |-> Null]
  BY DEF StartComposite, AllocComposite
<1>2. UNCHANGED <<level, wi, kept>>
  BY DEF StartComposite
<1>3. Size[t] \in Nat \ {0} /\ t \in Pointer
  BY CacheAssumption
<1>4. /\ ZoneInv' /\ sweep'.op = "none"
      /\ malloc'.op = "scan" /\ malloc'.user = t /\ malloc'.tag = PU_STATIC
      /\ \A p, m, u : Held(p, m, u) => Held(p, m, u)'
  BY <1>1, <1>3, MallocKeeps, TagFacts
<1>5. CacheTypes /\ Keeping
  BY DEF CacheInv
<1>6. CacheTypes'
  <2>1. Patches[t] \in Seq(Lump)
    BY CacheAssumption
  <2>2. Patches[t] \in Seq(PatchLumps)
    <3>1. \A i \in DOMAIN Patches[t] : Patches[t][i] \in Lump
      BY <2>1
    <3>2. \A i \in DOMAIN Patches[t] : Patches[t][i] \in PatchLumps
      BY <3>1 DEF PatchLumps
    <3>3. Len(Patches[t]) \in Nat /\ DOMAIN Patches[t] = 1 .. Len(Patches[t])
          /\ Patches[t] = [i \in 1 .. Len(Patches[t]) |-> Patches[t][i]]
      BY <2>1
    <3>. QED
      BY <3>2, <3>3, IsASeq
  <2>3. job' \in Jobs
    BY <1>1, <2>2 DEF Jobs
  <2>4. Jobs' = Jobs
    BY DEF Jobs
  <2>. QED
    BY <1>2, <1>5, <2>3, <2>4 DEF CacheTypes
<1>7. Keeping'
  <2>1. \A p \in level' : Held(p, NoUser, PU_LEVEL)'
    BY <1>2, <1>4, <1>5 DEF Keeping
  <2>2. \A l \in WiLumps : wi'[l] # Null => Held(wi[l], l, PU_STATIC)'
    BY <1>2, <1>4, <1>5 DEF Keeping, Held, Holds
  <2>3. StaticLump \notin DrawnLumps /\ kept' # Null => Held(kept, StaticLump, PU_STATIC)'
    BY <1>2, <1>4, <1>5 DEF Keeping, Held, Holds
  <2>4. job'.block = Null
    BY <1>1
  <2>. QED
    BY <1>4, <2>1, <2>2, <2>3, <2>4 DEF Keeping
<1>8. Waiting'
  BY <1>1, <1>4 DEF Waiting, Asks
<1>9. Returned'
  BY <1>4 DEF Returned
<1>. QED
  BY <1>4, <1>6, <1>7, <1>8, <1>9 DEF CacheInv

LEMMA ClearCompositeInv ==
  ASSUME ZoneInv, CacheInv, ClearComposite PROVE ZoneInv' /\ CacheInv'
<1>1. /\ job.op = "composite" /\ malloc = NoMalloc /\ sweep = NoSweep /\ job.block = Null
      /\ job' = [job EXCEPT !.block = pointer[job.texture]]
      /\ UNCHANGED zoneVars /\ UNCHANGED <<level, wi, kept>>
  BY DEF ClearComposite, ZoneIdle
<1>2. /\ ZoneInv' /\ UNCHANGED <<block, pointer, malloc, sweep, result>>
      /\ \A p, l, t : Held(p, l, t) => Held(p, l, t)'
  BY <1>1, ZoneSame
<1>3. CacheTypes /\ Keeping /\ Returned
  BY DEF CacheInv
<1>4. pointer \in [Pointer -> Address \cup {Null}]
  BY ZoneInvTypeOK DEF ZoneTypeOK
<1>5. job \in [op : {"composite"}, texture : Texture, left : Seq(PatchLumps),
               block : Address \cup {Null}]
  BY <1>1, <1>3 DEF CacheTypes, Jobs
<1>. DEFINE q == pointer[job.texture]
<1>6. q \in Address \cup {Null}
  BY <1>4, <1>5, Owners
<1>7. Held(q, job.texture, PU_STATIC)
  BY <1>1, <1>3 DEF Returned, NoMalloc
<1>. HIDE DEF q
<1>8. /\ job' \in [op : {"composite"}, texture : Texture, left : Seq(PatchLumps),
                   block : Address \cup {Null}]
      /\ job'.texture = job.texture /\ job'.block = q
  BY <1>1, <1>5, <1>6 DEF q
<1>9. CacheTypes'
  BY <1>1, <1>3, <1>8 DEF CacheTypes, Jobs
<1>10. Keeping'
  <2>1. \A p \in level' : Held(p, NoUser, PU_LEVEL)'
    BY <1>1, <1>2, <1>3 DEF Keeping
  <2>2. \A l \in WiLumps : wi'[l] # Null => Held(wi[l], l, PU_STATIC)'
    BY <1>1, <1>2, <1>3 DEF Keeping, Held, Holds
  <2>3. StaticLump \notin DrawnLumps /\ kept' # Null => Held(kept, StaticLump, PU_STATIC)'
    BY <1>1, <1>2, <1>3 DEF Keeping, Held, Holds
  <2>4. Held(job.block, job.texture, PU_STATIC)'
    BY <1>2, <1>7, <1>8 DEF Held, Holds
  <2>. QED
    BY <1>1, <1>2, <2>1, <2>2, <2>3, <2>4 DEF Keeping, NoSweep
<1>11. q # Null
  BY <1>7 DEF Held, Holds, ZoneInv, Tiling, BlockTypes, Allocated, Header, Null
<1>12. Waiting' /\ Returned'
  BY <1>1, <1>8, <1>11 DEF Waiting, Returned
<1>. QED
  BY <1>2, <1>9, <1>10, <1>12 DEF CacheInv

\* The lumps drawn into a composite push each other out, but not the composite.
LEMMA DrawPatchInv ==
  ASSUME ZoneInv, CacheInv, DrawPatch PROVE ZoneInv' /\ CacheInv'
<1>. DEFINE l == Head(job.left)
<1>1. /\ job.op = "composite" /\ job.block # Null /\ job.left # << >>
      /\ W_CacheLumpNum(l, PU_CACHE)
      /\ job' = [job EXCEPT !.left = Tail(job.left)]
      /\ UNCHANGED <<level, wi, kept>>
  BY DEF DrawPatch
<1>2. CacheTypes /\ Keeping
  BY DEF CacheInv
<1>3. job \in [op : {"composite"}, texture : Texture, left : Seq(PatchLumps),
               block : Address \cup {Null}]
  BY <1>1, <1>2 DEF CacheTypes, Jobs
<1>4. l \in PatchLumps /\ Tail(job.left) \in Seq(PatchLumps)
  BY <1>1, <1>3, HeadTailProperties
<1>5. /\ job' \in [op : {"composite"}, texture : Texture, left : Seq(PatchLumps),
                   block : Address \cup {Null}]
      /\ job'.texture = job.texture /\ job'.block = job.block /\ job'.op = "composite"
  BY <1>1, <1>3, <1>4
<1>. HIDE DEF l
<1>6. l \in Lump /\ l \notin WiLumps /\ l # StaticLump
  BY <1>4, Owners, UsesAssumption
<1>7. /\ ZoneInv' /\ sweep'.op = "none"
      /\ \A p, m, t : Held(p, m, t) /\ (m # l \/ t = PU_CACHE) => Held(p, m, t)'
  BY <1>1, <1>6, CacheKeeps, TagFacts
<1>8. CacheTypes'
  BY <1>1, <1>2, <1>5 DEF CacheTypes, Jobs
<1>9. Keeping'
  <2>1. \A p \in level' : Held(p, NoUser, PU_LEVEL)
    BY <1>1, <1>2 DEF Keeping
  <2>. QED
    BY <1>1, <1>5, <1>6, <1>7, <2>1, CacheKeeping, TagFacts
<1>10. Waiting' /\ Returned'
  BY <1>1, <1>5 DEF Waiting, Returned
<1>. QED
  BY <1>7, <1>8, <1>9, <1>10 DEF CacheInv

\* Between calls only job changes hands: what is kept, without the composite.
LEMMA FinishCompositeInv ==
  ASSUME ZoneInv, CacheInv, FinishComposite PROVE ZoneInv' /\ CacheInv'
<1>. DEFINE b == job.block
            t == job.texture
<1>1. /\ job.op = "composite" /\ b # Null /\ Z_ChangeTag(b, PU_CACHE) /\ job' = NoJob
      /\ UNCHANGED <<level, wi, kept>>
  BY DEF FinishComposite
<1>2. CacheTypes /\ Keeping
  BY DEF CacheInv
<1>3. t \in Texture /\ Holds(b, t)
  BY <1>1, <1>2 DEF CacheTypes, Jobs, Keeping, Held
<1>. HIDE DEF b, t
<1>4. /\ ZoneInv' /\ malloc'.op = "none" /\ sweep'.op = "none"
      /\ \A p, m, u : Held(p, m, u) /\ (m # t \/ u = PU_CACHE) => Held(p, m, u)'
  BY <1>1, <1>3, RetagKeeps, TagFacts
<1>5. CacheTypes'
  BY <1>1, <1>2 DEF CacheTypes, Jobs, NoJob
<1>6. Keeping'
  <2>0. NoUser # t /\ t \notin WiLumps /\ t # StaticLump
    BY <1>3, Owners
  <2>1. \A p \in level' : Held(p, NoUser, PU_LEVEL)'
    BY <1>1, <1>2, <1>4, <2>0 DEF Keeping
  <2>2. \A l \in WiLumps : wi'[l] # Null => Held(wi[l], l, PU_STATIC)'
    BY <1>1, <1>2, <1>4, <2>0 DEF Keeping, Held, Holds
  <2>3. StaticLump \notin DrawnLumps /\ kept' # Null => Held(kept, StaticLump, PU_STATIC)'
    BY <1>1, <1>2, <1>4, <2>0 DEF Keeping, Held, Holds
  <2>. QED
    BY <1>1, <1>4, <2>1, <2>2, <2>3 DEF Keeping, NoJob
<1>7. Waiting' /\ Returned'
  BY <1>1 DEF Waiting, Returned, NoJob
<1>. QED
  BY <1>4, <1>5, <1>6, <1>7 DEF CacheInv

LEMMA StartMapLumpInv ==
  ASSUME ZoneInv, CacheInv, StartMapLump PROVE ZoneInv' /\ CacheInv'
<1>1. PICK l \in MapLumps : job' = [op |-> "map", lump |-> l]
  BY DEF StartMapLump
<1>2. Z_Malloc(LevelSize, PU_LEVEL, NoUser) /\ UNCHANGED <<level, wi, kept>>
  BY DEF StartMapLump
<1>3. /\ ZoneInv' /\ sweep'.op = "none"
      /\ malloc'.op = "scan" /\ malloc'.user = NoUser /\ malloc'.tag = PU_LEVEL
      /\ \A p, m, u : Held(p, m, u) => Held(p, m, u)'
  BY <1>2, MallocKeeps, TagFacts, CacheAssumption
<1>4. CacheTypes /\ Keeping
  BY DEF CacheInv
<1>5. CacheTypes'
  BY <1>1, <1>2, <1>4 DEF CacheTypes, Jobs
<1>6. Keeping'
  <2>1. \A p \in level' : Held(p, NoUser, PU_LEVEL)'
    BY <1>2, <1>3, <1>4 DEF Keeping
  <2>2. \A m \in WiLumps : wi'[m] # Null => Held(wi[m], m, PU_STATIC)'
    BY <1>2, <1>3, <1>4 DEF Keeping, Held, Holds
  <2>3. StaticLump \notin DrawnLumps /\ kept' # Null => Held(kept, StaticLump, PU_STATIC)'
    BY <1>2, <1>3, <1>4 DEF Keeping, Held, Holds
  <2>. QED
    BY <1>1, <1>3, <2>1, <2>2, <2>3 DEF Keeping
<1>7. Waiting'
  BY <1>1, <1>3 DEF Waiting, Asks
<1>8. Returned'
  BY <1>3 DEF Returned
<1>. QED
  BY <1>3, <1>5, <1>6, <1>7, <1>8 DEF CacheInv

\* The level memory that was asked for is held while the lump is loaded.
LEMMA ReadMapLumpInv ==
  ASSUME ZoneInv, CacheInv, ReadMapLump PROVE ZoneInv' /\ CacheInv'
<1>. DEFINE l == job.lump
<1>1. /\ job.op = "map" /\ malloc = NoMalloc /\ sweep = NoSweep
      /\ level' = level \cup {result} /\ W_CacheLumpNum(l, PU_STATIC)
      /\ job' = [job EXCEPT !.op = "copy"] /\ UNCHANGED <<wi, kept>>
  BY DEF ReadMapLump, ZoneIdle
<1>2. CacheTypes /\ Keeping /\ Returned
  BY DEF CacheInv
<1>3. job \in [op : {"map", "copy"}, lump : MapLumps] /\ l \in MapLumps
  BY <1>1, <1>2 DEF CacheTypes, Jobs
<1>4. job' \in [op : {"map", "copy"}, lump : MapLumps] /\ job'.op = "copy" /\ job'.lump = l
  BY <1>1, <1>3
<1>. HIDE DEF l
<1>5. /\ ZoneInv' /\ sweep'.op = "none"
      /\ \A p, m, t : Held(p, m, t) /\ (m # l \/ t = PU_STATIC) => Held(p, m, t)'
      /\ \/ malloc'.op = "scan" /\ malloc'.user = l /\ malloc'.tag = PU_STATIC
         \/ /\ malloc'.op = "none"
            /\ Holds(pointer[l], l)' /\ block'[pointer[l] - Header].tag = PU_STATIC
            /\ UNCHANGED pointer
  <2>1. l \in Lump
    BY <1>3, Owners
  <2>2. /\ ZoneInv' /\ sweep'.op = "none" /\ UNCHANGED pointer
        /\ \A p, m, t : Held(p, m, t) /\ (m # l \/ t = PU_STATIC) => Held(p, m, t)'
        /\ \/ malloc'.op = "scan" /\ malloc'.user = l /\ malloc'.tag = PU_STATIC
           \/ /\ malloc'.op = "none"
              /\ pointer'[l] - Header \in Allocated' /\ block'[pointer'[l] - Header].user = l
              /\ block'[pointer[l] - Header].tag = PU_STATIC
    BY <1>1, <2>1, CacheKeeps, TagFacts DEF Holds
  <2>3. l' = l
    BY <1>4 DEF l
  <2>. QED
    BY <2>2, <2>3 DEF Holds
<1>6. Held(result, NoUser, PU_LEVEL)
  BY <1>1, <1>2 DEF Returned, NoMalloc
<1>7. result \in Address
  <2>1. result # Null
    BY <1>6 DEF Held, Holds, ZoneInv, Tiling, BlockTypes, Allocated, Header, Null
  <2>. QED
    BY <2>1 DEF ZoneInv, CallTypes
<1>8. CacheTypes'
  BY <1>1, <1>2, <1>4, <1>7 DEF CacheTypes, Jobs
<1>9. Keeping'
  <2>1. \A p \in level' : Held(p, NoUser, PU_LEVEL)
    BY <1>1, <1>2, <1>6 DEF Keeping
  <2>2. l \in Lump
    BY <1>3, Owners
  <2>. QED
    BY <1>1, <1>4, <1>5, <2>1, <2>2, CacheKeeping, TagFacts
<1>10. Waiting'
  BY <1>4, <1>5 DEF Waiting, Asks
<1>11. Returned'
  <2>1. malloc'.op = "none" => Held(pointer[job.lump], job.lump, PU_STATIC)'
    <3>1. SUFFICES ASSUME malloc'.op = "none"
                   PROVE  Held(pointer[job.lump], job.lump, PU_STATIC)'
      OBVIOUS
    <3>2. /\ pointer'[l] - Header \in Allocated' /\ block'[pointer'[l] - Header].user = l
          /\ block'[pointer'[l] - Header].tag = PU_STATIC
      <4>1. l' = l
        BY <1>4 DEF l
      <4>. QED
        BY <1>5, <3>1, <4>1 DEF Holds
    <3>. QED
      BY <1>4, <3>2 DEF Held, Holds
  <2>. QED
    BY <1>4, <2>1 DEF Returned
<1>. QED
  BY <1>5, <1>8, <1>9, <1>10, <1>11 DEF CacheInv

LEMMA CopyMapLumpInv ==
  ASSUME ZoneInv, CacheInv, CopyMapLump PROVE ZoneInv' /\ CacheInv'
<1>. DEFINE l == job.lump
            b == pointer[l]
<1>1. /\ job.op = "copy" /\ malloc = NoMalloc
      /\ Z_ChangeTag(b, PU_CACHE) /\ job' = NoJob
      /\ UNCHANGED <<level, wi, kept>>
  BY DEF CopyMapLump, W_ReleaseLumpNum, ZoneIdle
<1>2. CacheTypes /\ Keeping /\ Returned
  BY DEF CacheInv
<1>3. l \in MapLumps /\ Holds(b, l)
  BY <1>1, <1>2 DEF CacheTypes, Jobs, Returned, Held, NoMalloc
<1>. HIDE DEF b, l
<1>4. /\ ZoneInv' /\ malloc'.op = "none" /\ sweep'.op = "none"
      /\ \A p, m, u : Held(p, m, u) /\ (m # l \/ u = PU_CACHE) => Held(p, m, u)'
  BY <1>1, <1>3, RetagKeeps, TagFacts
<1>5. CacheTypes'
  BY <1>1, <1>2 DEF CacheTypes, Jobs, NoJob
<1>6. Keeping'
  <2>0. NoUser # l /\ l \notin WiLumps /\ l # StaticLump
    BY <1>3, Owners, UsesAssumption
  <2>1. \A p \in level' : Held(p, NoUser, PU_LEVEL)'
    BY <1>1, <1>2, <1>4, <2>0 DEF Keeping
  <2>2. \A m \in WiLumps : wi'[m] # Null => Held(wi[m], m, PU_STATIC)'
    BY <1>1, <1>2, <1>4, <2>0 DEF Keeping, Held, Holds
  <2>3. StaticLump \notin DrawnLumps /\ kept' # Null => Held(kept, StaticLump, PU_STATIC)'
    BY <1>1, <1>2, <1>4, <2>0 DEF Keeping, Held, Holds
  <2>. QED
    BY <1>1, <1>4, <2>1, <2>2, <2>3 DEF Keeping, NoJob
<1>7. Waiting' /\ Returned'
  BY <1>1 DEF Waiting, Returned, NoJob
<1>. QED
  BY <1>4, <1>5, <1>6, <1>7 DEF CacheInv

\* The memory of one thinker goes, and nobody else's.
LEMMA FreeLevelBlockInv ==
  ASSUME ZoneInv, CacheInv, FreeLevelBlock PROVE ZoneInv' /\ CacheInv'
<1>1. PICK p \in level : Z_Free(p) /\ level' = level \ {p}
  BY DEF FreeLevelBlock
<1>2. job = NoJob /\ UNCHANGED <<job, wi, kept>>
  BY DEF FreeLevelBlock, Free
<1>3. CacheTypes /\ Keeping
  BY DEF CacheInv
<1>4. /\ p \in Nat /\ p - Header \in Allocated /\ block[p - Header].user = NoUser
      /\ level \subseteq Nat
  BY <1>3, AddressNat DEF CacheTypes, Keeping, Held, Holds
<1>5. /\ ZoneInv' /\ FreeBlock(p - Header) /\ UNCHANGED <<zone, arenas>>
      /\ sweep'.op = "none"
  BY <1>1, <1>4, Z_FreeInv DEF Z_Free, ZoneIdle, NoSweep
<1>6. /\ Allocated' = Allocated \ {p - Header}
      /\ \A c \in Allocated' : /\ block'[c].user = block[c].user
                               /\ block'[c].tag = block[c].tag
  <2>1. Tiling
    BY DEF ZoneInv
  <2>. QED
    BY <1>4, <1>5, <2>1, FreeAllocated
<1>7. ASSUME NEW q, NEW m, NEW t, Held(q, m, t), q - Header # p - Header
      PROVE  Held(q, m, t)'
  BY <1>6, <1>7 DEF Held, Holds
<1>8. ASSUME NEW q, NEW m, NEW t, Held(q, m, t), m # NoUser
      PROVE  Held(q, m, t)'
  <2>1. q - Header # p - Header
    BY <1>4, <1>8 DEF Held, Holds
  <2>. QED
    BY <1>7, <1>8, <2>1
<1>9. CacheTypes'
  BY <1>1, <1>2, <1>3 DEF CacheTypes, Jobs
<1>10. Keeping'
  <2>1. \A q \in level' : Held(q, NoUser, PU_LEVEL)'
    <3>1. TAKE q \in level'
    <3>2. q \in level /\ q # p /\ q \in Nat
      BY <1>1, <1>4
    <3>3. q - Header # p - Header /\ Held(q, NoUser, PU_LEVEL)
      BY <1>3, <1>4, <3>2 DEF Header, Keeping
    <3>. QED
      BY <1>7, <3>3
  <2>2. \A m \in WiLumps : wi'[m] # Null => Held(wi[m], m, PU_STATIC)'
    <3>1. \A m \in WiLumps : m # NoUser
      BY Owners
    <3>. QED
      BY <1>2, <1>3, <1>8, <3>1 DEF Keeping, Held, Holds
  <2>3. StaticLump \notin DrawnLumps /\ kept' # Null => Held(kept, StaticLump, PU_STATIC)'
    BY <1>2, <1>3, <1>8, Owners DEF Keeping, Held, Holds
  <2>. QED
    BY <1>2, <1>5, <2>1, <2>2, <2>3 DEF Keeping, NoJob
<1>11. Waiting' /\ Returned'
  BY <1>2 DEF Waiting, Returned, NoJob
<1>. QED
  BY <1>5, <1>9, <1>10, <1>11 DEF CacheInv

LEMMA P_SetupLevelInv ==
  ASSUME ZoneInv, CacheInv, P_SetupLevel PROVE ZoneInv' /\ CacheInv'
<1>1. /\ job = NoJob /\ Z_FreeTags /\ level' = {} /\ UNCHANGED <<job, wi, kept>>
  BY DEF P_SetupLevel, Free
<1>2. ZoneInv'
  BY <1>1, Z_FreeTagsInv
<1>3. UNCHANGED <<block, arenas>>
  BY <1>1 DEF Z_FreeTags
<1>4. \A p, m, u : Held(p, m, u) => Held(p, m, u)'
  BY <1>3 DEF Held, Holds, Allocated
<1>5. CacheTypes /\ Keeping
  BY DEF CacheInv
<1>6. CacheTypes'
  BY <1>1, <1>5 DEF CacheTypes, Jobs
<1>7. Keeping'
  <2>2. \A m \in WiLumps : wi'[m] # Null => Held(wi[m], m, PU_STATIC)'
    BY <1>1, <1>4, <1>5 DEF Keeping, Held, Holds
  <2>3. StaticLump \notin DrawnLumps /\ kept' # Null => Held(kept, StaticLump, PU_STATIC)'
    BY <1>1, <1>4, <1>5 DEF Keeping, Held, Holds
  <2>. QED
    BY <1>1, <2>2, <2>3 DEF Keeping, NoJob
<1>8. Waiting' /\ Returned'
  BY <1>1 DEF Waiting, Returned, NoJob
<1>. QED
  BY <1>2, <1>6, <1>7, <1>8 DEF CacheInv

LEMMA WI_loadCallbackInv ==
  ASSUME ZoneInv, CacheInv, WI_loadCallback PROVE ZoneInv' /\ CacheInv'
<1>1. PICK l \in WiLumps :
        /\ W_CacheLumpNum(l, PU_STATIC) /\ job' = [op |-> "wi", lump |-> l]
  BY DEF WI_loadCallback
<1>2. UNCHANGED <<level, wi, kept>>
  BY DEF WI_loadCallback
<1>3. l \in Lump
  BY Owners
<1>4. /\ ZoneInv' /\ sweep'.op = "none"
      /\ \A p, m, t : Held(p, m, t) /\ (m # l \/ t = PU_STATIC) => Held(p, m, t)'
      /\ \/ malloc'.op = "scan" /\ malloc'.user = l /\ malloc'.tag = PU_STATIC
         \/ /\ malloc'.op = "none"
            /\ Holds(pointer[l], l)' /\ block'[pointer[l] - Header].tag = PU_STATIC
            /\ UNCHANGED pointer
  BY <1>1, <1>3, CacheKeeps, TagFacts
<1>5. CacheTypes /\ Keeping
  BY DEF CacheInv
<1>6. CacheTypes'
  BY <1>1, <1>2, <1>5 DEF CacheTypes, Jobs
<1>7. Keeping'
  <2>1. \A p \in level' : Held(p, NoUser, PU_LEVEL)
    BY <1>2, <1>5 DEF Keeping
  <2>. QED
    BY <1>1, <1>2, <1>3, <1>4, <2>1, CacheKeeping, TagFacts
<1>8. Waiting'
  BY <1>1, <1>4 DEF Waiting, Asks
<1>9. Returned'
  BY <1>1, <1>4 DEF Returned, Held, Holds
<1>. QED
  BY <1>4, <1>6, <1>7, <1>8, <1>9 DEF CacheInv

LEMMA KeepWiInv ==
  ASSUME ZoneInv, CacheInv, KeepWi PROVE ZoneInv' /\ CacheInv'
<1>. DEFINE l == job.lump
            q == pointer[l]
<1>1. /\ job.op = "wi" /\ malloc = NoMalloc /\ sweep = NoSweep
      /\ wi' = [wi EXCEPT ![l] = q] /\ job' = NoJob
      /\ UNCHANGED zoneVars /\ UNCHANGED <<level, kept>>
  BY DEF KeepWi, ZoneIdle
<1>2. /\ ZoneInv' /\ UNCHANGED <<block, pointer, malloc, sweep, result>>
      /\ \A p, m, t : Held(p, m, t) => Held(p, m, t)'
  BY <1>1, ZoneSame
<1>3. CacheTypes /\ Keeping /\ Returned
  BY DEF CacheInv
<1>4. pointer \in [Pointer -> Address \cup {Null}]
  BY ZoneInvTypeOK DEF ZoneTypeOK
<1>5. l \in WiLumps
  BY <1>1, <1>3 DEF CacheTypes, Jobs
<1>6. q \in Address \cup {Null}
  BY <1>4, <1>5, Owners
<1>7. Held(q, l, PU_STATIC)
  BY <1>1, <1>3 DEF Returned, NoMalloc
<1>. HIDE DEF q, l
<1>8. CacheTypes'
  BY <1>1, <1>3, <1>5, <1>6 DEF CacheTypes, Jobs, NoJob
<1>9. Keeping'
  <2>1. \A p \in level' : Held(p, NoUser, PU_LEVEL)'
    BY <1>1, <1>2, <1>3 DEF Keeping
  <2>2. \A m \in WiLumps : wi'[m] # Null => Held(wi[m], m, PU_STATIC)'
    <3>1. TAKE m \in WiLumps
    <3>2. HAVE wi'[m] # Null
    <3>3. Held(wi'[m], m, PU_STATIC)
      BY <1>1, <1>3, <1>5, <1>7, <3>2 DEF Keeping, CacheTypes
    <3>. QED
      BY <1>2, <3>3 DEF Held, Holds
  <2>3. StaticLump \notin DrawnLumps /\ kept' # Null => Held(kept, StaticLump, PU_STATIC)'
    BY <1>1, <1>2, <1>3 DEF Keeping, Held, Holds
  <2>. QED
    BY <1>1, <1>2, <2>1, <2>2, <2>3 DEF Keeping, NoJob, NoSweep
<1>10. Waiting' /\ Returned'
  BY <1>1 DEF Waiting, Returned, NoJob
<1>. QED
  BY <1>2, <1>8, <1>9, <1>10 DEF CacheInv

\* What the intermission lets go is neither anybody else's nor the static lump.
LEMMA WI_unloadCallbackInv ==
  ASSUME ZoneInv, CacheInv, WI_unloadCallback PROVE ZoneInv' /\ CacheInv'
<1>1. PICK l \in Unloaded : /\ wi[l] # Null /\ W_ReleaseLumpNum(l)
                            /\ wi' = [wi EXCEPT ![l] = Null]
  BY DEF WI_unloadCallback
<1>2. job = NoJob /\ UNCHANGED <<job, level, kept>>
  BY DEF WI_unloadCallback, Free
<1>3. CacheTypes /\ Keeping
  BY DEF CacheInv
<1>4. l \in WiLumps /\ l \in Lump /\ l # StaticLump /\ l \in Pointer
  BY Owners DEF Unloaded
<1>. DEFINE q == wi[l]
<1>5. Holds(q, l) /\ q \in Nat
  BY <1>1, <1>3, <1>4, AddressNat DEF Keeping, Held, CacheTypes
<1>. HIDE DEF q
<1>6. Z_ChangeTag(q, PU_CACHE)
  <2>1. pointer[l] = q
    BY <1>4, <1>5, HeldPointer
  <2>. QED
    BY <1>1, <2>1 DEF W_ReleaseLumpNum
<1>7. /\ ZoneInv' /\ malloc'.op = "none" /\ sweep'.op = "none"
      /\ \A p, m, u : Held(p, m, u) /\ (m # l \/ u = PU_CACHE) => Held(p, m, u)'
  BY <1>5, <1>6, RetagKeeps, TagFacts
<1>8. CacheTypes'
  BY <1>1, <1>2, <1>3 DEF CacheTypes, Jobs
<1>9. Keeping'
  <2>1. \A p \in level' : Held(p, NoUser, PU_LEVEL)'
    BY <1>2, <1>3, <1>4, <1>7, Owners DEF Keeping
  <2>2. \A m \in WiLumps : wi'[m] # Null => Held(wi[m], m, PU_STATIC)'
    <3>1. TAKE m \in WiLumps
    <3>2. HAVE wi'[m] # Null
    <3>3. m # l /\ wi'[m] = wi[m]
      BY <1>1, <1>3, <1>4, <3>2 DEF CacheTypes
    <3>4. Held(wi[m], m, PU_STATIC)
      BY <1>3, <3>2, <3>3 DEF Keeping
    <3>. QED
      BY <1>7, <3>3, <3>4 DEF Held, Holds
  <2>3. StaticLump \notin DrawnLumps /\ kept' # Null => Held(kept, StaticLump, PU_STATIC)'
    BY <1>2, <1>3, <1>4, <1>7 DEF Keeping, Held, Holds
  <2>. QED
    BY <1>2, <1>7, <2>1, <2>2, <2>3 DEF Keeping, NoJob
<1>10. Waiting' /\ Returned'
  BY <1>2 DEF Waiting, Returned, NoJob
<1>. QED
  BY <1>7, <1>8, <1>9, <1>10 DEF CacheInv

----------------------------------------------------------------------------
(* The theorems                                                            *)

LEMMA InitInv == Init => ZoneInv /\ CacheInv
<1>. SUFFICES ASSUME Init PROVE ZoneInv /\ CacheInv
  OBVIOUS
<1>1. /\ ZoneInv /\ job = NoJob /\ level = {} /\ wi = [l \in WiLumps |-> Null]
      /\ kept = Null
  BY ZoneInitInv DEF Init
<1>2. CacheTypes
  BY <1>1 DEF CacheTypes, Jobs, NoJob
<1>3. Keeping /\ Waiting /\ Returned
  BY <1>1 DEF Keeping, Waiting, Returned, NoJob
<1>. QED
  BY <1>1, <1>2, <1>3 DEF CacheInv

LEMMA StutterInv ==
  ASSUME ZoneInv, CacheInv, UNCHANGED vars PROVE ZoneInv' /\ CacheInv'
<1>1. UNCHANGED zoneVars /\ UNCHANGED <<job, level, wi, kept>>
  BY DEF vars
<1>2. /\ ZoneInv' /\ UNCHANGED <<block, pointer, malloc, sweep, result>>
      /\ \A p, m, t : Held(p, m, t) => Held(p, m, t)'
  BY <1>1, ZoneSame
<1>3. CacheTypes /\ Keeping /\ Waiting /\ Returned
  BY DEF CacheInv
<1>4. CacheTypes'
  BY <1>1, <1>3 DEF CacheTypes, Jobs
<1>5. Keeping'
  <2>1. \A p \in level' : Held(p, NoUser, PU_LEVEL)'
    BY <1>1, <1>2, <1>3 DEF Keeping
  <2>2. \A m \in WiLumps : wi'[m] # Null => Held(wi[m], m, PU_STATIC)'
    BY <1>1, <1>2, <1>3 DEF Keeping, Held, Holds
  <2>3. StaticLump \notin DrawnLumps /\ kept' # Null => Held(kept, StaticLump, PU_STATIC)'
    BY <1>1, <1>2, <1>3 DEF Keeping, Held, Holds
  <2>4. job'.op = "composite" /\ job'.block # Null =>
          Held(job.block, job.texture, PU_STATIC)'
    BY <1>1, <1>2, <1>3 DEF Keeping, Held, Holds
  <2>. QED
    BY <1>1, <1>2, <1>3, <2>1, <2>2, <2>3, <2>4 DEF Keeping
<1>6. Waiting'
  BY <1>1, <1>2, <1>3 DEF Waiting, Asks
<1>7. Returned'
  <2>1. \A p, m, t : Held(p, m, t) => Held(p, m, t)'
    BY <1>2
  <2>. QED
    BY <1>1, <1>2, <1>3, <2>1 DEF Returned, Held, Holds
<1>. QED
  BY <1>2, <1>4, <1>5, <1>6, <1>7 DEF CacheInv

LEMMA NextInv ==
  ASSUME ZoneInv, CacheInv, [Next]_vars PROVE ZoneInv' /\ CacheInv'
<1>1. CASE UNCHANGED vars
  BY <1>1, StutterInv
<1>2. CASE Call
  BY <1>2, CallInv
<1>3. CASE DrawLump \/ LoadStatic \/ KeepStatic
  BY <1>3, DrawLumpInv, LoadStaticInv, KeepStaticInv
<1>4. CASE StartComposite \/ ClearComposite \/ DrawPatch \/ FinishComposite
  BY <1>4, StartCompositeInv, ClearCompositeInv, DrawPatchInv, FinishCompositeInv
<1>5. CASE StartMapLump \/ ReadMapLump \/ CopyMapLump
  BY <1>5, StartMapLumpInv, ReadMapLumpInv, CopyMapLumpInv
<1>6. CASE FreeLevelBlock \/ P_SetupLevel
  BY <1>6, FreeLevelBlockInv, P_SetupLevelInv
<1>7. CASE WI_loadCallback \/ KeepWi \/ WI_unloadCallback
  BY <1>7, WI_loadCallbackInv, KeepWiInv, WI_unloadCallbackInv
<1>. QED
  BY <1>1, <1>2, <1>3, <1>4, <1>5, <1>6, <1>7 DEF Next

LEMMA SpecInv == Spec => [](ZoneInv /\ CacheInv)
<1>1. ZoneInv /\ CacheInv /\ [Next]_vars => ZoneInv' /\ CacheInv'
  BY NextInv
<1>. QED
  BY <1>1, InitInv, PTL DEF Spec

\* Every variable of the allocator and of its callers has its type, and every
\* address is one that MaxZones arenas can have.
THEOREM TypeCorrect == Spec => []TypeOK
<1>1. ZoneInv /\ CacheInv => TypeOK
  BY ZoneInvTypeOK DEF CacheInv, CacheTypes, Jobs, TypeOK
<1>. QED
  BY <1>1, SpecInv, PTL

\* The list of blocks is intact at every step of every call: Z_CheckHeap never
\* ends the program.
THEOREM HeapIntactCorrect == Spec => []HeapIntact
  BY SpecInv, ZoneInvHeapIntact, PTL

\* An owner's pointer is where its block is, and is cleared when the block goes.
THEOREM OwnersExactCorrect == Spec => []OwnersExact
<1>1. ZoneInv => OwnersExact
  BY DEF ZoneInv
<1>. QED
  BY <1>1, SpecInv, PTL

\* No loop of the allocator goes on from a header that was merged away.
THEOREM CursorsLiveCorrect == Spec => []CursorsLive
  BY SpecInv, ZoneInvCursorsLive, PTL

\* What a caller holds while memory is allocated, purged and swept stays.
THEOREM HeldKeptCorrect == Spec => []HeldKept
<1>1. CacheInv => HeldKept
  BY DEF CacheInv, Keeping, Held, HeldKept, StaticKept
<1>. QED
  BY <1>1, SpecInv, PTL

----------------------------------------------------------------------------
(* Every step is one of Heap's                                             *)

\* The callers call the allocator within what it takes for granted: an owner
\* asks once, and what is freed or tagged is allocated.
LEMMA Calls ==
  ASSUME ZoneInv, CacheInv, [Next]_vars
  PROVE  \/ UNCHANGED zoneVars
         \/ ZoneStep
         \/ \E size \in Nat \ {0}, tag \in Tag \ {PU_FREE}, user \in Pointer \cup {NoUser} :
              /\ user # NoUser => pointer[user] = Null
              /\ Z_Malloc(size, tag, user)
         \/ \E ptr \in Nat, tag \in Tag \ {PU_FREE} :
              ptr - Header \in Allocated /\ Z_ChangeTag(ptr, tag)
         \/ \E ptr \in Nat : ptr - Header \in Allocated /\ Z_Free(ptr)
         \/ Z_FreeTags
<1>. DEFINE Asking == \E size \in Nat \ {0}, tag \in Tag \ {PU_FREE},
                         user \in Pointer \cup {NoUser} :
                        /\ user # NoUser => pointer[user] = Null
                        /\ Z_Malloc(size, tag, user)
            Tagging == \E ptr \in Nat, tag \in Tag \ {PU_FREE} :
                         ptr - Header \in Allocated /\ Z_ChangeTag(ptr, tag)
            Freeing == \E ptr \in Nat : ptr - Header \in Allocated /\ Z_Free(ptr)
<1>1. pointer \in [Pointer -> Nat] /\ CacheTypes /\ Keeping /\ Returned
  BY DEF ZoneInv, CallTypes, CacheInv
<1>2. ASSUME NEW l \in Pointer, NEW tag \in Tag \ {PU_FREE},
             Z_ChangeTag(pointer[l], tag), Holds(pointer[l], l)
      PROVE  Tagging
  BY <1>1, <1>2 DEF Holds
<1>3. ASSUME NEW l \in Lump, NEW tag \in Tag \ {PU_FREE}, W_CacheLumpNum(l, tag)
      PROVE  Asking \/ Tagging
  <2>1. l \in Pointer /\ Size[l] \in Nat \ {0}
    BY CacheAssumption
  <2>2. CASE pointer[l] # Null /\ Z_ChangeTag(pointer[l], tag)
    BY <1>2, <2>1, <2>2, PointerHolds
  <2>3. CASE pointer[l] = Null /\ Z_Malloc(Size[l], tag, l)
    BY <2>1, <2>3
  <2>. QED
    BY <1>3, <2>2, <2>3 DEF W_CacheLumpNum
<1>4. PU_STATIC \in Tag \ {PU_FREE} /\ PU_CACHE \in Tag \ {PU_FREE}
      /\ PU_LEVEL \in Tag \ {PU_FREE}
  BY TagFacts
<1>. HIDE DEF Asking, Tagging
<1>5. CASE UNCHANGED vars
  BY <1>5 DEF vars
<1>6. CASE Call
  BY <1>6 DEF Call
<1>7. CASE DrawLump \/ LoadStatic \/ WI_loadCallback
  BY <1>3, <1>4, <1>7, Owners DEF DrawLump, LoadStatic, WI_loadCallback, Asking, Tagging
<1>8. CASE KeepStatic \/ ClearComposite \/ KeepWi
  BY <1>8 DEF KeepStatic, ClearComposite, KeepWi
<1>9. CASE StartComposite
  <2>1. PICK t \in Texture : pointer[t] = Null /\ Z_Malloc(Size[t], PU_STATIC, t)
    BY <1>9 DEF StartComposite, AllocComposite
  <2>2. t \in Pointer /\ Size[t] \in Nat \ {0}
    BY CacheAssumption
  <2>. QED
    BY <1>4, <2>1, <2>2 DEF Asking
<1>10. CASE DrawPatch
  <2>1. job.op = "composite" /\ job.left # << >> /\ W_CacheLumpNum(Head(job.left), PU_CACHE)
    BY <1>10 DEF DrawPatch
  <2>2. job.left \in Seq(PatchLumps)
    BY <1>1, <2>1 DEF CacheTypes, Jobs
  <2>3. Head(job.left) \in Lump
    BY <2>1, <2>2, HeadTailProperties, Owners
  <2>. QED
    BY <1>3, <1>4, <2>1, <2>3 DEF Asking, Tagging
<1>11. CASE FinishComposite
  <2>1. job.op = "composite" /\ job.block # Null /\ Z_ChangeTag(job.block, PU_CACHE)
    BY <1>11 DEF FinishComposite
  <2>2. Holds(job.block, job.texture) /\ job.block \in Nat
    BY <1>1, <2>1, AddressNat DEF CacheTypes, Jobs, Keeping, Held
  <2>. QED
    BY <1>4, <2>1, <2>2 DEF Holds, Tagging
<1>12. CASE StartMapLump
  BY <1>4, <1>12, CacheAssumption DEF StartMapLump, Asking
<1>13. CASE ReadMapLump
  <2>1. job.op = "map" /\ W_CacheLumpNum(job.lump, PU_STATIC)
    BY <1>13 DEF ReadMapLump
  <2>2. job.lump \in Lump
    BY <1>1, <2>1, Owners DEF CacheTypes, Jobs
  <2>. QED
    BY <1>3, <1>4, <2>1, <2>2 DEF Asking, Tagging
<1>14. CASE CopyMapLump
  <2>1. job.op = "copy" /\ malloc = NoMalloc /\ Z_ChangeTag(pointer[job.lump], PU_CACHE)
    BY <1>14 DEF CopyMapLump, ZoneIdle, W_ReleaseLumpNum
  <2>2. job.lump \in Pointer /\ Holds(pointer[job.lump], job.lump)
    BY <1>1, <2>1, Owners DEF CacheTypes, Jobs, Returned, Held, NoMalloc
  <2>. QED
    BY <1>2, <1>4, <2>1, <2>2 DEF Tagging
<1>15. CASE FreeLevelBlock
  <2>1. PICK p \in level : Z_Free(p)
    BY <1>15 DEF FreeLevelBlock
  <2>2. p \in Nat /\ p - Header \in Allocated
    BY <1>1, AddressNat DEF CacheTypes, Keeping, Held, Holds
  <2>. QED
    BY <2>1, <2>2
<1>16. CASE P_SetupLevel
  BY <1>16 DEF P_SetupLevel
<1>17. CASE WI_unloadCallback
  <2>1. PICK l \in Unloaded : wi[l] # Null /\ Z_ChangeTag(pointer[l], PU_CACHE)
    BY <1>17 DEF WI_unloadCallback, W_ReleaseLumpNum
  <2>2. l \in WiLumps /\ l \in Pointer /\ Holds(wi[l], l) /\ wi[l] \in Nat
    BY <1>1, <2>1, Owners, AddressNat DEF Unloaded, Keeping, Held, CacheTypes
  <2>3. Holds(pointer[l], l)
    BY <2>2, HeldPointer
  <2>. QED
    BY <1>2, <1>4, <2>1, <2>2, <2>3 DEF Tagging
<1>. QED
  BY <1>5, <1>6, <1>7, <1>8, <1>9, <1>10, <1>11, <1>12, <1>13, <1>14, <1>15, <1>16, <1>17
     DEF Next, Asking, Tagging

\* A new arena changes no block.
LEMMA NewZoneAllocated ==
  ASSUME ZoneInv, ScanNewZone
  PROVE  /\ Allocated' = Allocated
         /\ \A b \in DOMAIN block : block'[b] = block[b]
<1>1. PICK s \in MinRam * 2 ^ Cardinality(arenas) .. DefaultRam * 2 ^ Cardinality(arenas) :
        block' = [c \in DOMAIN block \cup {Limit(zone), Limit(zone) + Header} |->
                    IF c \in DOMAIN block THEN block[c] ELSE Arena(Limit(zone), s)[c]]
  BY DEF ScanNewZone, Limit
<1>2. /\ arenas' = arenas \cup {Limit(zone)} /\ Limit(zone) \in Nat
      /\ \A b \in DOMAIN block : b # Limit(zone)
  <2>1. \A b \in DOMAIN block : b < Limit(zone) /\ b \in Nat
    BY HereHome DEF ZoneInv, Tiling, BlockTypes
  <2>2. Limit(zone) \in Nat
    BY HeaderFields DEF ZoneInv, Tiling, BlockTypes
  <2>. QED
    BY <2>1, <2>2 DEF ScanNewZone, Limit
<1>3. \/ Limit(zone) + Header \in DOMAIN block
      \/ (block'[Limit(zone) + Header]).tag = PU_FREE
  BY <1>1, <1>2 DEF Arena, Header
<1>. QED
  BY <1>1, <1>2, <1>3 DEF Allocated

\* An allocation is larger than its header.
Sizes ==
    /\ \A b \in Allocated : Header < block[b].size
    /\ malloc.op # "none" => Header < malloc.size

LEMMA SizesStep ==
  ASSUME ZoneInv, CacheInv, [Next]_vars, Sizes PROVE Sizes'
<1>. SUFFICES /\ \A b \in Allocated' : Header < block'[b].size
              /\ malloc'.op # "none" => Header < malloc'.size
  BY DEF Sizes
<1>1. CallTypes /\ Tiling /\ Scanning /\ Sweeping
  BY DEF ZoneInv
<1>2. \A b \in Allocated : b \in DOMAIN block /\ block[b].size \in Nat /\ Header < block[b].size
  BY <1>1, HeaderFields DEF Allocated, Tiling, Sizes
<1>3. CASE UNCHANGED <<block, arenas, malloc>>
  BY <1>3 DEF Sizes, Allocated
<1>4. ASSUME NEW b, NEW a, NEW s, Scanned(b, a, s)
      PROVE  malloc.op # "none" => Header < malloc'.size
  BY <1>1, <1>4 DEF Scanned, Sizes, CallTypes
<1>5. ASSUME NEW b \in Allocated, FreeBlock(b), UNCHANGED <<zone, arenas>>
      PROVE  \A c \in Allocated' : Header < block'[c].size
  BY <1>1, <1>2, <1>5, FreeAllocated
<1>6. CASE ZoneStep
  <2>1. CASE ScanNewZone
    <3>1. /\ Allocated' = Allocated /\ \A b \in Allocated : block'[b] = block[b]
      BY <2>1, NewZoneAllocated DEF Allocated
    <3>2. Header < malloc'.size
      BY <1>4, <2>1 DEF ScanNewZone
    <3>. QED
      BY <1>2, <3>1, <3>2
  <2>2. CASE OutOfMemory
    BY <1>1, <2>2 DEF OutOfMemory, Sizes, Allocated, CallTypes
  <2>3. CASE ScanPast \/ ScanFree
    BY <1>4, <2>3 DEF ScanPast, ScanFree, Sizes, Allocated
  <2>4. CASE ScanPurge
    <3>1. /\ malloc.op = "scan" /\ Purgable(block[malloc.at].tag) /\ FreeBlock(malloc.at)
          /\ UNCHANGED <<zone, arenas>> /\ Header < malloc'.size
      BY <1>4, <2>4 DEF ScanPurge
    <3>2. malloc.at \in Allocated
      BY <1>1, <3>1, PurgableAllocated DEF Scanning, Here
    <3>. QED
      BY <1>5, <3>1, <3>2
  <2>5. CASE Take
    <3>1. /\ malloc.op = "take" /\ malloc' = NoMalloc
      BY <2>5 DEF Take
    <3>2. /\ Allocated' = Allocated \cup {malloc.base}
          /\ malloc.size <= block'[malloc.base].size
          /\ malloc.base \in DOMAIN block' /\ Tiling'
          /\ \A c \in Allocated : block'[c].size = block[c].size
      BY <2>5, TakeBlock
    <3>3. Header < malloc.size /\ malloc.size \in Nat
      BY <1>1, <3>1 DEF Sizes, CallTypes
    <3>4. block'[malloc.base].size \in Nat
      BY <3>2 DEF Tiling, BlockTypes, HeaderType
    <3>5. Header < block'[malloc.base].size
      BY <3>2, <3>3, <3>4 DEF Header
    <3>. QED
      BY <1>2, <3>1, <3>2, <3>5 DEF NoMalloc
  <2>6. CASE SweepBlock
    <3>. DEFINE at == sweep.at
    <3>1. /\ malloc' = malloc /\ malloc.op = "none" /\ UNCHANGED <<zone, arenas>>
          /\ IF at \in DOMAIN block /\ block[at].tag \in LowTag .. HighTag
             THEN FreeBlock(at) ELSE UNCHANGED <<block, rover, pointer>>
      BY <1>1, <2>6 DEF SweepBlock, Sweeping
    <3>2. CASE at \in DOMAIN block /\ block[at].tag \in LowTag .. HighTag
      <4>1. block[at].tag # PU_FREE /\ block[at].tag # PU_STATIC
        BY <3>2 DEF LowTag, HighTag, PU_LEVEL, PU_PURGELEVEL, PU_FREE, PU_STATIC
      <4>2. at \in Allocated
        BY <1>1, <3>2, <4>1, FreeIsNoHead DEF Allocated
      <4>. QED
        BY <1>5, <3>1, <3>2, <4>2
    <3>3. CASE ~(at \in DOMAIN block /\ block[at].tag \in LowTag .. HighTag)
      BY <1>3, <3>1, <3>3
    <3>. QED
      BY <3>2, <3>3
  <2>7. CASE SweepEnd
    BY <1>3, <2>7 DEF SweepEnd
  <2>. QED
    BY <1>6, <2>1, <2>2, <2>3, <2>4, <2>5, <2>6, <2>7 DEF ZoneStep, ScanStep, SweepStep
<1>7. ASSUME NEW size \in Nat \ {0}, NEW tag \in Tag \ {PU_FREE},
             NEW user \in Pointer \cup {NoUser}, Z_Malloc(size, tag, user)
      PROVE  Header < malloc'.size /\ UNCHANGED <<block, arenas>>
  BY <1>7 DEF Z_Malloc, Header
<1>8. ASSUME NEW ptr \in Nat, NEW tag \in Tag \ {PU_FREE}, ptr - Header \in Allocated,
             Z_ChangeTag(ptr, tag)
      PROVE  /\ UNCHANGED malloc /\ Allocated' = Allocated
             /\ \A c \in Allocated : block'[c].size = block[c].size
  BY <1>8, Z_ChangeTagInv
<1>9. ASSUME NEW ptr \in Nat, ptr - Header \in Allocated, Z_Free(ptr)
      PROVE  /\ UNCHANGED malloc /\ \A c \in Allocated' : Header < block'[c].size
  BY <1>5, <1>9 DEF Z_Free
<1>10. CASE UNCHANGED zoneVars \/ Z_FreeTags
  BY <1>3, <1>10 DEF zoneVars, Z_FreeTags
<1>. QED
  <2>1. CASE \E size \in Nat \ {0}, tag \in Tag \ {PU_FREE}, user \in Pointer \cup {NoUser} :
               /\ user # NoUser => pointer[user] = Null
               /\ Z_Malloc(size, tag, user)
    BY <1>2, <1>7, <2>1 DEF Allocated
  <2>2. CASE \E ptr \in Nat, tag \in Tag \ {PU_FREE} :
               ptr - Header \in Allocated /\ Z_ChangeTag(ptr, tag)
    BY <1>2, <1>8, <2>2 DEF Sizes
  <2>3. CASE \E ptr \in Nat : ptr - Header \in Allocated /\ Z_Free(ptr)
    BY <1>9, <2>3 DEF Sizes
  <2>. QED
    BY <1>6, <1>10, <2>1, <2>2, <2>3, Calls

LEMMA LiveIs ==
  ASSUME ZoneInv
  PROVE  /\ DOMAIN Live = {b + Header : b \in Allocated}
         /\ \A b \in Allocated :
              /\ b \in Nat /\ b + Header \in DOMAIN Live /\ (b + Header) - Header = b
              /\ Live[b + Header] = [size |-> block[b].size - Header,
                                    tag |-> block[b].tag, user |-> block[b].user]
<1>1. \A b \in Allocated : b \in Nat /\ (b + Header) - Header = b
  BY DEF ZoneInv, Tiling, BlockTypes, Allocated, Header
<1>2. DOMAIN Live = {b + Header : b \in Allocated}
  BY DEF Live
<1>3. ASSUME NEW b \in Allocated
      PROVE  Live[b + Header] = [size |-> block[b].size - Header,
                                 tag |-> block[b].tag, user |-> block[b].user]
  <2>1. b + Header \in {c + Header : c \in Allocated} /\ (b + Header) - Header = b
    BY <1>1
  <2>. QED
    BY <2>1 DEF Live
<1>. QED
  BY <1>1, <1>2, <1>3

\* The allocations after a block is freed.
LEMMA LiveFree ==
  ASSUME ZoneInv, NEW b \in Allocated, FreeBlock(b), UNCHANGED <<zone, arenas>>
  PROVE  /\ b + Header \in DOMAIN Live
         /\ Live[b + Header].tag = block[b].tag
         /\ Live' = Promise!Without({b + Header})
         /\ Promise!Clear(Live[b + Header].user)
<1>1. \A c \in Allocated : c \in Nat
  BY DEF ZoneInv, Tiling, BlockTypes, Allocated
<1>2. /\ Allocated' = Allocated \ {b}
      /\ \A c \in Allocated' : /\ block'[c].size = block[c].size
                               /\ block'[c].user = block[c].user
                               /\ block'[c].tag = block[c].tag
  BY FreeAllocated DEF ZoneInv
<1>3. b + Header \in DOMAIN Live /\ (b + Header) - Header = b
  BY <1>1 DEF Live, Header
<1>4. Live[b + Header] = [size |-> block[b].size - Header, tag |-> block[b].tag,
                          user |-> block[b].user]
  BY <1>3 DEF Live
<1>5. Live' = Promise!Without({b + Header})
  <2>1. {c + Header : c \in Allocated'} = {c + Header : c \in Allocated} \ {b + Header}
    BY <1>1, <1>2 DEF Header
  <2>2. \A p \in {c + Header : c \in Allocated'} : p - Header \in Allocated'
    BY <1>1, <1>2 DEF Header
  <2>3. Live' = [p \in {c + Header : c \in Allocated'} |->
                   [size |-> block'[p - Header].size - Header,
                    tag |-> block'[p - Header].tag,
                    user |-> block'[p - Header].user]]
    BY DEF Live
  <2>4. DOMAIN Live = {c + Header : c \in Allocated}
    BY DEF Live
  <2>5. Promise!Without({b + Header}) = [p \in DOMAIN Live \ {b + Header} |-> Live[p]]
    BY DEF Promise!Without
  <2>6. \A p \in {c + Header : c \in Allocated'} :
          Live[p] = [size |-> block'[p - Header].size - Header,
                     tag |-> block'[p - Header].tag,
                     user |-> block'[p - Header].user]
    <3>1. TAKE p \in {c + Header : c \in Allocated'}
    <3>2. p \in {c + Header : c \in Allocated} /\ p - Header \in Allocated'
      BY <2>1, <2>2
    <3>3. Live[p] = [size |-> block[p - Header].size - Header,
                     tag |-> block[p - Header].tag, user |-> block[p - Header].user]
      BY <3>2 DEF Live
    <3>. QED
      BY <1>2, <3>2, <3>3
  <2>. QED
    BY <2>1, <2>3, <2>4, <2>5, <2>6
<1>6. Promise!Clear(block[b].user)
  BY DEF Promise!Clear, FreeBlock, SetUser
<1>. QED
  BY <1>3, <1>4, <1>5, <1>6

\* The allocations when no block changes hands.
LEMMA LiveSame ==
  ASSUME ZoneInv, Allocated' = Allocated,
         \A b \in Allocated : /\ block'[b].size = block[b].size
                              /\ block'[b].user = block[b].user
                              /\ block'[b].tag = block[b].tag
  PROVE  Live' = Live
<1>. DEFINE P == {b + Header : b \in Allocated}
            R(b) == [size |-> block[b].size - Header, tag |-> block[b].tag,
                     user |-> block[b].user]
<1>1. ASSUME NEW p \in P PROVE Live'[p] = Live[p]
  <2>1. PICK b \in Allocated : p = b + Header
    OBVIOUS
  <2>2. p - Header = b
    BY <2>1, LiveIs
  <2>. QED
    BY <2>1, <2>2 DEF Live
<1>. QED
  BY <1>1 DEF Live

\* A pass that purges nothing and grants nothing does not show.
LEMMA PassRefines ==
  ASSUME ZoneInv, ScanNewZone \/ OutOfMemory \/ ScanPast \/ ScanFree
  PROVE  UNCHANGED <<Live, pointer, Asked>>
<1>1. CallTypes /\ Tiling /\ Sweeping
  BY DEF ZoneInv
<1>2. ASSUME NEW b, NEW a, NEW s, Scanned(b, a, s)
      PROVE  /\ malloc'.op # "none" /\ malloc'.size = malloc.size
             /\ malloc'.user = malloc.user /\ malloc'.tag = malloc.tag
  <2>. DEFINE op == IF /\ block'[b].tag = PU_FREE
                       /\ block'[b].size >= malloc.size
                    THEN "take" ELSE "scan"
  <2>1. malloc' = [malloc EXCEPT !.op = op, !.base = b, !.at = a, !.start = s]
    BY <1>2 DEF Scanned
  <2>2. op # "none"
    OBVIOUS
  <2>. HIDE DEF op
  <2>. QED
    BY <1>1, <2>1, <2>2 DEF CallTypes
<1>3. /\ malloc.op = "scan" /\ malloc'.op # "none" /\ malloc'.size = malloc.size
      /\ malloc'.user = malloc.user /\ malloc'.tag = malloc.tag
      /\ UNCHANGED pointer
  <2>1. CASE OutOfMemory
    BY <1>1, <2>1 DEF OutOfMemory, CallTypes
  <2>2. CASE ScanNewZone \/ ScanPast \/ ScanFree
    BY <1>2, <2>2 DEF ScanNewZone, ScanPast, ScanFree
  <2>. QED
    BY <2>1, <2>2
<1>4. Asked' = Asked
  BY <1>3 DEF Asked
<1>5. CASE OutOfMemory \/ ScanPast \/ ScanFree
  <2>1. UNCHANGED <<block, arenas>>
    BY <1>5 DEF OutOfMemory, ScanPast, ScanFree
  <2>2. Live' = Live
    BY <2>1, LiveSame DEF Allocated
  <2>. QED
    BY <1>3, <1>4, <2>2
<1>6. CASE ScanNewZone
  <2>1. /\ Allocated' = Allocated /\ \A b \in DOMAIN block : block'[b] = block[b]
    BY <1>6, NewZoneAllocated
  <2>2. Live' = Live
    BY <2>1, LiveSame DEF Allocated
  <2>. QED
    BY <1>3, <1>4, <2>2
<1>. QED
  BY <1>5, <1>6

LEMMA PurgeRefines ==
  ASSUME ZoneInv, ScanPurge PROVE Promise!Purge
<1>1. CallTypes /\ Tiling /\ Scanning
  BY DEF ZoneInv
<1>2. /\ malloc.op = "scan" /\ Purgable(block[malloc.at].tag) /\ FreeBlock(malloc.at)
      /\ UNCHANGED <<zone, arenas>>
  BY DEF ScanPurge
<1>3. malloc.at \in Allocated
  BY <1>1, <1>2, PurgableAllocated DEF Scanning, Here
<1>4. /\ malloc'.op # "none" /\ malloc'.size = malloc.size
      /\ malloc'.user = malloc.user /\ malloc'.tag = malloc.tag
  <2>1. \E b, s : malloc' = [malloc EXCEPT !.op = malloc'.op, !.base = b,
                               !.at = malloc'.at, !.start = s]
                  /\ malloc'.op # "none"
    <3>. DEFINE base == block'[block[malloc.base].prev].next
                enough == /\ block'[base].tag = PU_FREE
                          /\ block'[base].size >= malloc.size
                op == IF enough THEN "take" ELSE "scan"
    <3>1. malloc' = [malloc EXCEPT !.op = op, !.base = base,
                       !.at = block'[base].next, !.start = malloc.start]
      BY DEF ScanPurge, Scanned
    <3>2. op # "none"
      OBVIOUS
    <3>. HIDE DEF op, base
    <3>3. malloc'.op = op /\ malloc'.at = block'[base].next
      BY <1>1, <3>1 DEF CallTypes
    <3>. QED
      BY <3>1, <3>2, <3>3
  <2>. QED
    BY <1>1, <2>1 DEF CallTypes
<1>5. Asked' = Asked /\ Asked.op = "malloc"
  BY <1>2, <1>4 DEF Asked
<1>. DEFINE p == malloc.at + Header
<1>6. /\ p \in DOMAIN Live /\ Live[p].tag = block[malloc.at].tag
      /\ Live' = Promise!Without({p}) /\ Promise!Clear(Live[p].user)
  BY <1>2, <1>3, LiveFree
<1>7. Live[p].tag >= PU_PURGELEVEL
  BY <1>2, <1>6 DEF Purgable
<1>. HIDE DEF p
<1>. QED
  BY <1>5, <1>6, <1>7 DEF Promise!Purge

\* The block that is taken overlaps no other.
LEMMA TakeRefines ==
  ASSUME ZoneInv, Take PROVE Promise!Grant
<1>. DEFINE b == malloc.base
            p == b + Header
<1>1. ZoneInv' /\ CallTypes /\ Sweeping
  BY TakeInv DEF ZoneInv
<1>2. /\ b \notin Allocated /\ b \in Nat /\ b \in DOMAIN block'
      /\ Allocated' = Allocated \cup {b}
      /\ block'[b].user = malloc.user /\ block'[b].tag = malloc.tag
      /\ malloc.size <= block'[b].size
      /\ \A c \in Allocated : /\ block'[c].size = block[c].size
                              /\ block'[c].user = block[c].user
                              /\ block'[c].tag = block[c].tag
  BY TakeBlock
<1>3. /\ malloc.op = "take" /\ malloc' = NoMalloc /\ UNCHANGED sweep
      /\ pointer' = [u \in Pointer |-> IF u = malloc.user THEN p ELSE pointer[u]]
  BY DEF Take, SetUser
<1>4. /\ Asked = [op |-> "malloc", size |-> malloc.size - Header,
                  tag |-> malloc.tag, user |-> malloc.user]
      /\ Asked' = [op |-> "none"]
  <2>1. sweep.op = "none"
    BY <1>1, <1>3 DEF Sweeping, CallTypes
  <2>. QED
    BY <1>3, <2>1 DEF Asked, NoMalloc
<1>. HIDE DEF b
<1>5. /\ \A c \in Allocated : c \in Nat
      /\ \A c \in Allocated' : block'[c].size \in Nat /\ c \in Nat
      /\ \A c, d \in Allocated' : c < d => c + block'[c].size <= d
  <2>1. Tiling'
    BY <1>1 DEF ZoneInv
  <2>2. \A c \in Allocated' : /\ c \in DOMAIN block' /\ c \in Nat /\ c \notin arenas'
                              /\ block'[c].size \in Nat
    BY <2>1 DEF Tiling, BlockTypes, HeaderType, Allocated
  <2>3. \A c, d \in DOMAIN block' : c < d => End(c)' <= d
    BY <2>1 DEF Tiling, BlocksApart
  <2>4. \A c \in Allocated' : End(c)' = c + block'[c].size
    BY <2>2 DEF End
  <2>. QED
    BY <1>2, <2>2, <2>3, <2>4
<1>6. /\ DOMAIN Live = {c + Header : c \in Allocated}
      /\ DOMAIN Live' = {c + Header : c \in Allocated'}
      /\ \A c \in Allocated : Live[c + Header] =
           [size |-> block[c].size - Header, tag |-> block[c].tag, user |-> block[c].user]
      /\ \A c \in Allocated' : Live'[c + Header] =
           [size |-> block'[c].size - Header, tag |-> block'[c].tag, user |-> block'[c].user]
  <2>1. /\ DOMAIN Live = {c + Header : c \in Allocated}
        /\ DOMAIN Live' = {c + Header : c \in Allocated'}
    BY DEF Live
  <2>2. \A c \in Allocated : (c + Header) - Header = c /\ c + Header \in DOMAIN Live
    BY <1>5, <2>1 DEF Header
  <2>3. \A c \in Allocated' : (c + Header) - Header = c /\ c + Header \in DOMAIN Live'
    BY <1>5, <2>1 DEF Header
  <2>4. \A c \in Allocated : Live[c + Header] =
           [size |-> block[c].size - Header, tag |-> block[c].tag, user |-> block[c].user]
    BY <2>1, <2>2 DEF Live
  <2>5. \A c \in Allocated' : Live'[c + Header] =
           [size |-> block'[c].size - Header, tag |-> block'[c].tag, user |-> block'[c].user]
    BY <2>1, <2>3 DEF Live
  <2>. QED
    BY <2>1, <2>4, <2>5
<1>7. p \in DOMAIN Live' \ DOMAIN Live /\ DOMAIN Live' = DOMAIN Live \cup {p}
  BY <1>2, <1>5, <1>6 DEF Header
<1>8. ASSUME NEW q \in DOMAIN Live
      PROVE  /\ Live'[q] = Live[q]
             /\ ~Promise!Overlap(p, Live'[p].size, q, Live[q].size)
  <2>1. PICK c \in Allocated : q = c + Header
    BY <1>6
  <2>2. Live'[q] = Live[q] /\ Live[q].size = block'[c].size - Header
    <3>1. Live[q] = [size |-> block[c].size - Header, tag |-> block[c].tag,
                     user |-> block[c].user]
      BY <1>6, <2>1
    <3>2. c \in Allocated'
      BY <1>2
    <3>3. Live'[q] = [size |-> block'[c].size - Header, tag |-> block'[c].tag,
                      user |-> block'[c].user]
      BY <1>6, <2>1, <3>2
    <3>4. /\ block'[c].size = block[c].size /\ block'[c].tag = block[c].tag
          /\ block'[c].user = block[c].user
      BY <1>2
    <3>. QED
      BY <3>1, <3>3, <3>4
  <2>3. Live'[p].size = block'[b].size - Header
    <3>1. b \in Allocated'
      BY <1>2
    <3>2. Live'[p] = [size |-> block'[b].size - Header, tag |-> block'[b].tag,
                      user |-> block'[b].user]
      BY <1>6, <3>1
    <3>. QED
      BY <3>2
  <2>4. c # b /\ b \in Allocated' /\ c \in Allocated'
    BY <1>2
  <2>5. ~(p < q + (block'[c].size - Header) /\ q < p + (block'[b].size - Header))
    BY <1>5, <2>1, <2>4 DEF Header
  <2>. QED
    BY <2>2, <2>3, <2>5 DEF Promise!Overlap
<1>9. /\ Live'[p].size >= Asked.size
      /\ Live'[p].tag = Asked.tag /\ Live'[p].user = Asked.user
  <2>1. Live'[p] = [size |-> block'[b].size - Header, tag |-> malloc.tag,
                    user |-> malloc.user]
    BY <1>2, <1>6
  <2>2. malloc.size \in Nat /\ block'[b].size \in Nat
    BY <1>1, <1>2, <1>5 DEF CallTypes
  <2>. QED
    BY <1>2, <1>4, <2>1, <2>2 DEF Header
<1>10. pointer' = [u \in Pointer |-> IF u = Asked.user THEN p ELSE pointer[u]]
  BY <1>3, <1>4
<1>. HIDE DEF p
<1>. QED
  BY <1>4, <1>7, <1>8, <1>9, <1>10 DEF Promise!Grant, Promise!HeapNone

LEMMA SweepRefines ==
  ASSUME ZoneInv, SweepBlock PROVE Promise!Release \/ UNCHANGED <<Live, pointer, Asked>>
<1>. DEFINE at == sweep.at
<1>1. /\ sweep.op = "sweep" /\ UNCHANGED <<zone, arenas, malloc>>
      /\ IF at \in DOMAIN block /\ block[at].tag \in LowTag .. HighTag
         THEN FreeBlock(at) ELSE UNCHANGED <<block, rover, pointer>>
      /\ sweep'.op = "sweep"
  <2>1. \E x, y : sweep' = [sweep EXCEPT !.at = x, !.stale = y]
    BY DEF SweepBlock
  <2>2. sweep.op = "sweep" /\ sweep'.op = "sweep"
    BY <2>1 DEF SweepBlock, ZoneInv, CallTypes
  <2>. QED
    BY <2>2 DEF SweepBlock
<1>2. malloc.op = "none" /\ Tiling
  BY <1>1 DEF ZoneInv, Sweeping
<1>3. Asked = [op |-> "sweep", arena |-> zone] /\ Asked' = Asked
  BY <1>1, <1>2 DEF Asked
<1>4. CASE at \in DOMAIN block /\ block[at].tag \in LowTag .. HighTag
  <2>1. block[at].tag # PU_FREE /\ block[at].tag # PU_STATIC
    BY <1>4 DEF LowTag, HighTag, PU_LEVEL, PU_PURGELEVEL, PU_FREE, PU_STATIC
  <2>2. at \in Allocated
    BY <1>2, <1>4, <2>1, FreeIsNoHead DEF Allocated
  <2>. DEFINE p == at + Header
  <2>3. /\ p \in DOMAIN Live /\ Live[p].tag \in LowTag .. HighTag
        /\ Live' = Promise!Without({p}) /\ Promise!Clear(Live[p].user)
    BY <1>1, <1>4, <2>2, LiveFree
  <2>. HIDE DEF p
  <2>4. Asked.op = "sweep"
    BY <1>3
  <2>. QED
    BY <1>3, <2>3, <2>4 DEF Promise!Release
<1>5. CASE ~(at \in DOMAIN block /\ block[at].tag \in LowTag .. HighTag)
  <2>1. UNCHANGED <<block, pointer, arenas>>
    BY <1>1, <1>5
  <2>2. Live' = Live
    BY <2>1, LiveSame DEF Allocated
  <2>. QED
    BY <1>3, <2>1, <2>2
<1>. QED
  BY <1>4, <1>5

\* When the cursor is back at the list head, nothing is left behind it; what
\* an abandoned arena holds lies before the current one.
LEMMA SweepEndRefines ==
  ASSUME ZoneInv, Sizes, SweepEnd PROVE Promise!SweepDone
<1>1. /\ sweep.op = "sweep" /\ sweep.at = zone /\ sweep' = NoSweep
      /\ UNCHANGED <<block, zone, arenas, pointer, malloc>>
  BY DEF SweepEnd
<1>2. /\ malloc.op = "none" /\ Tiling /\ zone \in DOMAIN block /\ zone \in Nat
      /\ BlockTypes
  BY <1>1 DEF ZoneInv, Sweeping, Tiling, BlockTypes
<1>3. Asked = [op |-> "sweep", arena |-> zone] /\ Asked' = [op |-> "none"]
  BY <1>1, <1>2 DEF Asked, NoSweep
<1>4. Live' = Live
  BY <1>1, LiveSame DEF Allocated
<1>5. ASSUME NEW p \in DOMAIN Live, Live[p].tag \in LowTag .. HighTag PROVE p < zone
  <2>1. PICK b \in Allocated : p = b + Header
    BY LiveIs
  <2>2. Live[p] = [size |-> block[b].size - Header, tag |-> block[b].tag,
                   user |-> block[b].user]
    BY <2>1, LiveIs
  <2>3. block[b].tag \in LowTag .. HighTag
    BY <1>5, <2>2
  <2>4. Cursor = zone
    BY <1>1, <1>2 DEF Cursor
  <2>5. ~(zone <= b)
    BY <1>1, <2>3, <2>4 DEF ZoneInv, Sweeping
  <2>6. /\ b \in DOMAIN block /\ b \notin arenas /\ b \in Nat
        /\ block[b].size \in Nat /\ Header < block[b].size
    BY <1>2, HeaderFields DEF Allocated, Sizes
  <2>7. b + block[b].size <= zone
    BY <1>2, <2>5, <2>6 DEF Tiling, BlocksApart, End
  <2>. QED
    BY <1>2, <2>1, <2>6, <2>7 DEF Header
<1>6. Asked.op = "sweep" /\ Asked.arena = zone
  BY <1>3
<1>. QED
  BY <1>1, <1>3, <1>4, <1>5, <1>6 DEF Promise!SweepDone, Promise!HeapNone

\* Between calls nothing is asked for.
LEMMA IdleAsks == ASSUME ZoneIdle PROVE Asked = [op |-> "none"]
BY DEF ZoneIdle, Asked, NoMalloc, NoSweep

LEMMA AskRefines ==
  ASSUME ZoneInv,
         Z_FreeTags \/ \E size, tag, user : Z_Malloc(size, tag, user)
  PROVE  Promise!Ask
<1>1. ZoneIdle /\ UNCHANGED <<block, arenas, pointer>>
  BY DEF Z_FreeTags, Z_Malloc
<1>2. Asked = Promise!HeapNone
  BY <1>1, IdleAsks DEF Promise!HeapNone
<1>3. Live' = Live
  BY <1>1, LiveSame DEF Allocated
<1>4. Asked' # Promise!HeapNone
  <2>1. CASE Z_FreeTags
    <3>1. malloc'.op = "none" /\ sweep'.op # "none"
      BY <1>1, <2>1 DEF Z_FreeTags, ZoneIdle, NoMalloc
    <3>2. Asked' = [op |-> "sweep", arena |-> zone']
      BY <3>1 DEF Asked
    <3>3. Asked'.op = "sweep"
      BY <3>2
    <3>. QED
      BY <3>3 DEF Promise!HeapNone
  <2>2. CASE \E size, tag, user : Z_Malloc(size, tag, user)
    <3>1. malloc'.op # "none"
      <4>1. PICK size, tag, user : Z_Malloc(size, tag, user)
        BY <2>2
      <4>. QED
        BY <4>1 DEF Z_Malloc
    <3>2. Asked' = [op |-> "malloc", size |-> malloc'.size - Header,
                    tag |-> malloc'.tag, user |-> malloc'.user]
      BY <3>1 DEF Asked
    <3>3. Asked'.op = "malloc"
      BY <3>2
    <3>. QED
      BY <3>3 DEF Promise!HeapNone
  <2>. QED
    BY <2>1, <2>2
<1>. QED
  BY <1>1, <1>2, <1>3, <1>4 DEF Promise!Ask

LEMMA FreeRefines ==
  ASSUME ZoneInv, NEW ptr \in Nat, ptr - Header \in Allocated, Z_Free(ptr)
  PROVE  Promise!Release
<1>. DEFINE b == ptr - Header
<1>1. /\ ZoneIdle /\ b \in Allocated /\ FreeBlock(b)
      /\ UNCHANGED <<zone, arenas, malloc, sweep>>
  BY DEF Z_Free
<1>2. ptr \in DOMAIN Live /\ Live' = Promise!Without({ptr}) /\ Promise!Clear(Live[ptr].user)
  <2>1. b + Header = ptr
    BY DEF Header
  <2>. HIDE DEF b
  <2>. QED
    BY <1>1, <2>1, LiveFree
<1>3. Asked = Promise!HeapNone /\ Asked' = Asked
  BY <1>1, IdleAsks DEF Asked, Promise!HeapNone
<1>. QED
  BY <1>2, <1>3 DEF Promise!Release

LEMMA RetagRefines ==
  ASSUME ZoneInv, NEW ptr \in Nat, NEW tag \in Tag \ {PU_FREE},
         ptr - Header \in Allocated, Z_ChangeTag(ptr, tag)
  PROVE  Promise!Retag
<1>. DEFINE b == ptr - Header
<1>1. /\ ZoneIdle /\ b \in Allocated /\ block' = [block EXCEPT ![b].tag = tag]
      /\ tag >= PU_PURGELEVEL => block[b].user # NoUser
      /\ UNCHANGED <<arenas, pointer, malloc, sweep>>
  BY DEF Z_ChangeTag
<1>2. Asked = Promise!HeapNone /\ Asked' = Asked
  BY <1>1, IdleAsks DEF Asked, Promise!HeapNone, ZoneIdle, NoMalloc, NoSweep
<1>3. b + Header = ptr
  BY DEF Header
<1>. HIDE DEF b
<1>4. /\ DOMAIN block' = DOMAIN block
      /\ \A c \in DOMAIN block : /\ block'[c].size = block[c].size
                                 /\ block'[c].user = block[c].user
                                 /\ block'[c].tag = IF c = b THEN tag ELSE block[c].tag
  <2>1. BlockTypes
    BY DEF ZoneInv, Tiling
  <2>2. ASSUME NEW c \in DOMAIN block
        PROVE  /\ block'[c].size = block[c].size /\ block'[c].user = block[c].user
               /\ block'[c].tag = IF c = b THEN tag ELSE block[c].tag
    BY <1>1, <2>1, <2>2 DEF BlockTypes, HeaderType
  <2>. QED
    BY <1>1, <2>2
<1>5. Allocated' = Allocated
  BY <1>1, <1>4 DEF Allocated
<1>6. ptr \in DOMAIN Live /\ Live[ptr].user = block[b].user
  <2>1. ptr \in DOMAIN Live /\ Live[ptr] = [size |-> block[b].size - Header,
                                    tag |-> block[b].tag, user |-> block[b].user]
    BY <1>1, <1>3, LiveIs
  <2>. QED
    BY <2>1
<1>7. Live' = [Live EXCEPT ![ptr].tag = tag]
  <2>. DEFINE P == {c + Header : c \in Allocated}
              L == [Live EXCEPT ![ptr].tag = tag]
  <2>1. DOMAIN Live = P /\ DOMAIN L = P
    BY LiveIs
  <2>2. Live' = [p \in P |-> [size |-> block'[p - Header].size - Header,
                              tag |-> block'[p - Header].tag,
                              user |-> block'[p - Header].user]]
    BY <1>5 DEF Live
  <2>3. ASSUME NEW p \in P
        PROVE  L[p] = [size |-> block'[p - Header].size - Header,
                       tag |-> block'[p - Header].tag, user |-> block'[p - Header].user]
    <3>1. PICK c \in Allocated : p = c + Header
      OBVIOUS
    <3>2. /\ p - Header = c /\ p \in DOMAIN Live
          /\ Live[p] = [size |-> block[c].size - Header, tag |-> block[c].tag,
                        user |-> block[c].user]
      BY <3>1, LiveIs
    <3>3. c \in DOMAIN block
      BY DEF Allocated
    <3>4. CASE c = b
      <4>1. p = ptr
        BY <1>3, <3>1, <3>4
      <4>2. L[p] = [Live[p] EXCEPT !.tag = tag]
        BY <3>2, <4>1
      <4>. QED
        BY <1>4, <3>2, <3>3, <3>4, <4>2
    <3>5. CASE c # b
      <4>1. p # ptr
        BY <1>1, <1>3, <3>1, <3>5, LiveIs DEF Header
      <4>2. L[p] = Live[p]
        BY <3>2, <4>1
      <4>. QED
        BY <1>4, <3>2, <3>3, <3>5, <4>2
    <3>. QED
      BY <3>4, <3>5
  <2>4. L = [p \in P |-> L[p]]
    BY <2>1
  <2>. HIDE DEF L, P
  <2>5. Live' = L
    BY <2>2, <2>3, <2>4
  <2>. QED
    BY <2>5 DEF L
<1>. QED
  BY <1>1, <1>2, <1>6, <1>7 DEF Promise!Retag, Tag

LEMMA StepRefines ==
  ASSUME ZoneInv, CacheInv, Sizes, [Next]_vars
  PROVE  [Promise!Next]_(Promise!vars)
<1>. SUFFICES Promise!Next \/ UNCHANGED <<Live, pointer, Asked>>
  BY DEF Promise!vars
<1>1. CASE UNCHANGED zoneVars
  <2>1. UNCHANGED <<block, arenas, pointer, malloc, sweep, zone>>
    BY <1>1 DEF zoneVars
  <2>2. Live' = Live
    BY <2>1, LiveSame DEF Allocated
  <2>. QED
    BY <2>1, <2>2 DEF Asked
<1>2. CASE ZoneStep
  BY <1>2, PassRefines, PurgeRefines, TakeRefines, SweepRefines, SweepEndRefines
     DEF ZoneStep, ScanStep, SweepStep, Promise!Next
<1>3. CASE \E size \in Nat \ {0}, tag \in Tag \ {PU_FREE}, user \in Pointer \cup {NoUser} :
             /\ user # NoUser => pointer[user] = Null
             /\ Z_Malloc(size, tag, user)
  BY <1>3, AskRefines DEF Promise!Next
<1>4. CASE \E ptr \in Nat, tag \in Tag \ {PU_FREE} :
             ptr - Header \in Allocated /\ Z_ChangeTag(ptr, tag)
  BY <1>4, RetagRefines DEF Promise!Next
<1>5. CASE \E ptr \in Nat : ptr - Header \in Allocated /\ Z_Free(ptr)
  BY <1>5, FreeRefines DEF Promise!Next
<1>6. CASE Z_FreeTags
  BY <1>6, AskRefines DEF Promise!Next
<1>. QED
  BY <1>1, <1>2, <1>3, <1>4, <1>5, <1>6, Calls

LEMMA InitRefines == Init => Promise!Init /\ Sizes
<1>. SUFFICES ASSUME Init PROVE Promise!Init /\ Sizes
  OBVIOUS
<1>1. PICK s \in MinRam .. DefaultRam :
        /\ block = Arena(FirstZone, s) /\ arenas = {FirstZone}
        /\ pointer = [u \in Pointer |-> Null] /\ malloc = NoMalloc /\ sweep = NoSweep
  BY DEF Init, ZoneInit
<1>2. Allocated = {}
  BY <1>1 DEF Allocated, Arena, FirstZone, Header, PU_FREE
<1>3. Live = << >>
  BY <1>2 DEF Live
<1>4. Asked = [op |-> "none"]
  BY <1>1, IdleAsks DEF ZoneIdle
<1>5. Sizes
  BY <1>1, <1>2 DEF Sizes, NoMalloc
<1>. QED
  BY <1>1, <1>3, <1>4, <1>5 DEF Promise!Init, Promise!HeapNone

\* The allocator under its callers implements Heap: allocations never overlap,
\* one is lost only when it may be purged, a sweep frees all it is asked for
\* and nothing else, and an owner's variable is where its block is
\* (Z_Malloc, Z_Free, Z_FreeTags and Z_ChangeTag2 of src/z_zone.c).
THEOREM HeapRefined == Spec => HeapSpec
<1>1. Init => Promise!Init
  BY InitRefines
<1>2. ZoneInv /\ CacheInv /\ Sizes /\ [Next]_vars => [Promise!Next]_(Promise!vars)
  BY StepRefines
<1>3. Init => Sizes
  BY InitRefines
<1>4. ZoneInv /\ CacheInv /\ Sizes /\ [Next]_vars => Sizes'
  BY SizesStep
<1>5. Spec => []Sizes
  BY <1>3, <1>4, SpecInv, PTL DEF Spec
<1>. QED
  BY <1>1, <1>2, <1>5, SpecInv, PTL DEF Spec, HeapSpec, Promise!Spec
=============================================================================
