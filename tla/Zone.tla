-------------------------------- MODULE Zone --------------------------------
(***************************************************************************)
(* The zone allocator of the game programs (src/z_zone.c): a list of       *)
(* blocks that fill an arena, a rover, first-fit allocation that purges    *)
(* cached blocks on its way, lazy growth by another arena.                 *)
(*                                                                         *)
(* Addresses and sizes are in units of one header, and MINFRAGMENT is one  *)
(* unit. The header at address b is block[b]; the pointer a caller holds   *)
(* is b + Header. A header that is merged into its neighbour leaves the    *)
(* domain of block.                                                        *)
(*                                                                         *)
(* Z_Malloc and Z_FreeTags loop over the list. One pass of the loop is one *)
(* step here; the program has one thread, so nothing else happens between  *)
(* the steps of a call.                                                    *)
(***************************************************************************)
EXTENDS Naturals, FiniteSets

CONSTANTS Pointer,     \* pointer variables that may own a block
          NoUser,      \* the NULL user
          DefaultRam,  \* size of the first arena, header included
          MinRam,      \* the smallest arena AutoAllocMemory accepts
          MaxZones     \* arenas the machine has memory for

ASSUME ZoneAssumption ==
    /\ NoUser \notin Pointer
    /\ MinRam \in Nat /\ DefaultRam \in Nat /\ MaxZones \in Nat \ {0}
    /\ 3 <= MinRam /\ MinRam <= DefaultRam

\* Memory tags.
PU_STATIC == 1
PU_FREE == 4
PU_LEVEL == 5
PU_PURGELEVEL == 7
PU_CACHE == 8
Tag == 1 .. 8

Header == 1
MINFRAGMENT == 1
Null == 0
FirstZone == 1

VARIABLES block,    \* block[b]: the header at address b
          zone,     \* mainzone: address of the list head of the current arena
          arenas,   \* addresses of the list heads of all arenas
          rover,    \* mainzone->rover
          pointer,  \* pointer[u]: value of the pointer variable u
          malloc,   \* locals of the Z_Malloc in progress
          sweep,    \* locals of the Z_FreeTags in progress
          result    \* what Z_Malloc returned to a caller with no owner variable

zoneVars == <<block, zone, arenas, rover, pointer, malloc, sweep, result>>

NoMalloc == [op |-> "none", base |-> Null, at |-> Null, start |-> Null,
             size |-> 0, tag |-> PU_FREE, user |-> NoUser]
NoSweep == [op |-> "none", at |-> Null, stale |-> Null]

\* May Z_Malloc throw a block with this tag out? (A wrong version takes the
\* tags of a level for purgable.)
PurgableLevel(tag) == tag >= PU_LEVEL
Purgable(tag) == tag >= PU_PURGELEVEL

ZoneIdle == malloc = NoMalloc /\ sweep = NoSweep

\* Z_Init: an arena of s units at address a is one free block. The record of
\* the list head holds the size of the arena.
Arena(a, s) ==
    [b \in {a, a + Header} |->
        IF b = a
        THEN [size |-> s, user |-> NoUser, tag |-> PU_STATIC,
              next |-> a + Header, prev |-> a + Header]
        ELSE [size |-> s - Header, user |-> NoUser, tag |-> PU_FREE,
              next |-> a, prev |-> a]]

ZoneInit ==
    \E s \in MinRam .. DefaultRam :
        /\ block = Arena(FirstZone, s)
        /\ zone = FirstZone
        /\ arenas = {FirstZone}
        /\ rover = FirstZone + Header
        /\ pointer = [u \in Pointer |-> Null]
        /\ malloc = NoMalloc
        /\ sweep = NoSweep
        /\ result = Null
-----------------------------------------------------------------------------
(* Z_Free *)

\* The headers blk when the block right becomes part of left.
Merged(blk, left, right) ==
    [b \in DOMAIN blk \ {right} |->
        IF b = left THEN [blk[b] EXCEPT !.size = @ + blk[right].size,
                                        !.next = blk[right].next]
        ELSE IF b = blk[right].next THEN [blk[b] EXCEPT !.prev = left]
        ELSE blk[b]]

\* The rover when right goes (a wrong version leaves it there).
MovedKeep(r, left, right) == r
Moved(r, left, right) == IF r = right THEN left ELSE r

\* Two free neighbours become one. A list is its headers and its rover.
Join(list, left, right) ==
    IF list.block[left].tag = PU_FREE /\ list.block[right].tag = PU_FREE
    THEN [block |-> Merged(list.block, left, right),
          rover |-> Moved(list.rover, left, right)]
    ELSE list

\* The headers and rover that Z_Free leaves when it frees block b (a wrong
\* version joins it with the block before only).
FreedBackOnly(b) ==
    Join([block |-> [block EXCEPT ![b].tag = PU_FREE, ![b].user = NoUser],
          rover |-> rover], block[b].prev, b)
Freed(b) ==
    LET marked == [block |-> [block EXCEPT ![b].tag = PU_FREE,
                                           ![b].user = NoUser],
                   rover |-> rover]
        back == Join(marked, block[b].prev, b)
        left == IF b \in DOMAIN back.block THEN b ELSE block[b].prev
    IN  Join(back, left, block[b].next)

\* *user = value
SetUser(user, value) ==
    pointer' = [u \in Pointer |-> IF u = user THEN value ELSE pointer[u]]

\* (A wrong version forgets the owner.)
FreeBlockForget(b) ==
    /\ block' = Freed(b).block
    /\ rover' = Freed(b).rover
    /\ UNCHANGED pointer
FreeBlock(b) ==
    /\ block' = Freed(b).block
    /\ rover' = Freed(b).rover
    /\ SetUser(block[b].user, Null)

Z_Free(ptr) ==
    /\ ZoneIdle
    /\ FreeBlock(ptr - Header)
    /\ result' = Null
    /\ UNCHANGED <<zone, arenas, malloc, sweep>>
-----------------------------------------------------------------------------
(* Z_Malloc *)

\* The call: the scan starts at the rover, or at a free block behind it.
Z_Malloc(size, tag, user) ==
    LET behind == block[rover].prev
        base == IF block[behind].tag = PU_FREE THEN behind ELSE rover
    IN  /\ ZoneIdle
        /\ malloc' = [op |-> "scan", base |-> base, at |-> base,
                      start |-> block[base].prev,
                      size |-> size + Header, tag |-> tag, user |-> user]
        /\ result' = Null
        /\ UNCHANGED <<block, zone, arenas, rover, pointer, sweep>>

\* The end of a pass: base and the next block to look at; the loop is left
\* when base is free and large enough.
Scanned(base, at, start) ==
    malloc' = [malloc EXCEPT
                 !.op = IF /\ block'[base].tag = PU_FREE
                           /\ block'[base].size >= malloc.size
                        THEN "take" ELSE "scan",
                 !.base = base, !.at = at, !.start = start]

\* All the way around the list: go on in another arena, twice as big.
ScanNewZone ==
    LET a == zone + block[zone].size
        Twice == 2 ^ Cardinality(arenas)
    IN  /\ malloc.op = "scan"
        /\ malloc.at = malloc.start
        /\ Cardinality(arenas) < MaxZones
        /\ \E s \in MinRam * Twice .. DefaultRam * Twice :
             block' = [b \in DOMAIN block \cup {a, a + Header} |->
                         IF b \in DOMAIN block THEN block[b] ELSE Arena(a, s)[b]]
        /\ zone' = a
        /\ arenas' = arenas \cup {a}
        /\ rover' = a + Header
        /\ Scanned(a + Header, a, a)
        /\ UNCHANGED <<pointer, sweep, result>>

\* No memory for another arena: I_Error, the program ends.
OutOfMemory ==
    /\ malloc.op = "scan"
    /\ malloc.at = malloc.start
    /\ Cardinality(arenas) = MaxZones
    /\ malloc' = [malloc EXCEPT !.op = "error"]
    /\ UNCHANGED <<block, zone, arenas, rover, pointer, sweep, result>>

\* A block that cannot be purged: base moves past it.
ScanPast ==
    LET after == block[malloc.at].next
    IN  /\ malloc.op = "scan"
        /\ malloc.at # malloc.start
        /\ block[malloc.at].tag # PU_FREE
        /\ ~Purgable(block[malloc.at].tag)
        /\ UNCHANGED <<block, zone, arenas, rover, pointer, sweep, result>>
        /\ Scanned(after, after, malloc.start)

\* A purgable block is freed, and so added to base.
ScanPurge ==
    LET behind == block[malloc.base].prev
    IN  /\ malloc.op = "scan"
        /\ malloc.at # malloc.start
        /\ Purgable(block[malloc.at].tag)
        /\ FreeBlock(malloc.at)
        /\ LET base == block'[behind].next
           IN  Scanned(base, block'[base].next, malloc.start)
        /\ UNCHANGED <<zone, arenas, sweep, result>>

ScanFree ==
    /\ malloc.op = "scan"
    /\ malloc.at # malloc.start
    /\ block[malloc.at].tag = PU_FREE
    /\ UNCHANGED <<block, zone, arenas, rover, pointer, sweep, result>>
    /\ Scanned(malloc.base, block[malloc.at].next, malloc.start)

\* Is the rest of a block worth a block of its own? (A wrong version splits
\* off whatever is left.)
WorthSplittingAny(extra) == extra >= 0
WorthSplitting(extra) == extra > MINFRAGMENT

\* The headers when size units are cut from base.
Split(base, size) ==
    LET rest == base + size
        extra == block[base].size - size
    IN  IF WorthSplitting(extra)
        THEN [b \in DOMAIN block \cup {rest} |->
               IF b = rest
               THEN [size |-> extra, user |-> NoUser, tag |-> PU_FREE,
                     next |-> block[base].next, prev |-> base]
               ELSE IF b = base
               THEN [block[b] EXCEPT !.size = size, !.next = rest]
               ELSE IF b = block[base].next
               THEN [block[b] EXCEPT !.prev = rest]
               ELSE block[b]]
        ELSE block

Take ==
    /\ malloc.op = "take"
    /\ LET split == Split(malloc.base, malloc.size)
       IN  /\ block' = [split EXCEPT ![malloc.base].user = malloc.user,
                                     ![malloc.base].tag = malloc.tag]
           /\ rover' = split[malloc.base].next
    /\ SetUser(malloc.user, malloc.base + Header)
    /\ result' = IF malloc.user = NoUser THEN malloc.base + Header ELSE Null
    /\ malloc' = NoMalloc
    /\ UNCHANGED <<zone, arenas, sweep>>
-----------------------------------------------------------------------------
(* Z_FreeTags(PU_LEVEL, PU_PURGELEVEL-1) and Z_ChangeTag *)

LowTag == PU_LEVEL
HighTag == PU_PURGELEVEL - 1

Z_FreeTags ==
    /\ ZoneIdle
    /\ sweep' = [op |-> "sweep", at |-> block[zone].next, stale |-> Null]
    /\ result' = Null
    /\ UNCHANGED <<block, zone, arenas, rover, pointer, malloc>>

\* The link of the header at the sweep's cursor. It was read before the last
\* block was freed, so it may lead to a free block that was merged; the bytes
\* of that header are still in memory (in a wrong version they are not).
LinkLost == IF sweep.at \in DOMAIN block THEN block[sweep.at].next ELSE sweep.at
Link == IF sweep.at \in DOMAIN block THEN block[sweep.at].next ELSE sweep.stale

\* One pass.
SweepBlock ==
    LET at == sweep.at
        next == Link
    IN  /\ sweep.op = "sweep"
        /\ at # zone
        /\ IF at \in DOMAIN block /\ block[at].tag \in LowTag .. HighTag
           THEN FreeBlock(at)
           ELSE UNCHANGED <<block, rover, pointer>>
        /\ sweep' = [sweep EXCEPT
                       !.at = next,
                       !.stale = IF next \in DOMAIN block \ DOMAIN block'
                                 THEN block[next].next ELSE Null]
        /\ UNCHANGED <<zone, arenas, malloc, result>>

SweepEnd ==
    /\ sweep.op = "sweep"
    /\ sweep.at = zone
    /\ sweep' = NoSweep
    /\ UNCHANGED <<block, zone, arenas, rover, pointer, malloc, result>>

\* A purgable tag needs an owner.
Z_ChangeTag(ptr, tag) ==
    LET b == ptr - Header
    IN  /\ ZoneIdle
        /\ tag >= PU_PURGELEVEL => block[b].user # NoUser
        /\ block' = [block EXCEPT ![b].tag = tag]
        /\ result' = Null
        /\ UNCHANGED <<zone, arenas, rover, pointer, malloc, sweep>>

\* The passes of the calls in progress.
ScanStep == ScanNewZone \/ OutOfMemory \/ ScanPast \/ ScanPurge \/ ScanFree \/ Take
SweepStep == SweepBlock \/ SweepEnd
ZoneStep == ScanStep \/ SweepStep
-----------------------------------------------------------------------------
(* Properties *)

Address == 1 .. DefaultRam * 2 ^ MaxZones

Headers == [size : Address, user : Pointer \cup {NoUser}, tag : Tag,
            next : Address, prev : Address]

\* Every variable and every local has its type.
ZoneTypeOK ==
    /\ DOMAIN block \subseteq Address
    /\ block \in [DOMAIN block -> Headers]
    /\ zone \in arenas
    /\ arenas \subseteq DOMAIN block
    /\ rover \in Address
    /\ pointer \in [Pointer -> Address \cup {Null}]
    /\ malloc \in [op : {"none", "scan", "take", "error"},
                   base : Address \cup {Null}, at : Address \cup {Null},
                   start : Address \cup {Null}, size : Nat, tag : Tag,
                   user : Pointer \cup {NoUser}]
    /\ sweep \in [op : {"none", "sweep"}, at : Address \cup {Null},
                  stale : Address \cup {Null}]
    /\ result \in Address \cup {Null}

Allocated == {b \in DOMAIN block \ arenas : block[b].tag # PU_FREE}

\* Where the block after b must be: at its end, or at the list head when that
\* is the end of the arena.
Follower(b) ==
    LET a == CHOOSE h \in arenas : h <= b /\ b < h + block[h].size
        end == IF b = a THEN a + Header ELSE b + block[b].size
    IN  IF end = a + block[a].size THEN a ELSE end

\* "There is never any space between memblocks, and there will never be two
\* contiguous free memblocks" (z_zone.c:32-33), what Z_CheckHeap tests: links
\* run both ways and follow the sizes, also while a call purges or sweeps.
HeapIntact ==
    \A b \in DOMAIN block :
        /\ block[b].next = Follower(b)
        /\ Follower(b) \in DOMAIN block
        /\ block[Follower(b)].prev = b
        /\ ~(block[b].tag = PU_FREE /\ block[Follower(b)].tag = PU_FREE)

\* A pointer variable that owns a block is where the block is, and is cleared
\* when the block goes, whether it is freed, swept or purged: nobody reads a
\* purged lump through lumpinfo[].cache.
OwnersExact ==
    /\ \A u \in Pointer : pointer[u] # Null =>
         /\ pointer[u] - Header \in Allocated
         /\ block[pointer[u] - Header].user = u
    /\ \A b \in Allocated : block[b].user # NoUser =>
         pointer[block[b].user] = b + Header

\* The rover and the cursors of a call are blocks of the current arena, though
\* the call merges blocks as it goes; the one exception is Z_FreeTags's, which
\* may be a merged header whose link still leads on.
CursorsLive ==
    LET here == {b \in DOMAIN block : b >= zone}
    IN  /\ rover \in here
        /\ malloc.op \in {"scan", "take"} =>
             {malloc.base, malloc.at, malloc.start} \subseteq here
        /\ sweep.op = "sweep" => \/ sweep.at \in here
                                 \/ sweep.stale \in here

\* The allocator implements the promise of Heap.
Live == [p \in {b + Header : b \in Allocated} |->
           [size |-> block[p - Header].size - Header,
            tag |-> block[p - Header].tag,
            user |-> block[p - Header].user]]

Asked == IF malloc.op # "none"
         THEN [op |-> "malloc", size |-> malloc.size - Header,
               tag |-> malloc.tag, user |-> malloc.user]
         ELSE IF sweep.op # "none" THEN [op |-> "sweep", arena |-> zone]
         ELSE [op |-> "none"]

Promise == INSTANCE Heap WITH
    PurgeLevel <- PU_PURGELEVEL, Tags <- Tag,
    live <- Live, pointer <- pointer, asked <- Asked

\* Every step of the allocator is a step of Heap: no overlap, no allocation
\* lost but a purgable one, nothing swept but the tags asked for.
HeapSpec == Promise!Spec
=============================================================================
