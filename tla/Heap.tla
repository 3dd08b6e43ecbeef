-------------------------------- MODULE Heap --------------------------------
(***************************************************************************)
(* What the zone allocator promises its callers, whatever it does with     *)
(* headers, links and fragments: allocations are intervals of memory that  *)
(* never overlap, an owner's pointer is where its allocation is, and only  *)
(* a purgable allocation may disappear without being asked for.            *)
(***************************************************************************)
EXTENDS Naturals

CONSTANTS Pointer,     \* pointer variables that may own an allocation
          NoUser,      \* no owner
          Null,        \* the value of an owner whose data is not loaded
          PurgeLevel,  \* tags from here on may be purged
          LowTag, HighTag,  \* the tags a sweep frees
          Tags         \* all tags

VARIABLES live,     \* live[p]: the allocation at address p
          pointer,  \* values of the owners' variables
          asked     \* what the caller is waiting for

vars == <<live, pointer, asked>>

HeapNone == [op |-> "none"]

Overlap(p, n, q, m) == p < q + m /\ q < p + n

Init ==
    /\ live = << >>
    /\ pointer = [u \in Pointer |-> Null]
    /\ asked = HeapNone

Clear(user) ==
    pointer' = [u \in Pointer |-> IF u = user THEN Null ELSE pointer[u]]

Without(ps) == [p \in DOMAIN live \ ps |-> live[p]]

Ask ==
    /\ asked = HeapNone
    /\ asked' # HeapNone
    /\ UNCHANGED <<live, pointer>>

\* A purgable allocation makes room for the one that is asked for.
Purge ==
    /\ asked.op = "malloc"
    /\ \E p \in DOMAIN live :
         /\ live[p].tag >= PurgeLevel
         /\ live' = Without({p})
         /\ Clear(live[p].user)
    /\ UNCHANGED asked

\* The new allocation overlaps no other one, and all of those stay.
Grant ==
    /\ asked.op = "malloc"
    /\ asked' = HeapNone
    /\ \E p \in DOMAIN live' \ DOMAIN live :
         /\ DOMAIN live' = DOMAIN live \cup {p}
         /\ \A q \in DOMAIN live : /\ live'[q] = live[q]
                                   /\ ~Overlap(p, live'[p].size, q, live[q].size)
         /\ live'[p].size >= asked.size
         /\ live'[p].tag = asked.tag /\ live'[p].user = asked.user
         /\ pointer' = [u \in Pointer |->
                          IF u = asked.user THEN p ELSE pointer[u]]

\* The caller frees one, or a sweep one with a tag in its range.
Release ==
    /\ \E p \in DOMAIN live :
         /\ \/ asked = HeapNone
            \/ asked.op = "sweep" /\ live[p].tag \in LowTag .. HighTag
         /\ live' = Without({p})
         /\ Clear(live[p].user)
    /\ UNCHANGED asked

\* A sweep ends when the allocations it must free are gone. Those of an arena
\* the allocator has abandoned are out of its reach.
SweepDone ==
    /\ asked.op = "sweep"
    /\ asked' = HeapNone
    /\ \A p \in DOMAIN live :
         live[p].tag \in LowTag .. HighTag => p < asked.arena
    /\ UNCHANGED <<live, pointer>>

\* Only an owned allocation becomes purgable.
Retag ==
    /\ asked = HeapNone
    /\ \E p \in DOMAIN live, t \in Tags :
         /\ t >= PurgeLevel => live[p].user # NoUser
         /\ live' = [live EXCEPT ![p].tag = t]
    /\ UNCHANGED <<pointer, asked>>

Next == Ask \/ Purge \/ Grant \/ Release \/ SweepDone \/ Retag

Spec == Init /\ [][Next]_vars
=============================================================================
