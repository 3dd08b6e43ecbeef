---------------------------- MODULE MoversProofs ----------------------------
(***************************************************************************)
(* The movers of a level, their sectors' specialdata, the list of thinkers *)
(* and the active lists agree whatever is pressed, crossed or in the way,  *)
(* and after a game was loaded (doom/p_tick.c, p_spec.c, p_saveg.c).       *)
(***************************************************************************)
EXTENDS Movers, SequenceTheorems, ByteArith

----------------------------------------------------------------------------
(* Levels and movers                                                       *)

Kinds == {"door", "plat", "ceiling", "floor"}
Functions == {"think", "none", "removed"}

IsMover(m) ==
    /\ m = [kind |-> m.kind, type |-> m.type, sector |-> m.sector, tag |-> m.tag,
            function |-> m.function, dir |-> m.dir, old |-> m.old, low |-> m.low,
            high |-> m.high, wait |-> m.wait, count |-> m.count]
    /\ m.kind \in Kinds /\ m.sector \in Sector /\ m.function \in Functions
    /\ m.old # "stasis"

IsLevel(w) ==
    /\ w = [floor |-> w.floor, ceiling |-> w.ceiling, data |-> w.data, mover |-> w.mover,
            thinkers |-> w.thinkers, activeplats |-> w.activeplats,
            activeceilings |-> w.activeceilings, spent |-> w.spent]
    /\ DOMAIN w.floor = Sector /\ DOMAIN w.ceiling = Sector
    /\ w.data \in [Sector -> Mover \cup {Null}]
    /\ w.mover = [a \in Mover |-> w.mover[a]]
    /\ \A a \in Mover : IsMover(w.mover[a]) \/ w.mover[a] = NoMover
    /\ w.thinkers \in Seq(Mover)
    /\ w.activeplats \subseteq Mover /\ w.activeceilings \subseteq Mover
    /\ w.spent \subseteq DoorLine

LEMMA MoverKinds ==
  ASSUME NEW m, IsMover(m)
  PROVE  m.kind # "none" /\ m # NoMover
  BY DEF IsMover, Kinds, NoMover

LEMMA UnusedIs ==
  ASSUME NEW w, IsLevel(w)
  PROVE  /\ Unused(w) = {a \in Mover : w.mover[a] = NoMover}
         /\ \A a \in Mover : w.mover[a].kind # "none" <=> IsMover(w.mover[a])
  BY MoverKinds DEF IsLevel, Unused, NoMover

LEMMA UnusedMin ==
  ASSUME NEW w, Unused(w) # {}
  PROVE  Min(Unused(w)) \in Unused(w)
<1>1. Unused(w) \subseteq Nat
  BY MoverAssumption DEF Unused
<1>2. PICK x \in Unused(w) : \A y \in Unused(w) : x <= y
  BY <1>1, LeastNatural
<1>. QED
  BY <1>2 DEF Min

\* What Spawn does to each part of a level: v is w with m at a.
With(w, m, a, v) ==
    v = [floor |-> w.floor, ceiling |-> w.ceiling,
         data |-> [w.data EXCEPT ![m.sector] = a],
         mover |-> [w.mover EXCEPT ![a] = m],
         thinkers |-> Append(w.thinkers, a),
         activeplats |-> IF m.kind = "plat" THEN w.activeplats \cup {a} ELSE w.activeplats,
         activeceilings |->
             IF m.kind = "ceiling" /\ Cardinality(w.activeceilings) < MAXCEILINGS
             THEN w.activeceilings \cup {a} ELSE w.activeceilings,
         spent |-> w.spent]

LEMMA SpawnIs ==
  ASSUME NEW w, IsLevel(w), Unused(w) # {}, NEW m
  PROVE  \E a \in Unused(w) : With(w, m, a, Spawn(w, m))
<1>. DEFINE a == Min(Unused(w))
<1>1. a \in Unused(w)
  BY UnusedMin
<1>2. w = [floor |-> w.floor, ceiling |-> w.ceiling, data |-> w.data, mover |-> w.mover,
           thinkers |-> w.thinkers, activeplats |-> w.activeplats,
           activeceilings |-> w.activeceilings, spent |-> w.spent]
  BY DEF IsLevel
<1>3. Spawn(w, m) =
        [w EXCEPT !.mover[a] = m,
                 !.thinkers = Append(@, a),
                 !.data[m.sector] = a,
                 !.activeplats = IF m.kind = "plat" THEN @ \cup {a} ELSE @,
                 !.activeceilings =
                     IF m.kind = "ceiling" /\ Cardinality(@) < MAXCEILINGS
                     THEN @ \cup {a} ELSE @]
  BY DEF Spawn
<1>. HIDE DEF a
<1>4. With(w, m, a, Spawn(w, m))
  BY <1>2, <1>3 DEF With
<1>. QED
  BY <1>1, <1>4

LEMMA WithIs ==
  ASSUME NEW w, IsLevel(w), NEW m, IsMover(m), NEW a \in Unused(w), NEW v, With(w, m, a, v)
  PROVE  IsLevel(v)
<1>1. a \in Mover
  BY DEF Unused
<1>2. v.data \in [Sector -> Mover \cup {Null}]
  BY <1>1 DEF With, IsLevel, IsMover
<1>3. v.mover = [b \in Mover |-> v.mover[b]]
  BY <1>1 DEF With, IsLevel
<1>4. ASSUME NEW b \in Mover PROVE IsMover(v.mover[b]) \/ v.mover[b] = NoMover
  <2>1. v.mover[b] = IF b = a THEN m ELSE w.mover[b]
    BY <1>1 DEF With, IsLevel
  <2>2. IsMover(w.mover[b]) \/ w.mover[b] = NoMover
    BY DEF IsLevel
  <2>. QED
    BY <2>1, <2>2
<1>5. v.thinkers \in Seq(Mover)
  BY <1>1 DEF With, IsLevel
<1>6. v.activeplats \subseteq Mover /\ v.activeceilings \subseteq Mover
  BY <1>1 DEF With, IsLevel
<1>. QED
  BY <1>2, <1>3, <1>4, <1>5, <1>6 DEF With, IsLevel
----------------------------------------------------------------------------
(* The invariant of a level                                                *)

\* A mover as it is allocated.
Sound(m) ==
    /\ m.function = "none" <=> m.dir = "stasis"
    /\ m.function = "none" => m.kind \in {"plat", "ceiling"}
    /\ m.kind = "ceiling" => CeilingSector(m.sector)

(***************************************************************************)
(* What every tic, line and load keeps.  It is all of MoversOwned but for  *)
(* Wakeable, and it says in addition what can be in stasis, and where      *)
(* ceilings are.                                                           *)
(***************************************************************************)
LevelInv(w) ==
    /\ IsLevel(w) /\ Listed(w) /\ Pointed(w) /\ Entered(w)
    /\ \A a \in Live(w) : Sound(w.mover[a])

\* Every live ceiling has its place in the array.
Full(w) == w.activeceilings = {a \in Live(w) : w.mover[a].kind = "ceiling"}

\* From w to v no address is taken or given back.
Kept(w, v) ==
    /\ LevelInv(v) /\ Unused(v) = Unused(w) /\ v.spent = w.spent
    /\ Full(w) => Full(v)

LEMMA MoverFinite ==
  ASSUME NEW S \in SUBSET Mover
  PROVE  IsFiniteSet(S) /\ Cardinality(S) \in Nat
  BY MoverAssumption, FS_Subset, FS_CardinalityType

LEMMA WithKeeps ==
  ASSUME NEW w, LevelInv(w), NEW m, IsMover(m), Sound(m), m.function # "removed",
         w.data[m.sector] = Null \/ m.sector \in Shared(w),
         NEW a \in Unused(w), NEW v, With(w, m, a, v)
  PROVE  /\ LevelInv(v) /\ Live(v) = Live(w) \cup {a} /\ Unused(v) = Unused(w) \ {a}
         /\ v.spent = w.spent
         /\ Full(w) /\ (m.kind = "ceiling" => Cardinality(w.activeceilings) < MAXCEILINGS)
              => Full(v)
<1>1. a \in Mover /\ a # Null /\ IsLevel(w) /\ IsLevel(v) /\ m.kind # "none" /\ m.sector \in Sector
  BY WithIs, MoverKinds, MoverAssumption DEF Unused, LevelInv, IsMover
<1>2. \A b \in Mover : v.mover[b] = IF b = a THEN m ELSE w.mover[b]
  BY <1>1 DEF With, IsLevel
<1>3. \A s \in Sector : v.data[s] = IF s = m.sector THEN a ELSE w.data[s]
  BY <1>1 DEF With, IsLevel
<1>4. v.thinkers = Append(w.thinkers, a) /\ w.thinkers \in Seq(Mover)
  BY <1>1 DEF With, IsLevel
<1>5. v.spent = w.spent
  BY DEF With
<1>6. v.activeplats = IF m.kind = "plat" THEN w.activeplats \cup {a} ELSE w.activeplats
  BY DEF With
<1>7. v.activeceilings =
         IF m.kind = "ceiling" /\ Cardinality(w.activeceilings) < MAXCEILINGS
         THEN w.activeceilings \cup {a} ELSE w.activeceilings
  BY DEF With
<1>8. w.mover[a].kind = "none" /\ a \notin Live(w)
  BY DEF Unused, Live
<1>9. Live(v) = Live(w) \cup {a} /\ Unused(v) = Unused(w) \ {a}
  BY <1>1, <1>2 DEF Live, Unused
<1>14. v.mover[a] = m /\ \A b \in Live(w) : b # a /\ v.mover[b] = w.mover[b]
  BY <1>1, <1>2, <1>8 DEF Live
<1>15. /\ w.activeplats = {b \in Live(w) : w.mover[b].kind = "plat"}
       /\ w.activeceilings \subseteq {b \in Live(w) : w.mover[b].kind = "ceiling"}
       /\ Cardinality(w.activeceilings) <= MAXCEILINGS
       /\ \A b \in Live(w) : w.mover[b].function = "none" <=> w.mover[b].dir = "stasis"
       /\ \A b \in Live(w) : Sound(w.mover[b])
  BY DEF LevelInv, Entered
<1>10. Listed(v)
  <2>1. a \notin ToSet(w.thinkers)
    BY <1>8 DEF LevelInv, Listed
  <2>2. \A i \in DOMAIN w.thinkers : w.thinkers[i] # a
    BY <2>1 DEF ToSet
  <2>3. /\ DOMAIN v.thinkers = 1 .. Len(w.thinkers) + 1
        /\ DOMAIN w.thinkers = 1 .. Len(w.thinkers)
        /\ v.thinkers[Len(w.thinkers) + 1] = a
        /\ \A i \in 1 .. Len(w.thinkers) : v.thinkers[i] = w.thinkers[i]
        /\ Len(w.thinkers) \in Nat
    BY <1>1, <1>4
  <2>4. IsInjective(w.thinkers)
    BY DEF LevelInv, Listed
  <2>5. IsInjective(v.thinkers)
    <3>. SUFFICES ASSUME NEW i \in DOMAIN v.thinkers, NEW k \in DOMAIN v.thinkers,
                         v.thinkers[i] = v.thinkers[k]
         PROVE  i = k
      BY DEF IsInjective
    <3>1. CASE i \in DOMAIN w.thinkers /\ k \in DOMAIN w.thinkers
      BY <2>3, <2>4, <3>1 DEF IsInjective
    <3>2. CASE i \notin DOMAIN w.thinkers \/ k \notin DOMAIN w.thinkers
      BY <2>2, <2>3, <3>2
    <3>. QED
      BY <3>1, <3>2
  <2>6. ToSet(v.thinkers) = ToSet(w.thinkers) \cup {a}
    BY <2>3 DEF ToSet
  <2>7. {b \in Mover : v.mover[b].kind # "none"} = {b \in Mover : w.mover[b].kind # "none"} \cup {a}
    BY <1>1, <1>2
  <2>. QED
    BY <2>5, <2>6, <2>7 DEF Listed, LevelInv
<1>11. Pointed(v)
  <2>1. ASSUME NEW s \in Sector, v.data[s] # Null
        PROVE  v.data[s] \in Live(v) /\ v.mover[v.data[s]].sector = s
    <3>1. CASE s = m.sector
      BY <1>1, <1>2, <1>3, <1>9, <3>1
    <3>2. CASE s # m.sector
      <4>1. w.data[s] \in Live(w) /\ w.mover[w.data[s]].sector = s /\ v.data[s] = w.data[s]
        BY <1>3, <2>1, <3>2 DEF LevelInv, Pointed
      <4>2. w.data[s] \in Mover /\ w.data[s] # a
        BY <1>8, <4>1 DEF Live
      <4>. QED
        BY <1>2, <1>9, <4>1, <4>2
    <3>. QED
      BY <3>1, <3>2
  <2>2. ASSUME NEW b \in Live(v)
        PROVE  v.mover[b].sector \in Shared(v) \/ v.data[v.mover[b].sector] = b
    <3>1. CASE b = a
      BY <1>1, <1>2, <1>3, <3>1
    <3>2. CASE b # a
      <4>1. b \in Live(w) /\ b \in Mover /\ v.mover[b] = w.mover[b]
        BY <1>2, <1>9, <3>2 DEF Live
      <4>2. w.mover[b].sector \in Shared(w) \/ w.data[w.mover[b].sector] = b
        BY <4>1 DEF LevelInv, Pointed
      <4>3. w.mover[b].sector \in Sector /\ b # Null
        BY <1>1, <4>1, UnusedIs, MoverAssumption DEF Live, IsMover
      <4>4. Shared(v) = Shared(w)
        BY <1>5 DEF Shared
      <4>. QED
        BY <1>3, <4>1, <4>2, <4>3, <4>4
    <3>. QED
      BY <3>1, <3>2
  <2>. QED
    BY <2>1, <2>2 DEF Pointed
<1>12. Entered(v)
  <2>2. v.activeplats = {b \in Live(v) : v.mover[b].kind = "plat"}
    BY ONLY <1>6, <1>9, <1>14, <1>15
  <2>3. v.activeceilings \subseteq {b \in Live(v) : v.mover[b].kind = "ceiling"}
    BY ONLY <1>7, <1>9, <1>14, <1>15
  <2>4. Cardinality(v.activeceilings) <= MAXCEILINGS
    <3>1. IsFiniteSet(w.activeceilings) /\ Cardinality(w.activeceilings) \in Nat
      BY <1>1, MoverFinite DEF IsLevel
    <3>2. Cardinality(w.activeceilings) <= MAXCEILINGS
      BY <1>15
    <3>3. Cardinality(w.activeceilings \cup {a}) <= Cardinality(w.activeceilings) + 1
      <4>1. Cardinality(w.activeceilings \cup {a}) =
              IF a \in w.activeceilings THEN Cardinality(w.activeceilings)
              ELSE Cardinality(w.activeceilings) + 1
        BY <3>1, FS_AddElement
      <4>. QED
        BY <3>1, <4>1
    <3>4. Cardinality(w.activeceilings \cup {a}) \in Nat
      BY <1>1, MoverFinite DEF IsLevel
    <3>. QED
      BY <1>7, <3>1, <3>2, <3>3, <3>4, MoverAssumption
  <2>5. \A b \in Live(v) : v.mover[b].function = "none" <=> v.mover[b].dir = "stasis"
    BY <1>9, <1>14, <1>15 DEF Sound
  <2>. QED
    BY <2>2, <2>3, <2>4, <2>5 DEF Entered
<1>13. \A b \in Live(v) : Sound(v.mover[b])
  BY <1>9, <1>14, <1>15
<1>16. ASSUME Full(w), m.kind = "ceiling" => Cardinality(w.activeceilings) < MAXCEILINGS
       PROVE  Full(v)
  <2>1. w.activeceilings = {b \in Live(w) : w.mover[b].kind = "ceiling"}
    BY <1>16 DEF Full
  <2>2. v.activeceilings = IF m.kind = "ceiling" THEN w.activeceilings \cup {a}
                           ELSE w.activeceilings
    BY <1>7, <1>16
  <2>3. v.activeceilings = {b \in Live(v) : v.mover[b].kind = "ceiling"}
    BY ONLY <1>9, <1>14, <2>1, <2>2
  <2>. QED
    BY <2>3 DEF Full
<1>. QED
  BY <1>1, <1>5, <1>9, <1>10, <1>11, <1>12, <1>13, <1>16 DEF LevelInv
----------------------------------------------------------------------------
(* Steps that allocate nothing                                             *)

\* From w to v movers change, but none comes or goes.
Moved(w, v) ==
    /\ IsLevel(v) /\ Live(v) = Live(w)
    /\ v.data = w.data /\ v.thinkers = w.thinkers /\ v.spent = w.spent
    /\ v.activeplats = w.activeplats /\ v.activeceilings = w.activeceilings
    /\ \A a \in Mover : v.mover[a].kind = w.mover[a].kind
    /\ \A a \in Live(w) : v.mover[a].sector = w.mover[a].sector /\ Sound(v.mover[a])

LEMMA MovedKeeps ==
  ASSUME NEW w, LevelInv(w), NEW v, Moved(w, v)
  PROVE  Kept(w, v)
<1>1. /\ IsLevel(v) /\ Live(v) = Live(w)
      /\ v.data = w.data /\ v.thinkers = w.thinkers /\ v.spent = w.spent
      /\ v.activeplats = w.activeplats /\ v.activeceilings = w.activeceilings
  BY DEF Moved
<1>2. \A a \in Mover : v.mover[a].kind = w.mover[a].kind
  BY DEF Moved
<1>3. \A a \in Live(w) : v.mover[a].sector = w.mover[a].sector /\ Sound(v.mover[a])
  BY DEF Moved
<1>4. Listed(v)
  <2>1. {a \in Mover : v.mover[a].kind # "none"} = {a \in Mover : w.mover[a].kind # "none"}
    BY <1>2
  <2>. QED
    BY <1>1, <2>1 DEF LevelInv, Listed
<1>5. Pointed(v)
  <2>1. Shared(v) = Shared(w)
    BY <1>1 DEF Shared
  <2>2. Pointed(w)
    BY DEF LevelInv
  <2>. QED
    BY <1>1, <1>3, <2>1, <2>2 DEF Pointed
<1>6. Entered(v)
  <2>1. /\ w.activeplats = {b \in Live(w) : w.mover[b].kind = "plat"}
        /\ w.activeceilings \subseteq {b \in Live(w) : w.mover[b].kind = "ceiling"}
        /\ Cardinality(w.activeceilings) <= MAXCEILINGS
    BY DEF LevelInv, Entered
  <2>2. \A b \in Live(w) : v.mover[b].kind = w.mover[b].kind
    BY <1>2 DEF Live
  <2>3. v.activeplats = {b \in Live(v) : v.mover[b].kind = "plat"}
    BY ONLY <1>1, <2>1, <2>2
  <2>4. v.activeceilings \subseteq {b \in Live(v) : v.mover[b].kind = "ceiling"}
    BY ONLY <1>1, <2>1, <2>2
  <2>5. \A b \in Live(v) : v.mover[b].function = "none" <=> v.mover[b].dir = "stasis"
    BY <1>1, <1>3 DEF Sound
  <2>. QED
    BY <1>1, <2>1, <2>3, <2>4, <2>5 DEF Entered
<1>7. Unused(v) = Unused(w)
  BY <1>2 DEF Unused
<1>8. ASSUME Full(w) PROVE Full(v)
  <2>1. w.activeceilings = {b \in Live(w) : w.mover[b].kind = "ceiling"}
    BY <1>8 DEF Full
  <2>2. \A b \in Live(w) : v.mover[b].kind = w.mover[b].kind
    BY <1>2 DEF Live
  <2>3. v.activeceilings = {b \in Live(v) : v.mover[b].kind = "ceiling"}
    BY ONLY <1>1, <2>1, <2>2
  <2>. QED
    BY <2>3 DEF Full
<1>. QED
  BY <1>1, <1>3, <1>4, <1>5, <1>6, <1>7, <1>8 DEF LevelInv, Kept

\* From w to v mover a is removed: its thinker stays in the list.
Gone(w, v, a) ==
    /\ IsLevel(v) /\ Live(v) = Live(w) \ {a}
    /\ v.data = [w.data EXCEPT ![w.mover[a].sector] = Null]
    /\ v.thinkers = w.thinkers /\ v.spent = w.spent
    /\ v.activeplats = w.activeplats \ {a}
    /\ v.activeceilings = w.activeceilings \ {a}
    /\ \A b \in Mover : v.mover[b].kind = w.mover[b].kind
    /\ \A b \in Live(v) : v.mover[b] = w.mover[b]

LEMMA GoneKeeps ==
  ASSUME NEW w, LevelInv(w), NEW a \in Live(w), NEW v, Gone(w, v, a)
  PROVE  Kept(w, v)
<1>1. /\ IsLevel(v) /\ Live(v) = Live(w) \ {a}
      /\ v.thinkers = w.thinkers /\ v.spent = w.spent
      /\ v.activeplats = w.activeplats \ {a}
      /\ v.activeceilings = w.activeceilings \ {a}
  BY DEF Gone
<1>2. \A b \in Mover : v.mover[b].kind = w.mover[b].kind
  BY DEF Gone
<1>3. \A b \in Live(v) : v.mover[b] = w.mover[b]
  BY DEF Gone
<1>4. \A b \in Live(w) : b \in Mover /\ b # Null /\ w.mover[b].sector \in Sector
  BY UnusedIs, MoverAssumption DEF Live, LevelInv, IsMover
<1>5. \A s \in Sector : v.data[s] = IF s = w.mover[a].sector THEN Null ELSE w.data[s]
  BY <1>4 DEF Gone, LevelInv, IsLevel
<1>6. Listed(v)
  <2>1. {b \in Mover : v.mover[b].kind # "none"} = {b \in Mover : w.mover[b].kind # "none"}
    BY <1>2
  <2>. QED
    BY <1>1, <2>1 DEF LevelInv, Listed
<1>7. Pointed(v)
  <2>1. Shared(v) = Shared(w)
    BY <1>1 DEF Shared
  <2>2. \A s \in Sector : w.data[s] # Null =>
          w.data[s] \in Live(w) /\ w.mover[w.data[s]].sector = s
    BY DEF LevelInv, Pointed
  <2>3. \A b \in Live(w) :
          w.mover[b].sector \in Shared(w) \/ w.data[w.mover[b].sector] = b
    BY DEF LevelInv, Pointed
  <2>4. ASSUME NEW s \in Sector, v.data[s] # Null
        PROVE  v.data[s] \in Live(v) /\ v.mover[v.data[s]].sector = s
    <3>1. s # w.mover[a].sector /\ v.data[s] = w.data[s]
      BY <1>5, <2>4
    <3>2. w.data[s] \in Live(w) /\ w.mover[w.data[s]].sector = s
      BY <2>2, <2>4, <3>1
    <3>3. w.data[s] # a
      BY <3>1, <3>2
    <3>. QED
      BY <1>1, <1>3, <3>1, <3>2, <3>3
  <2>5. ASSUME NEW b \in Live(v)
        PROVE  v.mover[b].sector \in Shared(v) \/ v.data[v.mover[b].sector] = b
    <3>1. b \in Live(w) /\ b # a /\ v.mover[b] = w.mover[b]
      BY <1>1, <1>3
    <3>2. CASE w.mover[b].sector \in Shared(w)
      BY <2>1, <3>1, <3>2
    <3>3. CASE w.mover[b].sector \notin Shared(w)
      <4>1. w.data[w.mover[b].sector] = b
        BY <2>3, <3>1, <3>3
      <4>2. w.mover[b].sector # w.mover[a].sector
        BY <2>3, <3>1, <3>3, <4>1
      <4>. QED
        BY <1>4, <1>5, <3>1, <4>1, <4>2
    <3>. QED
      BY <3>2, <3>3
  <2>. QED
    BY <2>4, <2>5 DEF Pointed
<1>8. Entered(v)
  <2>1. /\ w.activeplats = {b \in Live(w) : w.mover[b].kind = "plat"}
        /\ w.activeceilings \subseteq {b \in Live(w) : w.mover[b].kind = "ceiling"}
        /\ Cardinality(w.activeceilings) <= MAXCEILINGS
        /\ \A b \in Live(w) : w.mover[b].function = "none" <=> w.mover[b].dir = "stasis"
    BY DEF LevelInv, Entered
  <2>2. v.activeplats = {b \in Live(v) : v.mover[b].kind = "plat"}
    BY ONLY <1>1, <1>3, <2>1
  <2>3. v.activeceilings \subseteq {b \in Live(v) : v.mover[b].kind = "ceiling"}
    BY ONLY <1>1, <1>3, <2>1
  <2>4. Cardinality(v.activeceilings) <= MAXCEILINGS
    <3>1. w.activeceilings \subseteq Mover
      BY DEF LevelInv, IsLevel
    <3>2. IsFiniteSet(w.activeceilings) /\ Cardinality(w.activeceilings) \in Nat
      BY <3>1, MoverFinite
    <3>3. v.activeceilings \in SUBSET w.activeceilings
      BY <1>1
    <3>4. Cardinality(v.activeceilings) <= Cardinality(w.activeceilings)
      BY <3>2, <3>3, FS_Subset
    <3>5. Cardinality(v.activeceilings) \in Nat
      BY <3>1, <3>3, MoverFinite
    <3>. QED
      BY <2>1, <3>2, <3>4, <3>5, MoverAssumption
  <2>5. \A b \in Live(v) : v.mover[b].function = "none" <=> v.mover[b].dir = "stasis"
    BY <1>1, <1>3, <2>1
  <2>. QED
    BY <2>2, <2>3, <2>4, <2>5 DEF Entered
<1>9. \A b \in Live(v) : Sound(v.mover[b])
  BY <1>1, <1>3 DEF LevelInv
<1>10. Unused(v) = Unused(w)
  BY <1>2 DEF Unused
<1>11. ASSUME Full(w) PROVE Full(v)
  <2>1. w.activeceilings = {b \in Live(w) : w.mover[b].kind = "ceiling"}
    BY <1>11 DEF Full
  <2>2. v.activeceilings = {b \in Live(v) : v.mover[b].kind = "ceiling"}
    BY ONLY <1>1, <1>3, <2>1
  <2>. QED
    BY <2>2 DEF Full
<1>. QED
  BY <1>1, <1>6, <1>7, <1>8, <1>9, <1>10, <1>11 DEF LevelInv, Kept

\* From w to v a thinker that was removed is taken off the list and freed.
Freed(w, v, a) ==
    v = [floor |-> w.floor, ceiling |-> w.ceiling, data |-> w.data,
         mover |-> [w.mover EXCEPT ![a] = NoMover],
         thinkers |-> Unlinked(w.thinkers, a),
         activeplats |-> w.activeplats, activeceilings |-> w.activeceilings,
         spent |-> w.spent]

LEMMA UnlinkedIs ==
  ASSUME NEW q \in Seq(Mover), IsInjective(q), NEW a \in ToSet(q)
  PROVE  /\ Unlinked(q, a) \in Seq(Mover) /\ IsInjective(Unlinked(q, a))
         /\ ToSet(Unlinked(q, a)) = ToSet(q) \ {a}
<1>. DEFINE k == CHOOSE i \in DOMAIN q : q[i] = a
            r == Unlinked(q, a)
            n == Len(q)
<1>1. n \in Nat /\ DOMAIN q = 1 .. n
  OBVIOUS
<1>2. k \in 1 .. n /\ q[k] = a
  BY <1>1 DEF ToSet
<1>3. r = SubSeq(q, 1, k - 1) \o SubSeq(q, k + 1, Len(q))
  BY DEF Unlinked, RemoveAt
<1>. HIDE DEF k, r
<1>4. /\ r \in Seq(Mover) /\ Len(r) = n - 1 /\ DOMAIN r = 1 .. n - 1
      /\ \A i \in 1 .. n - 1 : r[i] = IF i < k THEN q[i] ELSE q[i + 1]
  <2>. DEFINE x == SubSeq(q, 1, k - 1)
              y == SubSeq(q, k + 1, n)
  <2>1. /\ x \in Seq(Mover) /\ Len(x) = k - 1
        /\ \A i \in 1 .. k - 1 : x[i] = q[i]
    BY <1>1, <1>2
  <2>2. /\ y \in Seq(Mover) /\ Len(y) = n - k
        /\ \A i \in 1 .. n - k : y[i] = q[i + k]
    <3>1. /\ y \in Seq(Mover) /\ Len(y) = n - k
          /\ \A i \in 1 .. n - (k + 1) + 1 : y[i] = q[(k + 1) + i - 1]
      <4>1. \A i \in k + 1 .. n : q[i] \in Mover
        BY <1>1, <1>2
      <4>2. k + 1 \in Int /\ n \in Int /\ (IF k + 1 <= n THEN n - (k + 1) + 1 ELSE 0) = n - k
        <5>1. k \in Int /\ n \in Int /\ 1 <= k /\ k <= n
          BY <1>1, <1>2
        <5>. QED
          BY ONLY <5>1
      <4>. QED
        BY <4>1, <4>2, SubSeqProperties
    <3>2. ASSUME NEW i \in 1 .. n - k PROVE y[i] = q[i + k]
      <4>1. y[i] = q[(k + 1) + i - 1]
        <5>1. i \in 1 .. n - (k + 1) + 1
          BY <1>1, <1>2
        <5>. QED
          BY <3>1, <5>1
      <4>2. (k + 1) + i - 1 = i + k
        BY <1>2
      <4>. QED
        BY <4>1, <4>2
    <3>. QED
      BY <3>1, <3>2
  <2>3. r = x \o y
    BY <1>3
  <2>. HIDE DEF x, y
  <2>4. r \in Seq(Mover) /\ Len(r) = n - 1
    <3>1. x \o y \in Seq(Mover) /\ Len(x \o y) = Len(x) + Len(y)
      BY <2>1, <2>2, ConcatProperties
    <3>2. (k - 1) + (n - k) = n - 1
      BY <1>1, <1>2
    <3>. QED
      BY <2>1, <2>2, <2>3, <3>1, <3>2
  <2>5. ASSUME NEW i \in 1 .. n - 1 PROVE r[i] = IF i < k THEN q[i] ELSE q[i + 1]
    <3>1. CASE i < k
      BY <1>1, <1>2, <2>1, <2>2, <2>3, <3>1
    <3>2. CASE ~(i < k)
      <4>1. r[i] = y[i - (k - 1)] /\ i - (k - 1) \in 1 .. n - k
        BY <1>1, <1>2, <2>1, <2>2, <2>3, <3>2
      <4>2. y[i - (k - 1)] = q[i - (k - 1) + k]
        BY <2>2, <4>1
      <4>3. i - (k - 1) + k = i + 1
        BY <1>2
      <4>. QED
        BY <3>2, <4>1, <4>2, <4>3
    <3>. QED
      BY <3>1, <3>2
  <2>. QED
    BY <1>1, <2>4, <2>5
<1>. HIDE DEF n
<1>5. IsInjective(r)
  <2>1. ASSUME NEW i \in 1 .. n - 1, NEW j \in 1 .. n - 1, r[i] = r[j] PROVE i = j
    <3>. DEFINE p(x) == IF x < k THEN x ELSE x + 1
    <3>1. p(i) \in 1 .. n /\ p(j) \in 1 .. n /\ r[i] = q[p(i)] /\ r[j] = q[p(j)]
      BY <1>1, <1>2, <1>4
    <3>2. p(i) = p(j)
      BY <1>1, <2>1, <3>1 DEF IsInjective
    <3>. QED
      BY <1>2, <3>2
  <2>. QED
    BY <1>4, <2>1 DEF IsInjective
<1>6. ASSUME NEW b \in ToSet(r) PROVE b \in ToSet(q) \ {a}
  <2>1. PICK i \in 1 .. n - 1 : b = r[i]
    BY <1>4 DEF ToSet
  <2>2. PICK j \in 1 .. n : b = q[j] /\ j # k
    BY <1>1, <1>2, <1>4, <2>1
  <2>. QED
    BY <1>1, <1>2, <2>2 DEF ToSet, IsInjective
<1>7. ASSUME NEW b \in ToSet(q) \ {a} PROVE b \in ToSet(r)
  <2>1. PICK j \in 1 .. n : b = q[j] /\ j # k
    BY <1>1, <1>2, <1>7 DEF ToSet
  <2>2. CASE j < k
    <3>1. j \in 1 .. n - 1 /\ r[j] = b
      BY <1>1, <1>2, <1>4, <2>1, <2>2
    <3>. QED
      BY <1>4, <3>1 DEF ToSet
  <2>3. CASE j > k
    <3>1. j - 1 \in 1 .. n - 1 /\ ~(j - 1 < k) /\ j - 1 + 1 = j
      BY <1>1, <1>2, <2>1, <2>3
    <3>2. r[j - 1] = b
      BY <1>4, <2>1, <3>1
    <3>. QED
      BY <1>4, <3>1, <3>2 DEF ToSet
  <2>. QED
    BY <1>1, <1>2, <2>1, <2>2, <2>3
<1>. QED
  BY <1>4, <1>5, <1>6, <1>7 DEF r

LEMMA FreedKeeps ==
  ASSUME NEW w, LevelInv(w), NEW a \in Mover, w.mover[a].kind # "none", a \notin Live(w),
         NEW v, Freed(w, v, a)
  PROVE  /\ LevelInv(v) /\ Unused(v) = Unused(w) \cup {a} /\ v.spent = w.spent
         /\ Full(w) => Full(v)
<1>1. /\ IsLevel(w) /\ Listed(w) /\ a \in ToSet(w.thinkers) /\ w.thinkers \in Seq(Mover)
      /\ IsInjective(w.thinkers)
  BY DEF LevelInv, Listed, IsLevel
<1>2. /\ v.thinkers \in Seq(Mover) /\ IsInjective(v.thinkers)
      /\ ToSet(v.thinkers) = ToSet(w.thinkers) \ {a}
  BY <1>1, UnlinkedIs DEF Freed
<1>3. /\ v.data = w.data /\ v.spent = w.spent
      /\ v.activeplats = w.activeplats /\ v.activeceilings = w.activeceilings
      /\ v.floor = w.floor /\ v.ceiling = w.ceiling
      /\ v.mover = [w.mover EXCEPT ![a] = NoMover]
  BY DEF Freed
<1>4. /\ v.mover = [b \in Mover |-> v.mover[b]]
      /\ \A b \in Mover : v.mover[b] = IF b = a THEN NoMover ELSE w.mover[b]
  BY <1>1, <1>3 DEF IsLevel
<1>5. NoMover.kind = "none"
  BY DEF NoMover
<1>6. Live(v) = Live(w) /\ Unused(v) = Unused(w) \cup {a}
  BY <1>4, <1>5 DEF Live, Unused
<1>7. IsLevel(v)
  BY <1>1, <1>2, <1>3, <1>4 DEF IsLevel, Freed
<1>8. Listed(v)
  <2>1. {b \in Mover : v.mover[b].kind # "none"} = {b \in Mover : w.mover[b].kind # "none"} \ {a}
    BY <1>4, <1>5
  <2>. QED
    BY <1>1, <1>2, <2>1 DEF Listed
<1>9. \A b \in Live(w) : b # a /\ v.mover[b] = w.mover[b]
  BY <1>4 DEF Live
<1>10. Pointed(v)
  <2>1. Pointed(w) /\ Shared(v) = Shared(w)
    BY <1>3 DEF LevelInv, Shared
  <2>. QED
    BY <1>3, <1>6, <1>9, <2>1 DEF Pointed
<1>11. Entered(v)
  <2>1. /\ w.activeplats = {b \in Live(w) : w.mover[b].kind = "plat"}
        /\ w.activeceilings \subseteq {b \in Live(w) : w.mover[b].kind = "ceiling"}
        /\ Cardinality(w.activeceilings) <= MAXCEILINGS
        /\ \A b \in Live(w) : w.mover[b].function = "none" <=> w.mover[b].dir = "stasis"
    BY DEF LevelInv, Entered
  <2>2. v.activeplats = {b \in Live(v) : v.mover[b].kind = "plat"}
    BY ONLY <1>3, <1>6, <1>9, <2>1
  <2>3. v.activeceilings \subseteq {b \in Live(v) : v.mover[b].kind = "ceiling"}
    BY ONLY <1>3, <1>6, <1>9, <2>1
  <2>4. \A b \in Live(v) : v.mover[b].function = "none" <=> v.mover[b].dir = "stasis"
    BY <1>6, <1>9, <2>1
  <2>. QED
    BY <1>3, <2>1, <2>2, <2>3, <2>4 DEF Entered
<1>12. \A b \in Live(v) : Sound(v.mover[b])
  BY <1>6, <1>9 DEF LevelInv
<1>13. ASSUME Full(w) PROVE Full(v)
  <2>1. w.activeceilings = {b \in Live(w) : w.mover[b].kind = "ceiling"}
    BY <1>13 DEF Full
  <2>2. v.activeceilings = {b \in Live(v) : v.mover[b].kind = "ceiling"}
    BY ONLY <1>3, <1>6, <1>9, <2>1
  <2>. QED
    BY <2>2 DEF Full
<1>. QED
  BY <1>3, <1>6, <1>7, <1>8, <1>10, <1>11, <1>12, <1>13 DEF LevelInv

----------------------------------------------------------------------------
(* The turns of a mover                                                    *)

LEMMA KeptTwice ==
  ASSUME NEW u, NEW v, NEW w, Kept(u, v), Kept(v, w)
  PROVE  Kept(u, w)
  BY DEF Kept

LEMMA KeptSame ==
  ASSUME NEW w, LevelInv(w)
  PROVE  Kept(w, w)
  BY DEF Kept

LEMMA LiveMover ==
  ASSUME NEW w, LevelInv(w), NEW a \in Live(w)
  PROVE  /\ a \in Mover /\ IsMover(w.mover[a]) /\ Sound(w.mover[a])
         /\ w.mover[a].function \in {"think", "none"}
  BY UnusedIs DEF LevelInv, Live, IsMover, Functions

\* m with another type, direction, wait and count.
Turn(m, t, d, x, c) ==
    [kind |-> m.kind, type |-> t, sector |-> m.sector, tag |-> m.tag,
     function |-> m.function, dir |-> d, old |-> m.old, low |-> m.low,
     high |-> m.high, wait |-> x, count |-> c]

\* w with m at a, where there was a mover of the same kind and sector.
Put(w, a, m) ==
    [floor |-> w.floor, ceiling |-> w.ceiling, data |-> w.data,
     mover |-> [w.mover EXCEPT ![a] = m],
     thinkers |-> w.thinkers, activeplats |-> w.activeplats,
     activeceilings |-> w.activeceilings, spent |-> w.spent]

LEMMA PutKeeps ==
  ASSUME NEW w, LevelInv(w), NEW a \in Live(w),
         NEW m, IsMover(m), Sound(m), m.kind = w.mover[a].kind, m.sector = w.mover[a].sector,
         m.function # "removed"
  PROVE  Kept(w, Put(w, a, m)) /\ Live(Put(w, a, m)) = Live(w)
<1>. DEFINE v == Put(w, a, m)
<1>1. a \in Mover /\ IsMover(w.mover[a]) /\ IsLevel(w) /\ m.kind # "none"
  BY LiveMover, MoverKinds DEF LevelInv
<1>2. \A b \in Mover : v.mover[b] = IF b = a THEN m ELSE w.mover[b]
  BY <1>1 DEF IsLevel, Put
<1>3. IsLevel(v)
  <2>1. v.mover = [b \in Mover |-> v.mover[b]]
    BY <1>1 DEF IsLevel, Put
  <2>2. \A b \in Mover : IsMover(v.mover[b]) \/ v.mover[b] = NoMover
    BY <1>1, <1>2 DEF IsLevel
  <2>. QED
    BY <1>1, <2>1, <2>2 DEF IsLevel, Put
<1>4. \A b \in Mover : v.mover[b].kind = w.mover[b].kind
  BY <1>2
<1>5. Live(v) = Live(w)
  BY <1>1, <1>2 DEF Live
<1>6. \A b \in Live(w) : v.mover[b].sector = w.mover[b].sector /\ Sound(v.mover[b])
  BY <1>2 DEF Live, LevelInv
<1>7. Moved(w, v)
  BY <1>3, <1>4, <1>5, <1>6 DEF Moved, Put
<1>. QED
  BY <1>5, <1>7, MovedKeeps

\* One that is not in stasis turns, and does not come to be in stasis.
LEMMA TurnKeeps ==
  ASSUME NEW w, LevelInv(w), NEW a \in Live(w), w.mover[a].dir # "stasis",
         NEW t, NEW d, d # "stasis", NEW x, NEW c
  PROVE  Kept(w, Put(w, a, Turn(w.mover[a], t, d, x, c)))
<1>. DEFINE m == w.mover[a]
            n == Turn(m, t, d, x, c)
<1>1. IsMover(m) /\ Sound(m) /\ m.function \in {"think", "none"}
  BY LiveMover
<1>2. IsMover(n)
  BY <1>1 DEF IsMover, Turn
<1>3. Sound(n) /\ n.kind = m.kind /\ n.sector = m.sector /\ n.function # "removed"
  BY <1>1 DEF Sound, Turn
<1>. QED
  BY <1>2, <1>3, PutKeeps

\* The forms in which the code's assignments are written.
Shaped(w, a) ==
    /\ w = [floor |-> w.floor, ceiling |-> w.ceiling, data |-> w.data, mover |-> w.mover,
            thinkers |-> w.thinkers, activeplats |-> w.activeplats,
            activeceilings |-> w.activeceilings, spent |-> w.spent]
    /\ w.mover = [b \in Mover |-> w.mover[b]] /\ a \in Mover
    /\ w.mover[a] = Turn(w.mover[a], w.mover[a].type, w.mover[a].dir,
                         w.mover[a].wait, w.mover[a].count)

LEMMA Shapes ==
  ASSUME NEW w, LevelInv(w), NEW a \in Live(w)
  PROVE  Shaped(w, a)
  BY LiveMover DEF IsMover, LevelInv, IsLevel, Turn, Shaped

WithDir(w, a, d) == [w EXCEPT !.mover[a].dir = d]
WithCount(w, a, c) == [w EXCEPT !.mover[a].count = c]
WithWait(w, a, x) == [w EXCEPT !.mover[a].wait = x]
WithDirCount(w, a, d, c) == [w EXCEPT !.mover[a].dir = d, !.mover[a].count = c]
WithCountDir(w, a, d, c) == [w EXCEPT !.mover[a].count = c, !.mover[a].dir = d]
WithMover(w, a, m) == [w EXCEPT !.mover[a] = m]
Aged(m, t, d, c) == [m EXCEPT !.count = c, !.dir = d, !.type = t]
Counted(m, c) == [m EXCEPT !.count = c]

LEMMA DirAssigned ==
  ASSUME NEW w, LevelInv(w), NEW a \in Live(w), NEW d
  PROVE  WithDir(w, a, d) =
           Put(w, a, Turn(w.mover[a], w.mover[a].type, d, w.mover[a].wait, w.mover[a].count))
<1>1. Shaped(w, a)
  BY Shapes
<1>. QED
  BY <1>1 DEF Shaped, Put, Turn, WithDir

LEMMA CountAssigned ==
  ASSUME NEW w, LevelInv(w), NEW a \in Live(w), NEW c
  PROVE  WithCount(w, a, c) =
           Put(w, a, Turn(w.mover[a], w.mover[a].type, w.mover[a].dir, w.mover[a].wait, c))
<1>1. Shaped(w, a)
  BY Shapes
<1>. QED
  BY <1>1 DEF Shaped, Put, Turn, WithCount

LEMMA WaitAssigned ==
  ASSUME NEW w, LevelInv(w), NEW a \in Live(w), NEW x
  PROVE  WithWait(w, a, x) =
           Put(w, a, Turn(w.mover[a], w.mover[a].type, w.mover[a].dir, x, w.mover[a].count))
<1>1. Shaped(w, a)
  BY Shapes
<1>. QED
  BY <1>1 DEF Shaped, Put, Turn, WithWait

LEMMA DirCountAssigned ==
  ASSUME NEW w, LevelInv(w), NEW a \in Live(w), NEW d, NEW c
  PROVE  WithDirCount(w, a, d, c) =
           Put(w, a, Turn(w.mover[a], w.mover[a].type, d, w.mover[a].wait, c))
<1>. DEFINE m == w.mover[a]
            u == Put(w, a, Turn(m, m.type, d, m.wait, m.count))
<1>1. WithDirCount(w, a, d, c) = [u EXCEPT !.mover[a].count = c]
  <2>1. [w EXCEPT !.mover[a].dir = d] = u
    BY DirAssigned DEF WithDir
  <2>. HIDE DEF u
  <2>. QED
    BY <2>1 DEF WithDirCount
<1>2. [u EXCEPT !.mover[a].count = c] = Put(w, a, Turn(m, m.type, d, m.wait, c))
  <2>1. Shaped(w, a)
    BY Shapes
  <2>. QED
    BY <2>1 DEF Shaped, Put, Turn
<1>. QED
  BY <1>1, <1>2

LEMMA CountDirAssigned ==
  ASSUME NEW w, LevelInv(w), NEW a \in Live(w), NEW d, NEW c
  PROVE  WithCountDir(w, a, d, c) =
           Put(w, a, Turn(w.mover[a], w.mover[a].type, d, w.mover[a].wait, c))
<1>. DEFINE m == w.mover[a]
            u == Put(w, a, Turn(m, m.type, m.dir, m.wait, c))
<1>1. WithCountDir(w, a, d, c) = [u EXCEPT !.mover[a].dir = d]
  <2>1. [w EXCEPT !.mover[a].count = c] = u
    BY CountAssigned DEF WithCount
  <2>. HIDE DEF u
  <2>. QED
    BY <2>1 DEF WithCountDir
<1>2. [u EXCEPT !.mover[a].dir = d] = Put(w, a, Turn(m, m.type, d, m.wait, c))
  <2>1. Shaped(w, a)
    BY Shapes
  <2>. QED
    BY <2>1 DEF Shaped, Put, Turn
<1>. QED
  BY <1>1, <1>2

LEMMA MoverAssigned ==
  ASSUME NEW w, LevelInv(w), NEW a \in Live(w), NEW m
  PROVE  WithMover(w, a, m) = Put(w, a, m)
<1>1. Shaped(w, a)
  BY Shapes
<1>. QED
  BY <1>1 DEF Shaped, Put, WithMover

LEMMA AgeAssigned ==
  ASSUME NEW w, LevelInv(w), NEW a \in Live(w), NEW t, NEW d, NEW c
  PROVE  /\ Aged(w.mover[a], t, d, c) = Turn(w.mover[a], t, d, w.mover[a].wait, c)
         /\ Counted(w.mover[a], c) =
              Turn(w.mover[a], w.mover[a].type, w.mover[a].dir, w.mover[a].wait, c)
<1>. DEFINE m == w.mover[a]
            n1 == Turn(m, m.type, m.dir, m.wait, c)
            n2 == Turn(m, m.type, d, m.wait, c)
<1>1. [m EXCEPT !.count = c] = n1
  <2>1. Shaped(w, a)
    BY Shapes
  <2>. QED
    BY <2>1 DEF Shaped, Turn
<1>2. [n1 EXCEPT !.dir = d] = n2
  BY DEF Turn
<1>3. [n2 EXCEPT !.type = t] = Turn(m, t, d, m.wait, c)
  BY DEF Turn
<1>4. [m EXCEPT !.count = c, !.dir = d, !.type = t]
        = [[[m EXCEPT !.count = c] EXCEPT !.dir = d] EXCEPT !.type = t]
  OBVIOUS
<1>. QED
  BY <1>1, <1>2, <1>3, <1>4 DEF Aged, Counted

\* A plane that moves disturbs no mover.
LEMMA PlaneKeeps ==
  ASSUME NEW w, LevelInv(w), NEW s \in Sector, NEW h,
         NEW v, v \in {[w EXCEPT !.floor[s] = h], [w EXCEPT !.ceiling[s] = h]}
  PROVE  Kept(w, v) /\ v.mover = w.mover /\ Live(v) = Live(w)
<1>1. /\ w = [floor |-> w.floor, ceiling |-> w.ceiling, data |-> w.data, mover |-> w.mover,
             thinkers |-> w.thinkers, activeplats |-> w.activeplats,
             activeceilings |-> w.activeceilings, spent |-> w.spent]
      /\ DOMAIN w.floor = Sector /\ DOMAIN w.ceiling = Sector /\ IsLevel(w)
  BY DEF LevelInv, IsLevel
<1>2. PICK f, g :
        /\ v = [floor |-> f, ceiling |-> g, data |-> w.data, mover |-> w.mover,
                thinkers |-> w.thinkers, activeplats |-> w.activeplats,
                activeceilings |-> w.activeceilings, spent |-> w.spent]
        /\ DOMAIN f = Sector /\ DOMAIN g = Sector
  <2>1. CASE v = [w EXCEPT !.floor[s] = h]
    <3>. DEFINE f == [w.floor EXCEPT ![s] = h]
    <3>1. DOMAIN f = Sector
      BY <1>1
    <3>2. v = [floor |-> f, ceiling |-> w.ceiling, data |-> w.data, mover |-> w.mover,
                thinkers |-> w.thinkers, activeplats |-> w.activeplats,
                activeceilings |-> w.activeceilings, spent |-> w.spent]
      BY <1>1, <2>1
    <3>. HIDE DEF f
    <3>. QED
      BY <1>1, <3>1, <3>2
  <2>2. CASE v = [w EXCEPT !.ceiling[s] = h]
    <3>. DEFINE g == [w.ceiling EXCEPT ![s] = h]
    <3>1. DOMAIN g = Sector
      BY <1>1
    <3>2. v = [floor |-> w.floor, ceiling |-> g, data |-> w.data, mover |-> w.mover,
                thinkers |-> w.thinkers, activeplats |-> w.activeplats,
                activeceilings |-> w.activeceilings, spent |-> w.spent]
      BY <1>1, <2>2
    <3>. HIDE DEF g
    <3>. QED
      BY <1>1, <3>1, <3>2
  <2>. QED
    BY <2>1, <2>2
<1>3. IsLevel(v)
  BY <1>1, <1>2 DEF IsLevel
<1>4. Live(v) = Live(w)
  BY <1>2 DEF Live
<1>5. Moved(w, v)
  BY <1>2, <1>3, <1>4 DEF Moved, LevelInv
<1>. QED
  BY <1>2, <1>4, <1>5, MovedKeeps

\* The end of a mover, which its active list forgets.
Finished(w, a) ==
    [floor |-> w.floor, ceiling |-> w.ceiling,
     data |-> [w.data EXCEPT ![w.mover[a].sector] = Null],
     mover |-> [w.mover EXCEPT ![a] = [w.mover[a] EXCEPT !.function = "removed"]],
     thinkers |-> w.thinkers, activeplats |-> w.activeplats \ {a},
     activeceilings |-> w.activeceilings \ {a}, spent |-> w.spent]

LEMMA FinishedKeeps ==
  ASSUME NEW w, LevelInv(w), NEW a \in Live(w)
  PROVE  Kept(w, Finished(w, a))
<1>. DEFINE v == Finished(w, a)
            m == w.mover[a]
            n == [w.mover[a] EXCEPT !.function = "removed"]
<1>1. a \in Mover /\ IsMover(m) /\ IsLevel(w)
  BY LiveMover DEF LevelInv
<1>2. IsMover(n) /\ n.kind = m.kind /\ n.function = "removed"
  BY <1>1 DEF IsMover, Functions
<1>3. /\ v.mover = [w.mover EXCEPT ![a] = n] /\ v.thinkers = w.thinkers /\ v.spent = w.spent
      /\ v.floor = w.floor /\ v.ceiling = w.ceiling
      /\ v.activeplats = w.activeplats \ {a} /\ v.activeceilings = w.activeceilings \ {a}
      /\ v.data = [w.data EXCEPT ![m.sector] = Null]
  BY DEF Finished
<1>4. v = [floor |-> v.floor, ceiling |-> v.ceiling, data |-> v.data, mover |-> v.mover,
           thinkers |-> v.thinkers, activeplats |-> v.activeplats,
           activeceilings |-> v.activeceilings, spent |-> v.spent]
  BY DEF Finished
<1>. HIDE DEF v, n, m
<1>5. \A b \in Mover : v.mover[b] = IF b = a THEN n ELSE w.mover[b]
  BY <1>1, <1>3 DEF IsLevel
<1>6. IsLevel(v)
  <2>1. v.mover = [b \in Mover |-> v.mover[b]]
    BY <1>1, <1>3 DEF IsLevel
  <2>2. \A b \in Mover : IsMover(v.mover[b]) \/ v.mover[b] = NoMover
    BY <1>1, <1>2, <1>5 DEF IsLevel
  <2>3. v.data \in [Sector -> Mover \cup {Null}]
    <3>1. w.data \in [Sector -> Mover \cup {Null}]
      BY <1>1 DEF IsLevel
    <3>. QED
      BY ONLY <1>3, <3>1
  <2>. QED
    BY <1>1, <1>3, <1>4, <2>1, <2>2, <2>3 DEF IsLevel
<1>7. m.kind # "none" /\ m = w.mover[a]
  BY <1>1, MoverKinds DEF m
<1>8. Live(v) = Live(w) \ {a}
  BY <1>1, <1>2, <1>5 DEF Live
<1>9. \A b \in Mover : v.mover[b].kind = w.mover[b].kind
  BY <1>2, <1>5, <1>7
<1>10. \A b \in Live(v) : v.mover[b] = w.mover[b]
  BY <1>5, <1>8 DEF Live
<1>11. Gone(w, v, a)
  BY <1>3, <1>6, <1>7, <1>8, <1>9, <1>10 DEF Gone
<1>. QED
  BY <1>11, GoneKeeps DEF v

\* Who is no plat and no ceiling is in no active list.
LEMMA RemovedIs ==
  ASSUME NEW w, LevelInv(w), NEW a \in Live(w)
  PROVE  /\ w.mover[a].kind \notin {"plat", "ceiling"} => Removed(w, a) = Finished(w, a)
         /\ w.mover[a].kind = "plat" => P_RemoveActivePlat(w, a) = Finished(w, a)
         /\ w.mover[a].kind = "ceiling" /\ a \in w.activeceilings
              => P_RemoveActiveCeiling(w, a) = Finished(w, a)
<1>1. /\ w.activeplats = {b \in Live(w) : w.mover[b].kind = "plat"}
      /\ w.activeceilings \subseteq {b \in Live(w) : w.mover[b].kind = "ceiling"}
  BY DEF LevelInv, Entered
<1>2. w.mover[a].kind # "plat" => w.activeplats = w.activeplats \ {a}
  BY <1>1
<1>3. w.mover[a].kind # "ceiling" => w.activeceilings = w.activeceilings \ {a}
  BY <1>1
<1>4. /\ w = [floor |-> w.floor, ceiling |-> w.ceiling, data |-> w.data, mover |-> w.mover,
             thinkers |-> w.thinkers, activeplats |-> w.activeplats,
             activeceilings |-> w.activeceilings, spent |-> w.spent]
      /\ DOMAIN w.data = Sector /\ DOMAIN w.mover = Mover
  BY DEF LevelInv, IsLevel
<1>5. Removed(w, a) =
        [floor |-> w.floor, ceiling |-> w.ceiling,
         data |-> [w.data EXCEPT ![w.mover[a].sector] = Null],
         mover |-> [w.mover EXCEPT ![a] = [w.mover[a] EXCEPT !.function = "removed"]],
         thinkers |-> w.thinkers, activeplats |-> w.activeplats,
         activeceilings |-> w.activeceilings, spent |-> w.spent]
  <2>1. [w EXCEPT !.mover[a].function = "removed"] =
        [floor |-> w.floor, ceiling |-> w.ceiling, data |-> w.data,
         mover |-> [w.mover EXCEPT ![a] = [w.mover[a] EXCEPT !.function = "removed"]],
         thinkers |-> w.thinkers, activeplats |-> w.activeplats,
         activeceilings |-> w.activeceilings, spent |-> w.spent]
    BY <1>4
  <2>2. Removed(w, a) = [[w EXCEPT !.mover[a].function = "removed"]
                           EXCEPT !.data[w.mover[a].sector] = Null]
    BY DEF Removed
  <2>. QED
    BY <2>1, <2>2
<1>6. w.mover[a].kind \notin {"plat", "ceiling"} => Removed(w, a) = Finished(w, a)
  BY <1>2, <1>3, <1>5 DEF Finished
<1>7. w.mover[a].kind = "plat" => P_RemoveActivePlat(w, a) = Finished(w, a)
  <2>. SUFFICES ASSUME w.mover[a].kind = "plat"
       PROVE  P_RemoveActivePlat(w, a) = Finished(w, a)
    OBVIOUS
  <2>1. P_RemoveActivePlat(w, a) = [Removed(w, a) EXCEPT !.activeplats = w.activeplats \ {a}]
    <3>1. Removed(w, a).activeplats = w.activeplats
      BY <1>5
    <3>. QED
      BY <3>1 DEF P_RemoveActivePlat
  <2>2. w.activeceilings = w.activeceilings \ {a}
    BY <1>3
  <2>. DEFINE data == [w.data EXCEPT ![w.mover[a].sector] = Null]
              mover == [w.mover EXCEPT ![a] = [w.mover[a] EXCEPT !.function = "removed"]]
              p == w.activeplats \ {a}
  <2>3. Finished(w, a) =
        [floor |-> w.floor, ceiling |-> w.ceiling, data |-> data, mover |-> mover,
         thinkers |-> w.thinkers, activeplats |-> p,
         activeceilings |-> w.activeceilings, spent |-> w.spent]
    BY <2>2 DEF Finished
  <2>4. Removed(w, a) =
        [floor |-> w.floor, ceiling |-> w.ceiling, data |-> data, mover |-> mover,
         thinkers |-> w.thinkers, activeplats |-> w.activeplats,
         activeceilings |-> w.activeceilings, spent |-> w.spent]
    BY <1>5
  <2>5. P_RemoveActivePlat(w, a) = [Removed(w, a) EXCEPT !.activeplats = p]
    BY <2>1
  <2>. HIDE DEF data, mover, p
  <2>. QED
    BY ONLY <2>3, <2>4, <2>5
<1>8. w.mover[a].kind = "ceiling" /\ a \in w.activeceilings
        => P_RemoveActiveCeiling(w, a) = Finished(w, a)
  <2>. SUFFICES ASSUME w.mover[a].kind = "ceiling", a \in w.activeceilings
       PROVE  P_RemoveActiveCeiling(w, a) = Finished(w, a)
    OBVIOUS
  <2>1. P_RemoveActiveCeiling(w, a) =
          [Removed(w, a) EXCEPT !.activeceilings = w.activeceilings \ {a}]
    <3>1. Removed(w, a).activeceilings = w.activeceilings
      BY ONLY <1>5
    <3>. QED
      BY <3>1 DEF P_RemoveActiveCeiling
  <2>2. w.activeplats = w.activeplats \ {a}
    BY <1>2
  <2>. DEFINE data == [w.data EXCEPT ![w.mover[a].sector] = Null]
              mover == [w.mover EXCEPT ![a] = [w.mover[a] EXCEPT !.function = "removed"]]
              c == w.activeceilings \ {a}
  <2>3. Finished(w, a) =
        [floor |-> w.floor, ceiling |-> w.ceiling, data |-> data, mover |-> mover,
         thinkers |-> w.thinkers, activeplats |-> w.activeplats,
         activeceilings |-> c, spent |-> w.spent]
    BY <2>2 DEF Finished
  <2>4. Removed(w, a) =
        [floor |-> w.floor, ceiling |-> w.ceiling, data |-> data, mover |-> mover,
         thinkers |-> w.thinkers, activeplats |-> w.activeplats,
         activeceilings |-> w.activeceilings, spent |-> w.spent]
    BY <1>5
  <2>5. P_RemoveActiveCeiling(w, a) = [Removed(w, a) EXCEPT !.activeceilings = c]
    BY <2>1
  <2>. HIDE DEF data, mover, c
  <2>. QED
    BY ONLY <2>3, <2>4, <2>5
<1>. QED
  BY <1>6, <1>7, <1>8

\* Whatever the heights, a thinker's turn keeps the level sound.
LEMMA DoorKeeps ==
  ASSUME NEW w, LevelInv(w), NEW a \in Live(w), w.mover[a].function = "think",
         w.mover[a].kind = "door", NEW blocked
  PROVE  Kept(w, T_VerticalDoor(w, a, blocked))
<1>. DEFINE m == w.mover[a]
            s == m.sector
            left == CountDown(m.count)
            dest == IF m.dir = "down" THEN w.floor[s] ELSE m.high
            move == T_MovePlane(w.ceiling[s], dest, "ceiling", m.dir, FALSE, s \in blocked)
            moved == [w EXCEPT !.ceiling[s] = move.height]
            v == T_VerticalDoor(w, a, blocked)
<1>1. v = CASE m.dir = "waiting" ->
              [w EXCEPT !.mover[a].count = left,
                        !.mover[a].dir =
                            IF left # 0 THEN @
                            ELSE CASE m.type = "vld_normal" -> "down"
                                   [] m.type = "vld_close30ThenOpen" -> "up"
                                   [] OTHER -> @]
         [] m.dir = "initial" ->
              [w EXCEPT !.mover[a] =
                  IF left = 0 /\ m.type = "vld_raiseIn5Mins"
                  THEN [@ EXCEPT !.count = left, !.dir = "up", !.type = "vld_normal"]
                  ELSE [@ EXCEPT !.count = left]]
         [] m.dir = "down" /\ move.res = "pastdest" ->
              CASE m.type \in DoneShut -> Removed(moved, a)
                [] m.type = "vld_close30ThenOpen" ->
                     [moved EXCEPT !.mover[a].dir = "waiting", !.mover[a].count = LONGWAIT]
                [] OTHER -> moved
         [] m.dir = "down" /\ move.res = "crushed" /\ m.type # "vld_close" ->
              [moved EXCEPT !.mover[a].dir = "up"]
         [] m.dir = "up" /\ move.res = "pastdest" ->
              CASE m.type \in DoneOpen -> Removed(moved, a)
                [] m.type = "vld_normal" ->
                     [moved EXCEPT !.mover[a].dir = "waiting", !.mover[a].count = m.wait]
                [] OTHER -> moved
         [] OTHER -> moved
  BY DEF T_VerticalDoor
<1>2. m.dir # "stasis" /\ s \in Sector /\ a \in Mover
  BY LiveMover DEF Sound, IsMover
<1>3. /\ Kept(w, moved) /\ LevelInv(moved) /\ a \in Live(moved) /\ moved.mover[a] = m
  <2>. HIDE DEF move
  <2>1. moved \in {[w EXCEPT !.floor[s] = move.height], [w EXCEPT !.ceiling[s] = move.height]}
    OBVIOUS
  <2>. HIDE DEF moved, m
  <2>2. Kept(w, moved) /\ moved.mover = w.mover /\ Live(moved) = Live(w)
    BY <1>2, <2>1, PlaneKeeps
  <2>. QED
    BY <2>2 DEF Kept, m
<1>. HIDE DEF moved, move, left, v
<1>4. Kept(w, Removed(moved, a))
  <2>1. Kept(moved, Removed(moved, a))
    BY <1>3, RemovedIs, FinishedKeeps
  <2>. QED
    BY <1>3, <2>1, KeptTwice
<1>5. ASSUME NEW d, d # "stasis", NEW c
      PROVE  Kept(w, WithDirCount(moved, a, d, c)) /\ Kept(w, WithDir(moved, a, d))
  <2>. HIDE DEF m
  <2>1. /\ WithDirCount(moved, a, d, c) = Put(moved, a, Turn(m, m.type, d, m.wait, c))
        /\ WithDir(moved, a, d) = Put(moved, a, Turn(m, m.type, d, m.wait, m.count))
    BY <1>3, DirCountAssigned, DirAssigned
  <2>2. /\ Kept(moved, Put(moved, a, Turn(m, m.type, d, m.wait, c)))
        /\ Kept(moved, Put(moved, a, Turn(m, m.type, d, m.wait, m.count)))
    BY <1>2, <1>3, <1>5, TurnKeeps
  <2>. QED
    BY <1>3, <2>1, <2>2, KeptTwice
<1>6. CASE m.dir = "waiting"
  <2>. DEFINE d == IF left # 0 THEN m.dir
                   ELSE CASE m.type = "vld_normal" -> "down"
                          [] m.type = "vld_close30ThenOpen" -> "up"
                          [] OTHER -> m.dir
  <2>1. v = [w EXCEPT !.mover[a].count = left, !.mover[a].dir = d]
    BY <1>1, <1>6
  <2>2. d # "stasis"
    BY <1>2
  <2>. HIDE DEF d
  <2>3. v = Put(w, a, Turn(m, m.type, d, m.wait, left))
    <3>1. v = WithCountDir(w, a, d, left)
      BY <2>1 DEF WithCountDir
    <3>. QED
      BY <3>1, CountDirAssigned
  <2>. QED
    BY <1>2, <2>2, <2>3, TurnKeeps DEF v
<1>7. CASE m.dir = "initial"
  <2>1. \/ v = [w EXCEPT !.mover[a] = [m EXCEPT !.count = left, !.dir = "up", !.type = "vld_normal"]]
        \/ v = [w EXCEPT !.mover[a] = [m EXCEPT !.count = left]]
    BY <1>1, <1>7
  <2>2. \/ v = Put(w, a, Turn(m, "vld_normal", "up", m.wait, left))
        \/ v = Put(w, a, Turn(m, m.type, m.dir, m.wait, left))
    <3>1. \/ v = WithMover(w, a, Aged(m, "vld_normal", "up", left))
          \/ v = WithMover(w, a, Counted(m, left))
      BY <2>1 DEF WithMover, Aged, Counted
    <3>2. /\ Aged(m, "vld_normal", "up", left) = Turn(m, "vld_normal", "up", m.wait, left)
          /\ Counted(m, left) = Turn(m, m.type, m.dir, m.wait, left)
      BY AgeAssigned
    <3>. HIDE DEF m
    <3>. QED
      BY <3>1, <3>2, MoverAssigned
  <2>. QED
    BY <1>2, <2>2, TurnKeeps DEF v
<1>8. CASE m.dir \notin {"waiting", "initial"}
  <2>1. \/ v = moved \/ v = Removed(moved, a)
        \/ \E d \in {"waiting", "up"}, c \in {LONGWAIT, m.wait} :
              v = [moved EXCEPT !.mover[a].dir = d, !.mover[a].count = c]
        \/ v = [moved EXCEPT !.mover[a].dir = "up"]
    <3>. HIDE DEF moved
    <3>1. CASE m.dir = "down"
      BY <1>1, <3>1
    <3>2. CASE m.dir = "up"
      BY <1>1, <3>2
    <3>3. CASE m.dir \notin {"down", "up"}
      BY <1>1, <1>8, <3>3
    <3>. QED
      BY <3>1, <3>2, <3>3
  <2>2. ASSUME NEW d \in {"waiting", "up"}, NEW c \in {LONGWAIT, m.wait}
        PROVE  Kept(w, [moved EXCEPT !.mover[a].dir = d, !.mover[a].count = c])
    BY <1>5 DEF WithDirCount
  <2>3. Kept(w, [moved EXCEPT !.mover[a].dir = "up"])
    BY <1>5 DEF WithDir
  <2>. QED
    BY <1>3, <1>4, <2>1, <2>2, <2>3 DEF v
<1>. QED
  BY <1>6, <1>7, <1>8 DEF v

LEMMA PlatKeeps ==
  ASSUME NEW w, LevelInv(w), NEW a \in Live(w), w.mover[a].function = "think",
         w.mover[a].kind = "plat", NEW blocked
  PROVE  Kept(w, T_PlatRaise(w, a, blocked))
<1>. DEFINE m == w.mover[a]
            s == m.sector
            left == CountDown(m.count)
            dest == IF m.dir = "up" THEN m.high ELSE m.low
            move == T_MovePlane(w.floor[s], dest, "floor", m.dir, FALSE, s \in blocked)
            moved == [w EXCEPT !.floor[s] = move.height]
            v == T_PlatRaise(w, a, blocked)
<1>1. v = CASE m.dir = "waiting" ->
              [w EXCEPT !.mover[a].count = left,
                        !.mover[a].dir =
                            IF left # 0 THEN @
                            ELSE IF w.floor[s] = m.low THEN "up" ELSE "down"]
         [] m.dir = "up" /\ move.res = "crushed" ->
              [moved EXCEPT !.mover[a].dir = "down", !.mover[a].count = m.wait]
         [] m.dir = "up" /\ move.res = "pastdest" /\ m.type # "perpetualRaise" ->
              P_RemoveActivePlat(moved, a)
         [] /\ move.res = "pastdest" /\ m.dir \in {"up", "down"}
            /\ m.dir = "up" => m.type = "perpetualRaise" ->
              [moved EXCEPT !.mover[a].dir = "waiting", !.mover[a].count = m.wait]
         [] OTHER -> moved
  BY DEF T_PlatRaise
<1>2. m.dir # "stasis" /\ s \in Sector /\ a \in Mover
  BY LiveMover DEF Sound, IsMover
<1>3. /\ Kept(w, moved) /\ LevelInv(moved) /\ a \in Live(moved) /\ moved.mover[a] = m
  <2>. HIDE DEF move
  <2>1. moved \in {[w EXCEPT !.floor[s] = move.height], [w EXCEPT !.ceiling[s] = move.height]}
    OBVIOUS
  <2>. HIDE DEF moved, m
  <2>2. Kept(w, moved) /\ moved.mover = w.mover /\ Live(moved) = Live(w)
    BY <1>2, <2>1, PlaneKeeps
  <2>. QED
    BY <2>2 DEF Kept, m
<1>. HIDE DEF moved, move, left, v
<1>4. Kept(w, P_RemoveActivePlat(moved, a))
  <2>1. Kept(moved, P_RemoveActivePlat(moved, a))
    BY <1>3, RemovedIs, FinishedKeeps
  <2>. QED
    BY <1>3, <2>1, KeptTwice
<1>5. ASSUME NEW d, d # "stasis"
      PROVE  Kept(w, WithDirCount(moved, a, d, m.wait))
  <2>. HIDE DEF m
  <2>1. WithDirCount(moved, a, d, m.wait) = Put(moved, a, Turn(m, m.type, d, m.wait, m.wait))
    BY <1>3, DirCountAssigned
  <2>2. Kept(moved, Put(moved, a, Turn(m, m.type, d, m.wait, m.wait)))
    BY <1>2, <1>3, <1>5, TurnKeeps
  <2>. QED
    BY <1>3, <2>1, <2>2, KeptTwice
<1>6. CASE m.dir = "waiting"
  <2>. DEFINE e == IF w.floor[s] = m.low THEN "up" ELSE "down"
              d == IF left # 0 THEN m.dir ELSE e
  <2>1. v = [w EXCEPT !.mover[a].count = left, !.mover[a].dir = d]
    <3>1. v = [w EXCEPT !.mover[a].count = left, !.mover[a].dir = IF left # 0 THEN @ ELSE e]
      BY <1>1, <1>6
    <3>2. e \in {"up", "down"}
      OBVIOUS
    <3>. HIDE DEF e
    <3>. QED
      BY ONLY <3>1
  <2>2. d # "stasis"
    BY <1>2
  <2>. HIDE DEF d
  <2>3. v = Put(w, a, Turn(m, m.type, d, m.wait, left))
    <3>1. v = WithCountDir(w, a, d, left)
      BY <2>1 DEF WithCountDir
    <3>. QED
      BY <3>1, CountDirAssigned
  <2>. QED
    BY <1>2, <2>2, <2>3, TurnKeeps DEF v
<1>7. CASE m.dir # "waiting"
  <2>1. \/ v = moved \/ v = P_RemoveActivePlat(moved, a)
        \/ \E d \in {"waiting", "down"} :
              v = [moved EXCEPT !.mover[a].dir = d, !.mover[a].count = m.wait]
    BY <1>1, <1>7
  <2>2. ASSUME NEW d \in {"waiting", "down"}
        PROVE  Kept(w, [moved EXCEPT !.mover[a].dir = d, !.mover[a].count = m.wait])
    BY <1>5 DEF WithDirCount
  <2>. QED
    BY <1>3, <1>4, <2>1, <2>2 DEF v
<1>. QED
  BY <1>6, <1>7 DEF v

LEMMA CeilingKeeps ==
  ASSUME NEW w, LevelInv(w), NEW a \in Live(w), w.mover[a].function = "think",
         w.mover[a].kind = "ceiling", NEW blocked
  PROVE  Kept(w, T_MoveCeiling(w, a, blocked))
<1>. DEFINE m == w.mover[a]
            s == m.sector
            dest == IF m.dir = "up" THEN m.high ELSE m.low
            crush == m.type = "crushAndRaise" /\ m.dir = "down"
            move == T_MovePlane(w.ceiling[s], dest, "ceiling", m.dir, crush, s \in blocked)
            moved == [w EXCEPT !.ceiling[s] = move.height]
            v == T_MoveCeiling(w, a, blocked)
<1>1. v = CASE move.res = "pastdest" /\ m.type = "crushAndRaise" ->
              [moved EXCEPT !.mover[a].dir = IF m.dir = "up" THEN "down" ELSE "up"]
         [] move.res = "pastdest" /\ m.type # "crushAndRaise" ->
              P_RemoveActiveCeiling(moved, a)
         [] OTHER -> moved
  BY DEF T_MoveCeiling
<1>2. m.dir # "stasis" /\ s \in Sector /\ a \in Mover
  BY LiveMover DEF Sound, IsMover
<1>3. /\ Kept(w, moved) /\ LevelInv(moved) /\ a \in Live(moved) /\ moved.mover[a] = m
  <2>. HIDE DEF move
  <2>1. moved \in {[w EXCEPT !.floor[s] = move.height], [w EXCEPT !.ceiling[s] = move.height]}
    OBVIOUS
  <2>. HIDE DEF moved, m
  <2>2. Kept(w, moved) /\ moved.mover = w.mover /\ Live(moved) = Live(w)
    BY <1>2, <2>1, PlaneKeeps
  <2>. QED
    BY <2>2 DEF Kept, m
<1>. HIDE DEF moved, move, v
<1>4. Kept(w, P_RemoveActiveCeiling(moved, a))
  <2>1. CASE a \in moved.activeceilings
    <3>1. Kept(moved, P_RemoveActiveCeiling(moved, a))
      BY <1>3, <2>1, RemovedIs, FinishedKeeps
    <3>. QED
      BY <1>3, <3>1, KeptTwice
  <2>2. CASE a \notin moved.activeceilings
    BY <1>3, <2>2 DEF P_RemoveActiveCeiling
  <2>. QED
    BY <2>1, <2>2
<1>5. ASSUME NEW d, d # "stasis"
      PROVE  Kept(w, WithDir(moved, a, d))
  <2>. HIDE DEF m
  <2>1. WithDir(moved, a, d) = Put(moved, a, Turn(m, m.type, d, m.wait, m.count))
    BY <1>3, DirAssigned
  <2>2. Kept(moved, Put(moved, a, Turn(m, m.type, d, m.wait, m.count)))
    BY <1>2, <1>3, <1>5, TurnKeeps
  <2>. QED
    BY <1>3, <2>1, <2>2, KeptTwice
<1>6. \/ v = moved \/ v = P_RemoveActiveCeiling(moved, a)
      \/ \E d \in {"up", "down"} : v = [moved EXCEPT !.mover[a].dir = d]
  BY <1>1
<1>7. ASSUME NEW d \in {"up", "down"} PROVE Kept(w, [moved EXCEPT !.mover[a].dir = d])
  BY <1>5 DEF WithDir
<1>. QED
  BY <1>3, <1>4, <1>6, <1>7 DEF v

LEMMA FloorKeeps ==
  ASSUME NEW w, LevelInv(w), NEW a \in Live(w), w.mover[a].kind = "floor", NEW blocked
  PROVE  Kept(w, T_MoveFloor(w, a, blocked))
<1>. DEFINE m == w.mover[a]
            s == m.sector
            move == T_MovePlane(w.floor[s], m.high, "floor", m.dir, FALSE, s \in blocked)
            moved == [w EXCEPT !.floor[s] = move.height]
            v == T_MoveFloor(w, a, blocked)
<1>1. v = IF move.res = "pastdest" THEN Removed(moved, a) ELSE moved
  BY DEF T_MoveFloor
<1>2. s \in Sector /\ a \in Mover
  BY LiveMover DEF IsMover
<1>3. /\ Kept(w, moved) /\ LevelInv(moved) /\ a \in Live(moved) /\ moved.mover[a] = m
  <2>. HIDE DEF move
  <2>1. moved \in {[w EXCEPT !.floor[s] = move.height], [w EXCEPT !.ceiling[s] = move.height]}
    OBVIOUS
  <2>. HIDE DEF moved, m
  <2>2. Kept(w, moved) /\ moved.mover = w.mover /\ Live(moved) = Live(w)
    BY <1>2, <2>1, PlaneKeeps
  <2>. QED
    BY <2>2 DEF Kept, m
<1>. HIDE DEF moved, move, v
<1>4. Kept(w, Removed(moved, a))
  <2>1. Kept(moved, Removed(moved, a))
    BY <1>3, RemovedIs, FinishedKeeps
  <2>. QED
    BY <1>3, <2>1, KeptTwice
<1>. QED
  BY <1>1, <1>3, <1>4 DEF v

LEMMA ThinkKeeps ==
  ASSUME NEW w, LevelInv(w), NEW a \in Mover, a \notin Unused(w), NEW blocked
  PROVE  LET v == Think(w, a, blocked)
         IN  /\ LevelInv(v) /\ v.spent = w.spent /\ Unused(v) \subseteq Unused(w) \cup {a}
             /\ Full(w) => Full(v)
<1>. DEFINE m == w.mover[a]
            v == Think(w, a, blocked)
<1>1. IsMover(m) /\ m.kind # "none" /\ IsLevel(w)
  BY UnusedIs DEF Unused, LevelInv
<1>2. m.function \in Functions /\ m.kind \in Kinds
  BY <1>1 DEF IsMover
<1>3. CASE m.function = "removed"
  <2>1. v = [w EXCEPT !.thinkers = Unlinked(@, a), !.mover[a] = NoMover]
    BY <1>3 DEF Think
  <2>2. w = [floor |-> w.floor, ceiling |-> w.ceiling, data |-> w.data, mover |-> w.mover,
             thinkers |-> w.thinkers, activeplats |-> w.activeplats,
             activeceilings |-> w.activeceilings, spent |-> w.spent]
    BY <1>1 DEF IsLevel
  <2>3. Freed(w, v, a)
    <3>. HIDE DEF v
    <3>. QED
      BY <2>1, <2>2 DEF Freed
  <2>4. a \notin Live(w)
    BY <1>3 DEF Live
  <2>. QED
    BY <1>1, <2>3, <2>4, FreedKeeps
<1>4. CASE m.function = "none"
  <2>1. v = w
    BY <1>4 DEF Think
  <2>. QED
    BY <2>1
<1>5. CASE m.function = "think"
  <2>1. a \in Live(w)
    BY <1>1, <1>5 DEF Live
  <2>2. v = CASE m.kind = "door" -> T_VerticalDoor(w, a, blocked)
              [] m.kind = "plat" -> T_PlatRaise(w, a, blocked)
              [] m.kind = "ceiling" -> T_MoveCeiling(w, a, blocked)
              [] m.kind = "floor" -> T_MoveFloor(w, a, blocked)
    BY <1>5 DEF Think
  <2>. HIDE DEF v
  <2>3. Kept(w, v)
    <3>1. CASE m.kind = "door"
      BY <1>5, <2>1, <2>2, <3>1, DoorKeeps
    <3>2. CASE m.kind = "plat"
      BY <1>5, <2>1, <2>2, <3>2, PlatKeeps
    <3>3. CASE m.kind = "ceiling"
      BY <1>5, <2>1, <2>2, <3>3, CeilingKeeps
    <3>4. CASE m.kind = "floor"
      BY <1>5, <2>1, <2>2, <3>4, FloorKeeps
    <3>. QED
      BY <1>2, <3>1, <3>2, <3>3, <3>4 DEF Kinds
  <2>. QED
    BY <2>3 DEF Kept, v
<1>. QED
  BY <1>2, <1>3, <1>4, <1>5 DEF Functions

----------------------------------------------------------------------------
(* Room for another mover                                                  *)

\* A D1 line opens a door where no ceiling moves.
LEMMA CeilingAlone ==
  ASSUME NEW w, LevelInv(w), NEW s, CeilingSector(s)
  PROVE  s \notin Shared(w)
  BY MoverAssumption DEF LevelInv, IsLevel, Shared, CeilingSector

\* Ceilings are in sectors of their own, so that one more finds a place.
LEMMA CeilingRoom ==
  ASSUME NEW w, LevelInv(w), CeilingsFit, NEW s \in Sector, CeilingSector(s), w.data[s] = Null
  PROVE  Cardinality(w.activeceilings) < MAXCEILINGS
<1>. DEFINE C == {r \in Sector : CeilingSector(r)}
            A == w.activeceilings
            f == [a \in A |-> w.mover[a].sector]
<1>1. /\ IsFiniteSet(C) /\ Cardinality(C) \in Nat /\ s \in C
      /\ IsFiniteSet(C \ {s}) /\ Cardinality(C \ {s}) = Cardinality(C) - 1
  <2>1. IsFiniteSet(0 .. numsectors - 1)
    BY MoverAssumption, FS_Interval
  <2>2. C \in SUBSET (0 .. numsectors - 1) /\ s \in C
    BY DEF Sector
  <2>. HIDE DEF C
  <2>3. IsFiniteSet(C) /\ Cardinality(C) \in Nat
    BY <2>1, <2>2, FS_Subset, FS_CardinalityType
  <2>. QED
    BY <2>2, <2>3, FS_RemoveElement
<1>2. ASSUME NEW a \in A
      PROVE  /\ w.mover[a].sector \in C \ {s}
             /\ w.data[w.mover[a].sector] = a
  <2>1. a \in Live(w) /\ w.mover[a].kind = "ceiling"
    BY DEF LevelInv, Entered
  <2>2. CeilingSector(w.mover[a].sector) /\ w.mover[a].sector \in Sector /\ a # Null
    BY <2>1, LiveMover, MoverAssumption DEF Sound, IsMover
  <2>3. w.mover[a].sector \notin Shared(w)
    BY <2>2, CeilingAlone
  <2>4. w.data[w.mover[a].sector] = a
    BY <2>1, <2>3 DEF LevelInv, Pointed
  <2>. QED
    BY <2>2, <2>4
<1>3. f \in Injection(A, C \ {s})
  BY <1>2 DEF Injection, IsInjective
<1>4. Cardinality(A) <= Cardinality(C \ {s})
  <2>. HIDE DEF f, A, C
  <2>. QED
    BY <1>1, <1>3, FS_Injection
<1>5. Cardinality(A) \in Nat
  BY MoverFinite DEF LevelInv, IsLevel
<1>6. Cardinality(C) <= MAXCEILINGS
  BY DEF CeilingsFit
<1>. HIDE DEF A, C
<1>7. Cardinality(A) < MAXCEILINGS
  BY <1>1, <1>4, <1>5, <1>6, MoverAssumption
<1>. QED
  BY <1>7 DEF A

\* A sound mover for a sector that has none, or shares what it has.
LEMMA SpawnKeeps ==
  ASSUME NEW w, LevelInv(w), Unused(w) # {},
         NEW m, IsMover(m), Sound(m), m.function # "removed",
         w.data[m.sector] = Null \/ m.sector \in Shared(w),
         NEW v, v = Spawn(w, m)
  PROVE  /\ LevelInv(v) /\ v.spent = w.spent
         /\ \E a \in Unused(w) : Unused(v) = Unused(w) \ {a}
         /\ \A s \in Sector \ {m.sector} : v.data[s] = w.data[s]
         /\ CeilingsFit /\ Full(w) => Full(v)
<1>1. IsLevel(w)
  BY DEF LevelInv
<1>2. PICK a \in Unused(w) : With(w, m, a, v)
  BY <1>1, SpawnIs
<1>3. /\ LevelInv(v) /\ Unused(v) = Unused(w) \ {a} /\ v.spent = w.spent
      /\ Full(w) /\ (m.kind = "ceiling" => Cardinality(w.activeceilings) < MAXCEILINGS)
           => Full(v)
  BY <1>2, WithKeeps
<1>4. \A s \in Sector \ {m.sector} : v.data[s] = w.data[s]
  <2>1. v.data = [w.data EXCEPT ![m.sector] = a]
    BY <1>2 DEF With
  <2>. QED
    BY <1>1, <2>1 DEF IsLevel
<1>5. ASSUME CeilingsFit, m.kind = "ceiling" PROVE Cardinality(w.activeceilings) < MAXCEILINGS
  <2>1. CeilingSector(m.sector) /\ m.sector \in Sector
    BY <1>5 DEF Sound, IsMover
  <2>2. w.data[m.sector] = Null
    BY <2>1, CeilingAlone
  <2>. QED
    BY <1>5, <2>1, <2>2, CeilingRoom
<1>. QED
  BY <1>3, <1>4, <1>5

----------------------------------------------------------------------------
(* What lines do                                                           *)

\* Movers of set changed are replaced by n of each, of the same kind and sector.
LEMMA ReplacedKeeps ==
  ASSUME NEW w, LevelInv(w), NEW changed \in SUBSET Live(w), NEW n,
         \A a \in changed :
            /\ IsMover(n[a]) /\ Sound(n[a]) /\ n[a].function # "removed"
            /\ n[a].kind = w.mover[a].kind /\ n[a].sector = w.mover[a].sector,
         NEW v,
         v = [floor |-> w.floor, ceiling |-> w.ceiling, data |-> w.data,
              mover |-> [a \in Mover |-> IF a \in changed THEN n[a] ELSE w.mover[a]],
              thinkers |-> w.thinkers, activeplats |-> w.activeplats,
              activeceilings |-> w.activeceilings, spent |-> w.spent]
  PROVE  Kept(w, v)
<1>1. /\ v.data = w.data /\ v.thinkers = w.thinkers /\ v.spent = w.spent
      /\ v.activeplats = w.activeplats /\ v.activeceilings = w.activeceilings
      /\ v.floor = w.floor /\ v.ceiling = w.ceiling
      /\ v.mover = [a \in Mover |-> IF a \in changed THEN n[a] ELSE w.mover[a]]
      /\ v = [floor |-> v.floor, ceiling |-> v.ceiling, data |-> v.data, mover |-> v.mover,
              thinkers |-> v.thinkers, activeplats |-> v.activeplats,
              activeceilings |-> v.activeceilings, spent |-> v.spent]
  OBVIOUS
<1>2. /\ \A a \in Mover : v.mover[a] = IF a \in changed THEN n[a] ELSE w.mover[a]
      /\ v.mover = [a \in Mover |-> v.mover[a]]
  BY <1>1
<1>3. IsLevel(w) /\ Live(w) \subseteq Mover
  BY DEF LevelInv, Live
<1>4. IsLevel(v)
  <2>1. \A a \in Mover : IsMover(v.mover[a]) \/ v.mover[a] = NoMover
    BY <1>2, <1>3 DEF IsLevel
  <2>. QED
    BY ONLY <1>1, <1>2, <1>3, <2>1 DEF IsLevel
<1>5. \A a \in Mover : v.mover[a].kind = w.mover[a].kind
  BY <1>2
<1>6. Live(v) = Live(w)
  BY <1>2, <1>5 DEF Live
<1>7. \A a \in Live(w) : v.mover[a].sector = w.mover[a].sector /\ Sound(v.mover[a])
  BY <1>2, <1>3 DEF LevelInv
<1>8. Moved(w, v)
  BY ONLY <1>1, <1>4, <1>5, <1>6, <1>7 DEF Moved
<1>. QED
  BY <1>8, MovedKeeps

LEMMA StopKeeps ==
  ASSUME NEW w, LevelInv(w), NEW active, active \in {w.activeplats, w.activeceilings}, NEW tag
  PROVE  Kept(w, Stop(w, active, tag))
<1>. DEFINE changed == {a \in active : w.mover[a].tag = tag /\ w.mover[a].dir # "stasis"}
            n == [a \in changed |-> [w.mover[a] EXCEPT !.old = w.mover[a].dir,
                                        !.dir = "stasis", !.function = "none"]]
            mover == [a \in Mover |-> IF a \in changed THEN n[a] ELSE w.mover[a]]
            v == [floor |-> w.floor, ceiling |-> w.ceiling, data |-> w.data,
                  mover |-> mover,
                  thinkers |-> w.thinkers, activeplats |-> w.activeplats,
                  activeceilings |-> w.activeceilings, spent |-> w.spent]
<1>1. active \subseteq Live(w) /\ \A a \in active : w.mover[a].kind \in {"plat", "ceiling"}
  BY DEF LevelInv, Entered
<1>2. ASSUME NEW a \in changed
      PROVE  /\ IsMover(n[a]) /\ Sound(n[a]) /\ n[a].function # "removed"
             /\ n[a].kind = w.mover[a].kind /\ n[a].sector = w.mover[a].sector
  <2>. DEFINE m == w.mover[a]
              k == [kind |-> m.kind, type |-> m.type, sector |-> m.sector, tag |-> m.tag,
                    function |-> "none", dir |-> "stasis", old |-> m.dir, low |-> m.low,
                    high |-> m.high, wait |-> m.wait, count |-> m.count]
  <2>1. IsMover(m) /\ Sound(m) /\ m.dir # "stasis" /\ m.kind \in {"plat", "ceiling"}
    BY <1>1, LiveMover
  <2>2. n[a] = k
    <3>1. n[a] = [m EXCEPT !.old = m.dir, !.dir = "stasis", !.function = "none"]
      OBVIOUS
    <3>2. m = [kind |-> m.kind, type |-> m.type, sector |-> m.sector, tag |-> m.tag,
               function |-> m.function, dir |-> m.dir, old |-> m.old, low |-> m.low,
               high |-> m.high, wait |-> m.wait, count |-> m.count]
      BY <2>1 DEF IsMover
    <3>. HIDE DEF m, n
    <3>. QED
      BY ONLY <3>1, <3>2
  <2>. HIDE DEF m, n
  <2>3. IsMover(k)
    BY <2>1 DEF IsMover, Functions
  <2>4. Sound(k) /\ k.function # "removed" /\ k.kind = m.kind /\ k.sector = m.sector
    BY <2>1 DEF Sound
  <2>. QED
    BY <2>2, <2>3, <2>4 DEF m
<1>3. w = [floor |-> w.floor, ceiling |-> w.ceiling, data |-> w.data, mover |-> w.mover,
           thinkers |-> w.thinkers, activeplats |-> w.activeplats,
           activeceilings |-> w.activeceilings, spent |-> w.spent]
  BY DEF LevelInv, IsLevel
<1>4. Stop(w, active, tag) = v
  <2>1. Stop(w, active, tag) = [w EXCEPT !.mover = mover]
    BY <1>3 DEF Stop
  <2>. HIDE DEF mover
  <2>. QED
    BY ONLY <1>3, <2>1
<1>5. changed \in SUBSET Live(w)
  BY <1>1
<1>6. Kept(w, v)
  <2>. HIDE DEF n, changed
  <2>. QED
    BY <1>2, <1>5, ReplacedKeeps
<1>. QED
  BY <1>4, <1>6

LEMMA ActivateKeeps ==
  ASSUME NEW w, LevelInv(w), NEW active, active \in {w.activeplats, w.activeceilings}, NEW tag
  PROVE  Kept(w, Activate(w, active, tag))
<1>. DEFINE changed == {a \in active : w.mover[a].tag = tag /\ w.mover[a].dir = "stasis"}
            n == [a \in changed |-> [w.mover[a] EXCEPT !.dir = w.mover[a].old,
                                        !.function = "think"]]
            mover == [a \in Mover |-> IF a \in changed THEN n[a] ELSE w.mover[a]]
            v == [floor |-> w.floor, ceiling |-> w.ceiling, data |-> w.data,
                  mover |-> mover,
                  thinkers |-> w.thinkers, activeplats |-> w.activeplats,
                  activeceilings |-> w.activeceilings, spent |-> w.spent]
<1>1. active \subseteq Live(w) /\ \A a \in active : w.mover[a].kind \in {"plat", "ceiling"}
  BY DEF LevelInv, Entered
<1>2. ASSUME NEW a \in changed
      PROVE  /\ IsMover(n[a]) /\ Sound(n[a]) /\ n[a].function # "removed"
             /\ n[a].kind = w.mover[a].kind /\ n[a].sector = w.mover[a].sector
  <2>. DEFINE m == w.mover[a]
              k == [kind |-> m.kind, type |-> m.type, sector |-> m.sector, tag |-> m.tag,
                    function |-> "think", dir |-> m.old, old |-> m.old, low |-> m.low,
                    high |-> m.high, wait |-> m.wait, count |-> m.count]
  <2>1. IsMover(m) /\ Sound(m)
    BY <1>1, LiveMover
  <2>2. n[a] = k
    <3>1. n[a] = [m EXCEPT !.dir = m.old, !.function = "think"]
      OBVIOUS
    <3>2. m = [kind |-> m.kind, type |-> m.type, sector |-> m.sector, tag |-> m.tag,
               function |-> m.function, dir |-> m.dir, old |-> m.old, low |-> m.low,
               high |-> m.high, wait |-> m.wait, count |-> m.count]
      BY <2>1 DEF IsMover
    <3>. HIDE DEF m, n
    <3>. QED
      BY ONLY <3>1, <3>2
  <2>. HIDE DEF m, n
  <2>3. IsMover(k)
    BY <2>1 DEF IsMover, Functions
  <2>4. Sound(k) /\ k.function # "removed" /\ k.kind = m.kind /\ k.sector = m.sector
    BY <2>1 DEF Sound, IsMover
  <2>. QED
    BY <2>2, <2>3, <2>4 DEF m
<1>3. w = [floor |-> w.floor, ceiling |-> w.ceiling, data |-> w.data, mover |-> w.mover,
           thinkers |-> w.thinkers, activeplats |-> w.activeplats,
           activeceilings |-> w.activeceilings, spent |-> w.spent]
  BY DEF LevelInv, IsLevel
<1>4. Activate(w, active, tag) = v
  <2>1. Activate(w, active, tag) = [w EXCEPT !.mover = mover]
    BY <1>3 DEF Activate
  <2>. HIDE DEF mover
  <2>. QED
    BY ONLY <1>3, <2>1
<1>5. changed \in SUBSET Live(w)
  BY <1>1
<1>6. Kept(w, v)
  <2>. HIDE DEF n, changed
  <2>. QED
    BY <1>2, <1>5, ReplacedKeeps
<1>. QED
  BY <1>4, <1>6

\* A mover as a line or the level's setting up makes it.
Made(kind, type, s, dir, low, high, wait, count) ==
    [kind |-> kind, type |-> type, sector |-> s, tag |-> Tag[s], function |-> "think",
     dir |-> dir, old |-> "up", low |-> low, high |-> high, wait |-> wait, count |-> count]

\* It may be spawned for sector s.
Ready(m, s) == IsMover(m) /\ Sound(m) /\ m.function = "think" /\ m.sector = s

LEMMA MadeReady ==
  ASSUME NEW kind \in Kinds, NEW type, NEW s \in Sector, NEW dir, dir # "stasis",
         NEW low, NEW high, NEW wait, NEW count, kind = "ceiling" => CeilingSector(s)
  PROVE  Ready(Made(kind, type, s, dir, low, high, wait, count), s)
<1>. DEFINE m == Made(kind, type, s, dir, low, high, wait, count)
<1>1. IsMover(m)
  BY DEF IsMover, Made, Functions
<1>2. Sound(m) /\ m.function = "think" /\ m.sector = s
  BY DEF Sound, Made
<1>. QED
  BY <1>1, <1>2 DEF Ready

LEMMA DoorMade ==
  ASSUME NEW w, NEW s, NEW type
  PROVE  \E dir, high : /\ Door(w, s, type) = Made("door", type, s, dir, 0, high, VDOORWAIT, 0)
                        /\ dir # "stasis"
<1>. DEFINE dir == IF type \in {"vld_close", "vld_close30ThenOpen"} THEN "down" ELSE "up"
            high == IF type = "vld_close30ThenOpen" THEN w.ceiling[s] ELSE DoorTop(w, s)
<1>1. Door(w, s, type) = [Fresh(s, "door", type) EXCEPT !.dir = dir, !.high = high,
                                                        !.wait = VDOORWAIT]
  BY DEF Door
<1>2. dir # "stasis"
  OBVIOUS
<1>. HIDE DEF dir, high
<1>3. Door(w, s, type) = Made("door", type, s, dir, 0, high, VDOORWAIT, 0)
  BY ONLY <1>1 DEF Fresh, Made
<1>. QED
  BY <1>2, <1>3

LEMMA DoorReady ==
  ASSUME NEW w, NEW s \in Sector, NEW type
  PROVE  Ready(Door(w, s, type), s)
<1>1. PICK dir, high : /\ Door(w, s, type) = Made("door", type, s, dir, 0, high, VDOORWAIT, 0)
                       /\ dir # "stasis"
  BY DoorMade
<1>. QED
  BY <1>1, MadeReady DEF Kinds

LEMMA PlatReady ==
  ASSUME NEW w, NEW s \in Sector, NEW type, NEW luck, luck.dir \in {"up", "down"}
  PROVE  Ready(Plat(w, s, type, luck), s)
<1>. DEFINE here == w.floor[s]
            dir == CASE type = "downWaitUpStay" -> "down"
                     [] type = "perpetualRaise" -> luck.dir
                     [] OTHER -> "up"
            low == IF type = "raiseToNearestAndChange" THEN luck.low
                   ELSE Min({here, P_FindLowestFloorSurrounding(w, s)})
            high == CASE type = "downWaitUpStay" -> here
                      [] type = "perpetualRaise" ->
                           Max({here, P_FindHighestFloorSurrounding(w, s)})
                      [] OTHER -> P_FindNextHighestFloor(w, s)
            wait == IF type = "raiseToNearestAndChange" THEN 0 ELSE PLATWAIT
            count == luck.count
<1>1. Plat(w, s, type, luck) =
        [Fresh(s, "plat", type) EXCEPT !.dir = dir, !.count = count, !.low = low,
                                       !.high = high, !.wait = wait]
  BY DEF Plat
<1>2. dir # "stasis"
  OBVIOUS
<1>. HIDE DEF dir, low, high, wait, count
<1>3. Plat(w, s, type, luck) = Made("plat", type, s, dir, low, high, wait, count)
  BY ONLY <1>1 DEF Fresh, Made
<1>. QED
  BY <1>2, <1>3, MadeReady DEF Kinds

LEMMA CeilingReady ==
  ASSUME NEW w, NEW s \in Sector, NEW type, CeilingSector(s)
  PROVE  Ready(Ceiling(w, s, type), s)
<1>. DEFINE dir == IF type = "raiseToHighest" THEN "up" ELSE "down"
            low == w.floor[s] + (IF type = "lowerToFloor" THEN 0 ELSE FRACUNIT)
            high == IF type = "raiseToHighest" THEN P_FindHighestCeilingSurrounding(w, s)
                    ELSE w.ceiling[s]
<1>1. Ceiling(w, s, type) =
        [Fresh(s, "ceiling", type) EXCEPT !.dir = dir, !.low = low, !.high = high]
  BY DEF Ceiling
<1>2. dir # "stasis"
  OBVIOUS
<1>. HIDE DEF dir, low, high
<1>3. Ceiling(w, s, type) = Made("ceiling", type, s, dir, low, high, 0, 0)
  BY ONLY <1>1 DEF Fresh, Made
<1>. QED
  BY <1>2, <1>3, MadeReady DEF Kinds

LEMMA FloorReady ==
  ASSUME NEW w, NEW s \in Sector, NEW type
  PROVE  Ready(Floor(w, s, type), s)
<1>. DEFINE dir == IF type = "raiseFloor" THEN "up" ELSE "down"
            high == IF type = "raiseFloor"
                    THEN Min({w.ceiling[s], P_FindLowestCeilingSurrounding(w, s)})
                    ELSE P_FindLowestFloorSurrounding(w, s)
<1>1. Floor(w, s, type) = [Fresh(s, "floor", type) EXCEPT !.dir = dir, !.high = high]
  BY DEF Floor
<1>2. dir # "stasis"
  OBVIOUS
<1>. HIDE DEF dir, high
<1>3. Floor(w, s, type) = Made("floor", type, s, dir, 0, high, 0, 0)
  BY ONLY <1>1 DEF Fresh, Made
<1>. QED
  BY <1>2, <1>3, MadeReady DEF Kinds

LEMMA NewReady ==
  ASSUME NEW w, NEW l \in TaggedLine, l.event \notin StopEvent, NEW s \in Sector,
         Tag[s] = l.tag, NEW luck, luck.dir \in {"up", "down"}
  PROVE  Ready(NewMover(w, s, l.event, luck), s)
<1>. DEFINE e == l.event
            m == NewMover(w, s, e, luck)
<1>1. e \in DoorEvent \cup PlatEvent \cup CeilingEvent \cup FloorEvent
  BY MoverAssumption
<1>2. /\ e \in DoorEvent => m = Door(w, s, e)
      /\ e \in PlatEvent => m = Plat(w, s, e, luck)
      /\ e \in CeilingEvent => m = Ceiling(w, s, e)
      /\ e \in FloorEvent => m = Floor(w, s, e)
  BY DEF NewMover, DoorEvent, PlatEvent, CeilingEvent, FloorEvent
<1>3. e \in CeilingEvent => CeilingSector(s)
  BY DEF CeilingSector
<1>. HIDE DEF e, m
<1>4. Ready(m, s)
  BY <1>1, <1>2, <1>3, DoorReady, PlatReady, CeilingReady, FloorReady
<1>. QED
  BY <1>4 DEF e, m

LEMMA SpecialReady ==
  ASSUME NEW w, NEW s \in Sector, NEW luck
  PROVE  Ready(SpawnedDoor(w, s, luck), s)
<1>1. CASE s \in CloseIn30
  <2>. DEFINE any == luck[s].high
              wait == luck[s].wait
              r == [Door(w, s, "vld_normal") EXCEPT
                      !.dir = "waiting", !.count = LONGWAIT, !.high = any, !.wait = wait]
  <2>1. SpawnedDoor(w, s, luck) = r
    BY <1>1 DEF SpawnedDoor
  <2>2. PICK dir, high :
          Door(w, s, "vld_normal") = Made("door", "vld_normal", s, dir, 0, high, VDOORWAIT, 0)
    BY DoorMade
  <2>3. r = [Made("door", "vld_normal", s, dir, 0, high, VDOORWAIT, 0) EXCEPT
               !.dir = "waiting", !.count = LONGWAIT, !.high = any, !.wait = wait]
    BY <2>2
  <2>. HIDE DEF r, any, wait
  <2>4. r = Made("door", "vld_normal", s, "waiting", 0, any, wait, LONGWAIT)
    BY ONLY <2>3 DEF Made
  <2>. QED
    BY <2>1, <2>4, MadeReady DEF Kinds
<1>2. CASE s \notin CloseIn30
  <2>. DEFINE r == [Door(w, s, "vld_raiseIn5Mins") EXCEPT !.dir = "initial", !.count = LONGWAIT]
  <2>1. SpawnedDoor(w, s, luck) = r
    BY <1>2 DEF SpawnedDoor
  <2>2. PICK dir, high : Door(w, s, "vld_raiseIn5Mins") =
                           Made("door", "vld_raiseIn5Mins", s, dir, 0, high, VDOORWAIT, 0)
    BY DoorMade
  <2>3. r = [Made("door", "vld_raiseIn5Mins", s, dir, 0, high, VDOORWAIT, 0) EXCEPT
               !.dir = "initial", !.count = LONGWAIT]
    BY <2>2
  <2>. HIDE DEF r
  <2>4. r = Made("door", "vld_raiseIn5Mins", s, "initial", 0, high, VDOORWAIT, LONGWAIT)
    BY ONLY <2>3 DEF Made
  <2>. QED
    BY <2>1, <2>4, MadeReady DEF Kinds
<1>. QED
  BY <1>1, <1>2

\* A sector that is ready gets its mover.
LEMMA ReadyKeeps ==
  ASSUME NEW w, LevelInv(w), Unused(w) # {}, NEW s, NEW m, Ready(m, s),
         w.data[s] = Null \/ s \in Shared(w), NEW v, v = Spawn(w, m)
  PROVE  /\ LevelInv(v) /\ v.spent = w.spent
         /\ \E a \in Unused(w) : Unused(v) = Unused(w) \ {a}
         /\ \A r \in Sector \ {s} : v.data[r] = w.data[r]
         /\ CeilingsFit /\ Full(w) => Full(v)
  BY SpawnKeeps DEF Ready

\* A line that opens the door behind it.
LEMMA VerticalDoorKeeps ==
  ASSUME NEW w, LevelInv(w), Unused(w) # {}, NEW l \in DoorLine, NEW player
  PROVE  LET v == EV_VerticalDoor(w, l, player)
         IN  LevelInv(v) /\ (CeilingsFit /\ Full(w) => Full(v))
<1>. DEFINE s == l.sector
            a == w.data[s]
            m == w.mover[a]
            v == EV_VerticalDoor(w, l, player)
<1>1. s \in Sector /\ l.special \in {"DR", "D1"}
  BY MoverAssumption
<1>2. CASE l.special = "D1"
  <2>. DEFINE u == [w EXCEPT !.spent = @ \cup {l}]
              x == Spawn(w, Door(w, s, "vld_open"))
              y == Spawn(u, Door(w, s, "vld_open"))
  <2>1. v = [x EXCEPT !.spent = @ \cup {l}]
    BY <1>2 DEF EV_VerticalDoor
  <2>2. w = [floor |-> w.floor, ceiling |-> w.ceiling, data |-> w.data, mover |-> w.mover,
             thinkers |-> w.thinkers, activeplats |-> w.activeplats,
             activeceilings |-> w.activeceilings, spent |-> w.spent]
    BY DEF LevelInv, IsLevel
  <2>3. u = [floor |-> w.floor, ceiling |-> w.ceiling, data |-> w.data, mover |-> w.mover,
             thinkers |-> w.thinkers, activeplats |-> w.activeplats,
             activeceilings |-> w.activeceilings, spent |-> w.spent \cup {l}]
    BY <2>2
  <2>4. Live(u) = Live(w) /\ Unused(u) = Unused(w) /\ Shared(w) \subseteq Shared(u) /\ s \in Shared(u)
    BY <2>3 DEF Live, Unused, Shared
  <2>5. LevelInv(u) /\ (Full(w) => Full(u))
    <3>. HIDE DEF u
    <3>1. /\ u.floor = w.floor /\ u.ceiling = w.ceiling /\ u.data = w.data /\ u.mover = w.mover
          /\ u.thinkers = w.thinkers /\ u.activeplats = w.activeplats
          /\ u.activeceilings = w.activeceilings /\ u.spent = w.spent \cup {l}
      BY <2>3
    <3>2. u = [floor |-> u.floor, ceiling |-> u.ceiling, data |-> u.data, mover |-> u.mover,
               thinkers |-> u.thinkers, activeplats |-> u.activeplats,
               activeceilings |-> u.activeceilings, spent |-> u.spent]
      BY <2>3
    <3>3. IsLevel(w) /\ Listed(w) /\ Pointed(w) /\ Entered(w) /\ \A b \in Live(w) : Sound(w.mover[b])
      BY DEF LevelInv
    <3>4. IsLevel(u)
      BY ONLY <3>1, <3>2, <3>3, l \in DoorLine DEF IsLevel
    <3>5. Listed(u)
      BY ONLY <3>1, <3>3 DEF Listed
    <3>6. Pointed(u)
      BY ONLY <2>4, <3>1, <3>3 DEF Pointed
    <3>7. Entered(u)
      BY ONLY <2>4, <3>1, <3>3 DEF Entered
    <3>8. \A b \in Live(u) : Sound(u.mover[b])
      BY <2>4, <3>1, <3>3
    <3>9. Full(w) => Full(u)
      BY ONLY <2>4, <3>1 DEF Full
    <3>. QED
      BY <3>4, <3>5, <3>6, <3>7, <3>8, <3>9 DEF LevelInv
  <2>6. LevelInv(y) /\ (CeilingsFit /\ Full(u) => Full(y))
    <3>1. Ready(Door(w, s, "vld_open"), s)
      BY <1>1, DoorReady
    <3>. HIDE DEF u
    <3>. QED
      BY <2>4, <2>5, <3>1, ReadyKeeps
  <2>7. y = v
    <3>. DEFINE d == Door(w, s, "vld_open")
                b == Min(Unused(w))
    <3>1. y = [u EXCEPT !.mover[b] = d,
                 !.thinkers = Append(@, b),
                 !.data[d.sector] = b,
                 !.activeplats = IF d.kind = "plat" THEN @ \cup {b} ELSE @,
                 !.activeceilings =
                     IF d.kind = "ceiling" /\ Cardinality(@) < MAXCEILINGS
                     THEN @ \cup {b} ELSE @]
      BY <2>4 DEF Spawn
    <3>2. x = [w EXCEPT !.mover[b] = d,
                 !.thinkers = Append(@, b),
                 !.data[d.sector] = b,
                 !.activeplats = IF d.kind = "plat" THEN @ \cup {b} ELSE @,
                 !.activeceilings =
                     IF d.kind = "ceiling" /\ Cardinality(@) < MAXCEILINGS
                     THEN @ \cup {b} ELSE @]
      BY DEF Spawn
    <3>. HIDE DEF u, x, y, d, b
    <3>3. With(w, d, b, x)
      BY ONLY <2>2, <3>2 DEF With
    <3>4. With(u, d, b, y)
      BY ONLY <2>3, <3>1 DEF With
    <3>. QED
      BY ONLY <2>1, <2>3, <3>3, <3>4 DEF With
  <2>. QED
    BY <2>5, <2>6, <2>7
<1>3. CASE l.special = "DR" /\ a = Null
  <2>1. v = Spawn(w, Door(w, s, "vld_normal"))
    BY <1>3 DEF EV_VerticalDoor
  <2>2. Ready(Door(w, s, "vld_normal"), s)
    BY <1>1, DoorReady
  <2>. HIDE DEF v
  <2>3. LevelInv(v) /\ (CeilingsFit /\ Full(w) => Full(v))
    BY <1>3, <2>1, <2>2, ReadyKeeps
  <2>. QED
    BY <2>3 DEF v
<1>4. CASE l.special = "DR" /\ a # Null
  <2>1. a \in Live(w)
    BY <1>1, <1>4 DEF LevelInv, Pointed
  <2>2. \/ v = w
        \/ m.kind = "door" /\ \E d \in {"up", "down"} : v = WithDir(w, a, d)
        \/ m.kind = "plat" /\ v = WithCount(w, a, 1)
        \/ m.kind = "plat" /\ m.function = "think" /\ v = WithWait(w, a, -1)
        \/ m.kind = "plat" /\ m.function # "think" /\ v = WithCount(w, a, -1)
    BY <1>4 DEF EV_VerticalDoor, WithDir, WithCount, WithWait
  <2>3. IsMover(m) /\ Sound(m) /\ m.function # "removed" /\ m.dir = m.dir
    BY <2>1, LiveMover
  <2>. HIDE DEF v, m, a
  <2>4. ASSUME NEW d, NEW x, NEW c, d = m.dir \/ (m.kind = "door" /\ d # "stasis")
        PROVE  Kept(w, Put(w, a, Turn(m, m.type, d, x, c)))
    <3>. DEFINE n == Turn(m, m.type, d, x, c)
    <3>1. IsMover(n)
      BY <2>3 DEF IsMover, Turn
    <3>2. Sound(n) /\ n.kind = m.kind /\ n.sector = m.sector /\ n.function # "removed"
      BY <2>3, <2>4 DEF Sound, Turn
    <3>. HIDE DEF n
    <3>3. Kept(w, Put(w, a, n))
      BY <2>1, <3>1, <3>2, PutKeeps DEF m
    <3>. QED
      BY <3>3 DEF n
  <2>5. Kept(w, v)
    <3>1. CASE v = w
      BY <3>1, KeptSame
    <3>2. ASSUME m.kind = "door", NEW d \in {"up", "down"}, v = WithDir(w, a, d)
          PROVE  Kept(w, v)
      <4>1. v = Put(w, a, Turn(m, m.type, d, m.wait, m.count))
        BY <2>1, <3>2, DirAssigned DEF m
      <4>. QED
        BY <2>4, <3>2, <4>1
    <3>3. ASSUME NEW c, v = WithCount(w, a, c)
          PROVE  Kept(w, v)
      <4>1. v = Put(w, a, Turn(m, m.type, m.dir, m.wait, c))
        BY <2>1, <3>3, CountAssigned DEF m
      <4>. QED
        BY <2>4, <4>1
    <3>4. CASE v = WithWait(w, a, -1)
      <4>1. v = Put(w, a, Turn(m, m.type, m.dir, -1, m.count))
        BY <2>1, <3>4, WaitAssigned DEF m
      <4>. QED
        BY <2>4, <4>1
    <3>. QED
      BY <2>2, <3>1, <3>2, <3>3, <3>4
  <2>. QED
    BY <2>5 DEF Kept, v
<1>. QED
  BY <1>1, <1>2, <1>3, <1>4
----------------------------------------------------------------------------
(* The loops of the code                                                   *)

(***************************************************************************)
(* A tic goes through the list of thinkers, a line and the start of a      *)
(* level through the sectors, and a load through the thinkers saved; and   *)
(* Order goes through the list too.  Job j says which loop it is, of how   *)
(* many rounds, on which level it starts, and whose thinkers it goes       *)
(* through.                                                                *)
(***************************************************************************)
Round(j, u, i) ==
    CASE j.loop = "tic" -> Think(u, j.from.thinkers[i], j.blocked)
      [] j.loop = "line" -> Given(u, i - 1, j.line, j.luck)
      [] j.loop = "load" -> Restored(u, j.from, j.from.thinkers[i])
      [] j.loop = "special" -> Special(u, i - 1, j.luck)
      [] j.loop = "order" -> Met(u, j.from, j.from.thinkers[i])

Course(v, j, n) == v = [i \in 0 .. n |-> IF i = 0 THEN j.start ELSE Round(j, v[i - 1], i)]

LEMMA CourseExists ==
  ASSUME NEW j, NEW n \in Nat
  PROVE  \E v : Course(v, j, n)
<1>. DEFINE Bad == {k \in Nat : ~\E v : Course(v, j, k)}
<1>. SUFFICES ASSUME Bad # {} PROVE FALSE
  OBVIOUS
<1>1. PICK k \in Bad : \A i \in Bad : k <= i
  <2>. HIDE DEF Bad
  <2>1. Bad \subseteq Nat
    BY DEF Bad
  <2>. QED
    BY <2>1, LeastNatural
<1>2. CASE k = 0
  <2>1. Course([i \in 0 .. 0 |-> j.start], j, 0)
    BY DEF Course
  <2>. QED
    BY <1>1, <1>2, <2>1
<1>3. CASE k > 0
  <2>1. k - 1 \in Nat /\ k - 1 \notin Bad
    BY <1>1, <1>3
  <2>2. PICK u : Course(u, j, k - 1)
    BY <2>1
  <2>. DEFINE v == [i \in 0 .. k |-> IF i = k THEN Round(j, u[k - 1], k) ELSE u[i]]
  <2>3. \A i \in 0 .. k - 1 : v[i] = u[i]
    BY <1>1
  <2>4. \A i \in 0 .. k - 1 : u[i] = IF i = 0 THEN j.start ELSE Round(j, u[i - 1], i)
    BY <2>2 DEF Course
  <2>5. \A i \in 0 .. k : v[i] = IF i = 0 THEN j.start ELSE Round(j, v[i - 1], i)
    <3>. SUFFICES ASSUME NEW i \in 0 .. k
         PROVE  v[i] = IF i = 0 THEN j.start ELSE Round(j, v[i - 1], i)
      OBVIOUS
    <3>1. CASE i = k
      BY <1>1, <1>3, <2>3, <3>1
    <3>2. CASE i # k
      <4>1. i \in 0 .. k - 1 /\ (i # 0 => i - 1 \in 0 .. k - 1)
        BY <1>1, <3>2
      <4>2. v[i] = u[i] /\ (i # 0 => v[i - 1] = u[i - 1])
        BY <2>3, <4>1
      <4>. HIDE DEF v
      <4>. QED
        BY <2>4, <4>1, <4>2
    <3>. QED
      BY <3>1, <3>2
  <2>6. v = [i \in 0 .. k |-> v[i]]
    OBVIOUS
  <2>. HIDE DEF v
  <2>7. Course(v, j, k)
    BY <2>5, <2>6 DEF Course
  <2>. QED
    BY <1>1, <2>7
<1>. QED
  BY <1>1, <1>2, <1>3

\* What there is to say after i rounds of job j: the thinkers still to come are
\* in the list; there is room for a mover in each round to come; a sector is
\* occupied only by what was restored; and the sectors to come are not.
Good(j, u, i) ==
    /\ LevelInv(u) /\ u.spent = j.start.spent
    /\ CeilingsFit /\ Full(j.start) => Full(u)
    /\ j.loop = "tic" => \A k \in i + 1 .. j.rounds : j.from.thinkers[k] \notin Unused(u)
    /\ j.loop # "tic" => Cardinality(Unused(u)) + i >= j.rounds
    /\ j.loop = "load" =>
         \A s \in Sector : u.data[s] # Null =>
            \/ s \in Shared(u)
            \/ \E k \in 1 .. i : /\ Saved(j.from, j.from.thinkers[k])
                                 /\ j.from.mover[j.from.thinkers[k]].sector = s
    /\ j.loop = "special" => \A s \in Sector : s >= i => u.data[s] = Null

\* A job that the code may have.
Job(j) ==
    /\ j.loop \in {"tic", "line", "load", "special"}
    /\ j.rounds \in Nat
    /\ j.loop \in {"tic", "load"} =>
         LevelInv(j.from) /\ j.rounds = Len(j.from.thinkers) /\ j.start.spent = j.from.spent
    /\ j.loop \in {"line", "special"} => j.rounds = numsectors
    /\ j.loop = "line" =>
         /\ j.line \in TaggedLine /\ j.line.event \notin StopEvent
         /\ \A s \in Sector : Tag[s] = j.line.tag => j.luck[s].dir \in {"up", "down"}

\* A place that was free when there was room for n rounds.
LEMMA RoomFor ==
  ASSUME NEW w, NEW n \in Nat, NEW i \in 1 .. n, Cardinality(Unused(w)) + (i - 1) >= n
  PROVE  /\ Unused(w) # {}
         /\ \A v : (Unused(v) = Unused(w) \/ \E a \in Unused(w) : Unused(v) = Unused(w) \ {a})
                     => Cardinality(Unused(v)) + i >= n
<1>1. Unused(w) \in SUBSET Mover
  BY DEF Unused
<1>2. IsFiniteSet(Unused(w)) /\ Cardinality(Unused(w)) \in Nat
  BY <1>1, MoverFinite
<1>3. Unused(w) # {}
  BY <1>2, FS_EmptySet
<1>4. ASSUME NEW v, Unused(v) = Unused(w) \/ \E a \in Unused(w) : Unused(v) = Unused(w) \ {a}
      PROVE  Cardinality(Unused(v)) + i >= n
  <2>1. CASE Unused(v) = Unused(w)
    BY <1>2, <2>1
  <2>2. ASSUME NEW a \in Unused(w), Unused(v) = Unused(w) \ {a}
        PROVE  Cardinality(Unused(v)) + i >= n
    <3>1. Cardinality(Unused(v)) = Cardinality(Unused(w)) - 1
      BY <1>2, <2>2, FS_RemoveElement
    <3>. QED
      BY <1>2, <3>1
  <2>. QED
    BY <1>4, <2>1, <2>2
<1>. QED
  BY <1>3, <1>4

\* The thinkers of the list are its movers, once each.
LEMMA ListedIs ==
  ASSUME NEW w, LevelInv(w)
  PROVE  /\ Len(w.thinkers) \in Nat
         /\ \A i \in 1 .. Len(w.thinkers) :
              /\ w.thinkers[i] \in Mover \ Unused(w)
              /\ \A k \in 1 .. Len(w.thinkers) : w.thinkers[i] = w.thinkers[k] => i = k
<1>1. w.thinkers \in Seq(Mover) /\ DOMAIN w.thinkers = 1 .. Len(w.thinkers)
  BY DEF LevelInv, IsLevel
<1>2. IsInjective(w.thinkers) /\ ToSet(w.thinkers) = {a \in Mover : w.mover[a].kind # "none"}
  BY DEF LevelInv, Listed
<1>3. \A i \in 1 .. Len(w.thinkers) : w.thinkers[i] \in {a \in Mover : w.mover[a].kind # "none"}
  BY <1>1, <1>2 DEF ToSet
<1>. QED
  BY <1>1, <1>2, <1>3 DEF IsInjective, Unused

LEMMA TicRound ==
  ASSUME NEW j, Job(j), j.loop = "tic", NEW i \in 1 .. j.rounds, NEW u, Good(j, u, i - 1)
  PROVE  Good(j, Round(j, u, i), i)
<1>. DEFINE a == j.from.thinkers[i]
            v == Round(j, u, i)
<1>1. /\ j.rounds \in Nat /\ j.rounds = Len(j.from.thinkers) /\ LevelInv(j.from)
      /\ LevelInv(u) /\ u.spent = j.start.spent /\ (CeilingsFit /\ Full(j.start) => Full(u))
  BY DEF Good, Job
<1>2. \A k \in i .. j.rounds : j.from.thinkers[k] \notin Unused(u)
  BY <1>1 DEF Good
<1>3. a \in Mover /\ a \notin Unused(u)
  BY <1>1, <1>2, ListedIs
<1>4. v = Think(u, a, j.blocked)
  BY DEF Round
<1>. HIDE DEF v
<1>5. /\ LevelInv(v) /\ v.spent = u.spent /\ Unused(v) \subseteq Unused(u) \cup {a}
      /\ Full(u) => Full(v)
  BY <1>1, <1>3, <1>4, ThinkKeeps
<1>6. \A k \in i + 1 .. j.rounds : j.from.thinkers[k] \notin Unused(v)
  BY <1>1, <1>2, <1>5, ListedIs
<1>7. Good(j, v, i)
  BY <1>1, <1>5, <1>6 DEF Good
<1>. QED
  BY <1>7 DEF v

LEMMA LineRound ==
  ASSUME NEW j, Job(j), j.loop = "line", NEW i \in 1 .. j.rounds, NEW u, Good(j, u, i - 1)
  PROVE  Good(j, Round(j, u, i), i)
<1>. DEFINE s == i - 1
            m == NewMover(u, s, j.line.event, j.luck[s])
            v == Round(j, u, i)
<1>1. /\ j.rounds \in Nat /\ j.rounds = numsectors /\ j.line \in TaggedLine
      /\ j.line.event \notin StopEvent
      /\ \A r \in Sector : Tag[r] = j.line.tag => j.luck[r].dir \in {"up", "down"}
      /\ LevelInv(u) /\ u.spent = j.start.spent /\ (CeilingsFit /\ Full(j.start) => Full(u))
      /\ Cardinality(Unused(u)) + (i - 1) >= j.rounds
  BY DEF Good, Job
<1>2. s \in Sector
  BY <1>1 DEF Sector
<1>3. v = IF TaggedIdle(u, s, j.line.tag) THEN Spawn(u, m) ELSE u
  BY DEF Round, Given
<1>4. CASE TaggedIdle(u, s, j.line.tag)
  <2>1. Ready(m, s) /\ u.data[s] = Null
    BY <1>1, <1>2, <1>4, NewReady DEF TaggedIdle
  <2>2. v = Spawn(u, m)
    BY <1>3, <1>4
  <2>. HIDE DEF v, m, s
  <2>3. /\ LevelInv(v) /\ v.spent = u.spent
        /\ \E a \in Unused(u) : Unused(v) = Unused(u) \ {a}
        /\ CeilingsFit /\ Full(u) => Full(v)
    BY <1>1, <2>1, <2>2, RoomFor, ReadyKeeps
  <2>4. Cardinality(Unused(v)) + i >= j.rounds
    BY <1>1, <2>3, RoomFor
  <2>5. Good(j, v, i)
    BY <1>1, <2>3, <2>4 DEF Good
  <2>. QED
    BY <2>5 DEF v
<1>5. CASE ~TaggedIdle(u, s, j.line.tag)
  <2>1. v = u
    BY <1>3, <1>5
  <2>2. Cardinality(Unused(u)) + i >= j.rounds
    BY <1>1, RoomFor
  <2>. HIDE DEF v
  <2>3. Good(j, v, i)
    BY <1>1, <2>1, <2>2 DEF Good
  <2>. QED
    BY <2>3 DEF v
<1>. QED
  BY <1>4, <1>5

LEMMA SpecialRound ==
  ASSUME NEW j, Job(j), j.loop = "special", NEW i \in 1 .. j.rounds, NEW u, Good(j, u, i - 1)
  PROVE  Good(j, Round(j, u, i), i)
<1>. DEFINE s == i - 1
            m == SpawnedDoor(u, s, j.luck)
            v == Round(j, u, i)
<1>1. /\ j.rounds \in Nat /\ j.rounds = numsectors
      /\ LevelInv(u) /\ u.spent = j.start.spent /\ (CeilingsFit /\ Full(j.start) => Full(u))
      /\ Cardinality(Unused(u)) + (i - 1) >= j.rounds
      /\ \A r \in Sector : r >= i - 1 => u.data[r] = Null
  BY DEF Good, Job
<1>2. s \in Sector /\ u.data[s] = Null
  BY <1>1 DEF Sector
<1>3. v = IF s \in CloseIn30 \cup RaiseIn5Mins THEN Spawn(u, m) ELSE u
  BY DEF Round, Special
<1>4. CASE s \in CloseIn30 \cup RaiseIn5Mins
  <2>1. Ready(m, s)
    BY <1>2, SpecialReady
  <2>2. v = Spawn(u, m)
    BY <1>3, <1>4
  <2>. HIDE DEF v, m
  <2>3. /\ LevelInv(v) /\ v.spent = u.spent
        /\ \E a \in Unused(u) : Unused(v) = Unused(u) \ {a}
        /\ \A r \in Sector \ {s} : v.data[r] = u.data[r]
        /\ CeilingsFit /\ Full(u) => Full(v)
    BY <1>1, <1>2, <2>1, <2>2, RoomFor, ReadyKeeps
  <2>4. Cardinality(Unused(v)) + i >= j.rounds
    BY <1>1, <2>3, RoomFor
  <2>5. \A r \in Sector : r >= i => v.data[r] = Null
    BY <1>1, <2>3 DEF Sector
  <2>6. Good(j, v, i)
    BY <1>1, <2>3, <2>4, <2>5 DEF Good
  <2>. QED
    BY <2>6 DEF v
<1>5. CASE s \notin CloseIn30 \cup RaiseIn5Mins
  <2>1. v = u
    BY <1>3, <1>5
  <2>2. Cardinality(Unused(u)) + i >= j.rounds
    BY <1>1, RoomFor
  <2>3. \A r \in Sector : r >= i => u.data[r] = Null
    BY <1>1 DEF Sector
  <2>. HIDE DEF v
  <2>4. Good(j, v, i)
    BY <1>1, <2>1, <2>2, <2>3 DEF Good
  <2>. QED
    BY <2>4 DEF v
<1>. QED
  BY <1>4, <1>5

\* There is a place for what was saved, and its sector is free, or shared.
LEMMA LoadReady ==
  ASSUME NEW j, Job(j), j.loop = "load", NEW i \in 1 .. j.rounds, NEW u, Good(j, u, i - 1),
         Saved(j.from, j.from.thinkers[i])
  PROVE  LET a == j.from.thinkers[i]
             m == j.from.mover[a]
         IN  /\ a \in Live(j.from) /\ IsMover(m) /\ Sound(m) /\ m.function # "removed"
             /\ m.sector \in Sector /\ Unused(u) # {}
             /\ u.data[m.sector] = Null \/ m.sector \in Shared(u)
<1>. DEFINE w == j.from
            a == w.thinkers[i]
            m == w.mover[a]
<1>1. /\ j.rounds \in Nat /\ j.rounds = Len(w.thinkers) /\ LevelInv(w)
      /\ LevelInv(u) /\ u.spent = j.start.spent
      /\ Cardinality(Unused(u)) + (i - 1) >= j.rounds /\ j.start.spent = w.spent
  BY DEF Good, Job
<1>2. \A s \in Sector : u.data[s] # Null =>
        \/ s \in Shared(u)
        \/ \E k \in 1 .. i - 1 : /\ Saved(w, w.thinkers[k])
                                 /\ w.mover[w.thinkers[k]].sector = s
  BY DEF Good
<1>3. \A k \in 1 .. i : Saved(w, w.thinkers[k]) => w.thinkers[k] \in Live(w)
  BY <1>1, ListedIs DEF Saved, Live, Unused
<1>4. a \in Live(w) /\ IsMover(m) /\ Sound(m) /\ m.function # "removed" /\ m.sector \in Sector
  <2>1. i \in 1 .. i
    BY <1>1
  <2>2. a \in Live(w)
    BY <1>3, <2>1
  <2>. HIDE DEF w
  <2>3. IsMover(m) /\ Sound(m) /\ m.function # "removed"
    BY <1>1, <2>2, LiveMover
  <2>. QED
    BY <2>2, <2>3 DEF IsMover
<1>5. ASSUME u.data[m.sector] # Null, m.sector \notin Shared(u) PROVE FALSE
  <2>1. PICK k \in 1 .. i - 1 : /\ Saved(w, w.thinkers[k])
                                /\ w.mover[w.thinkers[k]].sector = m.sector
    BY <1>2, <1>4, <1>5
  <2>2. Shared(u) = Shared(w)
    BY <1>1 DEF Shared
  <2>3. w.thinkers[k] \in Live(w) /\ k \in 1 .. Len(w.thinkers)
    BY <1>1, <1>3, <2>1
  <2>4. w.data[m.sector] = a /\ w.data[m.sector] = w.thinkers[k]
    BY <1>1, <1>4, <1>5, <2>1, <2>2, <2>3 DEF LevelInv, Pointed
  <2>5. i \in 1 .. Len(w.thinkers) /\ k # i
    BY <1>1
  <2>. HIDE DEF w
  <2>. QED
    BY <1>1, <2>3, <2>4, <2>5, ListedIs
<1>6. Unused(u) # {}
  BY <1>1, RoomFor
<1>. QED
  BY <1>4, <1>5, <1>6

LEMMA LoadRound ==
  ASSUME NEW j, Job(j), j.loop = "load", NEW i \in 1 .. j.rounds, NEW u, Good(j, u, i - 1)
  PROVE  Good(j, Round(j, u, i), i)
<1>. DEFINE w == j.from
            a == w.thinkers[i]
            m == w.mover[a]
            v == Round(j, u, i)
            There(s, n) == \E k \in 1 .. n : /\ Saved(w, w.thinkers[k])
                                             /\ w.mover[w.thinkers[k]].sector = s
<1>1. /\ j.rounds \in Nat /\ j.rounds = Len(w.thinkers) /\ LevelInv(w)
      /\ LevelInv(u) /\ u.spent = j.start.spent /\ (CeilingsFit /\ Full(j.start) => Full(u))
      /\ Cardinality(Unused(u)) + (i - 1) >= j.rounds /\ j.start.spent = w.spent
  BY DEF Good, Job
<1>2. \A s \in Sector : u.data[s] # Null => s \in Shared(u) \/ There(s, i - 1)
  BY DEF Good
<1>3. v = IF Saved(w, a) THEN Spawn(u, m) ELSE u
  BY DEF Round, Restored
<1>4. ASSUME NEW s \in Sector, There(s, i - 1) PROVE There(s, i)
  BY <1>4, <1>1
<1>5. CASE Saved(w, a)
  <2>1. /\ IsMover(m) /\ Sound(m) /\ m.function # "removed" /\ m.sector \in Sector
        /\ Unused(u) # {} /\ (u.data[m.sector] = Null \/ m.sector \in Shared(u))
    BY <1>5, LoadReady
  <2>4. There(m.sector, i)
    BY <1>1, <1>5
  <2>5. v = Spawn(u, m)
    BY <1>3, <1>5
  <2>. HIDE DEF v, m, a, w, There
  <2>7. /\ LevelInv(v) /\ v.spent = u.spent
        /\ \E b \in Unused(u) : Unused(v) = Unused(u) \ {b}
        /\ \A s \in Sector \ {m.sector} : v.data[s] = u.data[s]
        /\ CeilingsFit /\ Full(u) => Full(v)
    BY <1>1, <2>1, <2>5, SpawnKeeps
  <2>8. Cardinality(Unused(v)) + i >= j.rounds
    BY <1>1, <2>7, RoomFor
  <2>9. Shared(v) = Shared(u)
    BY <2>7 DEF Shared
  <2>10. \A s \in Sector : v.data[s] # Null => s \in Shared(v) \/ There(s, i)
    BY <1>2, <1>4, <2>4, <2>7, <2>9
  <2>11. Good(j, v, i)
    BY <1>1, <2>7, <2>8, <2>10 DEF Good, There, w
  <2>. QED
    BY <2>11 DEF v
<1>6. CASE ~Saved(w, a)
  <2>1. v = u
    BY <1>3, <1>6
  <2>2. Cardinality(Unused(u)) + i >= j.rounds
    BY <1>1, RoomFor
  <2>. HIDE DEF v, There
  <2>3. \A s \in Sector : u.data[s] # Null => s \in Shared(u) \/ There(s, i)
    BY <1>2, <1>4
  <2>4. Good(j, v, i)
    BY <1>1, <2>1, <2>2, <2>3 DEF Good, There
  <2>. QED
    BY <2>4 DEF v
<1>. QED
  BY <1>5, <1>6

\* Whatever the loop, what is good at its start is good after every round.
LEMMA CourseGood ==
  ASSUME NEW j, Job(j), Good(j, j.start, 0), NEW v, Course(v, j, j.rounds)
  PROVE  \A i \in 0 .. j.rounds : Good(j, v[i], i)
<1>. DEFINE Bad == {i \in 0 .. j.rounds : ~Good(j, v[i], i)}
<1>1. j.rounds \in Nat /\ j.loop \in {"tic", "line", "load", "special"}
  BY DEF Job
<1>2. \A i \in 0 .. j.rounds : v[i] = IF i = 0 THEN j.start ELSE Round(j, v[i - 1], i)
  BY DEF Course
<1>3. ASSUME Bad # {} PROVE FALSE
  <2>1. PICK i \in Bad : \A k \in Bad : i <= k
    <3>1. Bad \subseteq Nat
      BY <1>1
    <3>. HIDE DEF Bad
    <3>. QED
      BY <1>3, <3>1, LeastNatural
  <2>2. i # 0
    BY <1>1, <1>2, <2>1
  <2>3. i \in 1 .. j.rounds /\ i - 1 \in 0 .. j.rounds /\ i - 1 \notin Bad
    BY <1>1, <2>1, <2>2
  <2>4. Good(j, v[i - 1], i - 1)
    BY <2>3
  <2>5. Good(j, Round(j, v[i - 1], i), i)
    BY <1>1, <2>3, <2>4, TicRound, LineRound, LoadRound, SpecialRound
  <2>6. v[i] = Round(j, v[i - 1], i)
    BY <1>2, <2>2, <2>3
  <2>7. Good(j, v[i], i)
    BY <2>5, <2>6
  <2>. QED
    BY <2>1, <2>7
<1>. QED
  BY <1>3

LEMMA CourseKeeps ==
  ASSUME NEW j, Job(j), Good(j, j.start, 0), NEW v, Course(v, j, j.rounds)
  PROVE  Good(j, v[j.rounds], j.rounds)
<1>1. j.rounds \in Nat
  BY DEF Job
<1>2. j.rounds \in 0 .. j.rounds
  BY <1>1
<1>. QED
  BY <1>2, CourseGood
----------------------------------------------------------------------------
(* The operations of the simulation                                        *)

LEMMA RunKeeps ==
  ASSUME NEW w, LevelInv(w), NEW blocked
  PROVE  LET v == P_RunThinkers(w, blocked)
         IN  LevelInv(v) /\ (CeilingsFit /\ Full(w) => Full(v))
<1>. DEFINE n == Len(w.thinkers)
            j == [loop |-> "tic", from |-> w, start |-> w, rounds |-> n, blocked |-> blocked]
            q == CHOOSE f : f = [i \in 0 .. n |->
                    IF i = 0 THEN w ELSE Think(f[i - 1], w.thinkers[i], blocked)]
<1>1. n \in Nat
  BY ListedIs
<1>2. ASSUME NEW u, NEW i PROVE Round(j, u, i) = Think(u, w.thinkers[i], blocked)
  BY DEF Round
<1>3. Job(j)
  BY <1>1 DEF Job
<1>4. Good(j, j.start, 0)
  BY ListedIs DEF Good
<1>5. j.start = w /\ j.rounds = n
  OBVIOUS
<1>6. P_RunThinkers(w, blocked) = q[n]
  BY DEF P_RunThinkers
<1>. HIDE DEF j
<1>7. \E f : f = [i \in 0 .. n |-> IF i = 0 THEN w ELSE Think(f[i - 1], w.thinkers[i], blocked)]
  <2>1. PICK f : Course(f, j, n)
    BY <1>1, CourseExists
  <2>2. f = [i \in 0 .. n |-> IF i = 0 THEN w ELSE Think(f[i - 1], w.thinkers[i], blocked)]
    BY <1>2, <1>5, <2>1 DEF Course
  <2>. QED
    BY <2>2
<1>8. q = [i \in 0 .. n |-> IF i = 0 THEN w ELSE Think(q[i - 1], w.thinkers[i], blocked)]
  BY <1>7
<1>. HIDE DEF q
<1>9. Course(q, j, n)
  BY <1>2, <1>5, <1>8 DEF Course
<1>10. Good(j, q[n], n)
  BY <1>3, <1>4, <1>5, <1>9, CourseKeeps
<1>. QED
  BY <1>5, <1>6, <1>10 DEF Good

LEMMA DoKeeps ==
  ASSUME NEW w, LevelInv(w), Cardinality(Unused(w)) >= numsectors,
         NEW l \in TaggedLine, NEW luck \in [{s \in Sector : Tag[s] = l.tag} -> Luck]
  PROVE  LET v == EV_Do(w, l, luck)
         IN  LevelInv(v) /\ (CeilingsFit /\ Full(w) => Full(v))
<1>. DEFINE n == numsectors
            awake == CASE l.event = "perpetualRaise" -> Activate(w, w.activeplats, l.tag)
                       [] l.event = "crushAndRaise" -> Activate(w, w.activeceilings, l.tag)
                       [] OTHER -> w
            j == [loop |-> "line", start |-> awake, rounds |-> n, line |-> l,
                  luck |-> luck]
            q == CHOOSE f : f = [i \in 0 .. n |->
                    IF i = 0 THEN awake ELSE Given(f[i - 1], i - 1, l, luck)]
            v == EV_Do(w, l, luck)
<1>1. n \in Nat
  BY MoverAssumption
<1>2. CASE l.event \in StopEvent
  <2>1. v \in {Stop(w, w.activeplats, l.tag), Stop(w, w.activeceilings, l.tag)}
    BY <1>2 DEF EV_Do, StopEvent
  <2>. HIDE DEF v
  <2>2. Kept(w, v)
    BY <2>1, StopKeeps
  <2>. QED
    BY <2>2 DEF Kept, v
<1>3. CASE l.event \notin StopEvent
  <2>1. v = q[n]
    BY <1>3 DEF EV_Do, StopEvent
  <2>2. Kept(w, awake)
    <3>1. awake \in {w, Activate(w, w.activeplats, l.tag), Activate(w, w.activeceilings, l.tag)}
      OBVIOUS
    <3>. HIDE DEF awake
    <3>. QED
      BY <3>1, ActivateKeeps, KeptSame
  <2>. HIDE DEF awake, v
  <2>3. ASSUME NEW u, NEW i PROVE Round(j, u, i) = Given(u, i - 1, l, luck)
    BY DEF Round
  <2>4. Job(j)
    <3>1. \A s \in Sector : Tag[s] = l.tag => luck[s].dir \in {"up", "down"}
      BY DEF Luck
    <3>. QED
      BY <1>1, <1>3, <3>1 DEF Job
  <2>5. Good(j, j.start, 0)
    <3>1. LevelInv(awake) /\ Cardinality(Unused(awake)) >= n
      BY <2>2 DEF Kept
    <3>2. Cardinality(Unused(awake)) \in Nat
      BY MoverFinite DEF Unused
    <3>. QED
      BY <1>1, <3>1, <3>2 DEF Good
  <2>6. j.start = awake /\ j.rounds = n
    OBVIOUS
  <2>. HIDE DEF j
  <2>7. \E f : f = [i \in 0 .. n |->
                    IF i = 0 THEN awake ELSE Given(f[i - 1], i - 1, l, luck)]
    <3>1. PICK f : Course(f, j, n)
      BY <1>1, CourseExists
    <3>2. f = [i \in 0 .. n |-> IF i = 0 THEN awake ELSE Given(f[i - 1], i - 1, l, luck)]
      BY <2>3, <2>6, <3>1 DEF Course
    <3>. QED
      BY <3>2
  <2>8. q = [i \in 0 .. n |-> IF i = 0 THEN awake ELSE Given(q[i - 1], i - 1, l, luck)]
    BY <2>7
  <2>. HIDE DEF q
  <2>9. Course(q, j, n)
    BY <2>3, <2>6, <2>8 DEF Course
  <2>10. Good(j, q[n], n)
    BY <2>4, <2>5, <2>6, <2>9, CourseKeeps
  <2>11. LevelInv(v) /\ (CeilingsFit /\ Full(w) => Full(v))
    BY <2>1, <2>2, <2>6, <2>10 DEF Good, Kept
  <2>. QED
    BY <2>11 DEF v
<1>. QED
  BY <1>2, <1>3

\* A level without movers.
LEMMA EmptyLevel ==
  ASSUME NEW floor, DOMAIN floor = Sector, NEW ceiling, DOMAIN ceiling = Sector,
         NEW spent \in SUBSET DoorLine,
         NEW v, v = [floor |-> floor, ceiling |-> ceiling, data |-> [s \in Sector |-> Null],
                     mover |-> [a \in Mover |-> NoMover], thinkers |-> <<>>,
                     activeplats |-> {}, activeceilings |-> {}, spent |-> spent]
  PROVE  /\ LevelInv(v) /\ Full(v) /\ Cardinality(Unused(v)) = Cardinality(Mover)
         /\ \A s \in Sector : v.data[s] = Null
<1>1. /\ v.floor = floor /\ v.ceiling = ceiling /\ v.spent = spent /\ v.thinkers = <<>>
      /\ v.activeplats = {} /\ v.activeceilings = {}
      /\ v.data = [s \in Sector |-> Null] /\ v.mover = [a \in Mover |-> NoMover]
  OBVIOUS
<1>2. v = [floor |-> v.floor, ceiling |-> v.ceiling, data |-> v.data, mover |-> v.mover,
           thinkers |-> v.thinkers, activeplats |-> v.activeplats,
           activeceilings |-> v.activeceilings, spent |-> v.spent]
  OBVIOUS
<1>3. IsLevel(v)
  <2>1. v.data \in [Sector -> Mover \cup {Null}] /\ v.thinkers \in Seq(Mover)
    BY ONLY <1>1
  <2>2. v.mover = [a \in Mover |-> v.mover[a]] /\ \A a \in Mover : v.mover[a] = NoMover
    BY ONLY <1>1
  <2>. QED
    BY <1>1, <1>2, <2>1, <2>2 DEF IsLevel
<1>4. Unused(v) = Mover /\ Live(v) = {}
  BY <1>1 DEF Unused, Live, NoMover
<1>5. Listed(v)
  <2>1. ToSet(<<>>) = {} /\ IsInjective(<<>>)
    BY DEF ToSet, IsInjective
  <2>. QED
    BY <1>1, <2>1 DEF Listed, NoMover
<1>6. \A s \in Sector : v.data[s] = Null
  BY <1>1
<1>7. Pointed(v)
  BY <1>4, <1>6 DEF Pointed
<1>8. Entered(v) /\ Full(v)
  <2>1. v.activeplats = {} /\ v.activeceilings = {}
    BY <1>1
  <2>2. Cardinality({}) = 0 /\ 0 <= MAXCEILINGS
    BY FS_EmptySet, MoverAssumption
  <2>. QED
    BY ONLY <1>4, <2>1, <2>2 DEF Entered, Full
<1>. QED
  BY <1>3, <1>4, <1>5, <1>6, <1>7, <1>8 DEF LevelInv

\* The level a load starts from.
LEMMA ClearedIs ==
  ASSUME NEW w, LevelInv(w), NEW clear, clear = Cleared(w)
  PROVE  /\ LevelInv(clear) /\ Full(clear) /\ Cardinality(Unused(clear)) = Cardinality(Mover)
         /\ \A s \in Sector : clear.data[s] = Null
         /\ clear.floor = Rounded(w.floor) /\ clear.ceiling = Rounded(w.ceiling)
         /\ clear.spent = w.spent
         /\ clear.thinkers = <<>> /\ Live(clear) = {}
<1>1. w = [floor |-> w.floor, ceiling |-> w.ceiling, data |-> w.data, mover |-> w.mover,
           thinkers |-> w.thinkers, activeplats |-> w.activeplats,
           activeceilings |-> w.activeceilings, spent |-> w.spent]
  BY DEF LevelInv, IsLevel
<1>2. /\ DOMAIN w.floor = Sector /\ DOMAIN w.ceiling = Sector
      /\ w.spent \in SUBSET DoorLine
  BY DEF LevelInv, IsLevel
<1>3. clear = [floor |-> Rounded(w.floor), ceiling |-> Rounded(w.ceiling), data |-> [s \in Sector |-> Null],
               mover |-> [a \in Mover |-> NoMover], thinkers |-> <<>>,
               activeplats |-> {}, activeceilings |-> {}, spent |-> w.spent]
  <2>1. clear = [w EXCEPT !.floor = Rounded(@), !.ceiling = Rounded(@),
                          !.mover = [a \in Mover |-> NoMover], !.thinkers = <<>>,
                          !.data = [s \in Sector |-> Null],
                          !.activeplats = {}, !.activeceilings = {}]
    BY DEF Cleared
  <2>. QED
    BY ONLY <1>1, <2>1
<1>4. /\ clear.floor = Rounded(w.floor) /\ clear.ceiling = Rounded(w.ceiling)
      /\ clear.spent = w.spent
      /\ clear.thinkers = <<>>
  BY <1>3
<1>5. Live(clear) = {}
  <2>1. clear.mover = [a \in Mover |-> NoMover]
    BY <1>3
  <2>. QED
    BY <2>1 DEF Live, NoMover
<1>6. PICK floor, ceiling, spent :
         floor = Rounded(w.floor) /\ ceiling = Rounded(w.ceiling) /\ spent = w.spent
  OBVIOUS
<1>7. clear = [floor |-> floor, ceiling |-> ceiling, data |-> [s \in Sector |-> Null],
               mover |-> [a \in Mover |-> NoMover], thinkers |-> <<>>,
               activeplats |-> {}, activeceilings |-> {}, spent |-> spent]
  BY <1>3, <1>6
<1>8. DOMAIN floor = Sector /\ DOMAIN ceiling = Sector /\ spent \in SUBSET DoorLine
  BY ONLY <1>2, <1>6 DEF Rounded
<1>9. /\ LevelInv(clear) /\ Full(clear) /\ Cardinality(Unused(clear)) = Cardinality(Mover)
      /\ \A s \in Sector : clear.data[s] = Null
  BY ONLY <1>7, <1>8, EmptyLevel
<1>. QED
  BY <1>4, <1>5, <1>9

\* A load is such a loop.
LEMMA LoadCourse ==
  ASSUME NEW w, LevelInv(w), NEW clear, clear = Cleared(w),
         NEW j, j = [loop |-> "load", from |-> w, start |-> clear, rounds |-> Len(w.thinkers)]
  PROVE  /\ Job(j) /\ Good(j, j.start, 0)
         /\ \E q : Course(q, j, j.rounds) /\ Unarchived(w) = q[j.rounds]
<1>. DEFINE n == Len(w.thinkers)
            q == CHOOSE f : f = [i \in 0 .. n |->
                    IF i = 0 THEN clear ELSE Restored(f[i - 1], w, w.thinkers[i])]
<1>1. n \in Nat
  BY ListedIs
<1>2. Unarchived(w) = q[n]
  BY DEF Unarchived
<1>3. /\ LevelInv(clear) /\ Full(clear) /\ Cardinality(Unused(clear)) = Cardinality(Mover)
      /\ \A s \in Sector : clear.data[s] = Null
      /\ clear.spent = w.spent
  BY ONLY LevelInv(w), clear = Cleared(w), ClearedIs
<1>4. ASSUME NEW u, NEW i PROVE Round(j, u, i) = Restored(u, w, w.thinkers[i])
  BY DEF Round
<1>5. Job(j)
  BY <1>1, <1>3 DEF Job
<1>6. n <= Cardinality(Mover) /\ Cardinality(Mover) \in Nat
  <2>. DEFINE f == [i \in 1 .. n |-> w.thinkers[i]]
  <2>1. f \in Injection(1 .. n, Mover)
    BY ListedIs DEF Injection, IsInjective
  <2>2. IsFiniteSet(Mover) /\ Cardinality(Mover) \in Nat
    BY MoverAssumption, FS_CardinalityType
  <2>3. Cardinality(1 .. n) = n
    BY <1>1, FS_Interval
  <2>. HIDE DEF f, n
  <2>4. Cardinality(1 .. n) <= Cardinality(Mover)
    BY <2>1, <2>2, FS_Injection
  <2>. QED
    BY <2>2, <2>3, <2>4
<1>7. Good(j, j.start, 0)
  BY <1>1, <1>3, <1>6 DEF Good
<1>8. j.start = clear /\ j.rounds = n
  OBVIOUS
<1>9. \E f : f = [i \in 0 .. n |-> IF i = 0 THEN clear ELSE Restored(f[i - 1], w, w.thinkers[i])]
  <2>1. PICK f : Course(f, j, n)
    BY <1>1, CourseExists
  <2>2. f = [i \in 0 .. n |-> IF i = 0 THEN clear ELSE Restored(f[i - 1], w, w.thinkers[i])]
    BY <1>4, <1>8, <2>1 DEF Course
  <2>. QED
    BY <2>2
<1>10. q = [i \in 0 .. n |-> IF i = 0 THEN clear ELSE Restored(q[i - 1], w, w.thinkers[i])]
  BY <1>9
<1>. HIDE DEF q
<1>11. Course(q, j, n)
  BY ONLY <1>4, <1>8, <1>10 DEF Course
<1>. QED
  BY <1>2, <1>5, <1>7, <1>8, <1>11

LEMMA LoadKeeps ==
  ASSUME NEW w, LevelInv(w)
  PROVE  LET v == Unarchived(w) IN LevelInv(v) /\ (CeilingsFit => Full(v))
<1>1. PICK clear : clear = Cleared(w)
  OBVIOUS
<1>2. PICK j : j = [loop |-> "load", from |-> w, start |-> clear, rounds |-> Len(w.thinkers)]
  OBVIOUS
<1>3. Full(clear) /\ j.start = clear
  BY <1>1, <1>2, ClearedIs
<1>4. PICK q : Course(q, j, j.rounds) /\ Unarchived(w) = q[j.rounds]
  BY <1>1, <1>2, LoadCourse
<1>5. Job(j) /\ Good(j, j.start, 0)
  BY <1>1, <1>2, LoadCourse
<1>6. Good(j, q[j.rounds], j.rounds)
  BY <1>4, <1>5, CourseKeeps
<1>. QED
  BY <1>3, <1>4, <1>6 DEF Good

LEMMA SpawnSpecialsKeeps ==
  ASSUME NEW luck
  PROVE  LET v == P_SpawnSpecials(luck) IN LevelInv(v) /\ (CeilingsFit => Full(v))
<1>. DEFINE n == numsectors
            j == [loop |-> "special", start |-> Still, rounds |-> n, luck |-> luck]
            q == CHOOSE f : f = [i \in 0 .. n |->
                    IF i = 0 THEN Still ELSE Special(f[i - 1], i - 1, luck)]
<1>1. n \in Nat /\ n <= Cardinality(Mover) /\ Cardinality(Mover) \in Nat
  BY MoverAssumption, FS_CardinalityType
<1>2. P_SpawnSpecials(luck) = q[n]
  BY DEF P_SpawnSpecials
<1>3. /\ LevelInv(Still) /\ Full(Still) /\ Cardinality(Unused(Still)) = Cardinality(Mover)
      /\ \A s \in Sector : Still.data[s] = Null
  <2>1. DOMAIN FloorHeight = Sector /\ DOMAIN CeilingHeight = Sector /\ {} \in SUBSET DoorLine
    BY MoverAssumption
  <2>2. Still = [floor |-> FloorHeight, ceiling |-> CeilingHeight,
                 data |-> [s \in Sector |-> Null],
                 mover |-> [a \in Mover |-> NoMover], thinkers |-> <<>>,
                 activeplats |-> {}, activeceilings |-> {}, spent |-> {}]
    BY DEF Still
  <2>. QED
    BY <2>1, <2>2, EmptyLevel
<1>4. ASSUME NEW u, NEW i PROVE Round(j, u, i) = Special(u, i - 1, luck)
  BY DEF Round
<1>5. Job(j)
  BY <1>1 DEF Job
<1>6. Good(j, j.start, 0)
  BY <1>1, <1>3 DEF Good
<1>7. j.start = Still /\ j.rounds = n
  OBVIOUS
<1>. HIDE DEF j
<1>8. \E f : f = [i \in 0 .. n |-> IF i = 0 THEN Still ELSE Special(f[i - 1], i - 1, luck)]
  <2>1. PICK f : Course(f, j, n)
    BY <1>1, CourseExists
  <2>2. f = [i \in 0 .. n |-> IF i = 0 THEN Still ELSE Special(f[i - 1], i - 1, luck)]
    BY <1>4, <1>7, <2>1 DEF Course
  <2>. QED
    BY <2>2
<1>9. q = [i \in 0 .. n |-> IF i = 0 THEN Still ELSE Special(q[i - 1], i - 1, luck)]
  BY <1>8
<1>. HIDE DEF q
<1>10. Course(q, j, n)
  BY <1>4, <1>7, <1>9 DEF Course
<1>11. Good(j, q[n], n)
  BY <1>5, <1>6, <1>7, <1>10, CourseKeeps
<1>. QED
  BY <1>2, <1>3, <1>7, <1>11 DEF Good

----------------------------------------------------------------------------
(* What a loaded game has                                                  *)

LEMMA OrderIs ==
  ASSUME NEW w, Len(w.thinkers) \in Nat
  PROVE  /\ Order(w, 0) = <<>>
         /\ \A i \in 1 .. Len(w.thinkers) :
              Order(w, i) = Met(Order(w, i - 1), w, w.thinkers[i])
<1>. DEFINE n == Len(w.thinkers)
            q == CHOOSE f : f = [i \in 0 .. n |->
                    IF i = 0 THEN <<>> ELSE Met(f[i - 1], w, w.thinkers[i])]
<1>1. PICK j : j = [loop |-> "order", from |-> w, start |-> <<>>]
  OBVIOUS
<1>2. j.start = <<>> /\ \A u, i : Round(j, u, i) = Met(u, w, w.thinkers[i])
  BY <1>1 DEF Round
<1>3. \E f : f = [i \in 0 .. n |-> IF i = 0 THEN <<>> ELSE Met(f[i - 1], w, w.thinkers[i])]
  <2>1. PICK f : Course(f, j, n)
    BY CourseExists
  <2>2. f = [i \in 0 .. n |-> IF i = 0 THEN <<>> ELSE Met(f[i - 1], w, w.thinkers[i])]
    BY <1>2, <2>1 DEF Course
  <2>. QED
    BY <2>2
<1>4. q = [i \in 0 .. n |-> IF i = 0 THEN <<>> ELSE Met(q[i - 1], w, w.thinkers[i])]
  BY <1>3
<1>5. \A i : Order(w, i) = q[i]
  BY DEF Order
<1>. HIDE DEF q
<1>6. \A i \in 0 .. n : q[i] = IF i = 0 THEN <<>> ELSE Met(q[i - 1], w, w.thinkers[i])
  BY <1>4
<1>7. q[0] = <<>> /\ \A i \in 1 .. n : q[i] = Met(q[i - 1], w, w.thinkers[i])
  BY <1>6
<1>. QED
  BY <1>5, <1>7

\* What is saved is what is alive: a thinker in stasis is in an active list.
LEMMA SavedLive ==
  ASSUME NEW w, LevelInv(w), Full(w), NEW a \in Mover \ Unused(w)
  PROVE  Saved(w, a) <=> a \in Live(w)
<1>1. /\ w.activeplats = {b \in Live(w) : w.mover[b].kind = "plat"}
      /\ w.activeceilings = {b \in Live(w) : w.mover[b].kind = "ceiling"}
  BY DEF LevelInv, Entered, Full
<1>2. IsMover(w.mover[a]) /\ w.mover[a].function \in {"think", "none", "removed"}
  BY UnusedIs DEF LevelInv, Unused, IsMover, Functions
<1>3. a \in Live(w) <=> w.mover[a].function # "removed"
  BY DEF Live, Unused
<1>4. a \in Live(w) /\ w.mover[a].function = "none" => w.mover[a].kind \in {"plat", "ceiling"}
  BY DEF LevelInv, Sound
<1>. QED
  BY <1>1, <1>2, <1>3, <1>4 DEF Saved

\* The live movers: of the first n thinkers, and all.
Alive(w, n) == {w.mover[w.thinkers[k]] : k \in {i \in 1 .. n : w.thinkers[i] \in Live(w)}}
LiveMovers(w) == {w.mover[a] : a \in Live(w)}
Active(w) == {w.mover[a] : a \in w.activeplats \cup w.activeceilings}
InLine(u) == [k \in 1 .. Len(u.thinkers) |-> u.mover[u.thinkers[k]]]

\* What a load has done after n rounds: heights as saved, rounded, and the movers that the
\* list of w has among its first n thinkers, in their order.
Copied(w, u, n) ==
    /\ u.floor = Rounded(w.floor) /\ u.ceiling = Rounded(w.ceiling)
    /\ \A k \in 1 .. Len(u.thinkers) : u.thinkers[k] \in Live(u)
    /\ InLine(u) = Order(w, n)
    /\ LiveMovers(u) = Alive(w, n)

LEMMA AliveNext ==
  ASSUME NEW w, NEW i \in Nat \ {0}
  PROVE  /\ w.thinkers[i] \in Live(w) =>
              Alive(w, i) = Alive(w, i - 1) \cup {w.mover[w.thinkers[i]]}
         /\ w.thinkers[i] \notin Live(w) => Alive(w, i) = Alive(w, i - 1)
<1>1. 1 .. i = (1 .. i - 1) \cup {i}
  OBVIOUS
<1>. QED
  BY <1>1 DEF Alive

LEMMA CopiedWith ==
  ASSUME NEW w, LevelInv(w), NEW i \in 1 .. Len(w.thinkers), NEW m, m = w.mover[w.thinkers[i]],
         w.thinkers[i] \in Live(w),
         NEW u, LevelInv(u), Copied(w, u, i - 1),
         NEW b \in Unused(u), NEW v, With(u, m, b, v), LevelInv(v),
         Live(v) = Live(u) \cup {b}
  PROVE  Copied(w, v, i)
<1>1. /\ b \in Mover /\ b \notin Live(u) /\ Live(u) \subseteq Mover
      /\ Len(w.thinkers) \in Nat
  BY ListedIs DEF Unused, Live
<1>2. IsLevel(u)
  BY DEF LevelInv
<1>3. v.floor = Rounded(w.floor) /\ v.ceiling = Rounded(w.ceiling)
  BY DEF With, Copied
<1>4. v.thinkers = Append(u.thinkers, b) /\ u.thinkers \in Seq(Mover)
  BY <1>2 DEF With, IsLevel
<1>5. \A c \in Mover : v.mover[c] = IF c = b THEN m ELSE u.mover[c]
  BY <1>1, <1>2 DEF With, IsLevel
<1>6. /\ Len(u.thinkers) \in Nat /\ Len(v.thinkers) = Len(u.thinkers) + 1
      /\ v.thinkers[Len(u.thinkers) + 1] = b
      /\ \A k \in 1 .. Len(u.thinkers) : v.thinkers[k] = u.thinkers[k]
  BY <1>4
<1>7. \A k \in 1 .. Len(u.thinkers) : u.thinkers[k] \in Live(u)
  BY DEF Copied
<1>8. \A k \in 1 .. Len(v.thinkers) : v.thinkers[k] \in Live(v)
  BY <1>6, <1>7
<1>9. InLine(v) = Append(InLine(u), m)
  <2>1. \A k \in 1 .. Len(u.thinkers) : v.mover[v.thinkers[k]] = u.mover[u.thinkers[k]]
    BY <1>1, <1>5, <1>6, <1>7
  <2>2. v.mover[v.thinkers[Len(u.thinkers) + 1]] = m
    BY <1>1, <1>5, <1>6
  <2>3. InLine(u) \in Seq({u.mover[c] : c \in Mover}) /\ Len(InLine(u)) = Len(u.thinkers)
    BY <1>1, <1>6, <1>7 DEF InLine
  <2>4. Append(InLine(u), m) = [k \in 1 .. Len(u.thinkers) + 1 |->
                                  IF k = Len(u.thinkers) + 1 THEN m ELSE InLine(u)[k]]
    BY <2>3
  <2>5. \A k \in 1 .. Len(u.thinkers) : InLine(u)[k] = u.mover[u.thinkers[k]]
    BY DEF InLine
  <2>6. InLine(v) = [k \in 1 .. Len(u.thinkers) + 1 |-> v.mover[v.thinkers[k]]]
    BY <1>6 DEF InLine
  <2>7. ASSUME NEW k \in 1 .. Len(u.thinkers) + 1
        PROVE  v.mover[v.thinkers[k]] = IF k = Len(u.thinkers) + 1 THEN m ELSE InLine(u)[k]
    <3>1. k = Len(u.thinkers) + 1 \/ k \in 1 .. Len(u.thinkers)
      BY <1>6
    <3>2. k \in 1 .. Len(u.thinkers) => k # Len(u.thinkers) + 1
      BY <1>6
    <3>. QED
      BY <2>1, <2>2, <2>5, <3>1, <3>2
  <2>. QED
    BY <2>4, <2>6, <2>7
<1>10. InLine(v) = Order(w, i)
  <2>1. Order(w, i) = Met(Order(w, i - 1), w, w.thinkers[i])
    BY <1>1, OrderIs
  <2>. QED
    BY <1>9, <2>1 DEF Met, Copied
<1>11. LiveMovers(v) = Alive(w, i)
  <2>1. LiveMovers(v) = LiveMovers(u) \cup {m}
    BY <1>1, <1>5 DEF LiveMovers
  <2>2. Alive(w, i) = Alive(w, i - 1) \cup {m}
    BY AliveNext
  <2>. QED
    BY <2>1, <2>2 DEF Copied
<1>. QED
  BY <1>3, <1>8, <1>10, <1>11 DEF Copied

LEMMA CopiedRound ==
  ASSUME NEW j, Job(j), j.loop = "load", Full(j.from),
         NEW i \in 1 .. j.rounds, NEW u, Good(j, u, i - 1), Copied(j.from, u, i - 1)
  PROVE  Copied(j.from, Round(j, u, i), i)
<1>. DEFINE w == j.from
            a == w.thinkers[i]
            m == w.mover[a]
            v == Round(j, u, i)
<1>1. /\ j.rounds \in Nat /\ j.rounds = Len(w.thinkers) /\ LevelInv(w) /\ LevelInv(u)
  BY DEF Good, Job
<1>2. v = IF Saved(w, a) THEN Spawn(u, m) ELSE u
  BY DEF Round, Restored
<1>3. Saved(w, a) <=> a \in Live(w)
  BY <1>1, ListedIs, SavedLive
<1>4. CASE Saved(w, a)
  <2>1. /\ IsMover(m) /\ Sound(m) /\ m.function # "removed"
        /\ Unused(u) # {} /\ (u.data[m.sector] = Null \/ m.sector \in Shared(u))
    BY <1>4, LoadReady
  <2>2. v = Spawn(u, m)
    BY <1>2, <1>4
  <2>3. i \in 1 .. Len(w.thinkers) /\ a \in Live(w)
    BY <1>1, <1>3, <1>4
  <2>4. Copied(w, u, i - 1)
    OBVIOUS
  <2>5. PICK x, y : x = w /\ y = m
    OBVIOUS
  <2>6. y = x.mover[x.thinkers[i]] /\ x.thinkers[i] \in Live(x)
    BY <2>3, <2>5
  <2>. HIDE DEF v, m, a, w
  <2>7. IsLevel(u)
    BY <1>1 DEF LevelInv
  <2>8. PICK b \in Unused(u) : With(u, y, b, v)
    BY <2>1, <2>2, <2>5, <2>7, SpawnIs
  <2>9. LevelInv(v) /\ Live(v) = Live(u) \cup {b}
    BY <1>1, <2>1, <2>5, <2>8, WithKeeps
  <2>10. Copied(x, v, i)
    <3>1. LevelInv(x) /\ i \in 1 .. Len(x.thinkers) /\ Copied(x, u, i - 1)
      BY <1>1, <2>3, <2>4, <2>5
    <3>. QED
      BY ONLY <3>1, <1>1, <2>6, <2>8, <2>9, CopiedWith
  <2>. QED
    BY <2>5, <2>10 DEF v, w
<1>5. CASE ~Saved(w, a)
  <2>1. v = u /\ a \notin Live(w)
    BY <1>2, <1>3, <1>5
  <2>2. Order(w, i) = Order(w, i - 1)
    <3>1. Order(w, i) = Met(Order(w, i - 1), w, w.thinkers[i])
      BY <1>1, OrderIs
    <3>. QED
      BY <2>1, <3>1 DEF Met
  <2>3. Alive(w, i) = Alive(w, i - 1)
    <3>1. i \in Nat \ {0}
      BY <1>1
    <3>. QED
      BY <2>1, <3>1, AliveNext
  <2>. HIDE DEF v
  <2>4. Copied(w, v, i)
    BY <2>1, <2>2, <2>3 DEF Copied
  <2>. QED
    BY <2>4 DEF v
<1>. QED
  BY <1>4, <1>5

\* A load that is over has copied every mover of the level that was saved.
LEMMA LoadCopies ==
  ASSUME NEW w, LevelInv(w), Full(w)
  PROVE  Copied(w, Unarchived(w), Len(w.thinkers))
<1>1. PICK clear : clear = Cleared(w)
  OBVIOUS
<1>2. PICK j : j = [loop |-> "load", from |-> w, start |-> clear, rounds |-> Len(w.thinkers)]
  OBVIOUS
<1>3. PICK q : Course(q, j, j.rounds) /\ Unarchived(w) = q[j.rounds]
  BY <1>1, <1>2, LoadCourse
<1>4. Job(j) /\ Good(j, j.start, 0)
  BY <1>1, <1>2, LoadCourse
<1>5. \A i \in 0 .. j.rounds : Good(j, q[i], i)
  BY <1>3, <1>4, CourseGood
<1>6. /\ j.loop = "load" /\ j.from = w /\ j.start = clear /\ j.rounds = Len(w.thinkers)
      /\ j.rounds \in Nat
  BY <1>2, ListedIs
<1>7. Copied(w, clear, 0)
  <2>1. /\ clear.floor = Rounded(w.floor) /\ clear.ceiling = Rounded(w.ceiling)
        /\ clear.thinkers = <<>> /\ Live(clear) = {}
    BY <1>1, ClearedIs
  <2>2. InLine(clear) = <<>>
    BY <2>1 DEF InLine
  <2>3. Order(w, 0) = <<>>
    BY <1>6, OrderIs
  <2>4. LiveMovers(clear) = {} /\ Alive(w, 0) = {}
    BY <2>1 DEF LiveMovers, Alive
  <2>5. \A k \in 1 .. Len(clear.thinkers) : clear.thinkers[k] \in Live(clear)
    BY <2>1
  <2>. QED
    BY <2>1, <2>2, <2>3, <2>4, <2>5 DEF Copied
<1>8. \A i \in 0 .. j.rounds : q[i] = IF i = 0 THEN clear ELSE Round(j, q[i - 1], i)
  BY <1>3, <1>6 DEF Course
<1>. DEFINE Bad == {i \in 0 .. j.rounds : ~Copied(w, q[i], i)}
<1>9. ASSUME Bad # {} PROVE FALSE
  <2>1. PICK i \in Bad : \A k \in Bad : i <= k
    <3>1. Bad \subseteq Nat
      BY <1>6
    <3>. HIDE DEF Bad
    <3>. QED
      BY <1>9, <3>1, LeastNatural
  <2>2. i # 0
    BY <1>6, <1>7, <1>8, <2>1
  <2>3. i \in 1 .. j.rounds /\ i - 1 \in 0 .. j.rounds /\ i - 1 \notin Bad
    BY <1>6, <2>1, <2>2
  <2>4. Good(j, q[i - 1], i - 1) /\ Copied(j.from, q[i - 1], i - 1)
    BY <1>5, <1>6, <2>3
  <2>5. Copied(j.from, Round(j, q[i - 1], i), i)
    BY <1>4, <1>6, <2>3, <2>4, CopiedRound
  <2>6. q[i] = Round(j, q[i - 1], i)
    BY <1>8, <2>2, <2>3
  <2>. QED
    BY <1>6, <2>1, <2>5, <2>6
<1>10. j.rounds \in 0 .. j.rounds
  BY <1>6
<1>. QED
  BY <1>3, <1>6, <1>9, <1>10

LEMMA OrderInLine ==
  ASSUME NEW u, LevelInv(u), \A k \in 1 .. Len(u.thinkers) : u.thinkers[k] \in Live(u)
  PROVE  Order(u, Len(u.thinkers)) = InLine(u)
<1>. DEFINE n == Len(u.thinkers)
            First(i) == [k \in 1 .. i |-> u.mover[u.thinkers[k]]]
            Bad == {i \in 0 .. n : Order(u, i) # First(i)}
<1>1. n \in Nat
  BY ListedIs
<1>2. ASSUME NEW i \in 1 .. n, Order(u, i - 1) = First(i - 1)
      PROVE  Order(u, i) = First(i)
  <2>1. Order(u, i) = Append(First(i - 1), u.mover[u.thinkers[i]])
    BY <1>1, <1>2, OrderIs DEF Met
  <2>2. i - 1 \in Nat /\ \A k \in 1 .. i - 1 : k \in 1 .. n
    BY <1>1
  <2>. DEFINE R == {u.mover[u.thinkers[k]] : k \in 1 .. n}
  <2>3. First(i - 1) \in Seq(R) /\ Len(First(i - 1)) = i - 1
    BY <2>2
  <2>4. \A k \in 1 .. i - 1 : First(i - 1)[k] = u.mover[u.thinkers[k]]
    OBVIOUS
  <2>5. PICK f : f = First(i - 1)
    OBVIOUS
  <2>. HIDE DEF R
  <2>6. f \in Seq(R) /\ Len(f) = i - 1 /\ \A k \in 1 .. i - 1 : f[k] = u.mover[u.thinkers[k]]
    BY ONLY <2>3, <2>4, <2>5
  <2>7. Append(f, u.mover[u.thinkers[i]]) =
          [k \in 1 .. i |-> IF k = i THEN u.mover[u.thinkers[i]] ELSE f[k]]
    BY <2>2, <2>6
  <2>8. \A k \in 1 .. i : (IF k = i THEN u.mover[u.thinkers[i]] ELSE f[k]) = u.mover[u.thinkers[k]]
    BY <2>2, <2>6
  <2>. QED
    BY <2>1, <2>5, <2>7, <2>8
<1>3. Order(u, 0) = First(0)
  BY <1>1, OrderIs
<1>4. Bad = {}
  <2>. SUFFICES ASSUME Bad # {} PROVE FALSE
    OBVIOUS
  <2>. HIDE DEF First
  <2>1. PICK i \in Bad : \A k \in Bad : i <= k
    <3>1. Bad \subseteq Nat
      BY <1>1
    <3>. HIDE DEF Bad
    <3>. QED
      BY <3>1, LeastNatural
  <2>2. i # 0
    BY <1>3, <2>1
  <2>3. i \in 1 .. n /\ i - 1 \in 0 .. n /\ i - 1 \notin Bad
    BY <1>1, <2>1, <2>2
  <2>. QED
    BY <1>2, <2>1, <2>3
<1>5. n \in 0 .. n
  BY <1>1
<1>6. Order(u, n) = First(n)
  BY <1>4, <1>5
<1>. QED
  BY <1>6 DEF InLine

LEMMA AliveAll ==
  ASSUME NEW w, LevelInv(w)
  PROVE  Alive(w, Len(w.thinkers)) = LiveMovers(w)
<1>1. w.thinkers \in Seq(Mover) /\ DOMAIN w.thinkers = 1 .. Len(w.thinkers)
  BY DEF LevelInv, IsLevel
<1>2. \A a \in Live(w) : a \in ToSet(w.thinkers)
  BY DEF LevelInv, Listed, Live
<1>3. \A a \in Live(w) : \E k \in 1 .. Len(w.thinkers) : w.thinkers[k] = a
  BY <1>1, <1>2 DEF ToSet
<1>. QED
  BY <1>3 DEF Alive, LiveMovers

LEMMA LoadSpent ==
  ASSUME NEW w, LevelInv(w)
  PROVE  Unarchived(w).spent = w.spent
<1>1. PICK clear : clear = Cleared(w)
  OBVIOUS
<1>2. PICK j : j = [loop |-> "load", from |-> w, start |-> clear, rounds |-> Len(w.thinkers)]
  OBVIOUS
<1>3. clear.spent = w.spent /\ j.start = clear
  BY <1>1, <1>2, ClearedIs
<1>4. PICK q : Course(q, j, j.rounds) /\ Unarchived(w) = q[j.rounds]
  BY <1>1, <1>2, LoadCourse
<1>5. Job(j) /\ Good(j, j.start, 0)
  BY <1>1, <1>2, LoadCourse
<1>6. Good(j, q[j.rounds], j.rounds)
  BY <1>4, <1>5, CourseKeeps
<1>. QED
  BY <1>3, <1>4, <1>6 DEF Good

\* Two levels with the same movers, at whatever addresses, look the same: what is
\* active, and what moves in a sector, is told by the movers.
LEMMA SameActive ==
  ASSUME NEW w, LevelInv(w), Full(w), NEW v, LevelInv(v), Full(v), LiveMovers(w) = LiveMovers(v)
  PROVE  Active(w) = Active(v)
<1>1. ASSUME NEW x, LevelInv(x), Full(x)
      PROVE  Active(x) = {m \in LiveMovers(x) : m.kind \in {"plat", "ceiling"}}
  <2>1. /\ x.activeplats = {b \in Live(x) : x.mover[b].kind = "plat"}
        /\ x.activeceilings = {b \in Live(x) : x.mover[b].kind = "ceiling"}
    BY <1>1 DEF LevelInv, Entered, Full
  <2>. QED
    BY <2>1 DEF LiveMovers, Active
<1>. QED
  BY <1>1

LEMMA SameMover ==
  ASSUME NEW w, LevelInv(w), NEW v, LevelInv(v), LiveMovers(w) = LiveMovers(v), w.spent = v.spent,
         NEW s \in Sector \ Shared(w)
  PROVE  MoverOf(w, s) = MoverOf(v, s)
<1>1. ASSUME NEW x, LevelInv(x), NEW y, LevelInv(y), LiveMovers(x) = LiveMovers(y),
             s \notin Shared(y), x.data[s] # Null
      PROVE  y.data[s] # Null /\ y.mover[y.data[s]] = x.mover[x.data[s]]
  <2>1. x.data[s] \in Live(x) /\ x.mover[x.data[s]].sector = s
    BY <1>1 DEF LevelInv, Pointed
  <2>2. PICK b \in Live(y) : y.mover[b] = x.mover[x.data[s]]
    BY <1>1, <2>1 DEF LiveMovers
  <2>3. y.data[s] = b
    BY <1>1, <2>1, <2>2 DEF LevelInv, Pointed
  <2>4. b # Null
    BY <2>2, MoverAssumption DEF Live
  <2>. QED
    BY <2>2, <2>3, <2>4
<1>2. s \notin Shared(w) /\ s \notin Shared(v)
  BY DEF Shared
<1>3. w.data[s] # Null => v.data[s] # Null /\ v.mover[v.data[s]] = w.mover[w.data[s]]
  BY <1>1, <1>2
<1>4. v.data[s] # Null => w.data[s] # Null /\ w.mover[w.data[s]] = v.mover[v.data[s]]
  BY <1>1, <1>2
<1>. QED
  BY <1>3, <1>4 DEF MoverOf

LEMMA LoadSame ==
  ASSUME NEW w, LevelInv(w), Full(w), CeilingsFit
  PROVE  /\ Seen(Unarchived(w)) = Seen(w)
         /\ Unarchived(w).floor = Rounded(w.floor)
         /\ Unarchived(w).ceiling = Rounded(w.ceiling)
<1>1. PICK v : v = Unarchived(w)
  OBVIOUS
<1>2. LevelInv(v) /\ Full(v)
  BY <1>1, LoadKeeps
<1>3. v.spent = w.spent
  BY <1>1, LoadSpent
<1>4. Copied(w, v, Len(w.thinkers))
  BY <1>1, LoadCopies
<1>5. Order(v, Len(v.thinkers)) = Order(w, Len(w.thinkers))
  BY <1>2, <1>4, OrderInLine DEF Copied
<1>6. LiveMovers(w) = LiveMovers(v)
  BY <1>4, AliveAll DEF Copied
<1>7. Active(w) = Active(v)
  BY <1>2, <1>6, SameActive
<1>8. [s \in Sector \ Shared(w) |-> MoverOf(w, s)] = [s \in Sector \ Shared(v) |-> MoverOf(v, s)]
  <2>1. Shared(w) = Shared(v)
    BY <1>3 DEF Shared
  <2>2. \A s \in Sector \ Shared(w) : MoverOf(w, s) = MoverOf(v, s)
    BY <1>2, <1>3, <1>6, SameMover
  <2>. QED
    BY <2>1, <2>2
<1>9. v.floor = Rounded(w.floor) /\ v.ceiling = Rounded(w.ceiling)
  BY <1>4 DEF Copied
<1>10. Seen(v) = Seen(w)
  BY <1>3, <1>5, <1>7, <1>8 DEF Seen, Active
<1>. QED
  BY <1>1, <1>9, <1>10

----------------------------------------------------------------------------
(* Theorems                                                                *)

\* The level a step leads to keeps what LevelInv and Full say.
LEMMA InitKeeps ==
  ASSUME Init
  PROVE  LevelInv(map) /\ (CeilingsFit => Full(map))
  BY SpawnSpecialsKeeps DEF Init

LEMMA StepKeeps ==
  ASSUME LevelInv(map), [Next]_vars
  PROVE  LevelInv(map') /\ (CeilingsFit /\ Full(map) => Full(map'))
<1>. DEFINE To(v) == LevelInv(v) /\ (CeilingsFit /\ Full(map) => Full(v))
<1>. SUFFICES To(map')
  OBVIOUS
<1>1. PICK w : w = map
  OBVIOUS
<1>2. LevelInv(w)
  BY <1>1
<1>3. Room => Cardinality(Unused(w)) >= numsectors
  <2>1. Cardinality(0 .. numsectors - 1) = numsectors
    <3>1. numsectors \in Nat /\ 0 \in Int /\ numsectors - 1 \in Int
      BY MoverAssumption
    <3>2. Cardinality(0 .. numsectors - 1) =
            IF 0 > numsectors - 1 THEN 0 ELSE numsectors - 1 - 0 + 1
      BY <3>1, FS_Interval
    <3>. QED
      BY <3>1, <3>2
  <2>2. IsFiniteSet(Unused(w)) /\ Cardinality(Unused(w)) \in Nat
    <3>1. Unused(w) \in SUBSET Mover
      BY DEF Unused
    <3>. QED
      BY <3>1, MoverFinite
  <2>. QED
    BY <1>1, <2>1, <2>2, MoverAssumption DEF Room, Sector
<1>4. ASSUME NEW l \in TaggedLine, P_CrossSpecialLine(l) PROVE To(map')
  <2>1. PICK luck \in [{s \in Sector : Tag[s] = l.tag} -> Luck] : map' = EV_Do(w, l, luck)
    BY <1>1, <1>4 DEF P_CrossSpecialLine
  <2>2. Cardinality(Unused(w)) >= numsectors
    BY <1>3, <1>4 DEF P_CrossSpecialLine
  <2>. QED
    BY <1>1, <1>2, <2>1, <2>2, DoKeeps
<1>5. ASSUME NEW l \in DoorLine, P_UseSpecialLine(l) PROVE To(map')
  <2>1. PICK player \in BOOLEAN : map' = EV_VerticalDoor(w, l, player)
    BY <1>1, <1>5 DEF P_UseSpecialLine
  <2>2. Unused(w) # {}
    <3>1. l.sector \in Sector
      BY MoverAssumption
    <3>2. numsectors > 0 /\ Cardinality(Unused(w)) >= numsectors
      BY <1>3, <1>5, <3>1, MoverAssumption DEF Sector, P_UseSpecialLine
    <3>3. ASSUME Unused(w) = {} PROVE FALSE
      <4>1. Cardinality(Unused(w)) = 0
        BY <3>3, FS_EmptySet
      <4>. QED
        BY <3>2, <4>1, MoverAssumption
    <3>. QED
      BY <3>3
  <2>. QED
    BY <1>1, <1>2, <2>1, <2>2, VerticalDoorKeeps
<1>6. ASSUME NEW blocked, P_Ticker(blocked) PROVE To(map')
  <2>1. map' = P_RunThinkers(w, blocked)
    BY <1>1, <1>6 DEF P_Ticker
  <2>. QED
    BY <1>1, <1>2, <2>1, RunKeeps
<1>7. CASE SaveAndLoad
  <2>1. map' = Unarchived(w)
    BY <1>1, <1>7 DEF SaveAndLoad
  <2>. QED
    BY <1>2, <2>1, LoadKeeps
<1>8. CASE UNCHANGED vars
  BY <1>8 DEF vars
<1>9. [Next]_vars
  OBVIOUS
<1>. HIDE DEF To
<1>10. ASSUME Next PROVE To(map')
  <2>1. \/ \E l \in TaggedLine : P_CrossSpecialLine(l)
        \/ \E l \in DoorLine : P_UseSpecialLine(l)
        \/ \E blocked : P_Ticker(blocked)
        \/ SaveAndLoad
    BY <1>10 DEF Next
  <2>. QED
    BY <1>4, <1>5, <1>6, <1>7, <2>1
<1>. QED
  BY <1>8, <1>9, <1>10

(***************************************************************************)
(* Whatever is pressed, crossed or in the way, and after a game was        *)
(* loaded: the list of thinkers holds every mover once, a sector's         *)
(* specialdata is null or its live mover, the active lists hold live       *)
(* movers of their kind, and only plats and ceilings are in stasis (the    *)
(* tests of specialdata in the EV_ functions, P_RemoveThinker,             *)
(* P_UnArchiveSpecials).                                                   *)
(***************************************************************************)
THEOREM LevelInvCorrect == Spec => []LevelInv(map)
<1>1. Init => LevelInv(map)
  BY InitKeeps
<1>2. LevelInv(map) /\ [Next]_vars => LevelInv(map)'
  BY StepKeeps
<1>. QED
  BY <1>1, <1>2, PTL DEF Spec

(***************************************************************************)
(* In a level with no more sectors for ceilings than MAXCEILINGS, every    *)
(* live ceiling also stays in activeceilings, so that what is in stasis    *)
(* can be woken (P_AddActiveCeiling finds room).                           *)
(***************************************************************************)
THEOREM MoversOwnedCorrect ==
  ASSUME CeilingsFit
  PROVE  Spec => []MoversOwned
<1>. DEFINE Inv == LevelInv(map) /\ Full(map)
<1>1. Init => Inv
  BY InitKeeps
<1>2. Inv /\ [Next]_vars => Inv'
  BY StepKeeps
<1>3. Inv => MoversOwned
  <2>. SUFFICES ASSUME Inv PROVE MoversOwned
    OBVIOUS
  <2>1. IsLevel(map) /\ Listed(map) /\ Pointed(map) /\ Entered(map)
    BY DEF LevelInv
  <2>2. DOMAIN map.floor = Sector /\ DOMAIN map.ceiling = Sector
    BY <2>1 DEF IsLevel
  <2>3. ASSUME NEW a \in Mover
        PROVE  map.mover[a].kind \in {"none", "door", "plat", "ceiling", "floor"}
    <3>1. IsMover(map.mover[a]) \/ map.mover[a] = NoMover
      BY <2>1 DEF IsLevel
    <3>. QED
      BY <3>1 DEF IsMover, Kinds, NoMover
  <2>4. Wakeable(map)
    <3>. SUFFICES ASSUME NEW a \in Live(map), map.mover[a].dir = "stasis"
         PROVE  a \in map.activeplats \cup map.activeceilings
      BY DEF Wakeable
    <3>1. Sound(map.mover[a])
      BY DEF LevelInv
    <3>2. map.mover[a].kind \in {"plat", "ceiling"}
      BY <3>1 DEF Sound
    <3>3. map.activeplats = {b \in Live(map) : map.mover[b].kind = "plat"}
      BY <2>1 DEF Entered
    <3>4. map.activeceilings = {b \in Live(map) : map.mover[b].kind = "ceiling"}
      BY DEF Full
    <3>. QED
      BY <3>2, <3>3, <3>4
  <2>. QED
    BY <2>1, <2>2, <2>3, <2>4 DEF MoversOwned
<1>. HIDE DEF Inv
<1>. QED
  BY <1>1, <1>2, <1>3, PTL DEF Spec

(***************************************************************************)
(* In a level with no more sectors for ceilings than MAXCEILINGS, a game   *)
(* that is loaded goes on where it was saved: the same movers in the same  *)
(* order, each with its way, its wait or its stasis, in its sector and its *)
(* active list (P_ArchiveSpecials and P_UnArchiveSpecials), and the heights*)
(* of the sectors rounded down to whole ones (P_ArchiveWorld).  With more of them a crusher in stasis that found *)
(* no place in activeceilings would not be saved.                          *)
(***************************************************************************)
THEOREM SaveKeepsCorrect ==
  ASSUME CeilingsFit
  PROVE  Spec => SaveKeeps
<1>. DEFINE Inv == LevelInv(map) /\ Full(map)
<1>1. Init => Inv
  BY InitKeeps
<1>2. Inv /\ [Next]_vars => Inv'
  BY StepKeeps
<1>. DEFINE Loaded == /\ Seen(map') = Seen(map)
                      /\ map'.floor = Rounded(map.floor)
                      /\ map'.ceiling = Rounded(map.ceiling)
<1>3. Inv /\ [Next]_vars => [loads' # loads => Loaded]_vars
  <2>. SUFFICES ASSUME Inv, Next, loads' # loads PROVE Loaded
    BY DEF vars
  <2>1. SaveAndLoad
    BY DEF Next, P_CrossSpecialLine, P_UseSpecialLine, P_Ticker
  <2>2. PICK w : w = map
    OBVIOUS
  <2>3. map' = Unarchived(w) /\ LevelInv(w) /\ Full(w)
    BY <2>1, <2>2 DEF SaveAndLoad
  <2>. HIDE DEF Inv
  <2>4. /\ Seen(Unarchived(w)) = Seen(w)
        /\ Unarchived(w).floor = Rounded(w.floor)
        /\ Unarchived(w).ceiling = Rounded(w.ceiling)
    BY <2>3, LoadSame
  <2>. QED
    BY <2>2, <2>3, <2>4
<1>. HIDE DEF Inv
<1>. QED
  BY <1>1, <1>2, <1>3, PTL DEF Spec, SaveKeeps
=============================================================================
