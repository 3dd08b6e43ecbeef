----------------------------- MODULE ByteArith -----------------------------
(***************************************************************************)
(* Arithmetic of sequence numbers: the network code sends counts modulo    *)
(* 256 and compares them (net_common.c, net_client.c, net_server.c).       *)
(***************************************************************************)
EXTENDS Integers, FiniteSetTheorems, WellFoundedInduction, TLAPS

LEMMA DivMod ==
  ASSUME NEW M \in Nat, M > 0, NEW x \in Nat
  PROVE  /\ x \div M \in Nat
         /\ x % M \in 0 .. M - 1
         /\ x = M * (x \div M) + (x % M)
  OBVIOUS

\* A remainder is determined by its number, whatever the quotients.
LEMMA RemainderUnique ==
  ASSUME NEW M \in Nat, NEW q1 \in Int, NEW q2 \in Int,
         NEW r1 \in 0 .. M - 1, NEW r2 \in 0 .. M - 1,
         M * q1 + r1 = M * q2 + r2
  PROVE  r1 = r2
<1>1. CASE q1 = q2
  BY <1>1
<1>2. CASE q1 < q2
  <2>1. PICK d \in Nat : q2 = q1 + 1 + d
    BY <1>2
  <2>2. M * q2 = M * q1 + M + M * d
    BY <2>1
  <2>3. M * d >= 0
    OBVIOUS
  <2>. QED
    BY <2>2, <2>3
<1>3. CASE q2 < q1
  <2>1. PICK d \in Nat : q1 = q2 + 1 + d
    BY <1>3
  <2>2. M * q1 = M * q2 + M + M * d
    BY <2>1
  <2>3. M * d >= 0
    OBVIOUS
  <2>. QED
    BY <2>2, <2>3
<1>. QED
  BY <1>1, <1>2, <1>3

LEMMA ModIs ==
  ASSUME NEW M \in Nat, M > 0, NEW q \in Int, NEW r \in 0 .. M - 1,
         M * q + r \in Nat
  PROVE  (M * q + r) % M = r
  BY DivMod, RemainderUnique

\* Two counts less than M apart with the same low byte are equal: what lets
\* one byte stand for the whole sequence number.
LEMMA SameByte ==
  ASSUME NEW M \in Nat, M > 1, NEW x \in Nat, NEW y \in Nat,
         x <= y, y < x + M, x % M = y % M
  PROVE  x = y
<1>. DEFINE p == x \div M
            q == y \div M
<1>1. p \in Nat /\ x = M * p + (x % M)
  BY DivMod
<1>2. q \in Nat /\ y = M * q + (y % M)
  BY DivMod
<1>. HIDE DEF p, q
<1>3. y - x = M * (q - p)
  BY <1>1, <1>2, DivMod
<1>4. 0 <= M * (q - p) /\ M * (q - p) < M
  BY <1>3
<1>5. PICK d \in Int : d = q - p
  BY <1>1, <1>2
<1>6. ~(d >= 1)
  BY <1>4, <1>5
<1>7. ~(d <= -1)
  BY <1>4, <1>5
<1>8. d = 0
  BY <1>6, <1>7
<1>. QED
  BY <1>3, <1>5, <1>8

LEMMA NextByte ==
  ASSUME NEW M \in Nat, M > 1, NEW x \in Nat
  PROVE  ((x % M) + 1) % M = (x + 1) % M
<1>1. PICK p \in Nat, r \in 0 .. M - 1 : x = M * p + r /\ r = x % M
  BY DivMod
<1>2. CASE r + 1 < M
  <2>1. x + 1 = M * p + (r + 1)
    BY <1>1
  <2>2. (x + 1) % M = r + 1
    BY <2>1, <1>2, ModIs
  <2>3. M * 0 + (r + 1) = r + 1
    OBVIOUS
  <2>4. (r + 1) % M = r + 1
    BY <2>3, <1>2, ModIs
  <2>. QED
    BY <2>2, <2>4, <1>1
<1>3. CASE r + 1 = M
  <2>1. x + 1 = M * (p + 1) + 0
    BY <1>1, <1>3
  <2>2. (x + 1) % M = 0
    <3>1. 0 \in 0 .. M - 1 /\ p + 1 \in Int /\ M * (p + 1) + 0 \in Nat
      BY <2>1
    <3>2. (M * (p + 1) + 0) % M = 0
      BY <3>1, ModIs
    <3>. QED
      BY <2>1, <3>2
  <2>3. M * 1 + 0 = M
    OBVIOUS
  <2>4. (r + 1) % M = 0
    BY <2>3, <1>3, ModIs
  <2>. QED
    BY <2>2, <2>4, <1>1
<1>. QED
  BY <1>2, <1>3

\* A set of numbers that is not empty and has a bound below has a least
\* element, one with a bound above a greatest.
LEMMA LeastNatural ==
  ASSUME NEW S, S \subseteq Nat, S # {}
  PROVE  \E x \in S : \A y \in S : x <= y
<1>1. PICK x \in S : \A y \in S : <<y, x>> \notin OpToRel(<, Nat)
  BY NatLessThanWellFounded, WFMin
<1>2. ASSUME NEW y \in S PROVE x <= y
  <2>1. <<y, x>> \in Nat \X Nat
    OBVIOUS
  <2>2. ~(y < x)
    BY <1>1, <2>1 DEF OpToRel
  <2>. QED
    BY <2>2
<1>. QED
  BY <1>2

LEMMA LeastInteger ==
  ASSUME NEW S, S \subseteq Int, S # {}, NEW m \in Int, \A y \in S : m <= y
  PROVE  \E x \in S : \A y \in S : x <= y
<1>. DEFINE T == {y - m : y \in S}
<1>1. PICK u \in T : \A v \in T : u <= v
  <2>1. \A y \in S : y - m \in Nat
    OBVIOUS
  <2>2. T \subseteq Nat
    BY <2>1
  <2>3. T # {}
    <3>1. PICK y \in S : TRUE
      OBVIOUS
    <3>2. y - m \in T
      BY <3>1
    <3>. QED
      BY <3>2
  <2>. QED
    BY <2>2, <2>3, LeastNatural
<1>2. PICK x \in S : u = x - m
  OBVIOUS
<1>3. ASSUME NEW y \in S PROVE x <= y
  <2>1. u <= y - m
    BY <1>1
  <2>. QED
    BY <1>2, <2>1
<1>. QED
  BY <1>3

LEMMA GreatestInteger ==
  ASSUME NEW S, S \subseteq Int, S # {}, NEW m \in Int, \A y \in S : y <= m
  PROVE  \E x \in S : \A y \in S : x >= y
<1>. DEFINE T == {m - y : y \in S}
<1>1. PICK u \in T : \A v \in T : u <= v
  <2>1. \A y \in S : m - y \in Nat
    OBVIOUS
  <2>2. T \subseteq Nat
    BY <2>1
  <2>3. T # {}
    <3>1. PICK y \in S : TRUE
      OBVIOUS
    <3>2. m - y \in T
      BY <3>1
    <3>. QED
      BY <3>2
  <2>. QED
    BY <2>2, <2>3, LeastNatural
<1>2. PICK x \in S : u = m - x
  OBVIOUS
<1>3. ASSUME NEW y \in S PROVE x >= y
  <2>1. u <= m - y
    BY <1>1
  <2>. QED
    BY <1>2, <2>1
<1>. QED
  BY <1>3
=============================================================================
