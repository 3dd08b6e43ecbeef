---------------------------- MODULE MCLumpCache ----------------------------
(* LumpCache on a small instance: an arena for one block, and a second one *)
(* for three. A texture needs more room than a lump.                       *)
EXTENDS LumpCache

CONSTANTS p1, p2, w, s, t1

MCSize == [u \in Pointer |-> IF u = t1 THEN 2 ELSE 1]
MCPatches == [t \in Texture |-> <<p1, p2>>]
=============================================================================
