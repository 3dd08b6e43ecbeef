---------------------------- MODULE ExpandTicNum ----------------------------
(***************************************************************************)
(* NET_ExpandTicNum (src/net_common.c): tic numbers travel as their low    *)
(* byte and are completed from the receiver's own position.                *)
(***************************************************************************)
EXTENDS Integers

Byte(tic) == tic % 256

\* A tic below 256 "before" tic 0 would wrap to 2^32 - x in the code; it stays
\* negative here, and no tic number in reach of the receiver is (ExpandCorrect).
NET_ExpandTicNum(relative, b) ==
    LET l == relative % 256
        result == relative - l + b
        below == IF l < 64 /\ b > 176 THEN -256 ELSE 0      \* 0x40, 0xb0
        above == IF l > 176 /\ b < 64 THEN 256 ELSE 0
    IN result + below + above
=============================================================================
