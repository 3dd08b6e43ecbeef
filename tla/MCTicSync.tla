----------------------------- MODULE MCTicSync -----------------------------
(* TicSync on small instances.                                             *)
EXTENDS TicSync

MCTwoPlayers == 0 .. 1
MCOnePlayer == {0}
=============================================================================
