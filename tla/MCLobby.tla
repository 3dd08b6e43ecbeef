------------------------------ MODULE MCLobby ------------------------------
(* Lobby on a small instance: four players, one of another game, a drone.  *)
EXTENDS Lobby

MCTwoGames == [n \in Node |-> IF n = "e" THEN "doom" ELSE "doom2"]
=============================================================================
