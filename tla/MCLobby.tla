------------------------------ MODULE MCLobby ------------------------------
(* Lobby with a few clients.                                               *)
EXTENDS Lobby, TLC

Symmetric == Permutations(Clients)
=============================================================================
