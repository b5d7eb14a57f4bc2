------------------------------ MODULE MCLobby ------------------------------
(* Lobby for TLC.                                                          *)
EXTENDS Lobby
=============================================================================
