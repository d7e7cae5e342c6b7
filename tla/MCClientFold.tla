---------------------------- MODULE MCClientFold ----------------------------
(* The client's view beside the engine, on the boards and dice of MCBoardGame. *)
EXTENDS MCBoardGame, ClientFold
=============================================================================
