--------------------------- MODULE MCMasterServer ---------------------------
(* MasterServer for TLC.                                                   *)
EXTENDS MasterServer
=============================================================================
