------------------------- MODULE MCClientHandshake -------------------------
(* ClientHandshake for TLC: one client.                                  *)
EXTENDS ClientHandshake
=============================================================================
