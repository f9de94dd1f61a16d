--------------------------- MODULE MCScriptTimers ---------------------------
(* Two resources and two timers.                                         *)
EXTENDS ScriptTimers
=============================================================================
