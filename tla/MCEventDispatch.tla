--------------------------- MODULE MCEventDispatch ---------------------------
(* Small instances of EventDispatch; the bounds are in the .cfg files.       *)
EXTENDS EventDispatch
=============================================================================
