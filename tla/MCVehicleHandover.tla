------------------------- MODULE MCVehicleHandover -------------------------
(* VehicleHandover for TLC: one client at a time, and one vehicle.         *)
EXTENDS VehicleHandover
=============================================================================
