----------------------------- MODULE MCGeofence -----------------------------
(***************************************************************************)
(* A TLC instance of Geofence: one client, whose commands name up to two   *)
(* geofences, and a modem that restarts.                                   *)
(***************************************************************************)
EXTENDS Geofence, TLC

CONSTANTS c1, m1, m2
=============================================================================
