---------------------------- MODULE MCLocationApi ----------------------------
(***************************************************************************)
(* A TLC instance of LocationApi: memory for two objects, two adapters.    *)
(***************************************************************************)
EXTENDS LocationApi, TLC

CONSTANTS c1, c2
=============================================================================
