--------------------------- MODULE MCGnssTracking ---------------------------
(***************************************************************************)
(* TLC instances of GnssTracking: the sessions of two clients, one with a  *)
(* short interval and one with a good power mode.                          *)
(***************************************************************************)
EXTENDS GnssTracking

CONSTANTS c1, c2

MCOwner == [s \in Sessions |-> IF s = 2 THEN c2 ELSE c1]

MCTimeOptions == {[minInterval |-> 1, powerMode |-> 2], [minInterval |-> 2, powerMode |-> 1]}
=============================================================================
