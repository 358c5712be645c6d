----------------------------- MODULE MCBatching -----------------------------
(***************************************************************************)
(* TLC instance of Batching: a client, and behaviours of eight kinds, each *)
(* with what its sessions may be and what may happen to them.  Distances   *)
(* are 4 bits wide, enough for a difference to wrap around.                *)
(***************************************************************************)
EXTENDS Batching, TLC

CONSTANTS c1

Options(mode, distance, interval) ==
  [mode |-> mode, distance |-> distance, interval |-> interval]
Routine == Options("routine", 0, 0)
OnDemand == Options("noAutoReport", 0, 0)
Short == Options("trip", 1, 2)
Long == Options("trip", 2, 1)
Far == Options("trip", 3, 2)

Bound(options, commands, modemStarts, modemRefusals, leaves) ==
  [options |-> options, commands |-> commands, starts |-> modemStarts,
   refusals |-> modemRefusals, leaves |-> leaves]

\* Plain sessions over a restart, and with a refused call.
PlainRestart == Bound({Routine, OnDemand}, 3, 2, 0, TRUE)
PlainRefusal == Bound({Routine, OnDemand}, 3, 1, 1, TRUE)

\* Two trips and what they do to each other, as often reported or not, and with a restart
\* and a refused call.
TwoTrips     == Bound({Short, Far}, 3, 1, 0, FALSE)
TwoIntervals == Bound({Short, Long}, 3, 1, 0, FALSE)
TripsRestart == Bound({Short, Long}, 2, 2, 1, FALSE)

\* Trips without an interval of their own, or without a distance.
NoInterval == Bound({Options("trip", 1, 0), Far}, 2, 2, 0, FALSE)
NoDistance == Bound({Options("trip", 0, 2), Far}, 3, 1, 0, FALSE)

\* A plain session and a trip, or one that becomes the other.
Mixed == Bound({Routine, Short}, 2, 2, 1, TRUE)

MCBounds ==
  {PlainRestart, PlainRefusal, TwoTrips, TwoIntervals, TripsRestart, NoInterval, NoDistance,
   Mixed}

\* A trip is followed by one of its distance that wants positions more often.
Faster == {Bound({Far, Options("trip", 3, 1)}, 2, 1, 1, FALSE)}
=============================================================================
