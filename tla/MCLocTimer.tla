----------------------------- MODULE MCLocTimer -----------------------------
(***************************************************************************)
(* TLC instances of LocTimer: two or three timers, memory for up to three  *)
(* delegates, one or both containers, a clock of a few ticks.              *)
(***************************************************************************)
EXTENDS LocTimer, TLC

CONSTANTS t1, t2, d1, d2, d3, sw, hw

\* Delegates are interchangeable memory slots.
DelegateSymmetry == Permutations(Delegates)
=============================================================================
