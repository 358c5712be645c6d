------------------------------- MODULE MCAgps -------------------------------
(***************************************************************************)
(* TLC instance of Agps: two handles, the two state machines, and as many  *)
(* messages under way as a release followed by a new request needs.  The   *)
(* framework of a behaviour may have bad APNs or not: a request that       *)
(* dataConnOpenCommand() drops for its APN is never answered.              *)
(***************************************************************************)
EXTENDS Agps

CONSTANTS h1, h2, agnss, internet

VARIABLE apnsAreGood

MCInit == AtlInit /\ apnsAreGood \in BOOLEAN

MCNext == /\ AtlNext
          /\ apnsAreGood => ~\E n \in Nifs : FrameworkOpensBadApn(n)
          /\ UNCHANGED apnsAreGood

MCSpec == MCInit /\ [][MCNext]_<<atlVars, apnsAreGood>> /\ AtlFairness

\* What follows once the two threads have met in a state machine is undefined.
NotRaced == ~ raced

\* With good APNs, every request of the modem is answered, if it is not taken back
\* (AgpsStateMachine::processAgpsEvent(), GnssAdapter::dataConnOpenCommand()).
GoodApnsRequestIsAnswered ==
  \A h \in Handles : apnsAreGood /\ atl[h] = "asked" ~> atl[h] # "asked"
=============================================================================
