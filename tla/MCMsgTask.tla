----------------------------- MODULE MCMsgTask ------------------------------
(***************************************************************************)
(* TLC instances of MsgTask: three messages.                               *)
(***************************************************************************)
EXTENDS MsgTask, TLC

CONSTANTS m1, m2, m3

=============================================================================
