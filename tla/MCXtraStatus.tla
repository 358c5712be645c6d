---------------------------- MODULE MCXtraStatus ----------------------------
(***************************************************************************)
(* TLC instances of XtraStatus: one network that comes and goes.           *)
(***************************************************************************)
EXTENDS XtraStatus

CONSTANTS xtra, a, t1

OneNetwork == {[connected |-> c, type |-> "wifi", handle |-> a] : c \in BOOLEAN}
=============================================================================
