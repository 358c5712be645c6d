---------------------------- MODULE MCOsObserver ----------------------------
(***************************************************************************)
(* TLC instances of OsObserver: the XTRA observer and two other clients, a *)
(* wifi network that comes and goes, a mobile one and another wifi one     *)
(* that come, lists of one item and of two.                                *)
(***************************************************************************)
EXTENDS OsObserver

CONSTANTS xtra, c1, c2, a, b, d, t1

Event(c, t, h) == [connected |-> c, type |-> t, handle |-> h]

Events == {Event(c, "wifi", a) : c \in BOOLEAN}
            \cup {Event(TRUE, "mobile", b), Event(TRUE, "wifi", d)}
Lists  == {{"tac"}, {"tac", "networkInfo"}}
=============================================================================
