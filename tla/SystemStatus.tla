---------------------------- MODULE SystemStatus ----------------------------
(***************************************************************************)
(* What SystemStatus (gps/core/SystemStatus.cpp) makes of the data items   *)
(* it is notified of.  Most items replace the last value, and are dropped  *)
(* when they equal it.  NETWORKINFO reports one network that comes or      *)
(* goes: SystemStatusNetworkInfo::collate() merges it into a table of      *)
(* network handles and a mask of the types in use, the value that is       *)
(* cached and passed on.                                                   *)
(*                                                                         *)
(* The histories of the last values (maxItem) are left out but for their   *)
(* last element.  The types of networks are those AGnssRil (2.0) reports.  *)
(***************************************************************************)
EXTENDS Integers, FiniteSets, FiniteSetsExt

CONSTANTS
  None,            \* NULL, no value, NETWORK_HANDLE_UNKNOWN
  Tacs, Mccmncs,   \* values of these data items
  NetworkEvents,   \* reports of networks: a subset of NetworkEvent
  Networks,        \* network handles
  TableSize        \* MAX_NETWORK_HANDLES

NetworkTypes == {"mobile", "wifi"}
NetworkEvent == [connected : BOOLEAN, type : NetworkTypes, handle : Networks]

Items == {"networkInfo", "tac", "mccmnc"}

ASSUME NetworksAssumption == NetworkEvents \subseteq NetworkEvent /\ None \notin Networks
ASSUME TableAssumption == TableSize \in Nat \ {0}

Slots      == 1..TableSize

\* No type is any one that no network has, TYPE_UNKNOWN for one.
NoEntry    == [handle |-> None, type |-> None]
Entry      == [handle : Networks \cup {None}, type : NetworkTypes \cup {None}]
NetworkInfo == [types : SUBSET NetworkTypes, table : [Slots -> Entry]]

\* What may be reported of an item, and what is known of it afterwards.
Reports(i) == CASE i = "networkInfo" -> NetworkEvents
                [] i = "tac"         -> Tacs
                [] i = "mccmnc"      -> Mccmncs

Value == NetworkInfo \cup Tacs \cup Mccmncs

\* NULL is no value.
ASSUME ValuesAssumption == None \notin Value

-----------------------------------------------------------------------------
(***************************************************************************)
(* SystemStatusNetworkInfo.                                                *)
(***************************************************************************)

\* The constructor: the network takes the first entry, connected or not.
FirstNetworkInfo(e) ==
  [types |-> {e.type},
   table |-> [k \in Slots |-> IF k = 1 THEN [handle |-> e.handle, type |-> e.type]
                                       ELSE NoEntry]]

\* The first of the slots S, or the one behind the last slot.
FirstSlot(S) == IF S = {} THEN TableSize + 1 ELSE Min(S)

\* A network that has come takes the first free entry before its own, if any.
\* Mutated form: the entry of another network is taken.
ConnectOver(info, e) ==
  [types |-> info.types \cup {e.type},
   table |-> [info.table EXCEPT ![1] = [handle |-> e.handle, type |-> e.type]]]

Connect(info, e) ==
  LET slot == FirstSlot({k \in Slots : info.table[k].handle \in {e.handle, None}}) IN
  [types |-> info.types \cup {e.type},
   table |-> IF slot \notin Slots \/ info.table[slot].handle = e.handle
             THEN info.table
             ELSE [info.table EXCEPT ![slot] = [handle |-> e.handle, type |-> e.type]]]

\* A network that has gone is looked for in the entries before the first free
\* one.  Its entry is replaced by the entry behind the last of them, which is
\* free: the entries in between are behind a free one from then on.  In a full table
\* it is whatever is behind the array, where members of the object are.  The mask
\* keeps nothing but the type of the network when another one of that type is left;
\* the count of these is a uint8_t.
Before(info)   == 1..(FirstSlot({k \in Slots : info.table[k].handle = None}) - 1)
Own(info, e)   == {k \in Before(info) : info.table[k].handle = e.handle}
Alike(info, e) == {k \in Before(info) : info.table[k].type = e.type}

TypesLeft(info, e) ==
  IF (Cardinality(Alike(info, e)) - Cardinality(Own(info, e))) % 256 = 0
  THEN info.types \ {e.type} ELSE {e.type}

BehindLast(info) == IF Before(info) = Slots THEN Entry ELSE {NoEntry}

Disconnect(info, e, behind) ==
  [types |-> TypesLeft(info, e),
   table |-> IF Own(info, e) = {} THEN info.table
             ELSE [info.table EXCEPT ![Max(Own(info, e))] = behind]]

Collate(info, e, behind) ==
  IF e.connected THEN Connect(info, e) ELSE Disconnect(info, e, behind)

-----------------------------------------------------------------------------
(***************************************************************************)
(* setIteminReport(), for eventDataItemNotify(): the value of item i after *)
(* the report r, if it counts as changed.  Of network information only the *)
(* handles are compared.  What is behind the last entry is one of Behind.  *)
(***************************************************************************)
Behind(i, current) ==
  IF i = "networkInfo" /\ current # None THEN BehindLast(current) ELSE {NoEntry}

Reported(i, r, current, behind) ==
  IF i # "networkInfo" THEN r
  ELSE IF current = None THEN FirstNetworkInfo(r)
  ELSE Collate(current, r, behind)

Changes(i, r, current, behind) ==
  \/ current = None
  \/ IF i = "networkInfo" THEN Reported(i, r, current, behind).table # current.table
     ELSE r # current

SetItemInReport(i, r, current, behind) ==
  IF Changes(i, r, current, behind) THEN Reported(i, r, current, behind) ELSE current

\* The network of a report that finds no entry: it is left out, though connected.
FindsNoEntry(i, r, current) ==
  /\ i = "networkInfo" /\ current # None /\ r.connected
  /\ \A k \in Slots : current.table[k].handle \notin {r.handle, None}
=============================================================================
