-------------------------- MODULE OsObserverProofs --------------------------
(***************************************************************************)
(* Theorems about OsObserver and XtraStatus, by what their steps keep:     *)
(*  - the two maps of the observer stay inverse but for items that a       *)
(*    client had when it updated its subscription, and the framework is    *)
(*    subscribed to what the maps say, until it is told of an item that    *)
(*    is read after it was erased (IInv);                                  *)
(*  - the queue leads every client to the value that is cached             *)
(*    (ClientsOK), and the table to the networks that are connected and    *)
(*    were not dropped (ListedOK);                                         *)
(*  - the XTRA observer gets all items (WantedOK) and sees what is cached  *)
(*    (KnownOK), and the datagrams lead the daemon to what it sees         *)
(*    (HearingOK).                                                         *)
(***************************************************************************)
EXTENDS XtraStatus, FiniteSetTheorems, TLAPS

\* What the handlers rely on in the messages, those of XtraStatus included.
CallOK(m) ==
  /\ m.op \in {"subscribe", "requestData", "updateSubscription", "unsubscribe",
               "unsubscribeAll"} => m.client \in Clients
  /\ m.op \in {"subscribe", "requestData", "updateSubscription", "unsubscribe"} =>
       m.items \subseteq Items
  /\ m.op = "notify" => m.item \in Items /\ m.report \in Reports(m.item)
  /\ m.op = "items" => IsCopy(m.values)
  /\ m.op = "lock" => m.lock \in Locks
  /\ m.op # "respondStatus"

QueueOK == \E S : queue \in Seq(S) /\ \A m \in S : CallOK(m)

MapsOK ==
  /\ mClientToDataItems \in [Clients -> SUBSET Items]
  /\ mDataItemToClients \in [Items -> SUBSET Clients]

\* The values here and at the clients.
CopiesOK ==
  /\ mDataItemCache \in [Items -> Value \cup {None}]
  /\ mDataItemCache["networkInfo"] \in NetworkInfo \cup {None}
  /\ seen \in [Clients -> [Items -> Value \cup {None}]]
  /\ connected \subseteq Networks

\* The framework is up to date by the same steps that change the maps; what was
\* only requested still has its entry.
FrameworkOK ==
  /\ mSubscriptionObj \in BOOLEAN /\ misread \in BOOLEAN
  /\ mSubscriptionObj /\ ~misread => framework = Entries(mDataItemToClients) \ onlyRequested
  /\ ~mSubscriptionObj => framework = {}
  /\ onlyRequested \subseteq Entries(mDataItemToClients)
  /\ ~mSubscriptionObj => onlyRequested = {}

IInv == QueueOK /\ MapsOK /\ CopiesOK /\ FrameworkOK /\ MapsAreInverse

-----------------------------------------------------------------------------
(***************************************************************************)
(* The values SystemStatus makes of reports.                               *)
(***************************************************************************)

\* A finite set of slots has a first and a last one.
LEMMA MinOfSlots ==
  ASSUME NEW n \in Nat, NEW S \in SUBSET (1..n), S # {}
  PROVE  Min(S) \in S /\ \A k \in S : Min(S) <= k
<1> DEFINE T == {1..k : k \in S}
<1>1. T \subseteq FiniteSubsetsOf(Nat) /\ T # {}
  <2>1. \A k \in S : IsFiniteSet(1..k) /\ 1..k \in SUBSET Nat
    BY FS_Interval
  <2>2. QED
    BY <2>1 DEF FiniteSubsetsOf
<1>2. PICK U \in T : \A V \in T : <<V, U>> \notin StrictSubsetOrdering(Nat)
  <2> HIDE DEF T
  <2>1. QED
    BY <1>1, FS_StrictSubsetOrderingWellFounded, WFMin
<1>3. PICK m \in S : U = 1..m
  OBVIOUS
<1>4. \A k \in S : m <= k
  <2> SUFFICES ASSUME NEW k \in S, k < m
               PROVE  FALSE
    OBVIOUS
  <2>1. 1..k \subseteq 1..m /\ m \in 1..m /\ m \notin 1..k
    OBVIOUS
  <2>2. <<1..k, U>> \in StrictSubsetOrdering(Nat)
    BY <1>1, <1>3, <2>1 DEF StrictSubsetOrdering, FiniteSubsetsOf
  <2>3. QED
    BY <1>2, <2>2
<1>5. QED
  BY <1>4 DEF Min

LEMMA MaxOfSlots ==
  ASSUME NEW n \in Nat, NEW S \in SUBSET (1..n), S # {}
  PROVE  Max(S) \in S /\ \A k \in S : Max(S) >= k
<1> DEFINE T == {n + 1 - k : k \in S}
<1>1. T \in SUBSET (1..n) /\ T # {}
  <2>1. \A k \in 1..n : n + 1 - k \in 1..n
    OBVIOUS
  <2>2. \A k \in S : n + 1 - k \in 1..n
    BY <2>1
  <2>3. QED
    BY <2>2
<1>2. PICK least \in T : \A k \in T : least <= k
  <2> HIDE DEF T
  <2>1. QED
    BY <1>1, MinOfSlots
<1>3. PICK m \in S : least = n + 1 - m
  OBVIOUS
<1>4. \A k \in S : m >= k
  <2> SUFFICES ASSUME NEW k \in S
               PROVE  m >= k
    OBVIOUS
  <2>1. n + 1 - k \in T
    OBVIOUS
  <2>2. least <= n + 1 - k /\ m \in Int /\ k \in Int
    BY <1>2, <2>1
  <2>3. QED
    BY <1>3, <2>2
<1>5. QED
  BY <1>4 DEF Max

\* A network in the table, and one that finds no entry there.
InTable(table, h) == \E k \in Slots : table[k].handle = h
NoRoom(table, h)  == \A k \in Slots : table[k].handle \notin {h, None}

LEMMA FirstNetwork ==
  ASSUME NEW e \in NetworkEvent
  PROVE  /\ FirstNetworkInfo(e) \in NetworkInfo
         /\ InTable(FirstNetworkInfo(e).table, e.handle)
<1> DEFINE own == [handle |-> e.handle, type |-> e.type]
           table == [k \in Slots |-> IF k = 1 THEN own ELSE NoEntry]
<1>1. own \in Entry /\ own.handle = e.handle /\ NoEntry \in Entry /\ NoEntry.handle = None
      /\ {e.type} \subseteq NetworkTypes
  BY DEF NetworkEvent, Entry, NoEntry
<1>2. FirstNetworkInfo(e) = [types |-> {e.type}, table |-> table]
  BY DEF FirstNetworkInfo
<1>3. 1 \in Slots /\ Slots \subseteq Nat
  BY TableAssumption DEF Slots
<1> HIDE DEF own
<1>4. table \in [Slots -> Entry] /\ table[1].handle = e.handle
      /\ \A k \in Slots : k # 1 => table[k].handle = None
  BY <1>1, <1>3
<1> HIDE DEF table
<1>5. FirstNetworkInfo(e) \in NetworkInfo /\ FirstNetworkInfo(e).table = table
  BY <1>1, <1>2, <1>4 DEF NetworkInfo
<1>6. InTable(table, e.handle)
  BY <1>3, <1>4 DEF InTable
<1>7. QED
  BY <1>5, <1>6

\* A network that comes is in the table afterwards, if there was room, and takes
\* none of the entries of others.
LEMMA Connected ==
  ASSUME NEW info \in NetworkInfo, NEW e \in NetworkEvent
  PROVE  /\ Connect(info, e) \in NetworkInfo
         /\ \A h \in Networks :
              InTable(info.table, h) => InTable(Connect(info, e).table, h)
         /\ ~NoRoom(info.table, e.handle) => InTable(Connect(info, e).table, e.handle)
<1> DEFINE own == [handle |-> e.handle, type |-> e.type]
           S == {k \in Slots : info.table[k].handle \in {e.handle, None}}
           slot == FirstSlot(S)
           table == IF slot \notin Slots \/ info.table[slot].handle = e.handle
                    THEN info.table ELSE [info.table EXCEPT ![slot] = own]
<1>1. own \in Entry /\ own.handle = e.handle /\ e.handle \in Networks
      /\ info.types \cup {e.type} \subseteq NetworkTypes
      /\ info.table \in [Slots -> Entry] /\ None \notin Networks
  BY NetworksAssumption DEF NetworkEvent, Entry, NetworkInfo
<1>2. Connect(info, e) = [types |-> info.types \cup {e.type}, table |-> table]
  BY DEF Connect
<1>3. Slots = 1..TableSize /\ TableSize \in Nat /\ Slots \subseteq Nat
  BY TableAssumption DEF Slots
<1>4. S = {} => slot \notin Slots
  BY <1>3 DEF FirstSlot
<1>5. S # {} => slot \in S /\ \A k \in S : slot <= k
  <2> DEFINE T == S
  <2>1. T \in SUBSET (1..TableSize)
    BY <1>3
  <2> HIDE DEF T
  <2>2. T # {} => Min(T) \in T /\ \A k \in T : Min(T) <= k
    BY <1>3, <2>1, MinOfSlots
  <2>3. QED
    BY <2>2 DEF T, FirstSlot
<1> HIDE DEF own, slot
<1>6. \/ table = info.table /\ (S # {} => info.table[slot].handle = e.handle)
      \/ /\ S # {} /\ info.table[slot].handle = None /\ slot \in Slots
         /\ table = [info.table EXCEPT ![slot] = own]
  BY <1>4, <1>5
<1>7. table \in [Slots -> Entry]
  BY <1>1
<1> HIDE DEF table
<1>8. Connect(info, e) \in NetworkInfo /\ Connect(info, e).table = table
  BY <1>1, <1>2, <1>7 DEF NetworkInfo
<1>9. \A h \in Networks : InTable(info.table, h) => InTable(table, h)
  <2> SUFFICES ASSUME NEW h \in Networks, NEW k \in Slots, info.table[k].handle = h
               PROVE  table[k].handle = h
    BY DEF InTable
  <2>1. QED
    BY <1>1, <1>6
<1>10. ASSUME ~NoRoom(info.table, e.handle)
       PROVE  InTable(table, e.handle)
  <2>1. S # {}
    BY <1>10 DEF NoRoom
  <2>2. slot \in S /\ slot \in Slots
    BY <1>5, <2>1
  <2>3. table[slot].handle = e.handle
    BY <1>1, <1>6, <2>1, <2>2
  <2>4. QED
    BY <2>2, <2>3 DEF InTable
<1>11. QED
  BY <1>8, <1>9, <1>10

\* What is read behind the last entry is an entry.
LEMMA BehindEntry ==
  ASSUME NEW i, NEW current, NEW behind \in Behind(i, current)
  PROVE  behind \in Entry
<1>1. NoEntry \in Entry
  BY DEF Entry, NoEntry
<1>2. QED
  BY <1>1 DEF Behind, BehindLast

\* A network that goes takes none of the entries of others.
LEMMA Disconnected ==
  ASSUME NEW info \in NetworkInfo, NEW e \in NetworkEvent, NEW behind \in Entry
  PROVE  /\ Disconnect(info, e, behind) \in NetworkInfo
         /\ \A h \in Networks \ {e.handle} :
              InTable(info.table, h) => InTable(Disconnect(info, e, behind).table, h)
<1> DEFINE O == Own(info, e)
           table == IF O = {} THEN info.table ELSE [info.table EXCEPT ![Max(O)] = behind]
<1>1. /\ info.table \in [Slots -> Entry]
      /\ info.types \subseteq NetworkTypes /\ e.type \in NetworkTypes
  BY DEF NetworkInfo, NetworkEvent
<1>2. Disconnect(info, e, behind) = [types |-> TypesLeft(info, e), table |-> table]
  BY DEF Disconnect
<1>3. TypesLeft(info, e) \subseteq NetworkTypes
  BY <1>1 DEF TypesLeft
<1>4. Slots = 1..TableSize /\ TableSize \in Nat /\ Slots \subseteq Nat
  BY TableAssumption DEF Slots
<1>5. Before(info) \subseteq Slots
  <2> DEFINE S == {k \in Slots : info.table[k].handle = None}
  <2>1. FirstSlot(S) \in 1..TableSize + 1
    <3>1. S = {} => FirstSlot(S) = TableSize + 1
      BY DEF FirstSlot
    <3> DEFINE T == S
    <3>2. T \in SUBSET (1..TableSize)
      BY <1>4
    <3> HIDE DEF T
    <3>3. T # {} => Min(T) \in T
      BY <1>4, <3>2, MinOfSlots
    <3>4. S # {} => FirstSlot(S) \in 1..TableSize
      BY <3>2, <3>3 DEF T, FirstSlot
    <3>5. QED
      BY <1>4, <3>1, <3>4
  <2>2. PICK f \in 1..TableSize + 1 : f = FirstSlot(S)
    BY <2>1
  <2>3. Before(info) = 1..(f - 1)
    BY <2>2 DEF Before
  <2>4. ASSUME NEW k \in 1..(f - 1)
        PROVE  k \in 1..TableSize
    <3>1. TableSize \in Nat /\ f \in Nat /\ f <= TableSize + 1
      BY <1>4, <2>2
    <3>2. QED
      BY <3>1
  <2>5. QED
    BY <1>4, <2>3, <2>4
<1>6. O # {} => Max(O) \in Slots /\ info.table[Max(O)].handle = e.handle
  <2>1. O \in SUBSET (1..TableSize) /\ O \subseteq Slots
        /\ \A k \in O : info.table[k].handle = e.handle
    BY <1>4, <1>5 DEF Own
  <2> HIDE DEF O
  <2>2. O # {} => Max(O) \in O
    BY <1>4, <2>1, MaxOfSlots
  <2>3. QED
    BY <2>1, <2>2
<1> HIDE DEF O
<1>7. table \in [Slots -> Entry]
      /\ \A k \in Slots : \/ table[k] = info.table[k]
                          \/ info.table[k].handle = e.handle
  BY <1>1, <1>6
<1> HIDE DEF table
<1>8. Disconnect(info, e, behind) \in NetworkInfo /\ Disconnect(info, e, behind).table = table
  BY <1>2, <1>3, <1>7 DEF NetworkInfo
<1>9. \A h \in Networks \ {e.handle} : InTable(info.table, h) => InTable(table, h)
  BY <1>7 DEF InTable
<1>10. QED
  BY <1>8, <1>9

-----------------------------------------------------------------------------
\* The queue: sending and handling.
LEMMA Sending ==
  ASSUME QueueOK, NEW m, CallOK(m), queue' = Append(queue, m)
  PROVE  QueueOK'
<1>1. PICK S : queue \in Seq(S) /\ \A k \in S : CallOK(k)
  BY DEF QueueOK
<1>2. queue' \in Seq(S \cup {m}) /\ \A k \in S \cup {m} : CallOK(k)
  <2>1. queue \in Seq(S \cup {m}) /\ m \in S \cup {m}
    BY <1>1
  <2>2. QED
    BY <1>1, <2>1
<1>3. QED
  BY <1>2 DEF QueueOK, CallOK

LEMMA Handling1 ==
  ASSUME QueueOK, queue # <<>>
  PROVE  CallOK(Head(queue))
<1>1. PICK S : queue \in Seq(S) /\ \A k \in S : CallOK(k)
  BY DEF QueueOK
<1>2. Head(queue) \in S
  BY <1>1
<1>3. QED
  BY <1>1, <1>2

LEMMA Dropping ==
  ASSUME QueueOK, queue # <<>>, queue' = Tail(queue)
  PROVE  QueueOK'
<1>1. PICK S : queue \in Seq(S) /\ \A k \in S : CallOK(k)
  BY DEF QueueOK
<1>2. queue' \in Seq(S)
  BY <1>1
<1>3. QED
  BY <1>1, <1>2 DEF QueueOK, CallOK

\* The value of an item is of its kind.
LEMMA Valued ==
  ASSUME CopiesOK, NEW i \in Items, NEW r \in Reports(i), NEW behind \in Entry
  PROVE  LET value == SetItemInReport(i, r, mDataItemCache[i], behind) IN
         /\ value \in Value
         /\ i = "networkInfo" => value \in NetworkInfo
<1> DEFINE current == mDataItemCache[i]
<1>1. current \in Value \cup {None} /\ (i = "networkInfo" => current \in NetworkInfo \cup {None})
  BY DEF CopiesOK
<1> HIDE DEF current
<1>2. CASE i # "networkInfo"
  <2>1. r \in Value
    BY <1>2 DEF Reports, Items, Value
  <2>2. Reported(i, r, current, behind) = r /\ (~Changes(i, r, current, behind) => r = current)
    BY <1>2 DEF Reported, Changes
  <2>3. SetItemInReport(i, r, current, behind) = r
    BY <2>2 DEF SetItemInReport
  <2>4. QED
    BY <1>2, <2>1, <2>3 DEF current
<1>3. CASE i = "networkInfo"
  <2>1. r \in NetworkEvent
    BY <1>3, NetworksAssumption DEF Reports
  <2>2. Reported(i, r, current, behind) \in NetworkInfo
    <3>1. CASE current = None
      BY <1>3, <2>1, <3>1, FirstNetwork DEF Reported
    <3>2. CASE current # None
      <4>1. current \in NetworkInfo
        BY <1>1, <1>3, <3>2
      <4>2. Connect(current, r) \in NetworkInfo /\ Disconnect(current, r, behind) \in NetworkInfo
        BY <2>1, <4>1, Connected, Disconnected
      <4>3. QED
        BY <1>3, <3>2, <4>2 DEF Reported, Collate
    <3>3. QED
      BY <3>1, <3>2
  <2>3. current # None \/ Changes(i, r, current, behind)
    BY DEF Changes
  <2>4. SetItemInReport(i, r, current, behind) \in NetworkInfo
    BY <1>1, <1>3, <2>2, <2>3 DEF SetItemInReport
  <2>5. QED
    BY <1>3, <2>4 DEF current, Value
<1>4. QED
  BY <1>2, <1>3

LEMMA Posting ==
  ASSUME QueueOK, queue # <<>>, NEW S, NEW cache, NotifyClients(S, cache),
         \A c \in Clients : S[c] \subseteq Items,
         cache \in [Items -> Value \cup {None}],
         seen \in [Clients -> [Items -> Value \cup {None}]]
  PROVE  QueueOK' /\ seen' \in [Clients -> [Items -> Value \cup {None}]]
<1> DEFINE m == [op |-> "items", values |-> [i \in Known(S[Xtra], cache) |-> cache[i]]]
<1>1. PICK T : queue \in Seq(T) /\ \A k \in T : CallOK(k)
  BY DEF QueueOK
<1>2. PICK p : p = m
  OBVIOUS
<1>3. CallOK(p)
  <2>1. \A i \in Known(S[Xtra], cache) : i \in Items /\ cache[i] \in Value
    BY ClientsAssumption DEF Known
  <2>2. IsCopy([i \in Known(S[Xtra], cache) |-> cache[i]])
    BY <2>1 DEF IsCopy
  <2>3. QED
    BY <1>2, <2>2 DEF CallOK
<1> HIDE DEF m
<1>4. queue' = Tail(queue) \o <<>> \/ queue' = Tail(queue) \o <<p>>
  BY <1>2 DEF NotifyClients, m
<1>5. Tail(queue) \in Seq(T \cup {p})
  <2>1. queue \in Seq(T \cup {p})
    BY <1>1
  <2>2. QED
    BY <2>1
<1>6. <<>> \in Seq(T \cup {p}) /\ <<p>> \in Seq(T \cup {p})
  OBVIOUS
<1>7. queue' \in Seq(T \cup {p})
  <2>1. PICK U : U = T \cup {p}
    OBVIOUS
  <2>2. Tail(queue) \in Seq(U) /\ <<>> \in Seq(U) /\ <<p>> \in Seq(U)
    BY <1>5, <1>6, <2>1
  <2>3. Tail(queue) \o <<>> \in Seq(U) /\ Tail(queue) \o <<p>> \in Seq(U)
    BY <2>2
  <2>4. queue' \in Seq(U)
    BY <1>4, <2>3
  <2>5. QED
    BY <2>1, <2>4
<1>8. \A k \in T \cup {p} : CallOK(k)
  BY <1>1, <1>3
<1>9. QueueOK'
  BY <1>7, <1>8 DEF QueueOK, CallOK
<1>10. seen' \in [Clients -> [Items -> Value \cup {None}]]
  BY DEF NotifyClients
<1>11. QED
  BY <1>9, <1>10

\* A client is told what is cached, in the handler of a call.
LEMMA ToldOfCached ==
  ASSUME IInv, queue # <<>>, NEW c \in Clients, NEW S, S \subseteq Items,
         NotifyClients(OnlyTo(c, S), mDataItemCache), UNCHANGED <<mDataItemCache, connected>>
  PROVE  QueueOK' /\ CopiesOK'
<1>1. PICK L : L = OnlyTo(c, S)
  OBVIOUS
<1>2. \A d \in Clients : L[d] \subseteq Items
  BY <1>1 DEF OnlyTo
<1>3. QueueOK' /\ seen' \in [Clients -> [Items -> Value \cup {None}]]
  BY <1>1, <1>2, Posting DEF IInv, CopiesOK
<1>4. QED
  BY <1>3 DEF IInv, CopiesOK

LEMMA CallKeeps ==
  ASSUME IInv, NEW c \in Clients, ClientCalls(c)
  PROVE  IInv'
<1>1. PICK m : CallOK(m) /\ Call(m)
  <2>1. \A S \in ItemLists : S \subseteq Items
    BY ListsAssumption
  <2>2. CASE UnsubscribeAll(c)
    BY <2>2 DEF UnsubscribeAll, CallOK
  <2>3. CASE \E S \in ItemLists : \/ Subscribe(c, S) \/ RequestData(c, S)
                                  \/ UpdateSubscription(c, S) \/ Unsubscribe(c, S)
    BY <2>1, <2>3 DEF Subscribe, RequestData, UpdateSubscription, Unsubscribe, CallOK
  <2>4. QED
    BY <2>2, <2>3 DEF ClientCalls
<1>2. QueueOK'
  BY <1>1, Sending DEF Call, Send, IInv
<1>3. QED
  BY <1>1, <1>2 DEF Call, IInv, MapsOK, CopiesOK, FrameworkOK, MapsAreInverse, Entries, maps,
                    told

LEMMA FrameworkCallKeeps ==
  ASSUME IInv, FrameworkCalls
  PROVE  IInv'
<1>1. PICK m : CallOK(m) /\ Send(m)
  BY DEF FrameworkCalls, SetSubscriptionObj, Notify, CallOK
<1>2. QueueOK'
  BY <1>1, Sending DEF Send, IInv
<1>3. UNCHANGED <<mClientToDataItems, mDataItemToClients, onlyRequested, mSubscriptionObj,
                  framework, misread, mistaken>>
  BY DEF FrameworkCalls, SetSubscriptionObj, Notify, callFrame, maps, told
<1>4. CopiesOK'
  <2>1. UNCHANGED <<mDataItemCache, seen>>
    BY DEF FrameworkCalls, SetSubscriptionObj, Notify, callFrame
  <2>2. connected' \subseteq Networks
    <3>1. CASE SetSubscriptionObj
      BY <3>1 DEF SetSubscriptionObj, callFrame, IInv, CopiesOK
    <3>2. CASE \E i \in Items : \E r \in Reports(i) : Notify(i, r)
      <4>0. PICK i \in Items : \E r \in Reports(i) : Notify(i, r)
        BY <3>2
      <4>1. PICK r \in Reports(i) : Notify(i, r)
        BY <4>0
      <4>2. i = "networkInfo" => r.handle \in Networks
        BY NetworksAssumption DEF Reports, NetworkEvent
      <4>3. QED
        BY <4>1, <4>2 DEF Notify, IInv, CopiesOK
    <3>3. QED
      BY <3>1, <3>2 DEF FrameworkCalls
  <2>3. QED
    BY <2>1, <2>2 DEF IInv, CopiesOK
<1>5. QED
  BY <1>2, <1>3, <1>4 DEF IInv, MapsOK, FrameworkOK, MapsAreInverse, Entries

\* What the framework is told of, when nothing that was erased is read wrong.
LEMMA Telling ==
  ASSUME FrameworkOK, NEW subscribed, NEW gone, TellFramework(subscribed, gone)
  PROVE  /\ misread' \in BOOLEAN
         /\ mSubscriptionObj /\ ~misread' =>
              ~misread /\ framework' = (framework \cup subscribed) \ gone
         /\ ~mSubscriptionObj => framework' = framework
<1>1. PICK read \in Misreads(gone) :
        /\ framework' = IF mSubscriptionObj THEN (framework \cup subscribed) \ read
                                             ELSE framework
        /\ misread' = (misread \/ (mSubscriptionObj /\ read # gone))
  BY DEF TellFramework
<1>2. misread' \in BOOLEAN /\ (misread' <=> misread \/ (mSubscriptionObj /\ read # gone))
  BY <1>1
<1>3. QED
  BY <1>1, <1>2

LEMMA SubscribeKeeps ==
  ASSUME IInv, NEW request \in BOOLEAN, HandleSubscribe(request)
  PROVE  IInv'
<1> DEFINE m == Head(queue)
           new == {i \in m.items : mDataItemToClients[i] = {}}
<1>1. queue # <<>> /\ m.client \in Clients /\ m.items \subseteq Items
  BY Handling1 DEF HandleSubscribe, Handling, IInv, CallOK
<1>2. QueueOK' /\ CopiesOK'
  BY <1>1, ToldOfCached DEF HandleSubscribe, handlerFrame
<1>3. /\ mDataItemToClients' = With(m.client, m.items)
      /\ mClientToDataItems' = [mClientToDataItems EXCEPT ![m.client] = @ \cup m.items]
      /\ TellFramework(IF request THEN {} ELSE new, {})
      /\ onlyRequested' = IF request /\ mSubscriptionObj THEN onlyRequested \cup new
                                                         ELSE onlyRequested
      /\ UNCHANGED <<mSubscriptionObj, mistaken>>
  BY DEF HandleSubscribe
<1>4. MapsOK /\ FrameworkOK /\ MapsAreInverse
  BY DEF IInv
<1> HIDE DEF m
<1>5. MapsOK'
  BY <1>1, <1>3, <1>4 DEF MapsOK, With
<1>6. MapsAreInverse'
  BY <1>1, <1>3, <1>4 DEF MapsOK, MapsAreInverse, With
<1>7. Entries(mDataItemToClients)' = Entries(mDataItemToClients) \cup m.items
  BY <1>1, <1>3, <1>4 DEF MapsOK, With, Entries
<1>8. new \subseteq m.items /\ new \cap Entries(mDataItemToClients) = {}
      /\ m.items \subseteq new \cup Entries(mDataItemToClients)
  BY <1>1 DEF Entries
<1> HIDE DEF new
<1>8a. PICK subscribed : subscribed = IF request THEN {} ELSE new
  OBVIOUS
<1>8b. /\ misread' \in BOOLEAN
       /\ mSubscriptionObj /\ ~misread' => ~misread /\ framework' = framework \cup subscribed
       /\ ~mSubscriptionObj => framework' = framework
  BY <1>3, <1>4, <1>8a, Telling
<1>9. FrameworkOK'
  BY <1>3, <1>4, <1>7, <1>8, <1>8a, <1>8b DEF FrameworkOK
<1>10. QED
  BY <1>2, <1>5, <1>6, <1>9 DEF IInv

LEMMA UpdateKeeps ==
  ASSUME IInv, HandleUpdateSubscription
  PROVE  IInv'
<1> DEFINE m == Head(queue)
<1>0. PICK kept \in Common(mClientToDataItems[m.client], m.items) :
      LET new  == m.items \ kept
          gone == {i \in kept : mDataItemToClients[i] = {m.client}}
      IN /\ mClientToDataItems' = [mClientToDataItems EXCEPT ![m.client] = m.items]
         /\ mDataItemToClients' = [i \in Items |->
              IF i \in new THEN mDataItemToClients[i] \cup {m.client}
              ELSE IF i \in kept THEN mDataItemToClients[i] \ {m.client}
              ELSE mDataItemToClients[i]]
         /\ NotifyClients(OnlyTo(m.client, new), mDataItemCache)
         /\ TellFramework({i \in new : mDataItemToClients[i] = {}}, gone)
         /\ onlyRequested' = onlyRequested \ gone
         /\ mistaken' = mistaken \cup ({m.client} \X mClientToDataItems[m.client])
  BY Zenon DEF HandleUpdateSubscription
<1> DEFINE new == m.items \ kept
           gone == {i \in kept : mDataItemToClients[i] = {m.client}}
<1>1. queue # <<>> /\ m.client \in Clients /\ m.items \subseteq Items
  BY Handling1 DEF HandleUpdateSubscription, Handling, IInv, CallOK
<1>1a. kept \subseteq m.items /\ kept \subseteq mClientToDataItems[m.client]
  BY DEF Common
<1>2. QueueOK' /\ CopiesOK'
  <2>1. PICK S : S = new
    OBVIOUS
  <2>2. S \subseteq Items /\ NotifyClients(OnlyTo(m.client, S), mDataItemCache)
        /\ UNCHANGED <<mDataItemCache, connected>>
    BY <1>0, <1>1, <2>1 DEF HandleUpdateSubscription, handlerFrame
  <2>3. QED
    BY <1>1, <2>2, ToldOfCached
<1>3. /\ mClientToDataItems' = [mClientToDataItems EXCEPT ![m.client] = m.items]
      /\ mDataItemToClients' = [i \in Items |->
             IF i \in new THEN mDataItemToClients[i] \cup {m.client}
             ELSE IF i \in kept THEN mDataItemToClients[i] \ {m.client}
             ELSE mDataItemToClients[i]]
      /\ TellFramework({i \in new : mDataItemToClients[i] = {}}, gone)
      /\ onlyRequested' = onlyRequested \ gone
      /\ mistaken' = mistaken \cup ({m.client} \X mClientToDataItems[m.client])
      /\ UNCHANGED mSubscriptionObj
  BY <1>0 DEF HandleUpdateSubscription
<1>4. MapsOK /\ FrameworkOK /\ MapsAreInverse
  BY DEF IInv
<1> HIDE DEF m
<1>5. MapsOK'
  BY <1>1, <1>3, <1>4 DEF MapsOK
<1>6. MapsAreInverse'
  <2> SUFFICES ASSUME NEW c \in Clients, NEW i \in Items, <<c, i>> \notin mistaken'
               PROVE  i \in mClientToDataItems'[c] <=> c \in mDataItemToClients'[i]
    BY DEF MapsAreInverse
  <2>1. /\ i \in mClientToDataItems[c] <=> c \in mDataItemToClients[i]
        /\ c = m.client => i \notin mClientToDataItems[c]
    BY <1>3, <1>4 DEF MapsAreInverse
  <2>2. CASE c # m.client
    BY <1>1, <1>3, <1>4, <2>1, <2>2 DEF MapsOK
  <2>3. CASE c = m.client
    BY <1>1, <1>1a, <1>3, <1>4, <2>1, <2>3 DEF MapsOK
  <2>4. QED
    BY <2>2, <2>3
<1>7. Entries(mDataItemToClients)' = (Entries(mDataItemToClients) \cup new) \ gone
  <2>1. kept \subseteq Items /\ new \subseteq Items /\ gone \subseteq kept
        /\ new \cap kept = {}
    BY <1>1, <1>1a
  <2> SUFFICES ASSUME NEW i \in Items
               PROVE  mDataItemToClients'[i] # {} <=>
                        (mDataItemToClients[i] # {} \/ i \in new) /\ i \notin gone
    BY <2>1 DEF Entries
  <2>2. CASE i \in new
    BY <1>3, <2>1, <2>2
  <2>3. CASE i \in kept
    <3>1. i \notin new /\ mDataItemToClients'[i] = mDataItemToClients[i] \ {m.client}
      BY <1>3, <2>1, <2>3
    <3>2. i \in gone <=> mDataItemToClients[i] = {m.client}
      BY <2>3
    <3>3. QED
      BY <3>1, <3>2
  <2>4. CASE i \notin new /\ i \notin kept
    BY <1>3, <2>1, <2>4
  <2>5. QED
    BY <2>2, <2>3, <2>4
<1>8. new \cap gone = {} /\ new \subseteq Items /\ gone \subseteq Items
  BY <1>1, <1>1a
<1>9. PICK subscribed : subscribed = {i \in new : mDataItemToClients[i] = {}}
  OBVIOUS
<1>9a. subscribed = new \ Entries(mDataItemToClients)
  BY <1>8, <1>9 DEF Entries
<1>9b. PICK left : left = gone
  OBVIOUS
<1>9c. /\ misread' \in BOOLEAN
       /\ mSubscriptionObj /\ ~misread' =>
            ~misread /\ framework' = (framework \cup subscribed) \ left
       /\ ~mSubscriptionObj => framework' = framework
  BY <1>3, <1>4, <1>9, <1>9b, Telling
<1> HIDE DEF new, gone
<1>10. FrameworkOK'
  BY <1>3, <1>4, <1>7, <1>8, <1>9a, <1>9b, <1>9c DEF FrameworkOK
<1>11. QED
  BY <1>2, <1>5, <1>6, <1>10 DEF IInv

\* A client is taken from items of its own.
LEMMA RemovalKeeps ==
  ASSUME IInv, NEW c \in Clients, NEW unused \in SUBSET Items,
         unused \subseteq mClientToDataItems[c],
         mClientToDataItems' = [mClientToDataItems EXCEPT ![c] = @ \ unused],
         mDataItemToClients' = Without(c, unused),
         TellFramework({}, {i \in unused : mDataItemToClients[i] = {c}}),
         onlyRequested' = onlyRequested \ {i \in unused : mDataItemToClients[i] = {c}},
         UNCHANGED <<mSubscriptionObj, mistaken>>
  PROVE  MapsOK' /\ FrameworkOK' /\ MapsAreInverse'
<1> DEFINE gone == {i \in unused : mDataItemToClients[i] = {c}}
<1>1. MapsOK /\ FrameworkOK /\ MapsAreInverse
  BY DEF IInv
<1>2. MapsOK'
  BY <1>1 DEF MapsOK, Without
<1>3. MapsAreInverse'
  BY <1>1 DEF MapsOK, MapsAreInverse, Without
<1>4. Entries(mDataItemToClients)' = Entries(mDataItemToClients) \ gone
  BY <1>1 DEF MapsOK, Without, Entries
<1>5. PICK left : left = gone /\ TellFramework({}, left) /\ onlyRequested' = onlyRequested \ left
  OBVIOUS
<1>5a. /\ misread' \in BOOLEAN
       /\ mSubscriptionObj /\ ~misread' => ~misread /\ framework' = (framework \cup {}) \ left
       /\ ~mSubscriptionObj => framework' = framework
  BY <1>1, <1>5, Telling
<1> HIDE DEF gone
<1>6. FrameworkOK'
  BY <1>1, <1>4, <1>5, <1>5a DEF FrameworkOK
<1>7. QED
  BY <1>2, <1>3, <1>6

LEMMA UnsubscribeKeeps ==
  ASSUME IInv, HandleUnsubscribe
  PROVE  IInv'
<1> DEFINE m == Head(queue)
           unused == mClientToDataItems[m.client] \cap m.items
<1>1. queue # <<>> /\ m.client \in Clients /\ m.items \subseteq Items
  BY Handling1 DEF HandleUnsubscribe, Handling, IInv, CallOK
<1>2. QueueOK' /\ CopiesOK'
  BY <1>1, Dropping DEF HandleUnsubscribe, SilentStep, handlerFrame, IInv, CopiesOK
<1>3. /\ mClientToDataItems' = [mClientToDataItems EXCEPT ![m.client] = @ \ m.items]
      /\ mDataItemToClients' = Without(m.client, unused)
      /\ TellFramework({}, {i \in unused : mDataItemToClients[i] = {m.client}})
      /\ onlyRequested' = onlyRequested \ {i \in unused : mDataItemToClients[i] = {m.client}}
      /\ UNCHANGED <<mSubscriptionObj, mistaken>>
  BY DEF HandleUnsubscribe
<1> HIDE DEF m
<1>4. mClientToDataItems' = [mClientToDataItems EXCEPT ![m.client] = @ \ unused]
  BY <1>1, <1>3 DEF IInv, MapsOK
<1>5. unused \in SUBSET Items /\ unused \subseteq mClientToDataItems[m.client]
  BY <1>1
<1>6. QED
  BY <1>1, <1>2, <1>3, <1>4, <1>5, RemovalKeeps DEF IInv

LEMMA UnsubscribeAllKeeps ==
  ASSUME IInv, HandleUnsubscribeAll
  PROVE  IInv'
<1> DEFINE m == Head(queue)
           all == mClientToDataItems[m.client]
<1>1. queue # <<>> /\ m.client \in Clients
  BY Handling1 DEF HandleUnsubscribeAll, Handling, IInv, CallOK
<1>2. QueueOK' /\ CopiesOK'
  BY <1>1, Dropping DEF HandleUnsubscribeAll, SilentStep, handlerFrame, IInv, CopiesOK
<1>3. /\ mClientToDataItems' = [mClientToDataItems EXCEPT ![m.client] = {}]
      /\ mDataItemToClients' = Without(m.client, all)
      /\ TellFramework({}, {i \in all : mDataItemToClients[i] = {m.client}})
      /\ onlyRequested' = onlyRequested \ {i \in all : mDataItemToClients[i] = {m.client}}
      /\ UNCHANGED <<mSubscriptionObj, mistaken>>
  BY DEF HandleUnsubscribeAll
<1> HIDE DEF m
<1>4. mClientToDataItems' = [mClientToDataItems EXCEPT ![m.client] = @ \ all]
  BY <1>1, <1>3 DEF IInv, MapsOK
<1>5. all \in SUBSET Items /\ all \subseteq mClientToDataItems[m.client]
  BY <1>1 DEF IInv, MapsOK
<1>6. QED
  BY <1>1, <1>2, <1>3, <1>4, <1>5, RemovalKeeps DEF IInv

LEMMA OtherKeeps ==
  ASSUME IInv, HandleSetSubscriptionObj \/ HandleItems \/ UNCHANGED observerVars
  PROVE  IInv'
<1>1. CASE HandleSetSubscriptionObj
  <2>1. QueueOK' /\ CopiesOK'
    BY <1>1, Dropping
    DEF HandleSetSubscriptionObj, Handling, SilentStep, handlerFrame, IInv, CopiesOK
  <2>2. /\ UNCHANGED <<mClientToDataItems, mDataItemToClients, misread, mistaken>>
        /\ mSubscriptionObj' = TRUE /\ onlyRequested' = {}
        /\ framework' = framework \cup Entries(mDataItemToClients)
    BY <1>1 DEF HandleSetSubscriptionObj
  <2>3. FrameworkOK'
    BY <2>2 DEF IInv, FrameworkOK, Entries
  <2>4. QED
    BY <2>1, <2>2, <2>3 DEF IInv, MapsOK, MapsAreInverse
<1>2. CASE HandleItems
  <2>1. queue # <<>> /\ IsCopy(Head(queue).values)
    BY <1>2, Handling1 DEF HandleItems, Handling, IInv, CallOK
  <2>2. QueueOK'
    BY <1>2, <2>1, Dropping DEF HandleItems, IInv
  <2>3. CopiesOK'
    BY <1>2, <2>1 DEF HandleItems, IInv, CopiesOK, IsCopy
  <2>4. UNCHANGED <<mClientToDataItems, mDataItemToClients, onlyRequested,
                    mSubscriptionObj, framework, misread, mistaken>>
    BY <1>2 DEF HandleItems, maps, told
  <2>5. QED
    BY <2>2, <2>3, <2>4 DEF IInv, MapsOK, MapsAreInverse, FrameworkOK, Entries
<1>3. CASE UNCHANGED observerVars
  <2>1. UNCHANGED <<maps, mDataItemCache, mSubscriptionObj, queue, told, seen, mistaken,
                    connected>>
    BY <1>3 DEF observerVars
  <2>2. QueueOK' /\ CopiesOK'
    BY <2>1 DEF IInv, QueueOK, CopiesOK
  <2>3. QED
    BY <2>1, <2>2 DEF maps, told, IInv, MapsOK, MapsAreInverse, FrameworkOK, Entries
<1>4. QED
  BY <1>1, <1>2, <1>3

\* HandleNotify, with what is read behind the last entry.
NotifyStep(behind) ==
  LET m     == Head(queue)
      old   == mDataItemCache[m.item]
      value == SetItemInReport(m.item, m.report, old, behind)
      cache == [mDataItemCache EXCEPT ![m.item] = value]
      to    == IF Changes(m.item, m.report, old, behind)
               THEN mDataItemToClients[m.item] ELSE {}
  IN /\ mDataItemCache' = cache
     /\ NotifyClients([c \in Clients |->
          IF c \in to THEN mClientToDataItems[c] \cap {m.item} ELSE {}], cache)
     /\ dropped' = IF m.item # "networkInfo" THEN dropped
                   ELSE IF FindsNoEntry(m.item, m.report, old)
                   THEN dropped \cup {m.report.handle} ELSE dropped \ {m.report.handle}

LEMMA NotifySteps ==
  ASSUME HandleNotify
  PROVE  \E behind \in Behind(Head(queue).item, mDataItemCache[Head(queue).item]) :
           NotifyStep(behind)
BY Zenon DEF HandleNotify, NotifyStep

LEMMA NotifyKeeps ==
  ASSUME IInv, HandleNotify
  PROVE  IInv'
<1>1. queue # <<>> /\ Head(queue).item \in Items /\ Head(queue).report \in Reports(Head(queue).item)
  BY Handling1 DEF HandleNotify, Handling, IInv, CallOK
<1>2. PICK i \in Items : i = Head(queue).item
  BY <1>1
<1>2a. PICK r \in Reports(i) : r = Head(queue).report
  BY <1>1, <1>2
<1>2b. PICK behind \in Behind(i, mDataItemCache[i]) : NotifyStep(behind)
  BY <1>2, NotifySteps
<1>3. PICK value : value = SetItemInReport(i, r, mDataItemCache[i], behind)
  OBVIOUS
<1>4. value \in Value /\ (i = "networkInfo" => value \in NetworkInfo)
  BY <1>3, BehindEntry, Valued DEF IInv
<1>5. PICK cache : cache = [mDataItemCache EXCEPT ![i] = value]
  OBVIOUS
<1>6. /\ cache \in [Items -> Value \cup {None}]
      /\ cache["networkInfo"] \in NetworkInfo \cup {None}
  BY <1>4, <1>5 DEF IInv, CopiesOK
<1>7. PICK to : to = IF Changes(i, r, mDataItemCache[i], behind)
                     THEN mDataItemToClients[i] ELSE {}
  OBVIOUS
<1>8. PICK S : S = [c \in Clients |->
                      IF c \in to THEN mClientToDataItems[c] \cap {i} ELSE {}]
  OBVIOUS
<1>9. \A c \in Clients : S[c] \subseteq Items
  BY <1>8
<1>10. mDataItemCache' = cache /\ NotifyClients(S, cache)
       /\ UNCHANGED <<maps, mSubscriptionObj, told, mistaken, connected>>
  BY <1>2, <1>2a, <1>2b, <1>3, <1>5, <1>7, <1>8 DEF HandleNotify, NotifyStep
<1>11. QueueOK' /\ seen' \in [Clients -> [Items -> Value \cup {None}]]
  BY <1>1, <1>6, <1>9, <1>10, Posting DEF IInv, CopiesOK
<1>12. CopiesOK'
  BY <1>6, <1>10, <1>11 DEF IInv, CopiesOK
<1>13. QED
  BY <1>10, <1>11, <1>12 DEF maps, told, IInv, MapsOK, MapsAreInverse, FrameworkOK, Entries

LEMMA InitIInv == ObserverInit => IInv
<1> SUFFICES ASSUME ObserverInit PROVE IInv
  OBVIOUS
<1>1. <<>> \in Seq({}) /\ \A m \in {} : CallOK(m)
  OBVIOUS
<1>2. QueueOK
  <2>1. PICK S : S = {}
    OBVIOUS
  <2>2. queue \in Seq(S) /\ \A m \in S : CallOK(m)
    BY <1>1, <2>1 DEF ObserverInit
  <2>3. QED
    BY <2>2 DEF QueueOK
<1>3. MapsOK /\ CopiesOK /\ FrameworkOK /\ MapsAreInverse
  BY DEF ObserverInit, NobodySubscribed, Nothing, Items, MapsOK, CopiesOK, FrameworkOK,
         MapsAreInverse, Entries, maps
<1>4. QED
  BY <1>2, <1>3 DEF IInv

LEMMA NextIInv == IInv /\ [ObserverNext]_observerVars => IInv'
  BY CallKeeps, FrameworkCallKeeps, SubscribeKeeps, UpdateKeeps, UnsubscribeKeeps,
     UnsubscribeAllKeeps, NotifyKeeps, OtherKeeps DEF ObserverNext, HandleCall

LEMMA Invariance == ObserverSpec => []IInv
<1>1. ObserverInit => IInv
  BY InitIInv
<1>2. IInv /\ [ObserverNext]_observerVars => IInv'
  BY NextIInv
<1>3. QED
  BY <1>1, <1>2, PTL DEF ObserverSpec

-----------------------------------------------------------------------------
\* For every client and every item, but for those a client had when it called
\* updateSubscription(), the map from clients to items and the map from items to clients
\* say the same.
THEOREM MapsInverse == ObserverSpec => []MapsAreInverse
<1>1. IInv => MapsAreInverse
  BY DEF IInv
<1>2. QED
  BY <1>1, Invariance, PTL

\* Once it has registered, and until it is told of an item that is read after it was
\* erased, the framework is subscribed to exactly the items that clients have, but for
\* those a client had when it called updateSubscription() and those whose first client
\* has only requested them.
THEOREM FrameworkServed == ObserverSpec => []FrameworkServesClients
<1>1. ASSUME IInv
      PROVE  FrameworkServesClients
  <2> SUFFICES ASSUME mSubscriptionObj, ~misread, NEW i \in Items,
                      \A c \in Clients : <<c, i>> \notin mistaken
               PROVE  i \in framework <=>
                        i \notin onlyRequested /\ \E c \in Clients : i \in mClientToDataItems[c]
    BY DEF FrameworkServesClients
  <2>1. i \in framework <=> i \notin onlyRequested /\ mDataItemToClients[i] # {}
    BY <1>1 DEF IInv, FrameworkOK, Entries
  <2>2. mDataItemToClients[i] \subseteq Clients
    BY <1>1 DEF IInv, MapsOK
  <2>3. \A c \in Clients : i \in mClientToDataItems[c] <=> c \in mDataItemToClients[i]
    BY <1>1 DEF IInv, MapsAreInverse
  <2>4. mDataItemToClients[i] # {} <=> \E c \in Clients : i \in mClientToDataItems[c]
    BY <2>2, <2>3
  <2>5. QED
    BY <2>1, <2>4
<1>2. QED
  BY <1>1, Invariance, PTL

-----------------------------------------------------------------------------
(***************************************************************************)
(* What a queue of messages leads to.  A subject is something messages say *)
(* a value of: an item, a network, or the lock.  When all messages are     *)
(* handled, its value is what the last message about it says, or what it   *)
(* is now.                                                                 *)
(***************************************************************************)
Item(i)    == [of |-> "item", is |-> i]
Network(h) == [of |-> "network", is |-> h]
Lock       == [of |-> "lock", is |-> None]

About(m, x) ==
  \/ x.of = "item" /\ (m.op = "respondStatus" \/ (m.op = "items" /\ x.is \in DOMAIN m.values))
  \/ x.of = "network" /\ m.op = "notify" /\ m.item = "networkInfo" /\ m.report.handle = x.is
  \/ x.of = "lock" /\ m.op \in {"gpslock", "respondStatus"}

Says(m, x) ==
  IF x.of = "item" THEN IF m.op = "items" THEN m.values[x.is] ELSE m.items[x.is]
  ELSE IF x.of = "lock" THEN m.lock
  ELSE IF m.report.connected THEN "listed" ELSE "gone"

Silent(q, x) == \A k \in DOMAIN q : ~About(q[k], x)

LastSays(q, x, v) ==
  \E k \in DOMAIN q : /\ About(q[k], x) /\ Says(q[k], x) = v
                      /\ \A j \in DOMAIN q : j > k => ~About(q[j], x)

Leads(q, x, now, v) == LastSays(q, x, v) \/ (Silent(q, x) /\ now = v)

\* A message is handled, and its value taken.
LEMMA LeadsTail ==
  ASSUME NEW T, NEW q \in Seq(T), q # <<>>, NEW x, NEW now, NEW v,
         Leads(q, x, now, v),
         NEW next, next = IF About(Head(q), x) THEN Says(Head(q), x) ELSE now
  PROVE  Leads(Tail(q), x, next, v)
<1>1. PICK n \in Nat : n = Len(q)
  OBVIOUS
<1>2. /\ DOMAIN q = 1..n /\ DOMAIN Tail(q) = 1..(n - 1) /\ n >= 1 /\ Head(q) = q[1]
      /\ \A k \in 1..(n - 1) : Tail(q)[k] = q[k + 1]
  BY <1>1
<1>3. CASE Silent(q, x) /\ now = v
  <2>1. next = v
    BY <1>2, <1>3 DEF Silent
  <2>2. Silent(Tail(q), x)
    BY <1>2, <1>3 DEF Silent
  <2>3. QED
    BY <2>1, <2>2 DEF Leads
<1>4. CASE LastSays(q, x, v)
  <2>1. PICK k \in 1..n : /\ About(q[k], x) /\ Says(q[k], x) = v
                          /\ \A j \in 1..n : j > k => ~About(q[j], x)
    BY <1>2, <1>4 DEF LastSays
  <2>2. CASE k = 1
    <3>1. next = v
      BY <1>2, <2>1, <2>2
    <3>2. \A j \in 1..(n - 1) : j + 1 \in 1..n /\ j + 1 > 1
      OBVIOUS
    <3>3. Silent(Tail(q), x)
      BY <1>2, <2>1, <2>2, <3>2 DEF Silent
    <3>4. QED
      BY <3>1, <3>3 DEF Leads
  <2>3. CASE k # 1
    <3>1. k - 1 \in 1..(n - 1) /\ (k - 1) + 1 = k
      BY <2>3
    <3>2. \A j \in 1..(n - 1) : j > k - 1 => j + 1 \in 1..n /\ j + 1 > k
      OBVIOUS
    <3>3. LastSays(Tail(q), x, v)
      BY <1>2, <2>1, <3>1, <3>2 DEF LastSays
    <3>4. QED
      BY <3>3 DEF Leads
  <2>4. QED
    BY <2>2, <2>3
<1>5. QED
  BY <1>3, <1>4 DEF Leads

\* A message is sent: it leads to what it says.
LEMMA LeadsAppend ==
  ASSUME NEW T, NEW q \in Seq(T), NEW m \in T, NEW x, NEW now, NEW v,
         IF About(m, x) THEN Says(m, x) = v ELSE Leads(q, x, now, v)
  PROVE  Leads(Append(q, m), x, now, v)
<1>1. PICK n \in Nat : n = Len(q)
  OBVIOUS
<1>2. PICK a : a = Append(q, m)
  OBVIOUS
<1>3. /\ DOMAIN q = 1..n /\ DOMAIN a = 1..(n + 1) /\ a[n + 1] = m
      /\ \A k \in 1..n : a[k] = q[k]
  BY <1>1, <1>2
<1>4. CASE About(m, x)
  <2>1. LastSays(a, x, v)
    BY <1>3, <1>4 DEF LastSays
  <2>2. QED
    BY <1>2, <2>1 DEF Leads
<1>5. CASE ~About(m, x) /\ LastSays(q, x, v)
  <2>1. PICK k \in 1..n : /\ About(q[k], x) /\ Says(q[k], x) = v
                          /\ \A j \in 1..n : j > k => ~About(q[j], x)
    BY <1>3, <1>5 DEF LastSays
  <2>2. \A j \in 1..(n + 1) : j > k => ~About(a[j], x)
    <3> SUFFICES ASSUME NEW j \in 1..(n + 1), j > k
                 PROVE  ~About(a[j], x)
      OBVIOUS
    <3>1. j = n + 1 \/ j \in 1..n
      OBVIOUS
    <3>2. QED
      BY <1>3, <1>5, <2>1, <3>1
  <2>3. LastSays(a, x, v)
    <3>1. k \in 1..(n + 1) /\ a[k] = q[k]
      BY <1>3
    <3>2. QED
      BY <1>3, <2>1, <2>2, <3>1 DEF LastSays
  <2>4. QED
    BY <1>2, <2>3 DEF Leads
<1>6. CASE ~About(m, x) /\ Silent(q, x) /\ now = v
  <2>1. \A k \in 1..(n + 1) : k = n + 1 \/ k \in 1..n
    OBVIOUS
  <2>2. Silent(a, x)
    BY <1>3, <1>6, <2>1 DEF Silent
  <2>3. QED
    BY <1>2, <1>6, <2>2 DEF Leads
<1>7. QED
  BY <1>4, <1>5, <1>6 DEF Leads

\* Nothing is left to handle.
LEMMA LeadsNow ==
  ASSUME NEW x, NEW now, NEW v, Leads(<<>>, x, now, v)
  PROVE  now = v
<1>1. DOMAIN <<>> = {}
  OBVIOUS
<1>2. QED
  BY <1>1 DEF Leads, LastSays

\* Where the value is only used when the messages say nothing.
LEMMA LeadsAnyway ==
  ASSUME NEW q, NEW x, NEW now, NEW v, Leads(q, x, now, v), NEW next, now = v => next = v
  PROVE  Leads(q, x, next, v)
BY DEF Leads

-----------------------------------------------------------------------------
(***************************************************************************)
(* ClientsAreUpToDate: what client c has seen of item i, or will have when *)
(* the messages of the XTRA observer are handled, is v.                    *)
(***************************************************************************)
Current(q, s, c, i, v) ==
  IF c = Xtra THEN Leads(q, Item(i), s[c][i], v) ELSE s[c][i] = v

Related(c, i) == i \in mClientToDataItems[c] /\ c \in mDataItemToClients[i]

ClientsOK ==
  \A c \in Clients, i \in Items :
    Related(c, i) /\ mDataItemCache[i] # None
      => Current(queue, seen, c, i, mDataItemCache[i])

\* A message that is sent or handled and says nothing of items.
LEMMA CurrentAppend ==
  ASSUME QueueOK, NEW m, m.op \notin {"items", "respondStatus"}, queue' = Append(queue, m),
         UNCHANGED seen, NEW c, NEW i, NEW v, Current(queue, seen, c, i, v)
  PROVE  Current(queue', seen', c, i, v)
<1>1. PICK S : queue \in Seq(S)
  BY DEF QueueOK
<1>2. queue \in Seq(S \cup {m}) /\ m \in S \cup {m}
  BY <1>1
<1>3. ~About(m, Item(i))
  BY DEF About, Item
<1>4. \A now : Leads(queue, Item(i), now, v) => Leads(queue', Item(i), now, v)
  <2>1. PICK T : T = S \cup {m}
    OBVIOUS
  <2>2. queue \in Seq(T) /\ m \in T
    BY <1>2, <2>1
  <2>3. QED
    BY <1>3, <2>2, LeadsAppend
<1>5. QED
  BY <1>4 DEF Current

LEMMA CurrentTail ==
  ASSUME QueueOK, queue # <<>>, Head(queue).op \notin {"items", "respondStatus"},
         queue' = Tail(queue), UNCHANGED seen,
         NEW c, NEW i, NEW v, Current(queue, seen, c, i, v)
  PROVE  Current(queue', seen', c, i, v)
<1>1. PICK S : queue \in Seq(S)
  BY DEF QueueOK
<1>2. ~About(Head(queue), Item(i))
  BY DEF About, Item
<1>3. \A now : Leads(queue, Item(i), now, v) => Leads(queue', Item(i), now, v)
  BY <1>1, <1>2, LeadsTail
<1>4. QED
  BY <1>3 DEF Current

\* Clients that are notified of an item know its value, the others know what they knew.
LEMMA CurrentNotified ==
  ASSUME QueueOK, queue # <<>>, Head(queue).op \notin {"items", "respondStatus"},
         NEW S, NEW cache, NotifyClients(S, cache),
         NEW c \in Clients, NEW i \in Items
  PROVE  /\ i \in S[c] /\ cache[i] # None => Current(queue', seen', c, i, cache[i])
         /\ i \notin S[c] =>
              \A v : Current(queue, seen, c, i, v) => Current(queue', seen', c, i, v)
<1> DEFINE known == Known(S[Xtra], cache)
           m == [op |-> "items", values |-> [k \in known |-> cache[k]]]
<1>1. PICK T : queue \in Seq(T)
  BY DEF QueueOK
<1>2. seen' = [d \in Clients |-> [k \in Items |->
                 IF d # Xtra /\ k \in Known(S[d], cache) THEN cache[k] ELSE seen[d][k]]]
  BY DEF NotifyClients
<1>3. CASE c # Xtra
  BY <1>2, <1>3 DEF Current, Known
<1>4. CASE c = Xtra
  <2>1. seen'[c][i] = seen[c][i]
    BY <1>2, <1>4
  <2>2. PICK p : p = m
    OBVIOUS
  <2>3. p.op = "items" /\ p.values = [k \in known |-> cache[k]]
    BY <2>2
  <2>4. /\ i \in S[c] /\ cache[i] # None => known # {} /\ About(p, Item(i))
                                          /\ Says(p, Item(i)) = cache[i]
        /\ i \notin S[c] => ~About(p, Item(i))
    BY <1>4, <2>3 DEF Known, About, Says, Item
  <2>5. PICK U : U = T \cup {p}
    OBVIOUS
  <2>6. queue \in Seq(U) /\ p \in U /\ Tail(queue) \in Seq(U)
    <3>1. queue \in Seq(U) /\ p \in U
      BY <1>1, <2>5
    <3>2. QED
      BY <3>1
  <2>7. queue' = IF known = {} THEN Tail(queue) ELSE Append(Tail(queue), p)
    <3>1. queue' = Tail(queue) \o IF known = {} THEN <<>> ELSE <<p>>
      BY <2>2 DEF NotifyClients
    <3>2. PICK q \in Seq(U) : q = Tail(queue)
      BY <2>6
    <3>3. q \o <<>> = q /\ q \o <<p>> = Append(q, p)
      BY <2>6
    <3> HIDE DEF known, m
    <3>4. QED
      BY <3>1, <3>2, <3>3
  <2> HIDE DEF known, m
  <2>8. ~About(Head(queue), Item(i))
    BY DEF About, Item
  <2>9. \A now, v : Leads(queue, Item(i), now, v) => Leads(Tail(queue), Item(i), now, v)
    BY <2>6, <2>8, LeadsTail
  <2>10. PICK q \in Seq(U) : q = Tail(queue)
    BY <2>6
  <2>11. ASSUME i \in S[c], cache[i] # None
         PROVE  Current(queue', seen', c, i, cache[i])
    <3>1. Leads(Append(q, p), Item(i), seen[c][i], cache[i])
      BY <2>4, <2>6, <2>11, LeadsAppend
    <3>2. QED
      BY <1>4, <2>1, <2>4, <2>7, <2>10, <2>11, <3>1 DEF Current
  <2>12. ASSUME i \notin S[c], NEW v, Current(queue, seen, c, i, v)
         PROVE  Current(queue', seen', c, i, v)
    <3>1. Leads(q, Item(i), seen[c][i], v)
      BY <1>4, <2>9, <2>10, <2>12 DEF Current
    <3>2. Leads(Append(q, p), Item(i), seen[c][i], v)
      BY <2>4, <2>6, <2>12, <3>1, LeadsAppend
    <3>3. QED
      BY <1>4, <2>1, <2>7, <2>10, <3>1, <3>2 DEF Current
  <2>13. QED
    BY <2>11, <2>12
<1>5. QED
  BY <1>3, <1>4

\* The client of a subscription is told what is cached of it.
LEMMA SubscribeClients ==
  ASSUME IInv, ClientsOK, NEW request \in BOOLEAN, HandleSubscribe(request)
  PROVE  ClientsOK'
<1> DEFINE m == Head(queue)
<1>1. queue # <<>> /\ m.client \in Clients /\ m.items \subseteq Items
      /\ m.op \notin {"items", "respondStatus"}
  BY Handling1 DEF HandleSubscribe, Handling, IInv, CallOK
<1>2. PICK d \in Clients : d = m.client
  BY <1>1
<1>3. PICK L : L = m.items
  OBVIOUS
<1>4. /\ mDataItemToClients' = With(d, L)
      /\ mClientToDataItems' = [mClientToDataItems EXCEPT ![d] = @ \cup L]
      /\ NotifyClients(OnlyTo(d, L), mDataItemCache)
      /\ UNCHANGED mDataItemCache
  BY <1>2, <1>3 DEF HandleSubscribe, handlerFrame
<1>5. SUFFICES ASSUME NEW c \in Clients, NEW i \in Items, Related(c, i)',
                      mDataItemCache[i] # None
               PROVE  Current(queue', seen', c, i, mDataItemCache[i])
  BY <1>4 DEF ClientsOK
<1>6. PICK S : S = OnlyTo(d, L)
  OBVIOUS
<1>7. /\ i \in S[c] => Current(queue', seen', c, i, mDataItemCache[i])
      /\ i \notin S[c] => \A v : Current(queue, seen, c, i, v) => Current(queue', seen', c, i, v)
  BY <1>1, <1>4, <1>5, <1>6, CurrentNotified DEF IInv
<1>8. i \notin S[c] => Related(c, i)
  BY <1>4, <1>5, <1>6 DEF Related, With, OnlyTo, IInv, MapsOK
<1>9. QED
  BY <1>5, <1>7, <1>8 DEF ClientsOK

\* After an update the client is related to what is new to it, which it is told, and
\* to nothing else.
LEMMA UpdateClients ==
  ASSUME IInv, ClientsOK, HandleUpdateSubscription
  PROVE  ClientsOK'
<1> DEFINE m == Head(queue)
<1>1. queue # <<>> /\ m.client \in Clients /\ m.items \subseteq Items
      /\ m.op \notin {"items", "respondStatus"}
  BY Handling1 DEF HandleUpdateSubscription, Handling, IInv, CallOK
<1>2. PICK d \in Clients : d = m.client
  BY <1>1
<1>3. PICK L : L = m.items
  OBVIOUS
<1>4. PICK kept \in Common(mClientToDataItems[d], L) :
        /\ mClientToDataItems' = [mClientToDataItems EXCEPT ![d] = L]
        /\ mDataItemToClients' = [i \in Items |->
             IF i \in L \ kept THEN mDataItemToClients[i] \cup {d}
             ELSE IF i \in kept THEN mDataItemToClients[i] \ {d}
             ELSE mDataItemToClients[i]]
        /\ NotifyClients(OnlyTo(d, L \ kept), mDataItemCache)
  BY <1>2, <1>3, Zenon DEF HandleUpdateSubscription
<1>5. /\ mClientToDataItems' = [mClientToDataItems EXCEPT ![d] = L]
      /\ mDataItemToClients' = [i \in Items |->
             IF i \in L \ kept THEN mDataItemToClients[i] \cup {d}
             ELSE IF i \in kept THEN mDataItemToClients[i] \ {d}
             ELSE mDataItemToClients[i]]
      /\ NotifyClients(OnlyTo(d, L \ kept), mDataItemCache)
      /\ UNCHANGED mDataItemCache
  BY <1>4 DEF HandleUpdateSubscription, handlerFrame
<1>6. SUFFICES ASSUME NEW c \in Clients, NEW i \in Items, Related(c, i)',
                      mDataItemCache[i] # None
               PROVE  Current(queue', seen', c, i, mDataItemCache[i])
  BY <1>5 DEF ClientsOK
<1>7. PICK S : S = OnlyTo(d, L \ kept)
  OBVIOUS
<1>8. /\ i \in S[c] => Current(queue', seen', c, i, mDataItemCache[i])
      /\ i \notin S[c] => \A v : Current(queue, seen, c, i, v) => Current(queue', seen', c, i, v)
  BY <1>1, <1>5, <1>6, <1>7, CurrentNotified DEF IInv
<1>9. i \notin S[c] => Related(c, i)
  BY <1>5, <1>6, <1>7 DEF Related, OnlyTo, IInv, MapsOK
<1>10. QED
  BY <1>6, <1>8, <1>9 DEF ClientsOK

\* A client that leaves is related to less.
LEMMA RemovalClients ==
  ASSUME IInv, ClientsOK, HandleUnsubscribe \/ HandleUnsubscribeAll
  PROVE  ClientsOK'
<1>1. queue # <<>> /\ Head(queue).client \in Clients
      /\ Head(queue).op \notin {"items", "respondStatus"}
  BY Handling1 DEF HandleUnsubscribe, HandleUnsubscribeAll, Handling, IInv, CallOK
<1>2. queue' = Tail(queue) /\ UNCHANGED <<seen, mDataItemCache>>
  BY DEF HandleUnsubscribe, HandleUnsubscribeAll, SilentStep, handlerFrame
<1>3. PICK d \in Clients : d = Head(queue).client
  BY <1>1
<1>4. \A c \in Clients, i \in Items : Related(c, i)' => Related(c, i)
  <2>1. CASE HandleUnsubscribe
    <3>1. PICK L : L = Head(queue).items
      OBVIOUS
    <3>2. /\ mClientToDataItems' = [mClientToDataItems EXCEPT ![d] = @ \ L]
          /\ mDataItemToClients' = Without(d, mClientToDataItems[d] \cap L)
      BY <1>3, <2>1, <3>1 DEF HandleUnsubscribe
    <3>3. QED
      BY <3>2 DEF Related, Without, IInv, MapsOK
  <2>2. CASE HandleUnsubscribeAll
    <3>1. /\ mClientToDataItems' = [mClientToDataItems EXCEPT ![d] = {}]
          /\ mDataItemToClients' = Without(d, mClientToDataItems[d])
      BY <1>3, <2>2 DEF HandleUnsubscribeAll
    <3>2. QED
      BY <3>1 DEF Related, Without, IInv, MapsOK
  <2>3. QED
    BY <2>1, <2>2
<1>5. \A c \in Clients, i \in Items : \A v :
        Current(queue, seen, c, i, v) => Current(queue', seen', c, i, v)
  BY <1>1, <1>2, CurrentTail DEF IInv
<1>6. QED
  BY <1>2, <1>4, <1>5 DEF ClientsOK

\* A value that is new goes to all that are related to the item.
LEMMA NotifyOfClients ==
  ASSUME IInv, ClientsOK, HandleNotify
  PROVE  ClientsOK'
<1>1. queue # <<>> /\ Head(queue).item \in Items
      /\ Head(queue).op \notin {"items", "respondStatus"}
  BY Handling1 DEF HandleNotify, Handling, IInv, CallOK
<1>2. PICK j \in Items : j = Head(queue).item
  BY <1>1
<1>3. PICK r : r = Head(queue).report
  OBVIOUS
<1>3a. PICK behind : NotifyStep(behind)
  BY NotifySteps
<1>4. PICK value : value = SetItemInReport(j, r, mDataItemCache[j], behind)
  OBVIOUS
<1>5. PICK cache : cache = [mDataItemCache EXCEPT ![j] = value]
  OBVIOUS
<1>6. PICK to : to = IF Changes(j, r, mDataItemCache[j], behind)
                     THEN mDataItemToClients[j] ELSE {}
  OBVIOUS
<1>7. PICK S : S = [c \in Clients |->
                      IF c \in to THEN mClientToDataItems[c] \cap {j} ELSE {}]
  OBVIOUS
<1>8. mDataItemCache' = cache /\ NotifyClients(S, cache) /\ UNCHANGED maps
  BY <1>2, <1>3, <1>3a, <1>4, <1>5, <1>6, <1>7 DEF HandleNotify, NotifyStep
<1>9. SUFFICES ASSUME NEW c \in Clients, NEW i \in Items, Related(c, i), cache[i] # None
               PROVE  Current(queue', seen', c, i, cache[i])
  BY <1>8 DEF ClientsOK, maps, Related
<1>10. /\ i \in S[c] => Current(queue', seen', c, i, cache[i])
       /\ i \notin S[c] => \A v : Current(queue, seen, c, i, v) => Current(queue', seen', c, i, v)
  BY <1>1, <1>8, <1>9, CurrentNotified DEF IInv
<1>11. i \notin S[c] => cache[i] = mDataItemCache[i]
  <2>1. CASE i # j
    BY <1>5, <2>1 DEF IInv, CopiesOK
  <2>2. CASE i = j /\ i \notin S[c]
    <3>1. c \notin to
      BY <1>7, <1>9, <2>2 DEF Related
    <3>2. ~Changes(j, r, mDataItemCache[j], behind)
      BY <1>6, <1>9, <2>2, <3>1 DEF Related
    <3>3. value = mDataItemCache[j]
      BY <1>4, <3>2 DEF SetItemInReport
    <3>4. QED
      BY <1>5, <2>2, <3>3 DEF IInv, CopiesOK
  <2>3. QED
    BY <2>1, <2>2
<1>12. QED
  BY <1>9, <1>10, <1>11 DEF ClientsOK

\* The XTRA observer takes the values of its message.
LEMMA ItemsOfClients ==
  ASSUME IInv, ClientsOK, HandleItems
  PROVE  ClientsOK'
<1>1. queue # <<>> /\ Head(queue).op = "items"
  BY DEF HandleItems, Handling
<1>2. PICK values : values = Head(queue).values
  OBVIOUS
<1>3. /\ seen' = [seen EXCEPT ![Xtra] =
           [i \in Items |-> IF i \in DOMAIN values THEN values[i] ELSE seen[Xtra][i]]]
      /\ queue' = Tail(queue)
      /\ UNCHANGED <<maps, mDataItemCache>>
  BY <1>2 DEF HandleItems
<1>4. SUFFICES ASSUME NEW c \in Clients, NEW i \in Items, NEW v, Current(queue, seen, c, i, v)
               PROVE  Current(queue', seen', c, i, v)
  BY <1>3 DEF ClientsOK, maps, Related
<1>5. CASE c # Xtra
  BY <1>3, <1>4, <1>5 DEF Current, IInv, CopiesOK
<1>6. CASE c = Xtra
  <2>1. PICK T : queue \in Seq(T)
    BY DEF QueueOK, IInv
  <2>2. PICK next : next = IF i \in DOMAIN values THEN values[i] ELSE seen[c][i]
    OBVIOUS
  <2>3. next = IF About(Head(queue), Item(i)) THEN Says(Head(queue), Item(i)) ELSE seen[c][i]
    BY <1>1, <1>2, <2>2 DEF About, Says, Item
  <2>4. seen'[c][i] = next
    BY <1>3, <1>6, <2>2 DEF IInv, CopiesOK
  <2>5. Leads(Tail(queue), Item(i), next, v)
    BY <1>1, <1>4, <1>6, <2>1, <2>3, LeadsTail DEF Current
  <2>6. QED
    BY <1>3, <1>6, <2>4, <2>5 DEF Current
<1>7. QED
  BY <1>5, <1>6

\* Messages that are sent, and those of XtraStatus that are handled, change nothing here.
LEMMA SentClients ==
  ASSUME IInv, ClientsOK, NEW m, m.op \notin {"items", "respondStatus"},
         queue' = Append(queue, m),
         UNCHANGED <<mClientToDataItems, mDataItemToClients, mDataItemCache, seen>>
  PROVE  ClientsOK'
<1>1. \A c \in Clients, i \in Items : \A v :
        Current(queue, seen, c, i, v) => Current(queue', seen', c, i, v)
  BY CurrentAppend DEF IInv
<1>2. QED
  BY <1>1 DEF ClientsOK, Related

LEMMA HandledClients ==
  ASSUME IInv, ClientsOK, queue # <<>>, Head(queue).op \notin {"items", "respondStatus"},
         queue' = Tail(queue),
         UNCHANGED <<mClientToDataItems, mDataItemToClients, mDataItemCache, seen>>
  PROVE  ClientsOK'
<1>1. \A c \in Clients, i \in Items : \A v :
        Current(queue, seen, c, i, v) => Current(queue', seen', c, i, v)
  BY CurrentTail DEF IInv
<1>2. QED
  BY <1>1 DEF ClientsOK, Related

LEMMA CallClients ==
  ASSUME IInv, ClientsOK, FrameworkCalls \/ \E c \in Clients : ClientCalls(c)
  PROVE  ClientsOK'
<1>1. PICK m : m.op \notin {"items", "respondStatus"} /\ queue' = Append(queue, m)
  BY DEF FrameworkCalls, SetSubscriptionObj, Notify, ClientCalls, Subscribe, RequestData,
         UpdateSubscription, Unsubscribe, UnsubscribeAll, Call, Send
<1>2. UNCHANGED <<mClientToDataItems, mDataItemToClients, mDataItemCache, seen>>
  BY DEF FrameworkCalls, SetSubscriptionObj, Notify, ClientCalls, Subscribe, RequestData,
         UpdateSubscription, Unsubscribe, UnsubscribeAll, Call, callFrame, maps
<1>3. QED
  BY <1>1, <1>2, SentClients

LEMMA HandleCallClients ==
  ASSUME IInv, ClientsOK, HandleCall \/ HandleItems
  PROVE  ClientsOK'
<1>1. CASE HandleSetSubscriptionObj
  <2>1. queue # <<>> /\ Head(queue).op \notin {"items", "respondStatus"}
        /\ queue' = Tail(queue)
        /\ UNCHANGED <<mClientToDataItems, mDataItemToClients, mDataItemCache, seen>>
    BY <1>1 DEF HandleSetSubscriptionObj, Handling, SilentStep, handlerFrame
  <2>2. QED
    BY <2>1, HandledClients
<1>2. QED
  BY <1>1, SubscribeClients, UpdateClients, RemovalClients, NotifyOfClients, ItemsOfClients
  DEF HandleCall

LEMMA InitClients == NobodySubscribed => ClientsOK
BY DEF NobodySubscribed, ClientsOK, Related

LEMMA NextClients == IInv /\ ClientsOK /\ [ObserverNext]_observerVars => ClientsOK'
<1> SUFFICES ASSUME IInv, ClientsOK, [ObserverNext]_observerVars
             PROVE  ClientsOK'
  OBVIOUS
<1>1. CASE ObserverNext
  BY <1>1, CallClients, HandleCallClients DEF ObserverNext
<1>2. CASE UNCHANGED observerVars
  BY <1>2 DEF observerVars, maps, ClientsOK, Related
<1>3. QED
  BY <1>1, <1>2

LEMMA QueueAt ==
  ASSUME QueueOK
  PROVE  Len(queue) \in Nat /\ DOMAIN queue = 1..Len(queue)
         /\ \A k \in DOMAIN queue : CallOK(queue[k])
<1>1. PICK S : queue \in Seq(S) /\ \A m \in S : CallOK(m)
  BY DEF QueueOK
<1>2. \A k \in DOMAIN queue : queue[k] \in S
  BY <1>1
<1>3. QED
  BY <1>1, <1>2

\* What the messages lead to is what the last of them says.
LEMMA LastPosted ==
  ASSUME IInv, ClientsOK
  PROVE  ClientsAreUpToDate
<1> SUFFICES ASSUME NEW c \in Clients, NEW i \in Items, <<c, i>> \notin mistaken,
                    i \in mClientToDataItems[c], mDataItemCache[i] # None
             PROVE  LET posted == {k \in DOMAIN queue : /\ c = Xtra /\ queue[k].op = "items"
                                                        /\ i \in DOMAIN queue[k].values}
                    IN mDataItemCache[i] = IF posted = {} THEN seen[c][i]
                                                          ELSE queue[Max(posted)].values[i]
  BY DEF ClientsAreUpToDate
<1> DEFINE posted == {k \in DOMAIN queue : /\ c = Xtra /\ queue[k].op = "items"
                                           /\ i \in DOMAIN queue[k].values}
<1>1. Current(queue, seen, c, i, mDataItemCache[i])
  BY DEF ClientsOK, Related, IInv, MapsAreInverse
<1>2. PICK n \in Nat : DOMAIN queue = 1..n /\ \A k \in 1..n : CallOK(queue[k])
  BY QueueAt DEF IInv
<1>3. CASE c # Xtra
  BY <1>1, <1>3 DEF Current
<1>4. CASE c = Xtra
  <2>1. \A k \in 1..n : About(queue[k], Item(i)) <=> k \in posted
    BY <1>2, <1>4 DEF About, Item, CallOK
  <2>2. \A k \in posted : k \in 1..n /\ Says(queue[k], Item(i)) = queue[k].values[i]
    BY <1>2 DEF Says, Item
  <2> HIDE DEF posted
  <2>3. CASE Silent(queue, Item(i)) /\ seen[c][i] = mDataItemCache[i]
    <3>1. posted = {}
      BY <1>2, <2>1, <2>2, <2>3 DEF Silent
    <3>2. QED
      BY <2>3, <3>1 DEF posted
  <2>4. CASE LastSays(queue, Item(i), mDataItemCache[i])
    <3>1. PICK k \in 1..n : /\ About(queue[k], Item(i))
                            /\ Says(queue[k], Item(i)) = mDataItemCache[i]
                            /\ \A j \in 1..n : j > k => ~About(queue[j], Item(i))
      BY <1>2, <2>4 DEF LastSays
    <3>2. posted \in SUBSET (1..n) /\ k \in posted
      BY <2>1, <2>2, <3>1
    <3>3. Max(posted) \in posted /\ \A j \in posted : Max(posted) >= j
      BY <1>2, <3>2, MaxOfSlots
    <3>4. Max(posted) = k
      <4>1. ~(Max(posted) > k)
        BY <2>1, <2>2, <3>1, <3>3
      <4>2. PICK max \in 1..n : max = Max(posted)
        BY <3>2, <3>3
      <4>3. max >= k /\ ~(max > k)
        BY <3>2, <3>3, <4>1, <4>2
      <4>4. max = k
        BY <4>3
      <4>5. QED
        BY <4>2, <4>4
    <3>5. mDataItemCache[i] = queue[Max(posted)].values[i]
      BY <2>2, <3>1, <3>2, <3>4
    <3>6. QED
      BY <3>2, <3>5 DEF posted
  <2>5. QED
    BY <1>1, <1>4, <2>3, <2>4 DEF Current, Leads
<1>5. QED
  BY <1>3, <1>4

-----------------------------------------------------------------------------
\* Every client has seen the last value of each item it has, but for those it had when
\* it called updateSubscription(), with whatever calls, reports and handlers in whatever
\* order; the XTRA observer has it in the last of its messages under way that has the item.
THEOREM ClientsUpToDate == ObserverSpec => []ClientsAreUpToDate
<1>1. ObserverInit => IInv /\ ClientsOK
  BY InitIInv, InitClients DEF ObserverInit
<1>2. IInv /\ ClientsOK /\ [ObserverNext]_observerVars => (IInv /\ ClientsOK)'
  BY NextIInv, NextClients
<1>3. IInv /\ ClientsOK => ClientsAreUpToDate
  BY LastPosted
<1>4. QED
  BY <1>1, <1>2, <1>3, PTL DEF ObserverSpec

-----------------------------------------------------------------------------
(***************************************************************************)
(* ConnectedIsListed: the messages lead to a table with the networks that  *)
(* are connected, but for those that found no room in it.                  *)
(***************************************************************************)
Presence(info, lost, h) ==
  IF h \in lost \/ (info # None /\ InTable(info.table, h)) THEN "listed" ELSE "gone"

ListedOK ==
  \A h \in connected :
    Leads(queue, Network(h), Presence(mDataItemCache["networkInfo"], dropped, h), "listed")

\* What handling the report of a network does to the table.
LEMMA NetworkHandled ==
  ASSUME NEW info \in NetworkInfo \cup {None}, NEW e \in NetworkEvent, NEW behind \in Entry,
         NEW value, value = SetItemInReport("networkInfo", e, info, behind)
  PROVE  /\ value # None
         /\ e.connected => \/ InTable(value.table, e.handle)
                           \/ FindsNoEntry("networkInfo", e, info)
         /\ \A h \in Networks \ {e.handle} :
              info # None /\ InTable(info.table, h) => InTable(value.table, h)
<1>1. CASE info = None
  <2>1. value = FirstNetworkInfo(e)
    BY <1>1 DEF SetItemInReport, Changes, Reported
  <2>2. value # None
    BY <2>1, FirstNetwork, ValuesAssumption DEF Value
  <2>3. QED
    BY <1>1, <2>1, <2>2, FirstNetwork
<1>2. CASE info # None
  <2>1. PICK new : new = Collate(info, e, behind)
    OBVIOUS
  <2>2. Reported("networkInfo", e, info, behind) = new
    BY <1>2, <2>1 DEF Reported
  <2>3. value = new \/ (value = info /\ new.table = info.table)
    BY <2>2 DEF SetItemInReport, Changes
  <2>4. info \in NetworkInfo
    BY <1>2
  <2>5. /\ new \in NetworkInfo
        /\ e.connected => InTable(new.table, e.handle) \/ NoRoom(info.table, e.handle)
        /\ \A h \in Networks \ {e.handle} : InTable(info.table, h) => InTable(new.table, h)
    <3>1. CASE e.connected
      BY <2>1, <2>4, <3>1, Connected DEF Collate
    <3>2. CASE ~e.connected
      BY <2>1, <2>4, <3>2, Disconnected DEF Collate
    <3>3. QED
      BY <3>1, <3>2
  <2>6. value.table = new.table /\ value \in NetworkInfo
    BY <2>3, <2>4, <2>5
  <2>7. value # None
    BY <2>6, ValuesAssumption DEF Value
  <2>8. e.connected /\ NoRoom(info.table, e.handle) => FindsNoEntry("networkInfo", e, info)
    BY <1>2 DEF FindsNoEntry, NoRoom
  <2>9. QED
    BY <2>5, <2>6, <2>7, <2>8
<1>3. QED
  BY <1>1, <1>2

\* What is posted when clients are notified.
LEMMA PostedQueue ==
  ASSUME QueueOK, queue # <<>>, NEW S, NEW cache, NotifyClients(S, cache)
  PROVE  \/ queue' = Tail(queue)
         \/ \E p : /\ p.op = "items" /\ DOMAIN p.values = Known(S[Xtra], cache)
                /\ queue' = Append(Tail(queue), p)
<1> DEFINE m == [op |-> "items", values |-> [i \in Known(S[Xtra], cache) |-> cache[i]]]
<1>1. PICK T : queue \in Seq(T)
  BY DEF QueueOK
<1>2. PICK p : p = m
  OBVIOUS
<1>3. p.op = "items" /\ DOMAIN p.values = Known(S[Xtra], cache)
  BY <1>2
<1>4. queue' = Tail(queue) \o <<>> \/ queue' = Tail(queue) \o <<p>>
  BY <1>2 DEF NotifyClients
<1> HIDE DEF m
<1>5. PICK q \in Seq(T) : q = Tail(queue)
  <2>1. Tail(queue) \in Seq(T)
    BY <1>1
  <2>2. QED
    BY <2>1, Zenon
<1>6. q \o <<>> = q /\ q \o <<p>> = Append(q, p)
  <2>1. PICK U : U = T \cup {p}
    OBVIOUS
  <2>2. q \in Seq(U) /\ p \in U
    BY <2>1
  <2>3. QED
    BY <2>2
<1>7. QED
  BY <1>3, <1>4, <1>5, <1>6

\* A message is handled, another one may be posted.
LEMMA HandledListed ==
  ASSUME QueueOK, queue # <<>>, ListedOK,
         \/ queue' = Tail(queue)
         \/ \E p : p.op = "items" /\ queue' = Append(Tail(queue), p),
         UNCHANGED connected,
         NEW info, info = mDataItemCache["networkInfo"],
         NEW info2, info2 = mDataItemCache'["networkInfo"],
         \A h \in connected :
           (IF About(Head(queue), Network(h)) THEN Says(Head(queue), Network(h))
            ELSE Presence(info, dropped, h)) = "listed" => Presence(info2, dropped', h) = "listed"
  PROVE  ListedOK'
<1>1. PICK T : queue \in Seq(T)
  BY DEF QueueOK
<1>2. ASSUME NEW h \in connected
      PROVE  Leads(Tail(queue), Network(h), Presence(info2, dropped', h), "listed")
  <2>1. PICK next : next = IF About(Head(queue), Network(h))
                           THEN Says(Head(queue), Network(h)) ELSE Presence(info, dropped, h)
    OBVIOUS
  <2>2. Leads(queue, Network(h), Presence(info, dropped, h), "listed")
    BY DEF ListedOK
  <2>3. Leads(Tail(queue), Network(h), next, "listed")
    BY <1>1, <2>1, <2>2, LeadsTail
  <2>4. next = "listed" => Presence(info2, dropped', h) = "listed"
    BY <2>1
  <2>5. QED
    BY <2>3, <2>4, LeadsAnyway
<1>3. CASE queue' = Tail(queue)
  BY <1>2, <1>3 DEF ListedOK
<1>4. CASE \E p : p.op = "items" /\ queue' = Append(Tail(queue), p)
  <2>1. PICK p : p.op = "items" /\ queue' = Append(Tail(queue), p)
    BY <1>4
  <2>2. PICK U : U = T \cup {p}
    OBVIOUS
  <2>3. queue \in Seq(U) /\ p \in U
    BY <1>1, <2>2
  <2>4. PICK q \in Seq(U) : q = Tail(queue)
    <3>1. Tail(queue) \in Seq(U)
      BY <2>3
    <3>2. QED
      BY <3>1, Zenon
  <2>5. \A h : ~About(p, Network(h))
    BY <2>1 DEF About, Network
  <2>6. \A h \in connected : Leads(queue', Network(h), Presence(info2, dropped', h), "listed")
    BY <1>2, <2>1, <2>3, <2>4, <2>5, LeadsAppend
  <2>7. QED
    BY <2>6 DEF ListedOK
<1>5. QED
  BY <1>3, <1>4

\* All handlers but that of a report leave the table alone.
LEMMA OtherListed ==
  ASSUME QueueOK, queue # <<>>, ListedOK, Head(queue).op # "notify",
         \/ queue' = Tail(queue)
         \/ \E p : p.op = "items" /\ queue' = Append(Tail(queue), p),
         UNCHANGED <<connected, dropped, mDataItemCache>>
  PROVE  ListedOK'
<1>1. PICK info : info = mDataItemCache["networkInfo"]
  OBVIOUS
<1>2. \A h : ~About(Head(queue), Network(h))
  BY DEF About, Network
<1>3. QED
  BY <1>1, <1>2, HandledListed

LEMMA NotifyListed ==
  ASSUME IInv, ListedOK, HandleNotify
  PROVE  ListedOK'
<1>1. queue # <<>> /\ Head(queue).op = "notify" /\ Head(queue).item \in Items
      /\ Head(queue).report \in Reports(Head(queue).item)
  BY Handling1 DEF HandleNotify, Handling, IInv, CallOK
<1>2. PICK j \in Items : j = Head(queue).item
  BY <1>1
<1>3. PICK e \in Reports(j) : e = Head(queue).report
  BY <1>1, <1>2
<1>3a. PICK behind \in Behind(j, mDataItemCache[j]) : NotifyStep(behind)
  BY <1>2, NotifySteps
<1>4. PICK value : value = SetItemInReport(j, e, mDataItemCache[j], behind)
  OBVIOUS
<1>5. PICK S, cache : NotifyClients(S, cache) /\ mDataItemCache' = cache
                      /\ cache = [mDataItemCache EXCEPT ![j] = value]
  BY <1>2, <1>3, <1>3a, <1>4 DEF NotifyStep
<1>6. \/ queue' = Tail(queue)
      \/ \E p : p.op = "items" /\ queue' = Append(Tail(queue), p)
  BY <1>1, <1>5, PostedQueue DEF IInv
<1>7. UNCHANGED connected
  BY DEF HandleNotify
<1>7a. dropped' = IF j # "networkInfo" THEN dropped
                  ELSE IF FindsNoEntry(j, e, mDataItemCache[j])
                  THEN dropped \cup {e.handle} ELSE dropped \ {e.handle}
  BY <1>2, <1>3, <1>3a DEF NotifyStep
<1>8. PICK info : info = mDataItemCache["networkInfo"]
  OBVIOUS
<1>9. PICK info2 : info2 = mDataItemCache'["networkInfo"]
  OBVIOUS
<1>10. info \in NetworkInfo \cup {None} /\ connected \subseteq Networks
       /\ mDataItemCache \in [Items -> Value \cup {None}]
  BY <1>8 DEF IInv, CopiesOK
<1>11. CASE j # "networkInfo"
  <2>1. info2 = info /\ UNCHANGED dropped
    BY <1>5, <1>7a, <1>8, <1>9, <1>10, <1>11 DEF Items
  <2>2. \A h : ~About(Head(queue), Network(h))
    BY <1>2, <1>11 DEF About, Network
  <2>3. QED
    BY <1>1, <1>6, <1>7, <1>8, <1>9, <2>1, <2>2, HandledListed DEF IInv
<1>12. CASE j = "networkInfo"
  <2>1. e \in NetworkEvent
    BY <1>12, NetworksAssumption DEF Reports
  <2>2. info2 = value /\ value = SetItemInReport("networkInfo", e, info, behind)
    BY <1>4, <1>5, <1>8, <1>9, <1>10, <1>12
  <2>3. behind \in Entry
    BY BehindEntry
  <2>4. /\ value # None
        /\ e.connected => \/ InTable(value.table, e.handle)
                          \/ FindsNoEntry("networkInfo", e, info)
        /\ \A h \in Networks \ {e.handle} :
             info # None /\ InTable(info.table, h) => InTable(value.table, h)
    BY <1>10, <2>1, <2>2, <2>3, NetworkHandled
  <2>5. /\ FindsNoEntry("networkInfo", e, info) => e.handle \in dropped'
        /\ \A h : h \in dropped /\ h # e.handle => h \in dropped'
    BY <1>7a, <1>8, <1>12
  <2>6. ASSUME NEW h \in connected,
               (IF About(Head(queue), Network(h)) THEN Says(Head(queue), Network(h))
                ELSE Presence(info, dropped, h)) = "listed"
        PROVE  Presence(info2, dropped', h) = "listed"
    <3>1. CASE h = e.handle
      <4>1. About(Head(queue), Network(h))
        BY <1>1, <1>2, <1>3, <1>12, <3>1 DEF About, Network
      <4>2. Says(Head(queue), Network(h)) = IF e.connected THEN "listed" ELSE "gone"
        BY <1>3 DEF Says, Network
      <4>3. e.connected
        BY <2>6, <4>1, <4>2
      <4>4. QED
        BY <2>2, <2>4, <2>5, <3>1, <4>3 DEF Presence
    <3>2. CASE h # e.handle
      <4>1. ~About(Head(queue), Network(h))
        BY <1>3, <3>2 DEF About, Network
      <4>2. h \in dropped \/ (info # None /\ InTable(info.table, h))
        BY <2>6, <4>1 DEF Presence
      <4>3. QED
        BY <1>10, <2>2, <2>4, <2>5, <3>2, <4>2 DEF Presence
    <3>3. QED
      BY <3>1, <3>2
  <2>7. QED
    BY <1>1, <1>6, <1>7, <1>8, <1>9, <2>6, HandledListed DEF IInv
<1>13. QED
  BY <1>11, <1>12

\* A message is sent.
LEMMA SentListed ==
  ASSUME QueueOK, ListedOK, NEW m, queue' = Append(queue, m),
         UNCHANGED <<mDataItemCache, dropped>>,
         \A h \in connected' : IF About(m, Network(h)) THEN Says(m, Network(h)) = "listed"
                               ELSE h \in connected
  PROVE  ListedOK'
<1>1. PICK T : queue \in Seq(T)
  BY DEF QueueOK
<1>2. PICK U : U = T \cup {m}
  OBVIOUS
<1>3. queue \in Seq(U) /\ m \in U
  BY <1>1, <1>2
<1>4. PICK info : info = mDataItemCache["networkInfo"]
  OBVIOUS
<1>5. ASSUME NEW h \in connected'
      PROVE  Leads(Append(queue, m), Network(h), Presence(info, dropped, h), "listed")
  <2>1. IF About(m, Network(h)) THEN Says(m, Network(h)) = "listed"
        ELSE Leads(queue, Network(h), Presence(info, dropped, h), "listed")
    BY <1>4 DEF ListedOK
  <2>2. QED
    BY <1>3, <2>1, LeadsAppend
<1>6. QED
  BY <1>4, <1>5 DEF ListedOK

LEMMA CallListed ==
  ASSUME IInv, ListedOK, FrameworkCalls \/ \E c \in Clients : ClientCalls(c)
  PROVE  ListedOK'
<1>1. CASE SetSubscriptionObj \/ \E c \in Clients : ClientCalls(c)
  <2>1. PICK m : m.op # "notify" /\ queue' = Append(queue, m)
    BY <1>1 DEF SetSubscriptionObj, ClientCalls, Subscribe, RequestData, UpdateSubscription,
                Unsubscribe, UnsubscribeAll, Call, Send
  <2>2. UNCHANGED <<mDataItemCache, connected, dropped>>
    BY <1>1 DEF SetSubscriptionObj, ClientCalls, Subscribe, RequestData, UpdateSubscription,
                Unsubscribe, UnsubscribeAll, Call, callFrame
  <2>3. \A h : ~About(m, Network(h))
    BY <2>1 DEF About, Network
  <2>4. QED
    BY <2>1, <2>2, <2>3, SentListed DEF IInv
<1>2. CASE \E i \in Items : \E r \in Reports(i) : Notify(i, r)
  <2>1. PICK i \in Items : \E r \in Reports(i) : Notify(i, r)
    BY <1>2
  <2>2. PICK r \in Reports(i) : Notify(i, r)
    BY <2>1
  <2>3. PICK m : m = [op |-> "notify", item |-> i, report |-> r]
    OBVIOUS
  <2>4. m.op = "notify" /\ m.item = i /\ m.report = r
    BY <2>3
  <2>5. queue' = Append(queue, m) /\ UNCHANGED <<mDataItemCache, dropped>>
        /\ connected' = IF i # "networkInfo" THEN connected
                        ELSE IF r.connected THEN connected \cup {r.handle}
                        ELSE connected \ {r.handle}
    BY <2>2, <2>3 DEF Notify, Send
  <2>6. ASSUME NEW h \in connected'
        PROVE  IF About(m, Network(h)) THEN Says(m, Network(h)) = "listed"
               ELSE h \in connected
    <3>1. About(m, Network(h)) <=> i = "networkInfo" /\ r.handle = h
      BY <2>4 DEF About, Network
    <3>2. Says(m, Network(h)) = IF r.connected THEN "listed" ELSE "gone"
      BY <2>4 DEF Says, Network
    <3>3. QED
      BY <2>5, <2>6, <3>1, <3>2
  <2>7. QED
    BY <2>5, <2>6, SentListed DEF IInv
<1>3. QED
  BY <1>1, <1>2 DEF FrameworkCalls

LEMMA HandleListed ==
  ASSUME IInv, ListedOK, HandleCall \/ HandleItems
  PROVE  ListedOK'
<1>1. CASE HandleNotify
  BY <1>1, NotifyListed
<1>2. CASE \/ \E request \in BOOLEAN : HandleSubscribe(request)
           \/ HandleUpdateSubscription
  <2>1. /\ queue # <<>> /\ Head(queue).op # "notify"
        /\ \E S : NotifyClients(S, mDataItemCache)
        /\ UNCHANGED <<connected, dropped, mDataItemCache>>
    BY <1>2 DEF HandleSubscribe, HandleUpdateSubscription, Handling, handlerFrame
  <2>2. \/ queue' = Tail(queue)
        \/ \E p : p.op = "items" /\ queue' = Append(Tail(queue), p)
    BY <2>1, PostedQueue DEF IInv
  <2>3. QED
    BY <2>1, <2>2, OtherListed DEF IInv
<1>3. CASE HandleUnsubscribe \/ HandleUnsubscribeAll \/ HandleSetSubscriptionObj \/ HandleItems
  <2>1. /\ queue # <<>> /\ Head(queue).op # "notify" /\ queue' = Tail(queue)
        /\ UNCHANGED <<connected, dropped, mDataItemCache>>
    BY <1>3 DEF HandleUnsubscribe, HandleUnsubscribeAll, HandleSetSubscriptionObj,
                HandleItems, Handling, handlerFrame, SilentStep
  <2>2. QED
    BY <2>1, OtherListed DEF IInv
<1>4. QED
  BY <1>1, <1>2, <1>3 DEF HandleCall

LEMMA InitListed == ObserverInit => ListedOK
BY DEF ObserverInit, NobodySubscribed, ListedOK

LEMMA NextListed ==
  ASSUME IInv, ListedOK, [ObserverNext]_observerVars
  PROVE  ListedOK'
<1>1. CASE ObserverNext
  BY <1>1, CallListed, HandleListed DEF ObserverNext
<1>2. CASE UNCHANGED observerVars
  BY <1>2 DEF observerVars, ListedOK
<1>3. QED
  BY <1>1, <1>2

\* A network that is connected by its last report is in the table once no report is
\* waiting, unless it found the table full, whatever other networks have come and gone:
\* their entries are written and freed before and behind its own, and in a full table
\* with whatever is behind it.
THEOREM ConnectedListed == ObserverSpec => []ConnectedIsListed
<1>1. ObserverInit => IInv /\ ListedOK
  BY InitIInv, InitListed
<1>2. IInv /\ ListedOK /\ [ObserverNext]_observerVars => (IInv /\ ListedOK)'
  BY NextIInv, NextListed
<1>3. ListedOK => ConnectedIsListed
  <2> SUFFICES ASSUME ListedOK, \A k \in DOMAIN queue : queue[k].op # "notify",
                      NEW h \in connected \ dropped
               PROVE  \E s \in Slots : mDataItemCache["networkInfo"].table[s].handle = h
    BY DEF ConnectedIsListed
  <2>1. Leads(queue, Network(h), Presence(mDataItemCache["networkInfo"], dropped, h), "listed")
    BY DEF ListedOK
  <2>2. ~LastSays(queue, Network(h), "listed")
    BY DEF LastSays, About, Network
  <2>3. QED
    BY <2>1, <2>2 DEF Leads, Presence, InTable
<1>4. QED
  BY <1>1, <1>2, <1>3, PTL DEF ObserverSpec

-----------------------------------------------------------------------------
(***************************************************************************)
(* XtraStatus.  Its steps are steps of the observer, or send or handle a   *)
(* message of their own.                                                   *)
(***************************************************************************)
XtraOps == {"lock", "throttle", "status"}

XtraSends == \E m : /\ m.op \in XtraOps /\ CallOK(m)
                    /\ queue' = Append(queue, m) /\ UNCHANGED callFrame

XtraHandles == /\ queue # <<>> /\ Head(queue).op \in XtraOps
               /\ queue' = Tail(queue) /\ UNCHANGED callFrame

\* Steps of the observer whose clients make no calls of their own.
XtraObserves == FrameworkCalls \/ HandleCall \/ HandleItems

LEMMA XtraSteps ==
  ASSUME [Next]_vars
  PROVE  XtraObserves \/ XtraSends \/ XtraHandles \/ UNCHANGED observerVars
<1>1. CASE HandleCall /\ UNCHANGED xtraVars
  BY <1>1 DEF XtraObserves
<1>2. CASE HandleXtraItems
  BY <1>2 DEF HandleXtraItems, XtraObserves
<1>3. CASE FrameworkCalls /\ UNCHANGED xtraVars
  BY <1>3 DEF XtraObserves
<1>4. CASE HandleLock \/ HandleThrottle \/ HandleStatus
  BY <1>4 DEF HandleLock, HandleThrottle, HandleStatus, Handling, XtraHandles, XtraOps
<1>5. CASE \E lock \in Locks : AdapterCall([op |-> "lock", lock |-> lock])
  BY <1>5 DEF AdapterCall, Send, XtraSends, XtraOps, CallOK
<1>6. CASE \E enabled \in BOOLEAN : AdapterCall([op |-> "throttle", enabled |-> enabled])
  BY <1>6 DEF AdapterCall, Send, XtraSends, XtraOps, CallOK
<1>7. CASE DaemonAsks
  BY <1>7 DEF DaemonAsks, Ask, Send, daemonFrame, XtraSends, XtraOps, CallOK
<1>8. CASE DaemonHears
  <2>1. UNCHANGED callFrame
    BY <1>8 DEF DaemonHears, daemonFrame
  <2>2. UNCHANGED queue \/ Ask(TRUE) \/ Ask(FALSE)
    BY <1>8 DEF DaemonHears
  <2>3. CASE UNCHANGED queue
    BY <2>1, <2>3 DEF callFrame, observerVars
  <2>4. CASE Ask(TRUE) \/ Ask(FALSE)
    BY <2>1, <2>4 DEF Ask, Send, XtraSends, XtraOps, CallOK
  <2>5. QED
    BY <2>2, <2>3, <2>4
<1>9. CASE SendHalInit \/ DaemonStarts \/ DaemonStops \/ UNCHANGED vars
  BY <1>9 DEF SendHalInit, DaemonStarts, DaemonStops, daemonFrame, callFrame, observerVars, vars
<1>10. QED
  BY <1>1, <1>2, <1>3, <1>4, <1>5, <1>6, <1>7, <1>8, <1>9
  DEF Next, MsgTaskStep, DaemonStep

LEMMA XtraKeeps ==
  ASSUME IInv, ClientsOK, [Next]_vars
  PROVE  IInv' /\ ClientsOK'
<1>1. CASE XtraObserves \/ UNCHANGED observerVars
  <2>1. [ObserverNext]_observerVars
    BY <1>1 DEF XtraObserves, ObserverNext
  <2>2. QED
    BY <2>1, NextIInv, NextClients
<1>2. CASE XtraSends \/ XtraHandles
  <2>1. UNCHANGED <<mClientToDataItems, mDataItemToClients, onlyRequested, mDataItemCache,
                    mSubscriptionObj, framework, misread, seen, mistaken, connected>>
    BY <1>2 DEF XtraSends, XtraHandles, callFrame, maps, told
  <2>2. QueueOK'
    BY <1>2, Sending, Dropping DEF XtraSends, XtraHandles, IInv
  <2>3. ClientsOK'
    BY <1>2, <2>1, SentClients, HandledClients DEF XtraSends, XtraHandles, XtraOps
  <2>4. QED
    BY <2>1, <2>2, <2>3
    DEF IInv, MapsOK, CopiesOK, FrameworkOK, MapsAreInverse, Entries
<1>3. QED
  BY <1>1, <1>2, XtraSteps

LEMMA XtraInit ==
  ASSUME Init
  PROVE  IInv /\ ClientsOK
<1>1. PICK m : m = [op |-> "subscribe", client |-> Xtra, items |-> {"networkInfo", "mccmnc"}]
  OBVIOUS
<1>2. PICK p : p = [op |-> "requestData", client |-> Xtra, items |-> {"tac"}]
  OBVIOUS
<1>3. CallOK(m) /\ CallOK(p)
  BY <1>1, <1>2, ClientsAssumption DEF CallOK, Items
<1>4. PICK S : S = {m, p}
  OBVIOUS
<1>5. queue = <<m, p>> /\ <<m, p>> \in Seq(S)
  BY <1>1, <1>2, <1>4 DEF Init
<1>6. QueueOK
  BY <1>3, <1>4, <1>5 DEF QueueOK
<1>7. NobodySubscribed
  BY DEF Init
<1>8. MapsOK /\ CopiesOK /\ FrameworkOK /\ MapsAreInverse
  BY <1>7 DEF NobodySubscribed, Nothing, Items, MapsOK, CopiesOK, FrameworkOK,
         MapsAreInverse, Entries, maps
<1>9. QED
  BY <1>6, <1>7, <1>8, InitClients DEF IInv

-----------------------------------------------------------------------------
(***************************************************************************)
(* XTRA gets all items, and what it sees is cached: its subscription is    *)
(* under way until it is related to an item, and nothing takes it back.    *)
(***************************************************************************)
InQueue(q) == {q[k] : k \in DOMAIN q}

WantedOK ==
  /\ \A m \in InQueue(queue) :
       m.op \notin {"updateSubscription", "unsubscribe", "unsubscribeAll"}
  /\ \A i \in Items :
       \/ Related(Xtra, i)
       \/ \E m \in InQueue(queue) : /\ m.op \in {"subscribe", "requestData"}
                                    /\ m.client = Xtra /\ i \in m.items

KnownOK ==
  \A i \in Items : mDataItemCache[i] = None =>
    /\ seen[Xtra][i] = None
    /\ \A m \in InQueue(queue) : m.op = "items" => i \notin DOMAIN m.values

LEMMA InTail ==
  ASSUME NEW T, NEW q \in Seq(T), q # <<>>
  PROVE  InQueue(q) = {Head(q)} \cup InQueue(Tail(q))
<1>1. PICK n \in Nat : n = Len(q) /\ n >= 1
  OBVIOUS
<1>2. PICK t : t = Tail(q)
  OBVIOUS
<1>3. /\ DOMAIN q = 1..n /\ DOMAIN t = 1..(n - 1) /\ Head(q) = q[1]
      /\ \A k \in 1..(n - 1) : t[k] = q[k + 1]
  BY <1>1, <1>2
<1>4. \A k \in 1..n : k = 1 \/ (k - 1 \in 1..(n - 1) /\ (k - 1) + 1 = k)
  OBVIOUS
<1>5. \A k \in 1..(n - 1) : k + 1 \in 1..n
  OBVIOUS
<1>6. 1 \in 1..n
  BY <1>1
<1>7. InQueue(q) \subseteq {Head(q)} \cup InQueue(t)
  <2> SUFFICES ASSUME NEW k \in 1..n
               PROVE  q[k] \in {Head(q)} \cup InQueue(t)
    BY <1>3 DEF InQueue
  <2>1. CASE k = 1
    BY <1>3, <2>1
  <2>2. CASE k # 1
    <3>1. k - 1 \in 1..(n - 1) /\ t[k - 1] = q[k]
      BY <1>3, <1>4, <2>2
    <3>2. QED
      BY <1>3, <3>1 DEF InQueue
  <2>3. QED
    BY <2>1, <2>2
<1>8. {Head(q)} \cup InQueue(t) \subseteq InQueue(q)
  BY <1>3, <1>5, <1>6 DEF InQueue
<1>9. QED
  BY <1>2, <1>7, <1>8

LEMMA InAppend ==
  ASSUME NEW T, NEW q \in Seq(T), NEW m
  PROVE  InQueue(Append(q, m)) = InQueue(q) \cup {m}
<1>1. PICK n \in Nat : n = Len(q)
  OBVIOUS
<1>2. PICK a : a = Append(q, m)
  OBVIOUS
<1>3. PICK U : U = T \cup {m}
  OBVIOUS
<1>4. q \in Seq(U) /\ m \in U
  BY <1>3
<1>5. /\ DOMAIN q = 1..n /\ DOMAIN a = 1..(n + 1) /\ a[n + 1] = m
      /\ \A k \in 1..n : a[k] = q[k]
  BY <1>1, <1>2, <1>4
<1>6. \A k \in 1..(n + 1) : k = n + 1 \/ k \in 1..n
  OBVIOUS
<1>7. n + 1 \in 1..(n + 1) /\ \A k \in 1..n : k \in 1..(n + 1)
  OBVIOUS
<1>8. InQueue(a) \subseteq InQueue(q) \cup {m}
  BY <1>5, <1>6 DEF InQueue
<1>9. InQueue(q) \cup {m} \subseteq InQueue(a)
  BY <1>5, <1>7 DEF InQueue
<1>10. QED
  BY <1>2, <1>8, <1>9

\* What a step leaves in the queue, and adds to it.
LEMMA QueueSteps ==
  ASSUME QueueOK
  PROVE  /\ queue # <<>> =>
              /\ InQueue(queue) = {Head(queue)} \cup InQueue(Tail(queue))
              /\ \A p : InQueue(Append(Tail(queue), p)) = InQueue(Tail(queue)) \cup {p}
         /\ \A p : InQueue(Append(queue, p)) = InQueue(queue) \cup {p}
<1>1. PICK T : queue \in Seq(T)
  BY DEF QueueOK
<1>2. \A p : InQueue(Append(queue, p)) = InQueue(queue) \cup {p}
  BY <1>1, InAppend
<1>3. ASSUME queue # <<>>
      PROVE  /\ InQueue(queue) = {Head(queue)} \cup InQueue(Tail(queue))
             /\ \A p : InQueue(Append(Tail(queue), p)) = InQueue(Tail(queue)) \cup {p}
  <2>1. Tail(queue) \in Seq(T)
    BY <1>1, <1>3
  <2>2. PICK q \in Seq(T) : q = Tail(queue)
    BY <2>1, Zenon
  <2>3. \A p : InQueue(Append(q, p)) = InQueue(q) \cup {p}
    BY InAppend
  <2>4. QED
    BY <1>1, <1>3, <2>2, <2>3, InTail
<1>4. QED
  BY <1>2, <1>3

\* A message is sent that neither takes anything back nor has values.
LEMMA SentWanted ==
  ASSUME QueueOK, WantedOK, KnownOK, NEW m,
         m.op \notin {"updateSubscription", "unsubscribe", "unsubscribeAll", "items"},
         queue' = Append(queue, m),
         UNCHANGED <<mClientToDataItems, mDataItemToClients, mDataItemCache, seen>>
  PROVE  WantedOK' /\ KnownOK'
<1>1. InQueue(queue') = InQueue(queue) \cup {m}
  BY QueueSteps
<1>2. QED
  BY <1>1 DEF WantedOK, KnownOK, Related

\* A message is handled, and another one with values posted, if any.
LEMMA HandledWanted ==
  ASSUME QueueOK, queue # <<>>, WantedOK, KnownOK,
         \/ queue' = Tail(queue)
         \/ \E p : /\ p.op = "items" /\ queue' = Append(Tail(queue), p)
                   /\ \A i \in Items \cap DOMAIN p.values : mDataItemCache'[i] # None,
         \A i \in Items : mDataItemCache'[i] = None =>
           mDataItemCache[i] = None /\ seen'[Xtra][i] = None,
         \A i \in Items :
           Related(Xtra, i) \/ ( /\ Head(queue).op \in {"subscribe", "requestData"}
                                 /\ Head(queue).client = Xtra /\ i \in Head(queue).items )
             => Related(Xtra, i)'
  PROVE  WantedOK' /\ KnownOK'
<1>1. InQueue(queue) = {Head(queue)} \cup InQueue(Tail(queue))
  BY QueueSteps
<1>2. \/ InQueue(queue') = InQueue(Tail(queue))
      \/ \E p : /\ p.op = "items" /\ InQueue(queue') = InQueue(Tail(queue)) \cup {p}
                /\ \A i \in Items \cap DOMAIN p.values : mDataItemCache'[i] # None
  BY QueueSteps
<1>3. PICK before, after : before = InQueue(queue) /\ after = InQueue(queue')
  OBVIOUS
<1>4. /\ \A m \in after : m \in before \/ m.op = "items"
      /\ \A m \in before : m = Head(queue) \/ m \in after
  BY <1>1, <1>2, <1>3
<1>5. \A m \in after : m.op = "items" =>
        \/ m \in before
        \/ \A i \in Items \cap DOMAIN m.values : mDataItemCache'[i] # None
  BY <1>1, <1>2, <1>3
<1>6. WantedOK'
  <2>1. \A m \in after : m.op \notin {"updateSubscription", "unsubscribe", "unsubscribeAll"}
    BY <1>3, <1>4 DEF WantedOK
  <2>2. ASSUME NEW i \in Items, ~Related(Xtra, i)'
        PROVE  \E m \in after : /\ m.op \in {"subscribe", "requestData"}
                                /\ m.client = Xtra /\ i \in m.items
    <3>1. ~Related(Xtra, i)
      BY <2>2
    <3>2. PICK m \in before : /\ m.op \in {"subscribe", "requestData"}
                              /\ m.client = Xtra /\ i \in m.items
      BY <1>3, <3>1 DEF WantedOK
    <3>3. m # Head(queue)
      BY <2>2, <3>2
    <3>4. QED
      BY <1>4, <3>2, <3>3
  <2>3. QED
    BY <1>3, <2>1, <2>2 DEF WantedOK, Related
<1>7. KnownOK'
  <2> SUFFICES ASSUME NEW i \in Items, mDataItemCache'[i] = None
               PROVE  /\ seen'[Xtra][i] = None
                      /\ \A m \in after : m.op = "items" => i \notin DOMAIN m.values
    BY <1>3 DEF KnownOK
  <2>1. mDataItemCache[i] = None /\ seen'[Xtra][i] = None
    OBVIOUS
  <2>2. \A m \in before : m.op = "items" => i \notin DOMAIN m.values
    BY <1>3, <2>1 DEF KnownOK
  <2>3. QED
    BY <1>5, <2>1, <2>2
<1>8. QED
  BY <1>6, <1>7

LEMMA SubscribeWanted ==
  ASSUME IInv, WantedOK, KnownOK, NEW request \in BOOLEAN, HandleSubscribe(request)
  PROVE  WantedOK' /\ KnownOK'
<1>1. queue # <<>> /\ Head(queue).client \in Clients /\ Head(queue).items \subseteq Items
  BY Handling1 DEF HandleSubscribe, Handling, IInv, CallOK
<1>2. PICK d \in Clients : d = Head(queue).client
  BY <1>1
<1>3. PICK L : L = Head(queue).items
  OBVIOUS
<1>4. PICK S : S = OnlyTo(d, L)
  OBVIOUS
<1>5. /\ mDataItemToClients' = With(d, L)
      /\ mClientToDataItems' = [mClientToDataItems EXCEPT ![d] = @ \cup L]
      /\ NotifyClients(S, mDataItemCache)
      /\ UNCHANGED mDataItemCache
  BY <1>2, <1>3, <1>4 DEF HandleSubscribe, handlerFrame
<1>6. \/ queue' = Tail(queue)
      \/ \E p : /\ p.op = "items" /\ queue' = Append(Tail(queue), p)
                /\ \A i \in Items \cap DOMAIN p.values : mDataItemCache'[i] # None
  BY <1>1, <1>5, PostedQueue DEF IInv, Known
<1>7. \A i \in Items : seen'[Xtra][i] = seen[Xtra][i]
  BY <1>5, ClientsAssumption DEF NotifyClients
<1>8. \A i \in Items : Related(Xtra, i) \/ (d = Xtra /\ i \in L) => Related(Xtra, i)'
  BY <1>1, <1>3, <1>5, ClientsAssumption DEF Related, With, IInv, MapsOK
<1>9. QED
  BY <1>1, <1>2, <1>3, <1>5, <1>6, <1>7, <1>8, HandledWanted DEF IInv, KnownOK

LEMMA NotifyWanted ==
  ASSUME IInv, WantedOK, KnownOK, HandleNotify
  PROVE  WantedOK' /\ KnownOK'
<1>1. queue # <<>> /\ Head(queue).op = "notify" /\ Head(queue).item \in Items
      /\ Head(queue).report \in Reports(Head(queue).item)
  BY Handling1 DEF HandleNotify, Handling, IInv, CallOK
<1>2. PICK j \in Items : j = Head(queue).item
  BY <1>1
<1>3. PICK r \in Reports(j) : r = Head(queue).report
  BY <1>1, <1>2
<1>3a. PICK behind \in Behind(j, mDataItemCache[j]) : NotifyStep(behind)
  BY <1>2, NotifySteps
<1>4. PICK value : value = SetItemInReport(j, r, mDataItemCache[j], behind)
  OBVIOUS
<1>5. value # None
  BY <1>4, BehindEntry, Valued, ValuesAssumption DEF IInv
<1>6. PICK S, cache : NotifyClients(S, cache) /\ mDataItemCache' = cache
                      /\ cache = [mDataItemCache EXCEPT ![j] = value] /\ UNCHANGED maps
  BY <1>2, <1>3, <1>3a, <1>4 DEF HandleNotify, NotifyStep
<1>7. \/ queue' = Tail(queue)
      \/ \E p : /\ p.op = "items" /\ queue' = Append(Tail(queue), p)
                /\ \A i \in Items \cap DOMAIN p.values : mDataItemCache'[i] # None
  BY <1>1, <1>6, PostedQueue DEF IInv, Known
<1>8. \A i \in Items : seen'[Xtra][i] = seen[Xtra][i]
  BY <1>6, ClientsAssumption DEF NotifyClients
<1>9. \A i \in Items : mDataItemCache'[i] = None => mDataItemCache[i] = None
  BY <1>5, <1>6 DEF IInv, CopiesOK
<1>10. \A i \in Items : Related(Xtra, i) => Related(Xtra, i)'
  BY <1>6 DEF Related, maps
<1>11. QED
  BY <1>1, <1>7, <1>8, <1>9, <1>10, HandledWanted DEF IInv, KnownOK

LEMMA ItemsWanted ==
  ASSUME IInv, WantedOK, KnownOK, HandleItems
  PROVE  WantedOK' /\ KnownOK'
<1>1. queue # <<>> /\ Head(queue).op = "items" /\ queue' = Tail(queue)
      /\ UNCHANGED <<maps, mDataItemCache>>
  BY DEF HandleItems, Handling
<1>2. PICK values : values = Head(queue).values
  OBVIOUS
<1>3. \A i \in Items : seen'[Xtra][i] = IF i \in DOMAIN values THEN values[i] ELSE seen[Xtra][i]
  BY <1>2, ClientsAssumption DEF HandleItems, IInv, CopiesOK
<1>4. Head(queue) \in InQueue(queue)
  BY <1>1, QueueSteps DEF IInv
<1>5. \A i \in Items : mDataItemCache[i] = None => seen'[Xtra][i] = None
  BY <1>1, <1>2, <1>3, <1>4 DEF KnownOK
<1>6. \A i \in Items : Related(Xtra, i) => Related(Xtra, i)'
  BY <1>1 DEF Related, maps
<1>7. QED
  BY <1>1, <1>5, <1>6, HandledWanted DEF IInv

LEMMA NextWanted ==
  ASSUME IInv, WantedOK, KnownOK, [Next]_vars
  PROVE  WantedOK' /\ KnownOK'
<1>1. CASE FrameworkCalls
  <2>1. PICK m : /\ m.op \in {"setSubscriptionObj", "notify"} /\ queue' = Append(queue, m)
                 /\ UNCHANGED <<mClientToDataItems, mDataItemToClients, mDataItemCache, seen>>
    BY <1>1 DEF FrameworkCalls, SetSubscriptionObj, Notify, Send, callFrame, maps
  <2>2. QED
    BY <2>1, SentWanted DEF IInv
<1>2. CASE HandleUpdateSubscription \/ HandleUnsubscribe \/ HandleUnsubscribeAll
  <2>1. queue # <<>>
        /\ Head(queue).op \in {"updateSubscription", "unsubscribe", "unsubscribeAll"}
    BY <1>2 DEF HandleUpdateSubscription, HandleUnsubscribe, HandleUnsubscribeAll, Handling
  <2>2. Head(queue) \in InQueue(queue)
    BY <2>1, QueueSteps DEF IInv
  <2>3. QED
    BY <2>1, <2>2 DEF WantedOK
<1>3. CASE HandleSetSubscriptionObj \/ XtraHandles
  <2>1. /\ queue # <<>> /\ Head(queue).op \in XtraOps \cup {"setSubscriptionObj"}
        /\ queue' = Tail(queue)
        /\ UNCHANGED <<mClientToDataItems, mDataItemToClients, mDataItemCache, seen>>
    BY <1>3 DEF HandleSetSubscriptionObj, XtraHandles, Handling, SilentStep, handlerFrame,
                callFrame, maps
  <2>2. \A i \in Items : Related(Xtra, i) => Related(Xtra, i)'
    BY <2>1 DEF Related
  <2>3. Head(queue).op \notin {"subscribe", "requestData"}
    BY <2>1 DEF XtraOps
  <2>4. QED
    BY <2>1, <2>2, <2>3, HandledWanted DEF IInv, KnownOK
<1>4. CASE XtraSends
  <2>1. PICK m : /\ m.op \in XtraOps /\ queue' = Append(queue, m)
                 /\ UNCHANGED <<mClientToDataItems, mDataItemToClients, mDataItemCache, seen>>
    BY <1>4 DEF XtraSends, callFrame, maps
  <2>2. QED
    BY <2>1, SentWanted DEF IInv, XtraOps
<1>5. CASE UNCHANGED observerVars
  BY <1>5 DEF observerVars, maps, WantedOK, KnownOK, Related
<1>6. CASE HandleNotify \/ HandleItems \/ \E request \in BOOLEAN : HandleSubscribe(request)
  BY <1>6, NotifyWanted, ItemsWanted, SubscribeWanted
<1>7. QED
  BY <1>1, <1>2, <1>3, <1>4, <1>5, <1>6, XtraSteps DEF XtraObserves, HandleCall

LEMMA InitWanted ==
  ASSUME Init
  PROVE  WantedOK /\ KnownOK
<1>1. PICK m : m = [op |-> "subscribe", client |-> Xtra, items |-> {"networkInfo", "mccmnc"}]
  OBVIOUS
<1>2. PICK p : p = [op |-> "requestData", client |-> Xtra, items |-> {"tac"}]
  OBVIOUS
<1>3. queue = <<m, p>>
  BY <1>1, <1>2 DEF Init
<1>4. InQueue(queue) = {m, p}
  <2>1. DOMAIN queue = {1, 2} /\ queue[1] = m /\ queue[2] = p
    BY <1>3
  <2>2. QED
    BY <2>1 DEF InQueue
<1>5. /\ m.op = "subscribe" /\ m.client = Xtra /\ m.items = {"networkInfo", "mccmnc"}
      /\ p.op = "requestData" /\ p.client = Xtra /\ p.items = {"tac"}
  BY <1>1, <1>2
<1>6. WantedOK
  BY <1>4, <1>5 DEF WantedOK, Items
<1>7. KnownOK
  BY <1>4, <1>5, ClientsAssumption DEF KnownOK, Init, NobodySubscribed, Nothing
<1>8. QED
  BY <1>6, <1>7

-----------------------------------------------------------------------------
(***************************************************************************)
(* DaemonIsUpToDate: what the daemon has been told and the datagrams it    *)
(* has not read lead to what the observer knows, once it is answered.      *)
(***************************************************************************)
ToldOK(d) ==
  /\ d.op \in {"halinit", "gpslock", "xtrathrottle", "items", "respondStatus"}
  /\ d.op = "respondStatus" => d.items \in [Items -> Value \cup {None}]
  /\ d.op = "items" => IsCopy(d.values)

ViewOK(view) ==
  /\ view = [lock |-> view.lock, throttle |-> view.throttle, items |-> view.items]
  /\ view.items \in [Items -> Value \cup {None}]

LinkOK ==
  /\ \E T : toDaemon \in Seq(T) /\ \A d \in T : ToldOK(d)
  /\ daemon = [at |-> daemon.at, view |-> daemon.view]
  /\ ViewOK(daemon.view)
  /\ daemon.at = "down" => toDaemon = <<>>

Hearing == daemon.at = "informed" \/ \E d \in InQueue(toDaemon) : d.op = "respondStatus"

HearingOK ==
  Hearing =>
    /\ mReqStatusReceived
    /\ Leads(toDaemon, Lock, daemon.view.lock, mGpsLock)
    /\ \A i \in Items : Leads(toDaemon, Item(i), daemon.view.items[i], seen[Xtra][i])

\* An answer says everything.
LEMMA AnswerSays ==
  ASSUME NEW d, d.op = "respondStatus"
  PROVE  /\ About(d, Lock) /\ Says(d, Lock) = d.lock
         /\ \A i : About(d, Item(i)) /\ Says(d, Item(i)) = d.items[i]
<1>1. About(d, Lock) /\ Says(d, Lock) = d.lock
  BY DEF About, Says, Lock
<1>2. \A i : About(d, Item(i))
  BY DEF About, Item
<1>3. \A i : Says(d, Item(i)) = d.items[i]
  BY DEF Says, Item
<1>4. QED
  BY <1>1, <1>2, <1>3

\* A datagram is sent, with what has changed; or nobody is there to hear it.
LEMMA TellingKeeps ==
  ASSUME LinkOK, HearingOK, NEW d, ToldOK(d),
         SendToDaemon(d) \/ (~mReqStatusReceived /\ UNCHANGED toDaemon),
         UNCHANGED daemon,
         mReqStatusReceived \/ d.op = "respondStatus" => mReqStatusReceived',
         IF About(d, Lock) THEN Says(d, Lock) = mGpsLock' ELSE UNCHANGED mGpsLock,
         \A i \in Items : IF About(d, Item(i)) THEN Says(d, Item(i)) = seen'[Xtra][i]
                          ELSE seen'[Xtra][i] = seen[Xtra][i]
  PROVE  LinkOK' /\ HearingOK'
<1>1. PICK T : toDaemon \in Seq(T) /\ \A e \in T : ToldOK(e)
  BY DEF LinkOK
<1>2. CASE UNCHANGED toDaemon /\ (daemon.at = "down" \/ ~mReqStatusReceived)
  <2>1. daemon.at = "down" => InQueue(toDaemon) = {}
    BY DEF LinkOK, InQueue
  <2>2. ~Hearing
    BY <1>2, <2>1 DEF HearingOK, Hearing
  <2>3. QED
    BY <1>2, <2>2 DEF LinkOK, HearingOK, Hearing
<1>3. CASE daemon.at # "down" /\ toDaemon' = Append(toDaemon, d)
  <2>1. PICK U : U = T \cup {d}
    OBVIOUS
  <2>2. toDaemon \in Seq(U) /\ d \in U /\ \A e \in U : ToldOK(e)
    BY <1>1, <2>1
  <2>3. toDaemon' \in Seq(U)
    BY <1>3, <2>2
  <2>4. LinkOK'
    BY <1>3, <2>2, <2>3 DEF LinkOK
  <2>5. InQueue(toDaemon') = InQueue(toDaemon) \cup {d}
    BY <1>1, <1>3, InAppend
  <2>6. ASSUME Hearing'
        PROVE  /\ mReqStatusReceived'
               /\ Leads(toDaemon', Lock, daemon.view.lock, mGpsLock')
               /\ \A i \in Items :
                    Leads(toDaemon', Item(i), daemon.view.items[i], seen'[Xtra][i])
    <3>1. Hearing \/ d.op = "respondStatus"
      BY <2>5, <2>6 DEF Hearing
    <3>2. d.op = "respondStatus" => About(d, Lock) /\ \A i : About(d, Item(i))
      BY AnswerSays
    <3>3. PICK lock : lock = mGpsLock'
      OBVIOUS
    <3>4. IF About(d, Lock) THEN Says(d, Lock) = lock
          ELSE Leads(toDaemon, Lock, daemon.view.lock, lock)
      BY <3>1, <3>2, <3>3 DEF HearingOK
    <3>5. Leads(toDaemon', Lock, daemon.view.lock, lock)
      BY <1>3, <2>2, <3>4, LeadsAppend
    <3>6. ASSUME NEW i \in Items
          PROVE  Leads(toDaemon', Item(i), daemon.view.items[i], seen'[Xtra][i])
      <4>1. PICK v : v = seen'[Xtra][i]
        OBVIOUS
      <4>2. IF About(d, Item(i)) THEN Says(d, Item(i)) = v
            ELSE Leads(toDaemon, Item(i), daemon.view.items[i], v)
        BY <3>1, <3>2, <4>1 DEF HearingOK
      <4>3. Leads(toDaemon', Item(i), daemon.view.items[i], v)
        BY <1>3, <2>2, <4>2, LeadsAppend
      <4>4. QED
        BY <4>1, <4>3
    <3>7. mReqStatusReceived'
      BY <3>1 DEF HearingOK
    <3>8. QED
      BY <3>3, <3>5, <3>6, <3>7
  <2>7. QED
    BY <2>4, <2>6 DEF HearingOK
<1>4. QED
  BY <1>2, <1>3 DEF SendToDaemon

\* The daemon makes of a datagram what it says.
LEMMA ToldIs ==
  ASSUME NEW view, ViewOK(view), NEW d, ToldOK(d)
  PROVE  /\ ViewOK(Told(view, d))
         /\ Told(view, d).lock = IF About(d, Lock) THEN Says(d, Lock) ELSE view.lock
         /\ \A i \in Items : Told(view, d).items[i] =
              IF About(d, Item(i)) THEN Says(d, Item(i)) ELSE view.items[i]
<1>1. PICK l, t, s : view = [lock |-> l, throttle |-> t, items |-> s]
                     /\ s \in [Items -> Value \cup {None}]
  BY DEF ViewOK
<1>2. view.lock = l /\ view.throttle = t /\ view.items = s
  BY <1>1
<1>3. CASE d.op = "halinit"
  <2>1. Told(view, d) = view
    BY <1>3 DEF Told
  <2>2. QED
    BY <1>3, <2>1 DEF About, Lock, Item
<1>4. CASE d.op = "gpslock"
  <2>1. Told(view, d) = [lock |-> d.lock, throttle |-> t, items |-> s]
    BY <1>1, <1>4 DEF Told
  <2>2. QED
    BY <1>1, <1>2, <1>4, <2>1 DEF About, Says, Lock, Item, ViewOK
<1>5. CASE d.op = "xtrathrottle"
  <2>1. Told(view, d) = [lock |-> l, throttle |-> d.enabled, items |-> s]
    BY <1>1, <1>5 DEF Told
  <2>2. QED
    BY <1>1, <1>2, <1>5, <2>1 DEF About, Lock, Item, ViewOK
<1>6. CASE d.op = "items"
  <2>1. PICK u : u = [i \in Items |-> IF i \in DOMAIN d.values THEN d.values[i] ELSE s[i]]
    OBVIOUS
  <2>2. Told(view, d) = [lock |-> l, throttle |-> t, items |-> u]
    BY <1>1, <1>2, <1>6, <2>1 DEF Told
  <2>3. u \in [Items -> Value \cup {None}]
    BY <1>1, <1>6, <2>1 DEF ToldOK, IsCopy
  <2>4. QED
    BY <1>2, <1>6, <2>1, <2>2, <2>3 DEF About, Says, Lock, Item, ViewOK
<1>7. CASE d.op = "respondStatus"
  <2>1. Told(view, d) = [lock |-> d.lock, throttle |-> t, items |-> d.items]
    BY <1>1, <1>7 DEF Told
  <2>2. d.items \in [Items -> Value \cup {None}]
    BY <1>7 DEF ToldOK
  <2>3. ViewOK(Told(view, d)) /\ Told(view, d).lock = d.lock /\ Told(view, d).items = d.items
    BY <2>1, <2>2 DEF ViewOK
  <2>4. QED
    BY <1>7, <2>3, AnswerSays
<1>8. QED
  BY <1>3, <1>4, <1>5, <1>6, <1>7 DEF ToldOK

LEMMA HearsKeeps ==
  ASSUME LinkOK, HearingOK, DaemonHears
  PROVE  LinkOK' /\ HearingOK'
<1>1. PICK T : toDaemon \in Seq(T) /\ \A e \in T : ToldOK(e)
  BY DEF LinkOK
<1>2. toDaemon # <<>> /\ toDaemon' = Tail(toDaemon)
  BY DEF DaemonHears
<1>3. PICK d \in T : d = Head(toDaemon)
  BY <1>1, <1>2
<1>4. InQueue(toDaemon) = {d} \cup InQueue(toDaemon')
  BY <1>1, <1>2, <1>3, InTail
<1>5. PICK at, view : daemon = [at |-> at, view |-> view] /\ ViewOK(view)
  BY DEF LinkOK
<1>6. daemon.at = at /\ daemon.view = view
  BY <1>5
<1>7. UNCHANGED <<mGpsLock, mReqStatusReceived, seen>>
  BY DEF DaemonHears, daemonFrame, callFrame, xtraState
<1>8. ToldOK(d)
  BY <1>1, <1>3
<1>9. PICK at2, view2 : daemon' = [at |-> at2, view |-> view2] /\ view2 = Told(view, d)
                        /\ at2 # "down"
                        /\ (at2 = "informed" => at = "informed" \/ d.op = "respondStatus")
  <2>0. at # "down"
    BY <1>2, <1>6 DEF LinkOK
  <2>1. CASE d.op = "halinit"
    <3>1. Told(view, d) = view
      BY <2>1 DEF Told
    <3>2. daemon' = daemon \/ daemon' = [daemon EXCEPT !.at = "asked"]
      BY <1>3, <2>1 DEF DaemonHears
    <3>3. daemon' = [at |-> at, view |-> view] \/ daemon' = [at |-> "asked", view |-> view]
      BY <1>5, <3>2
    <3>4. QED
      BY <2>0, <3>1, <3>3
  <2>2. CASE d.op # "halinit"
    <3>1. daemon' = [at |-> IF d.op = "respondStatus" THEN "informed" ELSE at,
                     view |-> Told(view, d)]
      BY <1>3, <1>6, <2>2 DEF DaemonHears
    <3>2. QED
      BY <2>0, <3>1
  <2>3. QED
    BY <2>1, <2>2
<1>10. daemon'.at = at2 /\ daemon'.view = view2
  BY <1>9
<1>11. toDaemon' \in Seq(T)
  BY <1>1, <1>2
<1>12. LinkOK'
  BY <1>1, <1>5, <1>8, <1>9, <1>10, <1>11, ToldIs DEF LinkOK
<1>13. Hearing' => Hearing
  BY <1>4, <1>6, <1>9, <1>10 DEF Hearing
<1>14. ASSUME Hearing
       PROVE  /\ Leads(toDaemon', Lock, view2.lock, mGpsLock)
              /\ \A i \in Items : Leads(toDaemon', Item(i), view2.items[i], seen[Xtra][i])
  <2>1. /\ Leads(toDaemon, Lock, view.lock, mGpsLock)
        /\ \A i \in Items : Leads(toDaemon, Item(i), view.items[i], seen[Xtra][i])
    BY <1>6, <1>14 DEF HearingOK
  <2>2. /\ view2.lock = IF About(d, Lock) THEN Says(d, Lock) ELSE view.lock
        /\ \A i \in Items : view2.items[i] =
             IF About(d, Item(i)) THEN Says(d, Item(i)) ELSE view.items[i]
    BY <1>5, <1>8, <1>9, ToldIs
  <2>3. PICK l2 : l2 = view2.lock
    OBVIOUS
  <2>4. Leads(toDaemon', Lock, l2, mGpsLock)
    BY <1>1, <1>2, <1>3, <2>1, <2>2, <2>3, LeadsTail
  <2>5. ASSUME NEW i \in Items
        PROVE  Leads(toDaemon', Item(i), view2.items[i], seen[Xtra][i])
    <3>1. PICK v : v = view2.items[i]
      OBVIOUS
    <3>2. Leads(toDaemon', Item(i), v, seen[Xtra][i])
      BY <1>1, <1>2, <1>3, <2>1, <2>2, <3>1, LeadsTail
    <3>3. QED
      BY <3>1, <3>2
  <2>6. QED
    BY <2>3, <2>4, <2>5
<1>15. QED
  BY <1>7, <1>10, <1>12, <1>13, <1>14 DEF HearingOK

\* Steps that leave the daemon, and what the observer knows, alone.
LEMMA QuietKeeps ==
  ASSUME LinkOK, HearingOK, UNCHANGED <<toDaemon, daemon, mGpsLock>>,
         mReqStatusReceived => mReqStatusReceived',
         \A i \in Items : seen'[Xtra][i] = seen[Xtra][i]
  PROVE  LinkOK' /\ HearingOK'
<1>1. LinkOK'
  BY DEF LinkOK
<1>2. Hearing' <=> Hearing
  BY DEF Hearing
<1>3. ASSUME Hearing, NEW i \in Items
      PROVE  Leads(toDaemon, Item(i), daemon.view.items[i], seen'[Xtra][i])
  BY <1>3 DEF HearingOK
<1>4. QED
  BY <1>1, <1>2, <1>3 DEF HearingOK

LEMMA UpdatesKeep ==
  ASSUME IInv, LinkOK, HearingOK,
         HandleXtraItems \/ HandleLock \/ HandleThrottle \/ HandleStatus \/ SendHalInit
  PROVE  LinkOK' /\ HearingOK'
<1>1. CASE HandleXtraItems
  <2>1. PICK values : values = Head(queue).values
    OBVIOUS
  <2>2. IsCopy(values)
    BY <1>1, <2>1, Handling1 DEF HandleXtraItems, HandleItems, Handling, IInv, CallOK
  <2>3. PICK d : d = [op |-> "items", values |-> values]
    OBVIOUS
  <2>4. d.op = "items" /\ d.values = values
    BY <2>3
  <2>5. /\ SendToDaemon(d) \/ (~mReqStatusReceived /\ UNCHANGED toDaemon)
        /\ UNCHANGED <<daemon, mGpsLock, mReqStatusReceived>>
    BY <1>1, <2>1, <2>3 DEF HandleXtraItems, Update, xtraState
  <2>6. \A i \in Items : seen'[Xtra][i] =
          IF i \in DOMAIN values THEN values[i] ELSE seen[Xtra][i]
    BY <1>1, <2>1, ClientsAssumption DEF HandleXtraItems, HandleItems, IInv, CopiesOK
  <2>7. ToldOK(d) /\ ~About(d, Lock)
    BY <2>2, <2>4 DEF ToldOK, About, Lock
  <2>8. \A i \in Items : IF About(d, Item(i)) THEN Says(d, Item(i)) = seen'[Xtra][i]
                         ELSE seen'[Xtra][i] = seen[Xtra][i]
    <3>1. \A i : About(d, Item(i)) <=> i \in DOMAIN values
      BY <2>4 DEF About, Item
    <3>2. \A i : Says(d, Item(i)) = values[i]
      BY <2>4 DEF Says, Item
    <3>3. QED
      BY <2>6, <3>1, <3>2
  <2>9. QED
    BY <2>4, <2>5, <2>7, <2>8, TellingKeeps
<1>2. CASE HandleLock
  <2>1. PICK lock : lock = Head(queue).lock
    OBVIOUS
  <2>2. PICK d : d = [op |-> "gpslock", lock |-> lock]
    OBVIOUS
  <2>3. d.op = "gpslock" /\ d.lock = lock
    BY <2>2
  <2>4. /\ SendToDaemon(d) \/ (~mReqStatusReceived /\ UNCHANGED toDaemon)
        /\ UNCHANGED <<daemon, seen, mReqStatusReceived>> /\ mGpsLock' = lock
    BY <1>2, <2>1, <2>2 DEF HandleLock, Update, callFrame
  <2>5. ToldOK(d) /\ About(d, Lock) /\ Says(d, Lock) = lock /\ \A i : ~About(d, Item(i))
    BY <2>3 DEF ToldOK, About, Says, Lock, Item
  <2>6. QED
    BY <2>3, <2>4, <2>5, TellingKeeps
<1>3. CASE HandleThrottle \/ SendHalInit
  <2>1. PICK d : /\ d.op \in {"xtrathrottle", "halinit"}
                 /\ SendToDaemon(d) \/ (~mReqStatusReceived /\ UNCHANGED toDaemon)
    <3>1. PICK d1 : d1 = [op |-> "xtrathrottle", enabled |-> Head(queue).enabled]
      OBVIOUS
    <3>2. PICK d2 : d2 = [op |-> "halinit"]
      OBVIOUS
    <3>3. d1.op = "xtrathrottle" /\ d2.op = "halinit"
      BY <3>1, <3>2
    <3>4. QED
      BY <1>3, <3>1, <3>2, <3>3 DEF HandleThrottle, SendHalInit, Update
  <2>2. UNCHANGED <<daemon, seen, mGpsLock, mReqStatusReceived>>
    BY <1>3 DEF HandleThrottle, SendHalInit, callFrame, observerVars, xtraState
  <2>3. ToldOK(d) /\ ~About(d, Lock) /\ \A i : ~About(d, Item(i))
    BY <2>1 DEF ToldOK, About, Lock, Item
  <2>4. QED
    BY <2>1, <2>2, <2>3, TellingKeeps
<1>4. CASE HandleStatus
  <2>1. UNCHANGED <<daemon, seen, mGpsLock>> /\ mReqStatusReceived'
    BY <1>4 DEF HandleStatus, callFrame
  <2>2. PICK d : d = [op |-> "respondStatus", lock |-> mGpsLock, items |-> seen[Xtra]]
    OBVIOUS
  <2>3. UNCHANGED toDaemon \/ SendToDaemon(d)
    BY <1>4, <2>2 DEF HandleStatus
  <2>4. d.op = "respondStatus" /\ d.lock = mGpsLock /\ d.items = seen[Xtra]
    BY <2>2
  <2>5. ToldOK(d)
    BY <2>4, ClientsAssumption DEF ToldOK, IInv, CopiesOK
  <2>6. CASE UNCHANGED toDaemon
    BY <2>1, <2>6, QuietKeeps
  <2>7. CASE SendToDaemon(d)
    BY <2>1, <2>4, <2>5, <2>7, AnswerSays, TellingKeeps
  <2>8. QED
    BY <2>3, <2>6, <2>7
<1>5. QED
  BY <1>1, <1>2, <1>3, <1>4

\* The daemon starts, asks and stops.
LEMMA DaemonKeeps ==
  ASSUME LinkOK, HearingOK, DaemonStarts \/ DaemonStops \/ DaemonAsks
  PROVE  LinkOK' /\ HearingOK'
<1>1. UNCHANGED <<mGpsLock, mReqStatusReceived, seen>>
  BY DEF DaemonStarts, DaemonStops, DaemonAsks, daemonFrame, callFrame, xtraState
<1>2. CASE DaemonStarts \/ DaemonStops
  <2>1. toDaemon' = <<>> /\ \E at \in {"started", "down"} : daemon' = [at |-> at, view |-> Unknown]
    BY <1>2 DEF DaemonStarts, DaemonStops, LinkOK
  <2>2. PICK at \in {"started", "down"} : daemon' = [at |-> at, view |-> Unknown]
    BY <2>1
  <2>3. daemon'.at = at /\ daemon'.view = Unknown
    BY <2>2
  <2>4. ViewOK(Unknown)
    BY DEF ViewOK, Unknown, Nothing
  <2>5. InQueue(<<>>) = {} /\ <<>> \in Seq({})
    BY DEF InQueue
  <2>6. PICK T : T = {}
    OBVIOUS
  <2>7. \E U : toDaemon' \in Seq(U) /\ \A d \in U : ToldOK(d)
    BY <2>1, <2>5, <2>6
  <2>8. LinkOK'
    BY <2>1, <2>2, <2>3, <2>4, <2>7 DEF LinkOK
  <2>9. ~Hearing'
    BY <2>1, <2>3, <2>5 DEF Hearing
  <2>10. QED
    BY <2>8, <2>9 DEF HearingOK
<1>3. CASE DaemonAsks
  <2>1. daemon' = [daemon EXCEPT !.at = "asked"] /\ UNCHANGED toDaemon /\ daemon.at = "started"
    BY <1>3 DEF DaemonAsks
  <2>2. PICK at, view : daemon = [at |-> at, view |-> view]
    BY DEF LinkOK
  <2>3. daemon.at = at /\ daemon.view = view /\ daemon'.at = "asked" /\ daemon'.view = view
        /\ daemon' = [at |-> "asked", view |-> view]
    BY <2>1, <2>2
  <2>4. LinkOK'
    BY <2>1, <2>3 DEF LinkOK
  <2>5. Hearing' => Hearing
    BY <2>1, <2>3 DEF Hearing
  <2>6. QED
    BY <1>1, <2>1, <2>3, <2>4, <2>5 DEF HearingOK
<1>4. QED
  BY <1>2, <1>3

LEMMA NextLink ==
  ASSUME IInv, LinkOK, HearingOK, [Next]_vars
  PROVE  LinkOK' /\ HearingOK'
<1>1. CASE HandleCall /\ UNCHANGED xtraVars
  <2>1. UNCHANGED seen \/ \E S, cache : NotifyClients(S, cache)
    <3>1. CASE HandleUnsubscribe \/ HandleUnsubscribeAll \/ HandleSetSubscriptionObj
      BY <3>1 DEF HandleUnsubscribe, HandleUnsubscribeAll, HandleSetSubscriptionObj, SilentStep
    <3>2. CASE \/ \E request \in BOOLEAN : HandleSubscribe(request)
               \/ HandleUpdateSubscription \/ HandleNotify
      BY <3>2 DEF HandleSubscribe, HandleUpdateSubscription, HandleNotify
    <3>3. QED
      BY <1>1, <3>1, <3>2 DEF HandleCall
  <2>2. \A i \in Items : seen'[Xtra][i] = seen[Xtra][i]
    BY <2>1, ClientsAssumption DEF NotifyClients
  <2>3. QED
    BY <1>1, <2>2, QuietKeeps DEF xtraVars, xtraState, daemonVars
<1>2. CASE FrameworkCalls /\ UNCHANGED xtraVars
  <2>1. UNCHANGED seen
    BY <1>2 DEF FrameworkCalls, SetSubscriptionObj, Notify, callFrame
  <2>2. QED
    BY <1>2, <2>1, QuietKeeps DEF xtraVars, xtraState, daemonVars
<1>3. CASE \E m : AdapterCall(m)
  <2>1. UNCHANGED <<toDaemon, daemon, mGpsLock, mReqStatusReceived, seen>>
    BY <1>3 DEF AdapterCall, callFrame, xtraState, daemonVars
  <2>2. QED
    BY <2>1, QuietKeeps
<1>4. CASE UNCHANGED vars
  BY <1>4, QuietKeeps DEF vars, observerVars, xtraVars, xtraState, daemonVars
<1>5. QED
  BY <1>1, <1>2, <1>3, <1>4, UpdatesKeep, DaemonKeeps, HearsKeeps
  DEF Next, MsgTaskStep, DaemonStep

LEMMA InitLink ==
  ASSUME Init
  PROVE  LinkOK /\ HearingOK
<1>1. toDaemon = <<>>
      /\ \E at \in {"down", "started", "asked"} : daemon = [at |-> at, view |-> Unknown]
  BY DEF Init
<1>2. PICK at \in {"down", "started", "asked"} : daemon = [at |-> at, view |-> Unknown]
  BY <1>1
<1>3. daemon.at = at /\ daemon.view = Unknown
  BY <1>2
<1>4. ViewOK(Unknown)
  BY DEF ViewOK, Unknown, Nothing
<1>5. InQueue(<<>>) = {} /\ <<>> \in Seq({})
  BY DEF InQueue
<1>6. \E U : toDaemon \in Seq(U) /\ \A d \in U : ToldOK(d)
  <2>1. PICK T : T = {}
    OBVIOUS
  <2>2. QED
    BY <1>1, <1>5, <2>1
<1>7. LinkOK
  BY <1>1, <1>2, <1>3, <1>4, <1>6 DEF LinkOK
<1>8. ~Hearing
  BY <1>1, <1>3, <1>5 DEF Hearing
<1>9. QED
  BY <1>7, <1>8 DEF HearingOK

-----------------------------------------------------------------------------
\* When nothing is under way, a daemon that has been answered knows the lock and the
\* value of every item the observer has cached, whatever has come before it asked, was
\* lost while it was down or has changed since.
THEOREM DaemonUpToDate == Spec => []DaemonIsUpToDate
<1> DEFINE XInv == IInv /\ ClientsOK /\ WantedOK /\ KnownOK /\ LinkOK /\ HearingOK
<1>1. Init => XInv
  BY XtraInit, InitWanted, InitLink
<1>2. XInv /\ [Next]_vars => XInv'
  <2>1. XInv /\ [Next]_vars => IInv' /\ ClientsOK'
    BY XtraKeeps
  <2>2. XInv /\ [Next]_vars => WantedOK' /\ KnownOK'
    BY NextWanted
  <2>3. XInv /\ [Next]_vars => LinkOK' /\ HearingOK'
    BY NextLink
  <2>4. QED
    BY <2>1, <2>2, <2>3
<1>3. XInv => DaemonIsUpToDate
  <2> SUFFICES ASSUME XInv, daemon.at = "informed", queue = <<>>, toDaemon = <<>>
               PROVE  daemon.view.lock = mGpsLock /\ daemon.view.items = mDataItemCache
    BY DEF DaemonIsUpToDate
  <2>1. Leads(<<>>, Lock, daemon.view.lock, mGpsLock)
        /\ \A i \in Items : Leads(<<>>, Item(i), daemon.view.items[i], seen[Xtra][i])
    BY DEF HearingOK, Hearing
  <2>2. daemon.view.lock = mGpsLock
    BY <2>1, LeadsNow
  <2>3. ASSUME NEW i \in Items
        PROVE  daemon.view.items[i] = mDataItemCache[i]
    <3>1. daemon.view.items[i] = seen[Xtra][i]
      BY <2>1, LeadsNow
    <3>2. InQueue(<<>>) = {}
      BY DEF InQueue
    <3>3. Related(Xtra, i)
      BY <3>2 DEF WantedOK
    <3>4. CASE mDataItemCache[i] = None
      BY <3>1, <3>4 DEF KnownOK
    <3>5. CASE mDataItemCache[i] # None
      <4>1. Leads(<<>>, Item(i), seen[Xtra][i], mDataItemCache[i])
        BY <3>3, <3>5, ClientsAssumption DEF ClientsOK, Current
      <4>2. QED
        BY <3>1, <4>1, LeadsNow
    <3>6. QED
      BY <3>4, <3>5
  <2>4. daemon.view.items \in [Items -> Value \cup {None}]
        /\ mDataItemCache \in [Items -> Value \cup {None}]
    BY DEF LinkOK, ViewOK, IInv, CopiesOK
  <2>5. QED
    BY <2>2, <2>3, <2>4
<1>4. QED
  BY <1>1, <1>2, <1>3, PTL DEF Spec
=============================================================================
