----------------------------- MODULE OsObserver -----------------------------
(***************************************************************************)
(* SystemStatusOsObserver (gps/core/SystemStatusOsObserver.cpp), between   *)
(* the framework, which reports data items, and its clients, which         *)
(* subscribe to them.  Two maps, from clients to items and back, say who   *)
(* gets what; the framework is subscribed to the items somebody wants.     *)
(* Every method puts a message in the queue of one MsgTask (see Mailbox),  *)
(* so the handlers are atomic and run in the order of the calls.           *)
(*                                                                         *)
(* LocUnorderedSetMap reads what it has erased: a key, when a set becomes  *)
(* empty, and the next entry, when two sets have entries in common.  Such  *)
(* a read gives what is left in the freed memory, or anything else of the  *)
(* kind.                                                                   *)
(*                                                                         *)
(* Clients look at the items they are notified of in the same call, but    *)
(* for the XTRA observer, which posts a copy of them to the same task.     *)
(***************************************************************************)
EXTENDS SystemStatus, Sequences

CONSTANTS
  Clients,    \* IDataItemObservers
  Xtra,       \* the one that posts what it is notified of
  ItemLists,  \* the lists of items that clients name
  MaxCalls,   \* bound on the calls of these clients
  MaxReports, \* bound on the reports of items
  MaxQueue    \* bound on the messages waiting when a call is made

ASSUME ClientsAssumption == Xtra \in Clients
ASSUME ListsAssumption == ItemLists \subseteq SUBSET Items \ {{}}
ASSUME BoundsAssumption == MaxCalls \in Nat /\ MaxReports \in Nat /\ MaxQueue \in Nat

VARIABLES
  mClientToDataItems,  \* a client without an entry has the empty set
  mDataItemToClients,  \* an item without an entry has the empty set
  mDataItemCache,      \* the last value of each item, here and in SystemStatus
  mSubscriptionObj,    \* whether the framework has registered
  queue,               \* the messages of the MsgTask
  framework,           \* the items the framework is subscribed to
  seen,                \* the last value of each item that each client has looked at
  onlyRequested,       \* items whose entry was made by requestData()
  mistaken,            \* <<c, i>>: client c had item i when it called updateSubscription()
  misread,             \* the framework was told of an item read after it was erased
  connected,           \* networks that were connected by their last report
  dropped,             \* networks that found the table full when they came
  calls, reports       \* what has been used of the bounds

maps   == <<mClientToDataItems, mDataItemToClients, onlyRequested>>
bounds == <<calls, reports>>
told   == <<framework, misread>>
observerVars == <<maps, mDataItemCache, mSubscriptionObj, queue, told, seen, mistaken,
                  connected, dropped, bounds>>

Nothing == [i \in Items |-> None]

\* The items known of a list, with their values.
Known(S, cache) == {i \in S : cache[i] # None}

\* Values of some of the items.
IsCopy(values) ==
  DOMAIN values \subseteq Items /\ \A i \in DOMAIN values : values[i] \in Value

MessageOK(m) ==
  \/ m \in [op : {"subscribe", "requestData", "updateSubscription", "unsubscribe"},
             client : Clients, items : SUBSET Items]
  \/ m \in [op : {"unsubscribeAll"}, client : Clients] \cup [op : {"setSubscriptionObj"}]
  \/ m.op = "notify" /\ m.item \in Items /\ m.report \in Reports(m.item)
  \/ m.op = "items" /\ IsCopy(m.values)

ObserverTypeOK ==
  /\ mClientToDataItems \in [Clients -> SUBSET Items]
  /\ mDataItemToClients \in [Items -> SUBSET Clients]
  /\ mDataItemCache \in [Items -> Value \cup {None}]
  /\ mSubscriptionObj \in BOOLEAN
  /\ framework \subseteq Items
  /\ seen \in [Clients -> [Items -> Value \cup {None}]]
  /\ onlyRequested \subseteq Items /\ mistaken \subseteq Clients \X Items
  /\ misread \in BOOLEAN
  /\ connected \subseteq Networks /\ dropped \subseteq Networks
  /\ calls \in 0..MaxCalls /\ reports \in 0..MaxReports

NobodySubscribed ==
  /\ mClientToDataItems = [c \in Clients |-> {}]
  /\ mDataItemToClients = [i \in Items |-> {}]
  /\ mDataItemCache = Nothing
  /\ mSubscriptionObj = FALSE
  /\ framework = {}
  /\ seen = [c \in Clients |-> Nothing]
  /\ onlyRequested = {} /\ mistaken = {} /\ misread = FALSE
  /\ connected = {} /\ dropped = {}
  /\ calls = 0 /\ reports = 0

ObserverInit == NobodySubscribed /\ queue = <<>>

-----------------------------------------------------------------------------
(***************************************************************************)
(* Calls.                                                                  *)
(***************************************************************************)
Send(m) == Len(queue) < MaxQueue /\ queue' = Append(queue, m)

callFrame == <<maps, mDataItemCache, mSubscriptionObj, told, seen, mistaken, connected,
               dropped, bounds>>

Call(m) ==
  /\ calls < MaxCalls /\ calls' = calls + 1
  /\ Send(m)
  /\ UNCHANGED <<maps, mDataItemCache, mSubscriptionObj, told, seen, mistaken, connected,
                 dropped, reports>>

Subscribe(c, S)          == Call([op |-> "subscribe", client |-> c, items |-> S])
RequestData(c, S)        == Call([op |-> "requestData", client |-> c, items |-> S])
UpdateSubscription(c, S) == Call([op |-> "updateSubscription", client |-> c, items |-> S])
Unsubscribe(c, S)        == Call([op |-> "unsubscribe", client |-> c, items |-> S])
UnsubscribeAll(c)        == Call([op |-> "unsubscribeAll", client |-> c])

\* The framework registers once.
SetSubscriptionObj ==
  /\ ~mSubscriptionObj /\ \A k \in DOMAIN queue : queue[k].op # "setSubscriptionObj"
  /\ Send([op |-> "setSubscriptionObj"])
  /\ UNCHANGED callFrame

\* An item is reported: by the framework, or by eventConnectionStatus().
Notify(i, r) ==
  /\ reports < MaxReports /\ reports' = reports + 1
  /\ Send([op |-> "notify", item |-> i, report |-> r])
  /\ connected' = IF i # "networkInfo" THEN connected
                  ELSE IF r.connected THEN connected \cup {r.handle}
                  ELSE connected \ {r.handle}
  /\ UNCHANGED <<maps, mDataItemCache, mSubscriptionObj, told, seen, mistaken, dropped, calls>>

-----------------------------------------------------------------------------
(***************************************************************************)
(* LocUnorderedSetMap: add(), trimOrRemove() and update(), on the two maps *)
(* at once.                                                                *)
(***************************************************************************)
With(c, S) == [i \in Items |->
                 IF i \in S THEN mDataItemToClients[i] \cup {c} ELSE mDataItemToClients[i]]

Without(c, S) == [i \in Items |->
                    IF i \in S THEN mDataItemToClients[i] \ {c} ELSE mDataItemToClients[i]]

\* Items that have an entry in a map.
Entries(m) == {i \in Items : m[i] # {}}

\* sendCachedDataItems(): client c gets those of the items S[c] that are known.
NotifyClients(S, cache) ==
  /\ seen' = [c \in Clients |-> [i \in Items |->
       IF c # Xtra /\ i \in Known(S[c], cache) THEN cache[i] ELSE seen[c][i]]]
  /\ queue' = Tail(queue) \o
       IF Known(S[Xtra], cache) = {} THEN <<>>
       ELSE <<[op |-> "items", values |-> [i \in Known(S[Xtra], cache) |-> cache[i]]]>>

OnlyTo(c, S) == [d \in Clients |-> IF d = c THEN S ELSE {}]

SilentStep == queue' = Tail(queue) /\ UNCHANGED seen

\* removeAndReturnInterset() goes on from an entry it has erased: it finds one of the
\* common items, and maybe others.
Common(S, T) == IF S \cap T = {} THEN {{}} ELSE SUBSET (S \cap T) \ {{}}

\* trimOrRemove() reads the key of each entry it has erased: what it returns of the
\* items that are gone.
Misreads(gone) == {read \in SUBSET Items : Cardinality(read) <= Cardinality(gone)}

\* What the framework is told, once it has registered.
TellFramework(subscribed, gone) ==
  \E read \in Misreads(gone) :
    /\ framework' = IF mSubscriptionObj THEN (framework \cup subscribed) \ read
                                         ELSE framework
    /\ misread' = (misread \/ (mSubscriptionObj /\ read # gone))

-----------------------------------------------------------------------------
(***************************************************************************)
(* Handlers of the calls.                                                  *)
(***************************************************************************)
Handling(op) == queue # <<>> /\ Head(queue).op = op

handlerFrame == <<mDataItemCache, connected, dropped, bounds>>

\* HandleSubscribeReq of subscribe() and requestData(): a request is passed on,
\* and the framework is not subscribed to the items in it.
\* Mutated form: the client does not get what is known already.
HandleSubscribeSilent(request) ==
  /\ Handling(IF request THEN "requestData" ELSE "subscribe")
  /\ LET m   == Head(queue)
         new == {i \in m.items : mDataItemToClients[i] = {}}
     IN /\ mDataItemToClients' = With(m.client, m.items)
        /\ mClientToDataItems' = [mClientToDataItems EXCEPT ![m.client] = @ \cup m.items]
        /\ TellFramework(IF request THEN {} ELSE new, {})
        /\ onlyRequested' = IF request /\ mSubscriptionObj THEN onlyRequested \cup new
                                                           ELSE onlyRequested
  /\ SilentStep
  /\ UNCHANGED <<handlerFrame, mSubscriptionObj, mistaken>>

HandleSubscribe(request) ==
  /\ Handling(IF request THEN "requestData" ELSE "subscribe")
  /\ LET m   == Head(queue)
         new == {i \in m.items : mDataItemToClients[i] = {}}
     IN /\ mDataItemToClients' = With(m.client, m.items)
        /\ mClientToDataItems' = [mClientToDataItems EXCEPT ![m.client] = @ \cup m.items]
        /\ NotifyClients(OnlyTo(m.client, m.items), mDataItemCache)
        /\ TellFramework(IF request THEN {} ELSE new, {})
        /\ onlyRequested' = IF request /\ mSubscriptionObj THEN onlyRequested \cup new
                                                           ELSE onlyRequested
  /\ UNCHANGED <<handlerFrame, mSubscriptionObj, mistaken>>

\* HandleUpdateSubscriptionReq.  update() returns the items the client keeps, and
\* takes them from the list: the client is removed from these, and added to those
\* that are new to it.  Nobody calls it in gps/.
HandleUpdateSubscription ==
  /\ Handling("updateSubscription")
  /\ \E kept \in Common(mClientToDataItems[Head(queue).client], Head(queue).items) :
     LET m    == Head(queue)
         new  == m.items \ kept
         gone == {i \in kept : mDataItemToClients[i] = {m.client}}
     IN /\ mClientToDataItems' = [mClientToDataItems EXCEPT ![m.client] = m.items]
        /\ mDataItemToClients' = [i \in Items |->
             IF i \in new THEN mDataItemToClients[i] \cup {m.client}
             ELSE IF i \in kept THEN mDataItemToClients[i] \ {m.client}
             ELSE mDataItemToClients[i]]
        /\ NotifyClients(OnlyTo(m.client, new), mDataItemCache)
        /\ TellFramework({i \in new : mDataItemToClients[i] = {}}, gone)
        /\ onlyRequested' = onlyRequested \ gone
        /\ mistaken' = mistaken \cup ({m.client} \X mClientToDataItems[m.client])
  /\ UNCHANGED <<handlerFrame, mSubscriptionObj>>

\* HandleUnsubscribeReq: the client is removed from the items it really had.
\* Mutated form: the framework is told of all items of the list.
HandleUnsubscribeOfAll ==
  /\ Handling("unsubscribe")
  /\ LET m      == Head(queue)
         unused == mClientToDataItems[m.client] \cap m.items
     IN /\ mClientToDataItems' = [mClientToDataItems EXCEPT ![m.client] = @ \ m.items]
        /\ mDataItemToClients' = Without(m.client, unused)
        /\ TellFramework({}, unused)
        /\ onlyRequested' = onlyRequested \ unused
  /\ SilentStep
  /\ UNCHANGED <<handlerFrame, mSubscriptionObj, mistaken>>

HandleUnsubscribe ==
  /\ Handling("unsubscribe")
  /\ LET m      == Head(queue)
         unused == mClientToDataItems[m.client] \cap m.items
         gone   == {i \in unused : mDataItemToClients[i] = {m.client}}
     IN /\ mClientToDataItems' = [mClientToDataItems EXCEPT ![m.client] = @ \ m.items]
        /\ mDataItemToClients' = Without(m.client, unused)
        /\ TellFramework({}, gone)
        /\ onlyRequested' = onlyRequested \ gone
  /\ SilentStep
  /\ UNCHANGED <<handlerFrame, mSubscriptionObj, mistaken>>

\* HandleUnsubscribeAllReq
HandleUnsubscribeAll ==
  /\ Handling("unsubscribeAll")
  /\ LET m    == Head(queue)
         all  == mClientToDataItems[m.client]
         gone == {i \in all : mDataItemToClients[i] = {m.client}}
     IN /\ mClientToDataItems' = [mClientToDataItems EXCEPT ![m.client] = {}]
        /\ mDataItemToClients' = Without(m.client, all)
        /\ TellFramework({}, gone)
        /\ onlyRequested' = onlyRequested \ gone
  /\ SilentStep
  /\ UNCHANGED <<handlerFrame, mSubscriptionObj, mistaken>>

\* SetSubsObj: the framework is subscribed to, and asked for, all items by now.
HandleSetSubscriptionObj ==
  /\ Handling("setSubscriptionObj")
  /\ mSubscriptionObj' = TRUE
  /\ framework' = framework \cup Entries(mDataItemToClients)
  /\ onlyRequested' = {}
  /\ SilentStep
  /\ UNCHANGED <<handlerFrame, mClientToDataItems, mDataItemToClients, misread, mistaken>>

\* HandleNotify: a value that is new is cached and goes to the clients that have
\* the item by both maps.
HandleNotify ==
  /\ Handling("notify")
  /\ \E behind \in Behind(Head(queue).item, mDataItemCache[Head(queue).item]) :
     LET m     == Head(queue)
         old   == mDataItemCache[m.item]
         value == SetItemInReport(m.item, m.report, old, behind)
         cache == [mDataItemCache EXCEPT ![m.item] = value]
         to    == IF Changes(m.item, m.report, old, behind)
                  THEN mDataItemToClients[m.item] ELSE {}
     IN /\ mDataItemCache' = cache
        /\ NotifyClients([c \in Clients |->
             IF c \in to THEN mClientToDataItems[c] \cap {m.item} ELSE {}], cache)
        /\ dropped' = IF m.item # "networkInfo" THEN dropped
                      ELSE IF FindsNoEntry(m.item, m.report, old)
                      THEN dropped \cup {m.report.handle} ELSE dropped \ {m.report.handle}
  /\ UNCHANGED <<maps, mSubscriptionObj, told, mistaken, connected, bounds>>

\* The message the XTRA observer has posted: it looks at the items.
HandleItems ==
  /\ Handling("items")
  /\ LET values == Head(queue).values
     IN seen' = [seen EXCEPT ![Xtra] =
          [i \in Items |-> IF i \in DOMAIN values THEN values[i] ELSE seen[Xtra][i]]]
  /\ queue' = Tail(queue)
  /\ UNCHANGED <<maps, mDataItemCache, mSubscriptionObj, told, mistaken, connected, dropped,
                 bounds>>

-----------------------------------------------------------------------------
ClientCalls(c) ==
  \/ \E S \in ItemLists :
       Subscribe(c, S) \/ RequestData(c, S) \/ UpdateSubscription(c, S) \/ Unsubscribe(c, S)
  \/ UnsubscribeAll(c)

HandleCall ==
  \/ \E request \in BOOLEAN : HandleSubscribe(request)
  \/ HandleUpdateSubscription \/ HandleUnsubscribe \/ HandleUnsubscribeAll
  \/ HandleSetSubscriptionObj \/ HandleNotify

FrameworkCalls ==
  \/ SetSubscriptionObj
  \/ \E i \in Items : \E r \in Reports(i) : Notify(i, r)

ObserverNext ==
  \/ \E c \in Clients : ClientCalls(c)
  \/ FrameworkCalls
  \/ HandleCall
  \/ HandleItems

ObserverSpec == ObserverInit /\ [][ObserverNext]_observerVars

-----------------------------------------------------------------------------
(***************************************************************************)
(* Properties.                                                             *)
(***************************************************************************)

\* The two maps are inverse, entry by entry: an item a client believes it has is one
\* it is notified of, and a client that has let go of an item is forgotten.  Except for
\* the items a client has when it calls updateSubscription(): the items it keeps are
\* taken from one map, and the items it leaves stay there (see KeptItemsAreServed).
MapsAreInverse ==
  \A c \in Clients, i \in Items :
    <<c, i>> \notin mistaken => (i \in mClientToDataItems[c] <=> c \in mDataItemToClients[i])

\* The framework is subscribed to exactly the items that clients have, whatever calls
\* come before it registers and in whatever order clients share and drop items.  Except
\* for items a client had when it called updateSubscription(), and for items whose first
\* client has asked for them with requestData() (see RequestedItemsAreServed); and as
\* long as the keys of erased entries are read as they were.
FrameworkServesClients ==
  mSubscriptionObj /\ ~misread =>
    \A i \in Items : (\A c \in Clients : <<c, i>> \notin mistaken) =>
      (i \in framework <=> i \notin onlyRequested /\ \E c \in Clients : i \in mClientToDataItems[c])

\* A client has seen the last value of each item it has as soon as the handlers have
\* run: the first one when it subscribes, each one that is new afterwards.  For the
\* XTRA observer the value may be in the last of its messages under way.  Except for
\* items it had when it called updateSubscription(), which may stay away for ever.
ClientsAreUpToDate ==
  \A c \in Clients, i \in Items :
    <<c, i>> \notin mistaken /\ i \in mClientToDataItems[c] /\ mDataItemCache[i] # None
    => LET posted == {k \in DOMAIN queue : /\ c = Xtra /\ queue[k].op = "items"
                                           /\ i \in DOMAIN queue[k].values}
       IN mDataItemCache[i] = IF posted = {} THEN seen[c][i] ELSE queue[Max(posted)].values[i]

\* A network that is connected by its last report is in the table once the report
\* has been handled, whatever entries of others come and go before and behind its own,
\* and whatever is read from behind a full table; unless it found the table full itself
\* (see ConnectedIsNeverDropped).
ConnectedIsListed ==
  (\A k \in DOMAIN queue : queue[k].op # "notify") =>
    \A h \in connected \ dropped : \E s \in Slots :
      mDataItemCache["networkInfo"].table[s].handle = h

\* Without the exceptions none of these holds.  An item a client has and has kept in
\* updateSubscription() is one it is notified of: violated by the first such call.
KeptItemsAreServed ==
  \A c \in Clients, i \in Items : i \in mClientToDataItems[c] => c \in mDataItemToClients[i]

\* Items first asked for with requestData() get no subscription, even when another client
\* subscribes to them.
RequestedItemsAreServed ==
  mSubscriptionObj /\ ~misread /\ mistaken = {} =>
    framework = UNION {mClientToDataItems[c] : c \in Clients}

\* A key that is read after it was erased takes a subscription from other clients.
ErasedKeysAreRead ==
  mSubscriptionObj /\ mistaken = {} =>
    UNION {mClientToDataItems[c] : c \in Clients} \ onlyRequested \subseteq framework

\* Networks that are gone stay in the table, and fill it: a network that comes then is
\* left out.
ConnectedIsNeverDropped == connected \cap dropped = {}

\* A network that is in the table is connected: violated by a first report that says
\* it is not, and when one of two networks goes, whose free entry hides the other
\* one's, which then stays for ever.
ListedIsConnected ==
  (\A k \in DOMAIN queue : queue[k].op # "notify") /\ mDataItemCache["networkInfo"] # None =>
    \A s \in Slots : mDataItemCache["networkInfo"].table[s].handle \in connected \cup {None}

\* The mask has the types of the networks in the table: violated when a network in a
\* full table goes, whose entry becomes what is behind the array, and (with one entry and
\* one report more) when one of two networks of a type goes while there is one of another.
TypesMatchTable ==
  mDataItemCache["networkInfo"] # None =>
    mDataItemCache["networkInfo"].types =
      {mDataItemCache["networkInfo"].table[s].type : s \in Slots} \ {None}
=============================================================================
