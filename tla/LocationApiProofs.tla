-------------------------- MODULE LocationApiProofs --------------------------
(***************************************************************************)
(* Theorems about LocationApi: while callbacks are only added, memory that *)
(* is deleted is known to no adapter and named by no message that adds or  *)
(* removes a client, and a client is registered with all its adapters.     *)
(*                                                                         *)
(* What an adapter will have of a client when the messages under way are   *)
(* handled depends on their order, so the invariant says of a client that  *)
(* is being destroyed that each message that adds it is followed by the    *)
(* one that removes it, and that an adapter that has yet to remove it is   *)
(* one destroy() waits for.                                                *)
(***************************************************************************)
EXTENDS LocationApi, TLAPS

Sent(m)      == \E i \in 1..Len(queue) : queue[i] = m
ToSend(m)    == \E i \in 1..Len(gDataMutex) : gDataMutex[i] = m
Add(a, c)    == Msg("add", a, c)
Remove(a, c) == Msg("remove", a, c)
Named(m)     == Sent(m) \/ ToSend(m)

\* A message is there once at most; each of one kind has one of another kind behind it.
SentOnce(m)   == \A i, j \in 1..Len(queue) : queue[i] = m /\ queue[j] = m => i = j
ToSendOnce(m) ==
  \A i, j \in 1..Len(gDataMutex) : gDataMutex[i] = m /\ gDataMutex[j] = m => i = j
SentBefore(m, n) ==
  \A i \in 1..Len(queue) : queue[i] = m =>
    ToSend(n) \/ \E j \in 1..Len(queue) : j > i /\ queue[j] = n

\* The adapter knows the client, or will.
Has(a, c)   == c \in mClientData[a] \/ Named(Add(a, c))
Gone(c)     == \A a \in Adapters : ~ Has(a, c) /\ ~ Named(Remove(a, c))
Doing(do, a, c) == task = [do |-> do, a |-> a, c |-> c]

\* Where each object is in its life.
LifeOK ==
  \A c \in Clients :
    /\ object[c] = "created" <=> c \in DOMAIN clientData
    /\ c \in DOMAIN destroyClientData => object[c] = "destroyed"
    /\ \A a \in Adapters :
         /\ ToSend(Add(a, c)) => object[c] = "created"
         /\ Named(Remove(a, c)) => object[c] = "destroyed"
         /\ \A do \in {"complete", "delete"} : Doing(do, a, c) => object[c] = "destroyed"
         /\ Doing("delete", a, c) => c \notin DOMAIN destroyClientData /\ Gone(c)
    /\ object[c] = "free" => Gone(c)

\* The adapters of a client are among those of its callbacks that are loaded.
AddedOK ==
  /\ \A c \in DOMAIN clientData :
       /\ clientData[c] \subseteq interfaces \cup loadFailed
       /\ \A a \in Adapters : Has(a, c) => a \in clientData[c] \cap interfaces
  /\ interfaces \cap loadFailed = {}

\* Each adapter is told to remove a client once.
OnceOK ==
  \A c \in Clients, a \in Adapters :
    /\ SentOnce(Remove(a, c)) /\ ToSendOnce(Remove(a, c))
    /\ ~ (Sent(Remove(a, c)) /\ ToSend(Remove(a, c)))
    /\ Doing("complete", a, c) => ~ Named(Remove(a, c))

\* destroy() waits for every adapter that has the client still to be removed.
RemovedOK ==
  \A c \in DOMAIN destroyClientData, a \in Adapters :
    /\ c \in mClientData[a] => Named(Remove(a, c))
    /\ SentBefore(Add(a, c), Remove(a, c))
    /\ Named(Remove(a, c)) \/ Doing("complete", a, c) => a \in destroyClientData[c]

Registered ==
  \A c \in DOMAIN clientData : \A a \in clientData[c] \cap interfaces : Has(a, c)

IInv == TypeOK /\ LifeOK /\ AddedOK /\ OnceOK /\ RemovedOK /\ Registered

-----------------------------------------------------------------------------
(***************************************************************************)
(* Sequences of messages.                                                  *)
(***************************************************************************)
LEMMA TailFacts ==
  ASSUME NEW S, NEW s \in Seq(S), s # <<>>
  PROVE  /\ Head(s) \in S /\ Tail(s) \in Seq(S) /\ 1 \in 1..Len(s) /\ s[1] = Head(s)
         /\ \A i \in 1..Len(Tail(s)) : i + 1 \in 1..Len(s) /\ Tail(s)[i] = s[i + 1]
         /\ \A i \in 1..Len(s) :
              i # 1 => i - 1 \in 1..Len(Tail(s)) /\ Tail(s)[i - 1] = s[i]
  OBVIOUS

LEMMA AppendFacts ==
  ASSUME NEW S, NEW s \in Seq(S), NEW m \in S
  PROVE  /\ Append(s, m) \in Seq(S) /\ Len(s) \in Nat
         /\ Len(Append(s, m)) = Len(s) + 1 /\ Append(s, m)[Len(s) + 1] = m
         /\ \A i \in 1..Len(s) : Append(s, m)[i] = s[i]
  OBVIOUS

LEMMA JoinFacts ==
  ASSUME NEW S, NEW s \in Seq(S), NEW t \in Seq(S)
  PROVE  /\ s \o t \in Seq(S) /\ Len(s \o t) = Len(s) + Len(t)
         /\ \A i \in 1..Len(s) : (s \o t)[i] = s[i]
         /\ \A i \in 1..Len(t) : (s \o t)[i + Len(s)] = t[i]
  OBVIOUS

\* A sequence of the elements of a set, each once.
Enumerates(s, K) ==
  /\ s \in Seq(K)
  /\ \A a \in K : \E i \in 1..Len(s) : s[i] = a
  /\ \A i, j \in 1..Len(s) : s[i] = s[j] => i = j

LEMMA EnumerateNext ==
  ASSUME NEW s, NEW K, Enumerates(s, K), NEW x, x \notin K
  PROVE  Enumerates(s \o <<x>>, K \cup {x})
<1>1. s \in Seq(K \cup {x}) /\ Len(s) \in Nat
  BY DEF Enumerates
<1>2. PICK u : u = s \o <<x>>
  OBVIOUS
<1>3. /\ u \in Seq(K \cup {x}) /\ Len(u) = Len(s) + 1 /\ u[Len(s) + 1] = x
      /\ \A i \in 1..Len(s) : u[i] = s[i]
  BY <1>1, <1>2
<1>4. \A i \in 1..Len(s) : s[i] \in K
  BY DEF Enumerates
<1>5. \A i \in 1..Len(u) : i \in 1..Len(s) \/ i = Len(s) + 1
  BY <1>1, <1>3
<1>6. 1..Len(s) \subseteq 1..Len(u) /\ Len(s) + 1 \in 1..Len(u)
  BY <1>1, <1>3
<1>7. \A a \in K \cup {x} : \E i \in 1..Len(u) : u[i] = a
  BY <1>3, <1>6 DEF Enumerates
<1>8. \A i, j \in 1..Len(u) : u[i] = u[j] => i = j
  <2>1. \A i, j \in 1..Len(s) : s[i] = s[j] => i = j
    BY DEF Enumerates
  <2>2. QED
    BY <1>3, <1>4, <1>5, <2>1
<1>9. Enumerates(u, K \cup {x})
  BY <1>3, <1>7, <1>8 DEF Enumerates
<1>10. QED
  BY <1>2, <1>9

LEMMA EnumerateIf ==
  ASSUME NEW s, NEW K, Enumerates(s, K), NEW x, x \notin K, NEW kinds
  PROVE  Enumerates(s \o If(x, kinds), K \cup ({x} \cap kinds))
<1>1. CASE x \in kinds
  <2>1. {x} \cap kinds = {x} /\ If(x, kinds) = <<x>>
    BY <1>1 DEF If
  <2>2. QED
    BY <2>1, EnumerateNext
<1>2. CASE x \notin kinds
  <2>1. {x} \cap kinds = {} /\ If(x, kinds) = <<>>
    BY <1>2 DEF If
  <2>2. s \o <<>> = s
    BY DEF Enumerates
  <2>3. K \cup {} = K
    OBVIOUS
  <2>4. QED
    BY <2>1, <2>2, <2>3
<1>3. QED
  BY <1>1, <1>2

\* InOrder() goes once through the adapters of a set.
LEMMA InOrderFacts ==
  ASSUME NEW kinds \in Kinds
  PROVE  Enumerates(InOrder(kinds), kinds)
<1>1. kinds \subseteq {"gnss", "batching", "geofence"}
  BY NamesAssumption DEF Kinds
<1>2. Enumerates(<<>>, {})
  BY DEF Enumerates
<1>3. Enumerates(<<>> \o If("gnss", kinds), {} \cup ({"gnss"} \cap kinds))
  BY <1>2, EnumerateIf
<1>4. <<>> \o If("gnss", kinds) = If("gnss", kinds)
  BY DEF If
<1>5. Enumerates(If("gnss", kinds), {"gnss"} \cap kinds)
  <2>1. {} \cup ({"gnss"} \cap kinds) = {"gnss"} \cap kinds
    OBVIOUS
  <2>2. QED
    BY <1>3, <1>4, <2>1
<1>6. Enumerates(If("gnss", kinds) \o If("batching", kinds),
                 ({"gnss"} \cap kinds) \cup ({"batching"} \cap kinds))
  BY <1>5, EnumerateIf
<1>7. Enumerates((If("gnss", kinds) \o If("batching", kinds)) \o If("geofence", kinds),
                 (({"gnss"} \cap kinds) \cup ({"batching"} \cap kinds))
                   \cup ({"geofence"} \cap kinds))
  BY <1>6, EnumerateIf
<1>8. (({"gnss"} \cap kinds) \cup ({"batching"} \cap kinds)) \cup ({"geofence"} \cap kinds)
        = kinds
  BY <1>1
<1>9. QED
  BY <1>7, <1>8 DEF InOrder

\* One message for each adapter of a set.
OneForEach(s, op, kinds, c) ==
  /\ s \in Seq(Messages)
  /\ \A m : (\E i \in 1..Len(s) : s[i] = m) <=> (\E a \in kinds : m = Msg(op, a, c))
  /\ \A i, j \in 1..Len(s) : s[i] = s[j] => i = j

LEMMA EachFacts ==
  ASSUME NEW kinds \in Kinds, NEW op \in {"add", "remove"}, NEW c \in Clients,
         NEW s, s = [i \in DOMAIN InOrder(kinds) |-> Msg(op, InOrder(kinds)[i], c)]
  PROVE  OneForEach(s, op, kinds, c)
<1>1. PICK order : order = InOrder(kinds)
  OBVIOUS
<1>2. Enumerates(order, kinds) /\ kinds \subseteq Adapters
  BY <1>1, InOrderFacts DEF Kinds
<1>3. Len(order) \in Nat /\ \A i \in 1..Len(order) : order[i] \in kinds
  BY <1>2 DEF Enumerates
<1>4. \A a \in kinds : Msg(op, a, c) \in Messages /\ Msg(op, a, c).a = a
  BY <1>2 DEF Msg, Messages
<1>5. s = [i \in 1..Len(order) |-> Msg(op, order[i], c)]
  BY <1>1, <1>2 DEF Enumerates
<1>6. s \in Seq(Messages) /\ Len(s) = Len(order)
  <2>1. \A i \in 1..Len(order) : Msg(op, order[i], c) \in Messages
    BY <1>3, <1>4
  <2>2. QED
    BY <1>3, <1>5, <2>1
<1>7. \A i \in 1..Len(s) : s[i] = Msg(op, order[i], c) /\ s[i].a = order[i]
  BY <1>3, <1>4, <1>5, <1>6
<1>8. \A i, j \in 1..Len(s) : s[i] = s[j] => i = j
  <2>1. \A i, j \in 1..Len(order) : order[i] = order[j] => i = j
    BY <1>2 DEF Enumerates
  <2>2. QED
    BY <1>6, <1>7, <2>1
<1>9. \A m : (\E i \in 1..Len(s) : s[i] = m) <=> (\E a \in kinds : m = Msg(op, a, c))
  <2>1. \A a \in kinds : \E i \in 1..Len(order) : order[i] = a
    BY <1>2 DEF Enumerates
  <2>2. QED
    BY <1>3, <1>6, <1>7, <2>1
<1>10. QED
  BY <1>6, <1>8, <1>9 DEF OneForEach

LEMMA RegistrationFacts ==
  ASSUME NEW kinds \in Kinds, NEW c \in Clients, NEW s, s = Registration(c, kinds)
  PROVE  /\ s \in Seq(Messages)
         /\ \A a \in Adapters : (\E i \in 1..Len(s) : s[i] = Add(a, c)) <=> a \in kinds
         /\ \A i \in 1..Len(s) : s[i].op # "remove" /\ s[i].c = c
<1>1. PICK order : order = InOrder(kinds)
  OBVIOUS
<1>2. Enumerates(order, kinds) /\ kinds \subseteq Adapters
  BY <1>1, InOrderFacts DEF Kinds
<1>3. Len(order) \in Nat /\ \A i \in 1..Len(order) : order[i] \in kinds
  BY <1>2 DEF Enumerates
<1>4. \A a \in kinds : \A op \in {"add", "request"} : Msg(op, a, c) \in Messages
  BY <1>2 DEF Msg, Messages
<1>5. CASE order = <<>>
  <2>1. s = <<>>
    BY <1>1, <1>5 DEF Registration
  <2>2. Len(<<>>) = 0 /\ kinds = {}
    BY <1>2, <1>5 DEF Enumerates
  <2>3. QED
    BY <2>1, <2>2
<1>6. CASE order # <<>>
  <2>1. Len(order) \in Nat \ {0}
    BY <1>2, <1>6 DEF Enumerates
  <2>2. PICK t : t = [i \in 1..(Len(order) - 1) |-> Msg("add", order[i + 1], c)]
    OBVIOUS
  <2>3. PICK h : h = <<Msg("add", order[1], c), Msg("request", order[1], c)>>
    OBVIOUS
  <2>4. s = h \o t
    BY <1>1, <1>6, <2>2, <2>3 DEF Registration
  <2>5. /\ h \in Seq(Messages) /\ Len(h) = 2
        /\ h[1] = Msg("add", order[1], c) /\ h[2] = Msg("request", order[1], c)
    <3>1. Msg("add", order[1], c) \in Messages /\ Msg("request", order[1], c) \in Messages
      BY <1>3, <1>4, <2>1
    <3>2. QED
      BY <2>3, <3>1
  <2>6. t \in Seq(Messages) /\ Len(t) = Len(order) - 1
    <3>1. \A i \in 1..(Len(order) - 1) : Msg("add", order[i + 1], c) \in Messages
      BY <1>3, <1>4
    <3>2. QED
      BY <2>1, <2>2, <3>1
  <2>7. /\ s \in Seq(Messages) /\ Len(s) = Len(order) + 1
        /\ s[1] = Msg("add", order[1], c) /\ s[2] = Msg("request", order[1], c)
        /\ \A i \in 3..(Len(order) + 1) : s[i] = t[i - 2]
    <3>1. /\ h \o t \in Seq(Messages) /\ Len(h \o t) = Len(h) + Len(t)
          /\ \A i \in 1..Len(h) : (h \o t)[i] = h[i]
          /\ \A i \in 1..Len(t) : (h \o t)[i + Len(h)] = t[i]
      <4>1. h \in Seq(Messages) /\ t \in Seq(Messages)
        BY <2>5, <2>6
      <4>2. QED
        BY <4>1, JoinFacts
    <3>2. \A i \in 3..(Len(order) + 1) : i - 2 \in 1..Len(t) /\ (i - 2) + Len(h) = i
      BY <2>1, <2>5, <2>6
    <3>3. \A i \in 3..(Len(order) + 1) : s[i] = t[i - 2]
      <4>1. TAKE i \in 3..(Len(order) + 1)
      <4>2. (h \o t)[(i - 2) + Len(h)] = t[i - 2]
        BY <3>1, <3>2
      <4>3. QED
        BY <2>4, <3>2, <4>2
    <3>4. QED
      BY <2>1, <2>4, <2>5, <2>6, <3>1, <3>3
  <2>8. \A i \in 3..(Len(order) + 1) : s[i] = Msg("add", order[i - 1], c)
    BY <2>1, <2>2, <2>7
  <2>9. ASSUME NEW a \in kinds
        PROVE  \E i \in 1..Len(s) : s[i] = Add(a, c)
    <3>1. PICK i \in 1..Len(order) : order[i] = a
      BY <1>2 DEF Enumerates
    <3>2. CASE i = 1
      BY <2>1, <2>7, <3>1, <3>2 DEF Add
    <3>3. CASE i # 1
      <4>1. i + 1 \in 3..(Len(order) + 1) /\ i + 1 \in 1..Len(s) /\ (i + 1) - 1 = i
        BY <2>1, <2>7, <3>3
      <4>2. QED
        BY <2>8, <3>1, <4>1 DEF Add
    <3>4. QED
      BY <3>2, <3>3
  <2>10. \A i \in 1..Len(s) : s[i].op # "remove" /\ s[i].c = c /\ s[i].a \in kinds
    <3>1. \A i \in 1..Len(s) :
            i = 1 \/ i = 2 \/ (i \in 3..(Len(order) + 1) /\ i - 1 \in 1..Len(order))
      BY <2>1, <2>7
    <3>2. \A op, a : Msg(op, a, c).op = op /\ Msg(op, a, c).c = c /\ Msg(op, a, c).a = a
      BY DEF Msg
    <3>3. 1 \in 1..Len(order)
      BY <2>1
    <3>4. \A i \in 1..Len(s) : \E k \in 1..Len(order) :
            s[i] = Msg("add", order[k], c) \/ s[i] = Msg("request", order[k], c)
      BY <2>7, <2>8, <3>1, <3>3
    <3>5. QED
      BY <1>3, <3>2, <3>4
  <2>11. \A a : Add(a, c).a = a
    BY DEF Add, Msg
  <2>12. QED
    BY <2>7, <2>9, <2>10, <2>11
<1>7. QED
  BY <1>5, <1>6

-----------------------------------------------------------------------------
(***************************************************************************)
(* What becomes of the messages when the queue changes.                    *)
(***************************************************************************)
LEMMA MessageFacts ==
  ASSUME NEW a \in Adapters, NEW c \in Clients
  PROVE  /\ Add(a, c) \in Messages /\ Add(a, c).op = "add"
         /\ Add(a, c).a = a /\ Add(a, c).c = c
         /\ Remove(a, c) \in Messages /\ Remove(a, c).op = "remove"
         /\ Remove(a, c).a = a /\ Remove(a, c).c = c
         /\ Msg("request", a, c) \in Messages /\ Msg("request", a, c).op = "request"
         /\ Msg("engineUp", a, None) \in Messages
         /\ Msg("engineUp", a, None).op = "engineUp"
  BY DEF Add, Remove, Msg, Messages

LEMMA HeadFacts ==
  ASSUME TypeOK, queue # <<>>
  PROVE  /\ Head(queue) \in Messages /\ A \in Adapters
         /\ Head(queue).op = "add" => C \in Clients /\ Head(queue) = Add(A, C)
         /\ Head(queue).op = "remove" => C \in Clients /\ Head(queue) = Remove(A, C)
         /\ Head(queue).op = "request" => C \in Clients
<1>1. PICK m \in Messages : m = Head(queue)
  BY DEF TypeOK
<1>2. m.op \in {"add", "remove", "request"} => m = Msg(m.op, m.a, m.c) /\ m.c \in Clients
  BY <1>1 DEF Messages, Msg
<1>3. m.a \in Adapters
  BY <1>1 DEF Messages
<1>4. QED
  BY <1>1, <1>2, <1>3 DEF A, C, Add, Remove

LEMMA Taking ==
  ASSUME TypeOK, queue # <<>>, queue' = Tail(queue), gDataMutex' = gDataMutex
  PROVE  /\ \A m : ToSend(m)' <=> ToSend(m)
         /\ \A m : ToSendOnce(m)' <=> ToSendOnce(m)
         /\ \A m : Sent(m)' => Sent(m)
         /\ \A m : Sent(m) => Sent(m)' \/ m = Head(queue)
         /\ \A m : SentOnce(m) => SentOnce(m)'
         /\ \A m : m = Head(queue) /\ SentOnce(m) => ~ Sent(m)'
         /\ \A m, n : SentBefore(m, n) => SentBefore(m, n)'
         /\ \A n : SentBefore(Head(queue), n) => Sent(n)' \/ ToSend(n)
         /\ Sent(Head(queue))
<1>1. /\ 1 \in 1..Len(queue) /\ queue[1] = Head(queue) /\ Len(queue) \in Nat
      /\ \A i \in 1..Len(queue') : i + 1 \in 1..Len(queue) /\ queue'[i] = queue[i + 1]
      /\ \A i \in 1..Len(queue) :
           i # 1 => i - 1 \in 1..Len(queue') /\ queue'[i - 1] = queue[i]
  BY TailFacts DEF TypeOK
<1>2. \A m : (ToSend(m)' <=> ToSend(m)) /\ (ToSendOnce(m)' <=> ToSendOnce(m))
  BY DEF ToSend, ToSendOnce
<1>3. \A m : (Sent(m)' => Sent(m)) /\ (Sent(m) => Sent(m)' \/ m = Head(queue))
  <2>1. TAKE m
  <2>2. Sent(m)' => Sent(m)
    BY <1>1 DEF Sent
  <2>3. ASSUME NEW i \in 1..Len(queue), queue[i] = m, i # 1
        PROVE  Sent(m)'
    BY <1>1, <2>3 DEF Sent
  <2>4. QED
    BY <1>1, <2>2, <2>3 DEF Sent
<1>4. \A m : SentOnce(m) => SentOnce(m)'
  <2>1. SUFFICES ASSUME NEW m, SentOnce(m),
                        NEW i \in 1..Len(queue'), NEW j \in 1..Len(queue'),
                        queue'[i] = m, queue'[j] = m
                 PROVE  i = j
    BY DEF SentOnce
  <2>2. i + 1 = j + 1
    BY <1>1, <2>1 DEF SentOnce
  <2>3. QED
    BY <2>2
<1>5. \A m : m = Head(queue) /\ SentOnce(m) => ~ Sent(m)'
  <2>1. SUFFICES ASSUME NEW m, m = Head(queue), SentOnce(m),
                        NEW i \in 1..Len(queue'), queue'[i] = m
                 PROVE  FALSE
    BY DEF Sent
  <2>2. i + 1 = 1
    BY <1>1, <2>1 DEF SentOnce
  <2>3. QED
    BY <2>2
<1>6. \A m, n : SentBefore(m, n) => SentBefore(m, n)'
  <2>1. SUFFICES ASSUME NEW m, NEW n, SentBefore(m, n)
                 PROVE  SentBefore(m, n)'
    OBVIOUS
  <2>2. CASE ToSend(n)
    BY <1>2, <2>2 DEF SentBefore
  <2>3. CASE ~ ToSend(n)
    <3>1. SUFFICES ASSUME NEW i \in 1..Len(queue'), queue'[i] = m
                   PROVE  \E j \in 1..Len(queue') : j > i /\ queue'[j] = n
      BY DEF SentBefore
    <3>2. PICK j \in 1..Len(queue) : j > i + 1 /\ queue[j] = n
      BY <1>1, <2>1, <2>3, <3>1 DEF SentBefore
    <3>3. j - 1 \in 1..Len(queue') /\ queue'[j - 1] = n /\ j - 1 > i
      BY <1>1, <3>2
    <3>4. QED
      BY <3>3
  <2>4. QED
    BY <2>2, <2>3
<1>7. \A n : SentBefore(Head(queue), n) => Sent(n)' \/ ToSend(n)
  <2>1. SUFFICES ASSUME NEW n, SentBefore(Head(queue), n), ~ ToSend(n)
                 PROVE  Sent(n)'
    OBVIOUS
  <2>2. PICK j \in 1..Len(queue) : j > 1 /\ queue[j] = n
    BY <1>1, <2>1 DEF SentBefore
  <2>3. j - 1 \in 1..Len(queue') /\ queue'[j - 1] = n
    BY <1>1, <2>2
  <2>4. QED
    BY <2>3 DEF Sent
<1>8. Sent(Head(queue))
  BY <1>1 DEF Sent
<1>9. QED
  BY <1>2, <1>3, <1>4, <1>5, <1>6, <1>7, <1>8

\* The messages that add or remove are the same and in the same order, k places further
\* to the front.
Shifted(k) ==
  /\ \A i \in 1..Len(queue') : queue'[i].op \in {"add", "remove"} =>
       i + k \in 1..Len(queue) /\ queue[i + k] = queue'[i]
  /\ \A i \in 1..Len(queue) : queue[i].op \in {"add", "remove"} =>
       i - k \in 1..Len(queue') /\ queue'[i - k] = queue[i]

LEMMA Shifting ==
  ASSUME TypeOK, NEW k \in {0, 1}, Shifted(k), gDataMutex' = gDataMutex,
         Len(queue') \in Nat
  PROVE  /\ \A m : ToSend(m)' <=> ToSend(m)
         /\ \A m : ToSendOnce(m)' <=> ToSendOnce(m)
         /\ \A m : m.op \in {"add", "remove"} =>
              (Sent(m)' <=> Sent(m)) /\ (SentOnce(m) => SentOnce(m)')
         /\ \A m, n : m.op \in {"add", "remove"} /\ n.op \in {"add", "remove"} =>
              (SentBefore(m, n) => SentBefore(m, n)')
<1>1. Len(queue) \in Nat
  BY DEF TypeOK
<1>2. \A m : (ToSend(m)' <=> ToSend(m)) /\ (ToSendOnce(m)' <=> ToSendOnce(m))
  BY DEF ToSend, ToSendOnce
<1>3. \A m : m.op \in {"add", "remove"} => (Sent(m)' <=> Sent(m))
  BY DEF Sent, Shifted
<1>4. \A m : m.op \in {"add", "remove"} => (SentOnce(m) => SentOnce(m)')
  <2>1. SUFFICES ASSUME NEW m, m.op \in {"add", "remove"}, SentOnce(m),
                        NEW i \in 1..Len(queue'), NEW j \in 1..Len(queue'),
                        queue'[i] = m, queue'[j] = m
                 PROVE  i = j
    BY DEF SentOnce
  <2>2. i + k = j + k
    BY <2>1 DEF SentOnce, Shifted
  <2>3. QED
    BY <2>2
<1>5. \A m, n : m.op \in {"add", "remove"} /\ n.op \in {"add", "remove"} =>
        (SentBefore(m, n) => SentBefore(m, n)')
  <2>1. SUFFICES ASSUME NEW m, NEW n, SentBefore(m, n), ~ ToSend(n),
                        m.op \in {"add", "remove"}, n.op \in {"add", "remove"},
                        NEW i \in 1..Len(queue'), queue'[i] = m
                 PROVE  \E j \in 1..Len(queue') : j > i /\ queue'[j] = n
    BY <1>2 DEF SentBefore
  <2>2. PICK j \in 1..Len(queue) : j > i + k /\ queue[j] = n
    BY <2>1 DEF SentBefore, Shifted
  <2>3. j - k \in 1..Len(queue') /\ queue'[j - k] = n /\ j - k > i
    BY <2>1, <2>2 DEF Shifted
  <2>4. QED
    BY <2>3
<1>6. QED
  BY <1>2, <1>3, <1>4, <1>5

LEMMA Sending ==
  ASSUME TypeOK, gDataMutex # <<>>, queue' = Append(queue, Head(gDataMutex)),
         gDataMutex' = Tail(gDataMutex)
  PROVE  /\ \A m : Named(m)' <=> Named(m)
         /\ \A m : Sent(m)' <=> Sent(m) \/ m = Head(gDataMutex)
         /\ \A m : ToSend(m)' => ToSend(m)
         /\ ToSend(Head(gDataMutex))
         /\ \A m : m = Head(gDataMutex) /\ ToSendOnce(m) => ~ ToSend(m)'
         /\ \A m : ToSendOnce(m) => ToSendOnce(m)'
         /\ \A m : SentOnce(m) /\ (m = Head(gDataMutex) => ~ Sent(m)) => SentOnce(m)'
         /\ \A m, n : SentBefore(m, n) /\ m # Head(gDataMutex) => SentBefore(m, n)'
<1> DEFINE h == Head(gDataMutex)
<1>1. /\ h \in Messages /\ 1 \in 1..Len(gDataMutex) /\ gDataMutex[1] = h
      /\ \A i \in 1..Len(gDataMutex') :
           i + 1 \in 1..Len(gDataMutex) /\ gDataMutex'[i] = gDataMutex[i + 1]
      /\ \A i \in 1..Len(gDataMutex) :
           i # 1 => i - 1 \in 1..Len(gDataMutex') /\ gDataMutex'[i - 1] = gDataMutex[i]
  BY TailFacts DEF TypeOK
<1>2. /\ Len(queue) \in Nat /\ Len(queue') = Len(queue) + 1 /\ queue'[Len(queue) + 1] = h
      /\ \A i \in 1..Len(queue) : queue'[i] = queue[i]
  BY <1>1, AppendFacts DEF TypeOK
<1>3. \A i \in 1..Len(queue') : i \in 1..Len(queue) \/ i = Len(queue) + 1
  BY <1>2
<1>4. 1..Len(queue) \subseteq 1..Len(queue') /\ Len(queue) + 1 \in 1..Len(queue')
  BY <1>2
<1> HIDE DEF h
<1>5. \A m : Sent(m)' <=> Sent(m) \/ m = h
  BY <1>2, <1>3, <1>4 DEF Sent
<1>6. \A m : ToSend(m)' => ToSend(m)
  BY <1>1 DEF ToSend
<1>7. \A m : ToSend(m) => ToSend(m)' \/ m = h
  <2>1. TAKE m
  <2>2. ASSUME NEW i \in 1..Len(gDataMutex), gDataMutex[i] = m, i # 1
        PROVE  ToSend(m)'
    BY <1>1, <2>2 DEF ToSend
  <2>3. QED
    BY <1>1, <2>2 DEF ToSend
<1>8. ToSend(h)
  BY <1>1 DEF ToSend
<1>9. \A m : m = h /\ ToSendOnce(m) => ~ ToSend(m)'
  <2>1. SUFFICES ASSUME NEW m, m = h, ToSendOnce(m),
                        NEW i \in 1..Len(gDataMutex'), gDataMutex'[i] = m
                 PROVE  FALSE
    BY DEF ToSend
  <2>2. i + 1 = 1
    BY <1>1, <2>1 DEF ToSendOnce
  <2>3. QED
    BY <2>2
<1>10. \A m : ToSendOnce(m) => ToSendOnce(m)'
  <2>1. SUFFICES ASSUME NEW m, ToSendOnce(m),
                        NEW i \in 1..Len(gDataMutex'), NEW j \in 1..Len(gDataMutex'),
                        gDataMutex'[i] = m, gDataMutex'[j] = m
                 PROVE  i = j
    BY DEF ToSendOnce
  <2>2. i + 1 = j + 1
    BY <1>1, <2>1 DEF ToSendOnce
  <2>3. QED
    BY <2>2
<1>11. \A m : SentOnce(m) /\ (m = h => ~ Sent(m)) => SentOnce(m)'
  BY <1>2, <1>3 DEF SentOnce, Sent
<1>12. \A m, n : SentBefore(m, n) /\ m # h => SentBefore(m, n)'
  <2> SUFFICES ASSUME NEW m, NEW n, SentBefore(m, n), m # h
               PROVE  SentBefore(m, n)'
    OBVIOUS
  <2>1. SUFFICES ASSUME ~ ToSend(n)', NEW i \in 1..Len(queue'), queue'[i] = m
                 PROVE  \E j \in 1..Len(queue') : j > i /\ queue'[j] = n
    BY DEF SentBefore
  <2>2. i \in 1..Len(queue) /\ queue[i] = m
    BY <1>2, <1>3, <2>1
  <2>3. CASE ToSend(n)
    <3>1. n = h
      BY <1>7, <2>1, <2>3
    <3>2. Len(queue) + 1 > i
      BY <1>2, <2>2
    <3>3. QED
      BY <1>2, <1>4, <3>1, <3>2
  <2>4. CASE ~ ToSend(n)
    BY <1>2, <1>4, <2>1, <2>2, <2>4 DEF SentBefore
  <2>5. QED
    BY <2>3, <2>4
<1>13. \A m : Named(m)' <=> Named(m)
  BY <1>5, <1>6, <1>7, <1>8 DEF Named
<1>14. QED
  BY <1>5, <1>6, <1>8, <1>9, <1>10, <1>11, <1>12, <1>13 DEF h

-----------------------------------------------------------------------------
(***************************************************************************)
(* Types.                                                                  *)
(***************************************************************************)
LEMMA LoadFacts ==
  ASSUME TypeOK, NEW kinds \in Kinds, Load(kinds)
  PROVE  /\ interfaces' \in Kinds /\ loadFailed' \in Kinds
         /\ interfaces \subseteq interfaces' /\ loadFailed \subseteq loadFailed'
         /\ kinds \subseteq interfaces' \cup loadFailed'
         /\ (interfaces' \ interfaces) \cap loadFailed' = {}
         /\ (loadFailed' \ loadFailed) \cap interfaces = {}
  BY DEF TypeOK, Kinds, Load

LEMMA TypeInit == Init => TypeOK
  BY BoundsAssumption DEF Init, TypeOK, Kinds

LEMMA TypeStep == TypeOK /\ [Next]_vars => TypeOK'
<1> SUFFICES ASSUME TypeOK, [Next]_vars PROVE TypeOK'
  OBVIOUS
<1> USE BoundsAssumption
<1>1. ASSUME NEW c \in Clients, NEW kinds \in Kinds, CreateInstance(c, kinds)
      PROVE  TypeOK'
  <2>1. interfaces' \in Kinds /\ loadFailed' \in Kinds
    BY <1>1, LoadFacts DEF CreateInstance
  <2>2. gDataMutex' \in Seq(Messages)
    <3>1. kinds \cap interfaces' \in Kinds
      BY <2>1 DEF Kinds
    <3>2. QED
      BY <1>1, <3>1, RegistrationFacts DEF CreateInstance
  <2>3. QED
    BY <1>1, <2>1, <2>2 DEF CreateInstance, TypeOK, With, adapterVars
<1>2. ASSUME NEW c \in Clients, NEW kinds \in Kinds, UpdateCallbacks(c, kinds)
      PROVE  TypeOK'
  <2>1. interfaces' \in Kinds /\ loadFailed' \in Kinds
    BY <1>2, LoadFacts DEF UpdateCallbacks
  <2>2. gDataMutex' \in Seq(Messages)
    <3>1. kinds \cap interfaces' \in Kinds
      BY <2>1 DEF Kinds
    <3>2. QED
      BY <1>2, <3>1, EachFacts DEF UpdateCallbacks, OneForEach
  <2>3. QED
    BY <1>2, <2>1, <2>2 DEF UpdateCallbacks, TypeOK, With, adapterVars
<1>3. ASSUME NEW c \in Clients, NEW callback \in BOOLEAN, Destroy(c, callback)
      PROVE  TypeOK'
  <2>1. gDataMutex' \in Seq(Messages)
    <3>1. clientData[c] \cap interfaces \in Kinds
      BY DEF Kinds, TypeOK
    <3>2. QED
      BY <1>3, <3>1, EachFacts DEF Destroy, OneForEach
  <2>2. clientData[c] \cap interfaces \in Kinds
    BY DEF TypeOK, Kinds
  <2>3. QED
    BY <1>3, <2>1, <2>2 DEF Destroy, TypeOK, With, Without, adapterVars
<1>4. CASE Send
  <2>1. gDataMutex' \in Seq(Messages) /\ Head(gDataMutex) \in Messages
    BY <1>4, TailFacts DEF Send, TypeOK
  <2>2. queue' \in Seq(Messages)
    BY <1>4, <2>1, AppendFacts DEF Send, TypeOK
  <2>3. QED
    BY <1>4, <2>1, <2>2 DEF Send, TypeOK, gData, adapterVars
<1>5. ASSUME queue # <<>>
      PROVE  Tail(queue) \in Seq(Messages)
  BY <1>5, TailFacts DEF TypeOK
<1>6. CASE HandleAdd
  BY <1>5, <1>6, HeadFacts DEF HandleAdd, Handling, C, TypeOK, gData
<1>7. CASE HandleRemove
  <2>1. A \in Adapters /\ C \in Clients
    BY <1>7, HeadFacts DEF HandleRemove, Handling
  <2>2. QED
    BY <1>5, <1>7, <2>1 DEF HandleRemove, Handling, TypeOK, Tasks, gData
<1>8. CASE RemoveClientComplete
  <2>1. task \in Tasks
    BY <1>8 DEF RemoveClientComplete, TypeOK
  <2>2. [task EXCEPT !.do = "delete"] \in Tasks
    BY <2>1 DEF Tasks
  <2>3. task' \in {None} \cup Tasks
    BY <1>8, <2>2 DEF RemoveClientComplete
  <2>4. /\ DOMAIN destroyClientData' \subseteq Clients
        /\ \A c \in DOMAIN destroyClientData' : destroyClientData'[c] \in Kinds \ {{}}
    <3>1. CASE task.c \notin DOMAIN destroyClientData
      BY <1>8, <3>1 DEF RemoveClientComplete, TypeOK
    <3>2. CASE /\ task.c \in DOMAIN destroyClientData
               /\ destroyClientData' = Without(destroyClientData, task.c)
      BY <3>2 DEF TypeOK, Without
    <3>3. CASE /\ task.c \in DOMAIN destroyClientData
               /\ ~ destroyClientData[task.c] \subseteq {task.a}
               /\ destroyClientData' = [destroyClientData EXCEPT ![task.c] = @ \ {task.a}]
      BY <3>3 DEF TypeOK, Kinds
    <3>4. QED
      BY <1>8, <3>1, <3>2, <3>3 DEF RemoveClientComplete
  <2>5. QED
    BY <1>8, <2>3, <2>4 DEF RemoveClientComplete, TypeOK, adapterVars
<1>9. CASE CompleteDestroy
  BY <1>9 DEF CompleteDestroy, TypeOK, gData, adapterVars
<1>10. CASE HandleRequest
  <2>1. A \in Adapters /\ C \in Clients
    BY <1>10, HeadFacts DEF HandleRequest, Handling
  <2>2. mPendingMsgs' \in [Adapters -> Seq(Clients)]
    <3>1. Append(mPendingMsgs[A], C) \in Seq(Clients)
      BY <2>1, AppendFacts DEF TypeOK
    <3>2. QED
      BY <1>10, <2>1, <3>1 DEF HandleRequest, TypeOK
  <2>3. queue' \in Seq(Messages)
    BY <1>5, <1>10 DEF HandleRequest, Handling
  <2>4. told' \subseteq Clients
    BY <1>10, <2>1 DEF HandleRequest, TypeOK
  <2>5. QED
    BY <1>10, <2>2, <2>3, <2>4 DEF HandleRequest, TypeOK, gData
<1>11. CASE HandleEngineUp
  <2>1. A \in Adapters /\ queue # <<>>
    BY <1>11, HeadFacts DEF HandleEngineUp, Handling
  <2>2. PICK w : w = [i \in DOMAIN mPendingMsgs[A] |-> Msg("request", A, mPendingMsgs[A][i])]
    OBVIOUS
  <2>3. w \in Seq(Messages)
    <3>1. PICK p \in Seq(Clients) : p = mPendingMsgs[A]
      BY <2>1 DEF TypeOK
    <3>2. /\ Len(p) \in Nat /\ w = [i \in 1..Len(p) |-> Msg("request", A, p[i])]
          /\ \A i \in 1..Len(p) : p[i] \in Clients
      BY <2>2, <3>1
    <3>3. \A i \in 1..Len(p) : Msg("request", A, p[i]) \in Messages
      BY <2>1, <3>2, MessageFacts
    <3>4. QED
      BY <3>2, <3>3
  <2>4. queue' = Tail(queue) \o w
    BY <1>11, <2>2 DEF HandleEngineUp
  <2>5. queue' \in Seq(Messages)
    BY <1>5, <2>1, <2>3, <2>4
  <2>6. QED
    BY <1>11, <2>1, <2>5 DEF HandleEngineUp, TypeOK, Kinds, gData
<1>12. ASSUME NEW a \in Adapters, EngineUp(a)
       PROVE  TypeOK'
  <2>1. queue' \in Seq(Messages)
    <3>1. Msg("engineUp", a, None) \in Messages
      BY DEF Msg, Messages
    <3>2. QED
      BY <1>12, <3>1, AppendFacts DEF EngineUp, TypeOK
  <2>2. QED
    BY <1>12, <2>1 DEF EngineUp, TypeOK, gData, adapterVars
<1>13. CASE UNCHANGED vars
  BY <1>13 DEF vars, TypeOK, gData, adapterVars
<1>14. QED
  BY <1>1, <1>2, <1>3, <1>4, <1>6, <1>7, <1>8, <1>9, <1>10, <1>11, <1>12, <1>13
     DEF Next, ClientNext, TaskNext

-----------------------------------------------------------------------------
(***************************************************************************)
(* The invariant.                                                          *)
(***************************************************************************)
LEMMA InvInit == Init => IInv
<1> SUFFICES ASSUME Init PROVE IInv
  OBVIOUS
<1>1. TypeOK
  BY TypeInit
<1>2. Len(<<>>) = 0 /\ \A m : ~ Sent(m) /\ ~ ToSend(m)
  BY DEF Init, Sent, ToSend
<1>3. \A m : SentOnce(m) /\ ToSendOnce(m)
  BY DEF Init, SentOnce, ToSendOnce
<1>4. DOMAIN clientData = {} /\ DOMAIN destroyClientData = {}
  BY DEF Init
<1>5. \A do, a, c : ~ Doing(do, a, c) \/ task = None
  BY DEF Init
<1>6. \A do \in {"complete", "delete"}, a \in Adapters, c \in Clients : ~ Doing(do, a, c)
  BY NamesAssumption DEF Init, Doing, Tasks
<1>7. LifeOK
  BY <1>2, <1>4, <1>6 DEF Init, LifeOK, Named, Gone, Has
<1>8. QED
  BY <1>1, <1>2, <1>3, <1>4, <1>6, <1>7
     DEF Init, IInv, AddedOK, OnceOK, RemovedOK, Registered, Named

\* Steps that leave alone what the invariant speaks of, other messages aside.
LEMMA Passing ==
  ASSUME IInv, TypeOK',
         UNCHANGED <<gData, task, mClientData, object>>,
         \A m : (ToSend(m)' <=> ToSend(m)) /\ (ToSendOnce(m)' <=> ToSendOnce(m)),
         \A m : m.op \in {"add", "remove"} =>
           (Sent(m)' <=> Sent(m)) /\ (SentOnce(m) => SentOnce(m)'),
         \A m, n : m.op \in {"add", "remove"} /\ n.op \in {"add", "remove"} =>
           (SentBefore(m, n) => SentBefore(m, n)')
  PROVE  IInv'
<1>1. \A a \in Adapters, c \in Clients :
        /\ Sent(Add(a, c))' <=> Sent(Add(a, c))
        /\ Sent(Remove(a, c))' <=> Sent(Remove(a, c))
        /\ SentOnce(Remove(a, c)) => SentOnce(Remove(a, c))'
        /\ SentBefore(Add(a, c), Remove(a, c)) => SentBefore(Add(a, c), Remove(a, c))'
        /\ ToSend(Add(a, c))' <=> ToSend(Add(a, c))
        /\ ToSend(Remove(a, c))' <=> ToSend(Remove(a, c))
        /\ ToSendOnce(Remove(a, c))' <=> ToSendOnce(Remove(a, c))
  BY MessageFacts
<1>2. \A a \in Adapters, c \in Clients :
        /\ Named(Add(a, c))' <=> Named(Add(a, c))
        /\ Named(Remove(a, c))' <=> Named(Remove(a, c))
        /\ Has(a, c)' <=> Has(a, c)
        /\ \A do \in {"complete", "delete"} : Doing(do, a, c)' <=> Doing(do, a, c)
  BY <1>1 DEF Named, Has, Doing
<1>3. \A c \in Clients : Gone(c)' <=> Gone(c)
  BY <1>2 DEF Gone
<1>4. DOMAIN clientData \subseteq Clients /\ DOMAIN destroyClientData \subseteq Clients
  BY DEF IInv, TypeOK
<1>5. LifeOK'
  BY <1>1, <1>2, <1>3 DEF IInv, LifeOK, gData
<1>6. AddedOK'
  BY <1>2, <1>4 DEF IInv, AddedOK, gData
<1>7. OnceOK'
  BY <1>1, <1>2 DEF IInv, OnceOK
<1>8. RemovedOK'
  BY <1>1, <1>2, <1>4 DEF IInv, RemovedOK, gData
<1>9. Registered'
  <2>1. \A c \in DOMAIN clientData : clientData[c] \subseteq Adapters
    BY DEF IInv, TypeOK, Kinds
  <2>2. QED
    BY <1>2, <1>4, <2>1 DEF IInv, Registered, gData
<1>10. QED
  BY <1>5, <1>6, <1>7, <1>8, <1>9 DEF IInv

LEMMA InvHandleRequest == IInv /\ TypeOK' /\ HandleRequest => IInv'
<1> SUFFICES ASSUME IInv, TypeOK', HandleRequest PROVE IInv'
  OBVIOUS
<1>1. TypeOK /\ queue # <<>> /\ queue' = Tail(queue) /\ gDataMutex' = gDataMutex
  BY DEF IInv, HandleRequest, Handling
<1>2. Head(queue).op \notin {"add", "remove"}
  BY DEF HandleRequest, Handling
<1>3. QED
  BY <1>1, <1>2, Taking, Passing DEF HandleRequest

LEMMA InvHandleEngineUp == IInv /\ TypeOK' /\ HandleEngineUp => IInv'
<1> SUFFICES ASSUME IInv, TypeOK', HandleEngineUp PROVE IInv'
  OBVIOUS
<1>1. /\ TypeOK /\ queue # <<>> /\ gDataMutex' = gDataMutex /\ A \in Adapters
      /\ Head(queue).op \notin {"add", "remove"}
  BY HeadFacts DEF IInv, HandleEngineUp, Handling
<1>2. PICK p \in Seq(Clients) : p = mPendingMsgs[A]
  BY <1>1 DEF TypeOK
<1>3. PICK w : w = [i \in DOMAIN p |-> Msg("request", A, p[i])]
  OBVIOUS
<1>4. /\ w \in Seq(Messages) /\ \A i \in 1..Len(w) : w[i].op \notin {"add", "remove"}
  <2>1. /\ Len(p) \in Nat /\ w = [i \in 1..Len(p) |-> Msg("request", A, p[i])]
        /\ \A i \in 1..Len(p) : p[i] \in Clients
    BY <1>2, <1>3
  <2>2. \A i \in 1..Len(p) : /\ Msg("request", A, p[i]) \in Messages
                             /\ Msg("request", A, p[i]).op = "request"
    BY <1>1, <2>1, MessageFacts
  <2>3. QED
    BY <2>1, <2>2
<1>5. queue' = Tail(queue) \o w
  BY <1>2, <1>3 DEF HandleEngineUp
<1>6. PICK t \in Seq(Messages) : t = Tail(queue)
  BY <1>1, TailFacts DEF TypeOK
<1>7. /\ Len(queue') = Len(t) + Len(w) /\ Len(t) \in Nat /\ Len(w) \in Nat
      /\ \A i \in 1..Len(t) : queue'[i] = t[i]
      /\ \A i \in 1..Len(w) : queue'[i + Len(t)] = w[i]
  BY <1>4, <1>5, <1>6, JoinFacts
<1>8. /\ 1 \in 1..Len(queue) /\ queue[1] = Head(queue)
      /\ \A i \in 1..Len(t) : i + 1 \in 1..Len(queue) /\ t[i] = queue[i + 1]
      /\ \A i \in 1..Len(queue) : i # 1 => i - 1 \in 1..Len(t) /\ t[i - 1] = queue[i]
  BY <1>1, <1>6, TailFacts DEF TypeOK
<1>9. \A i \in 1..Len(queue') :
        i \in 1..Len(t) \/ (i - Len(t) \in 1..Len(w) /\ (i - Len(t)) + Len(t) = i)
  BY <1>7
<1>10. \A i \in 1..Len(queue') : i \in 1..Len(t) \/ queue'[i].op \notin {"add", "remove"}
  BY <1>4, <1>7, <1>9
<1>11. 1..Len(t) \subseteq 1..Len(queue')
  BY <1>7
<1>12. Shifted(1)
  BY <1>1, <1>7, <1>8, <1>10, <1>11 DEF Shifted
<1>13. QED
  BY <1>1, <1>7, <1>12, Shifting, Passing DEF HandleEngineUp

LEMMA InvEngineUp == ASSUME NEW a \in Adapters PROVE IInv /\ TypeOK' /\ EngineUp(a) => IInv'
<1> SUFFICES ASSUME IInv, TypeOK', EngineUp(a) PROVE IInv'
  OBVIOUS
<1>1. PICK m : m = Msg("engineUp", a, None)
  OBVIOUS
<1>2. m \in Messages /\ m.op \notin {"add", "remove"}
  BY <1>1 DEF Msg, Messages
<1>3. /\ TypeOK /\ gDataMutex' = gDataMutex /\ queue' = Append(queue, m)
      /\ UNCHANGED <<gData, task, mClientData, object>>
  BY <1>1 DEF IInv, EngineUp, adapterVars
<1>4. /\ Len(queue) \in Nat /\ Len(queue') = Len(queue) + 1 /\ queue'[Len(queue) + 1] = m
      /\ \A i \in 1..Len(queue) : queue'[i] = queue[i]
  BY <1>2, <1>3, AppendFacts DEF TypeOK
<1>5. \A i \in 1..Len(queue') : i \in 1..Len(queue) \/ i = Len(queue) + 1
  BY <1>4
<1>6. \A i \in 1..Len(queue) : i \in 1..Len(queue') /\ i + 0 = i /\ i - 0 = i
  BY <1>4
<1>7. \A i \in 1..Len(queue') :
        queue'[i].op \in {"add", "remove"} => i \in 1..Len(queue) /\ queue[i] = queue'[i]
  BY <1>2, <1>4, <1>5
<1>8. Shifted(0)
  BY <1>4, <1>6, <1>7 DEF Shifted
<1>9. Len(queue') \in Nat
  BY <1>4
<1>10. QED
  BY <1>3, <1>8, <1>9, Shifting, Passing

\* An adapter adds a client: its message leaves the queue, the client comes into the map.
LEMMA InvHandleAdd == IInv /\ TypeOK' /\ HandleAdd => IInv'
<1> SUFFICES ASSUME IInv, TypeOK', HandleAdd PROVE IInv'
  OBVIOUS
<1>1. /\ TypeOK /\ queue # <<>> /\ queue' = Tail(queue) /\ UNCHANGED gDataMutex
      /\ A \in Adapters /\ C \in Clients /\ Head(queue) = Add(A, C)
  BY HeadFacts DEF IInv, HandleAdd, Handling
<1>2. PICK a \in Adapters, c \in Clients : a = A /\ c = C /\ Head(queue) = Add(a, c)
  BY <1>1
<1>3. /\ mClientData' = [mClientData EXCEPT ![a] = @ \cup {c}]
      /\ UNCHANGED <<gData, task, object>>
  BY <1>2 DEF HandleAdd
<1>4. \A x \in Adapters, y \in Clients :
        y \in mClientData'[x] <=> y \in mClientData[x] \/ (x = a /\ y = c)
  BY <1>1, <1>3 DEF TypeOK
<1>5. Sent(Add(a, c))
  BY <1>1, <1>2, Taking
<1>6. \A x \in Adapters, y \in Clients :
        /\ Add(x, y) = Add(a, c) => x = a /\ y = c
        /\ Remove(x, y) # Add(a, c)
  <2>1. /\ Add(a, c).a = a /\ Add(a, c).c = c /\ Add(a, c).op = "add"
        /\ \A x \in Adapters, y \in Clients :
             /\ Add(x, y).a = x /\ Add(x, y).c = y
             /\ Remove(x, y).op = "remove"
    BY MessageFacts
  <2>2. QED
    BY <2>1
<1>7. \A x \in Adapters, y \in Clients :
        /\ Sent(Remove(x, y))' <=> Sent(Remove(x, y))
        /\ ToSend(Remove(x, y))' <=> ToSend(Remove(x, y))
        /\ Sent(Add(x, y))' => Sent(Add(x, y))
        /\ Sent(Add(x, y)) => Sent(Add(x, y))' \/ (x = a /\ y = c)
        /\ ToSend(Add(x, y))' <=> ToSend(Add(x, y))
        /\ SentOnce(Remove(x, y)) => SentOnce(Remove(x, y))'
        /\ ToSendOnce(Remove(x, y))' <=> ToSendOnce(Remove(x, y))
        /\ SentBefore(Add(x, y), Remove(x, y)) => SentBefore(Add(x, y), Remove(x, y))'
  BY <1>1, <1>2, <1>6, Taking
<1>8. SentBefore(Add(a, c), Remove(a, c)) => Named(Remove(a, c))
  BY <1>1, <1>2, <1>7, Taking DEF Named
<1>9. \A x \in Adapters, y \in Clients :
        /\ Named(Remove(x, y))' <=> Named(Remove(x, y))
        /\ Has(x, y)' <=> Has(x, y)
        /\ \A do \in {"complete", "delete"} : Doing(do, x, y)' <=> Doing(do, x, y)
  BY <1>3, <1>4, <1>5, <1>7 DEF Named, Has, Doing
<1>10. \A y \in Clients : Gone(y)' <=> Gone(y)
  BY <1>9 DEF Gone
<1>11. DOMAIN clientData \subseteq Clients /\ DOMAIN destroyClientData \subseteq Clients
  BY <1>1 DEF TypeOK
<1>12. LifeOK'
  BY <1>3, <1>7, <1>9, <1>10 DEF IInv, LifeOK, gData
<1>13. AddedOK'
  BY <1>3, <1>9, <1>11 DEF IInv, AddedOK, gData
<1>14. OnceOK'
  BY <1>7, <1>9 DEF IInv, OnceOK
<1>15. RemovedOK'
  BY <1>3, <1>4, <1>7, <1>8, <1>9, <1>11 DEF IInv, RemovedOK, gData
<1>16. Registered'
  <2>1. \A y \in DOMAIN clientData : clientData[y] \subseteq Adapters
    BY <1>1 DEF TypeOK, Kinds
  <2>2. QED
    BY <1>3, <1>9, <1>11, <2>1 DEF IInv, Registered, gData
<1>17. QED
  BY <1>12, <1>13, <1>14, <1>15, <1>16 DEF IInv

\* An adapter removes a client, and is about to say so.
LEMMA InvHandleRemove == IInv /\ TypeOK' /\ HandleRemove => IInv'
<1> SUFFICES ASSUME IInv, TypeOK', HandleRemove PROVE IInv'
  OBVIOUS
<1>1. /\ TypeOK /\ queue # <<>> /\ queue' = Tail(queue) /\ UNCHANGED gDataMutex
      /\ A \in Adapters /\ C \in Clients /\ Head(queue) = Remove(A, C)
  BY HeadFacts DEF IInv, HandleRemove, Handling
<1>2. PICK a \in Adapters, c \in Clients : a = A /\ c = C /\ Head(queue) = Remove(a, c)
  BY <1>1
<1>3. /\ mClientData' = [mClientData EXCEPT ![a] = @ \ {c}]
      /\ task = None /\ task' = [do |-> "complete", a |-> a, c |-> c]
      /\ UNCHANGED <<gData, object>>
  BY <1>2 DEF HandleRemove, Handling
<1>4. \A x \in Adapters, y \in Clients :
        y \in mClientData'[x] <=> y \in mClientData[x] /\ ~ (x = a /\ y = c)
  BY <1>1, <1>3 DEF TypeOK
<1>5. Sent(Remove(a, c))
  BY <1>1, <1>2, Taking
<1>6. \A x \in Adapters, y \in Clients :
        /\ Remove(x, y) = Remove(a, c) => x = a /\ y = c
        /\ Add(x, y) # Remove(a, c)
  <2>1. /\ Remove(a, c).a = a /\ Remove(a, c).c = c /\ Remove(a, c).op = "remove"
        /\ \A x \in Adapters, y \in Clients :
             /\ Remove(x, y).a = x /\ Remove(x, y).c = y
             /\ Add(x, y).op = "add"
    BY MessageFacts
  <2>2. QED
    BY <2>1
<1>7. \A x \in Adapters, y \in Clients :
        /\ Sent(Remove(x, y))' => Sent(Remove(x, y))
        /\ Sent(Remove(x, y)) => Sent(Remove(x, y))' \/ (x = a /\ y = c)
        /\ ToSend(Remove(x, y))' <=> ToSend(Remove(x, y))
        /\ Sent(Add(x, y))' <=> Sent(Add(x, y))
        /\ ToSend(Add(x, y))' <=> ToSend(Add(x, y))
        /\ SentOnce(Remove(x, y)) => SentOnce(Remove(x, y))'
        /\ ToSendOnce(Remove(x, y))' <=> ToSendOnce(Remove(x, y))
        /\ SentBefore(Add(x, y), Remove(x, y)) => SentBefore(Add(x, y), Remove(x, y))'
  BY <1>1, <1>2, <1>6, Taking
<1>8. ~ Named(Remove(a, c))'
  <2>1. SentOnce(Remove(a, c)) /\ ~ ToSend(Remove(a, c))
    BY <1>5 DEF IInv, OnceOK
  <2>2. ~ Sent(Remove(a, c))'
    BY <1>1, <1>2, <2>1, Taking
  <2>3. QED
    BY <1>7, <2>1, <2>2 DEF Named
<1>9. \A x \in Adapters, y \in Clients :
        /\ Named(Remove(x, y))' <=> Named(Remove(x, y)) /\ ~ (x = a /\ y = c)
        /\ Named(Add(x, y))' <=> Named(Add(x, y))
        /\ Has(x, y)' => Has(x, y)
        /\ Has(x, y) => Has(x, y)' \/ (x = a /\ y = c)
  BY <1>4, <1>7, <1>8 DEF Named, Has
<1>10. \A x \in Adapters, y \in Clients :
         /\ ~ Doing("delete", x, y)'
         /\ Doing("complete", x, y)' => x = a /\ y = c
  BY <1>3 DEF Doing
<1>11. \A y \in Clients : Gone(y) => Gone(y)'
  BY <1>9 DEF Gone
<1>12. DOMAIN clientData \subseteq Clients /\ DOMAIN destroyClientData \subseteq Clients
  BY <1>1 DEF TypeOK
<1>13. object[c] = "destroyed" /\ c \notin DOMAIN clientData
  BY <1>5 DEF IInv, LifeOK, Named
<1>14. LifeOK'
  BY <1>3, <1>7, <1>9, <1>10, <1>11, <1>13 DEF IInv, LifeOK, gData
<1>15. AddedOK'
  BY <1>3, <1>9, <1>12 DEF IInv, AddedOK, gData
<1>16. OnceOK'
  BY <1>7, <1>8, <1>10 DEF IInv, OnceOK
<1>17. RemovedOK'
  <2>1. Named(Remove(a, c))
    BY <1>5 DEF Named
  <2>2. QED
    BY <1>3, <1>4, <1>7, <1>9, <1>10, <1>12, <2>1 DEF IInv, RemovedOK, gData
<1>18. Registered'
  <2>1. \A y \in DOMAIN clientData : clientData[y] \subseteq Adapters
    BY <1>1 DEF TypeOK, Kinds
  <2>2. QED
    BY <1>3, <1>9, <1>12, <1>13, <2>1 DEF IInv, Registered, gData
<1>19. QED
  BY <1>14, <1>15, <1>16, <1>17, <1>18 DEF IInv

\* Steps of the task that leave the messages and the maps of the adapters alone.
LEMMA SameMessages ==
  ASSUME queue' = queue, gDataMutex' = gDataMutex, mClientData' = mClientData
  PROVE  /\ \A x \in Adapters, y \in Clients :
              /\ Sent(Remove(x, y))' <=> Sent(Remove(x, y))
              /\ ToSend(Remove(x, y))' <=> ToSend(Remove(x, y))
              /\ Named(Remove(x, y))' <=> Named(Remove(x, y))
              /\ ToSend(Add(x, y))' <=> ToSend(Add(x, y))
              /\ SentOnce(Remove(x, y))' <=> SentOnce(Remove(x, y))
              /\ ToSendOnce(Remove(x, y))' <=> ToSendOnce(Remove(x, y))
              /\ SentBefore(Add(x, y), Remove(x, y))' <=> SentBefore(Add(x, y), Remove(x, y))
              /\ Has(x, y)' <=> Has(x, y)
         /\ \A y \in Clients : Gone(y)' <=> Gone(y)
<1>1. \A m : (Sent(m)' <=> Sent(m)) /\ (ToSend(m)' <=> ToSend(m))
  BY DEF Sent, ToSend
<1>2. \A m : Named(m)' <=> Named(m)
  BY <1>1 DEF Named
<1>3. \A m : (SentOnce(m)' <=> SentOnce(m)) /\ (ToSendOnce(m)' <=> ToSendOnce(m))
  BY DEF SentOnce, ToSendOnce
<1>4. \A m, n : SentBefore(m, n)' <=> SentBefore(m, n)
  BY <1>1 DEF SentBefore
<1>5. \A x \in Adapters, y \in Clients : Has(x, y)' <=> Has(x, y)
  BY <1>2 DEF Has
<1>6. \A y \in Clients : Gone(y)' <=> Gone(y)
  BY <1>2, <1>5 DEF Gone
<1>7. QED
  BY <1>1, <1>2, <1>3, <1>4, <1>5, <1>6

\* The task tells destroy() that an adapter has removed its client.
LEMMA InvRemoveClientComplete == IInv /\ TypeOK' /\ RemoveClientComplete => IInv'
<1> SUFFICES ASSUME IInv, TypeOK', RemoveClientComplete PROVE IInv'
  OBVIOUS
<1>1. /\ TypeOK /\ UNCHANGED <<queue, gDataMutex, mClientData, clientData, object,
                               interfaces, loadFailed>>
      /\ task # None /\ task.do = "complete" /\ gDataMutex = <<>>
  BY DEF IInv, RemoveClientComplete, adapterVars
<1>0. /\ \A x \in Adapters, y \in Clients :
           /\ Sent(Remove(x, y))' <=> Sent(Remove(x, y))
           /\ ToSend(Remove(x, y))' <=> ToSend(Remove(x, y))
           /\ Named(Remove(x, y))' <=> Named(Remove(x, y))
           /\ ToSend(Add(x, y))' <=> ToSend(Add(x, y))
           /\ SentOnce(Remove(x, y))' <=> SentOnce(Remove(x, y))
           /\ ToSendOnce(Remove(x, y))' <=> ToSendOnce(Remove(x, y))
           /\ SentBefore(Add(x, y), Remove(x, y))' <=> SentBefore(Add(x, y), Remove(x, y))
           /\ Has(x, y)' <=> Has(x, y)
      /\ \A y \in Clients : Gone(y)' <=> Gone(y)
  BY <1>1, SameMessages
<1>2. PICK a \in Adapters, c \in Clients :
        task = [do |-> "complete", a |-> a, c |-> c] /\ task.a = a /\ task.c = c
  BY <1>1 DEF TypeOK, Tasks
<1>3. Doing("complete", a, c)
  BY <1>2 DEF Doing
<1>4. object[c] = "destroyed"
  BY <1>3 DEF IInv, LifeOK
<1>5. DOMAIN clientData \subseteq Clients /\ DOMAIN destroyClientData \subseteq Clients
  BY <1>1 DEF TypeOK
<1>6. AddedOK'
  BY <1>1, <1>5, <1>0 DEF IInv, AddedOK
<1>7. Registered'
  <2>1. \A y \in DOMAIN clientData : clientData[y] \subseteq Adapters
    BY <1>1 DEF TypeOK, Kinds
  <2>2. QED
    BY <1>1, <1>5, <2>1, <1>0 DEF IInv, Registered
<1>8. ~ Named(Remove(a, c))
  BY <1>3 DEF IInv, OnceOK
<1>9. \A x \in Adapters, y \in Clients : ~ Doing("complete", x, y)'
  <2>1. task' = None \/ task'.do = "delete"
    BY <1>1, <1>2 DEF RemoveClientComplete
  <2>2. QED
    BY <2>1, NamesAssumption DEF Doing, Tasks
<1>10. OnceOK'
  BY <1>1, <1>9, <1>0 DEF IInv, OnceOK
<1>11. CASE /\ c \in DOMAIN destroyClientData /\ destroyClientData[c] \subseteq {a}
            /\ destroyClientData' = Without(destroyClientData, c)
            /\ task' = [task EXCEPT !.do = "delete"]
  <2>1. /\ DOMAIN destroyClientData' = DOMAIN destroyClientData \ {c}
        /\ \A y \in DOMAIN destroyClientData' : destroyClientData'[y] = destroyClientData[y]
    BY <1>11 DEF Without
  <2>2. \A x \in Adapters : ~ Named(Remove(x, c))
    BY <1>8, <1>11 DEF IInv, RemovedOK
  <2>3. \A x \in Adapters : ~ Sent(Add(x, c))
    <3>1. SUFFICES ASSUME NEW x \in Adapters, Sent(Add(x, c)) PROVE FALSE
      OBVIOUS
    <3>2. SentBefore(Add(x, c), Remove(x, c))
      BY <1>11 DEF IInv, RemovedOK
    <3>3. Named(Remove(x, c))
      BY <3>1, <3>2 DEF Sent, SentBefore, Named
    <3>4. QED
      BY <2>2, <3>3
  <2>4. \A x \in Adapters : ~ ToSend(Add(x, c))
    BY <1>4 DEF IInv, LifeOK
  <2>5. Gone(c)
    BY <1>11, <2>2, <2>3, <2>4 DEF IInv, RemovedOK, Gone, Has, Named
  <2>6. \A x \in Adapters, y \in Clients : Doing("delete", x, y)' => y = c
    BY <1>2, <1>11 DEF Doing
  <2>7. LifeOK'
    BY <1>1, <1>4, <1>9, <2>1, <2>5, <2>6, <1>0 DEF IInv, LifeOK
  <2>8. RemovedOK'
    BY <1>1, <1>5, <1>9, <2>1, <1>0 DEF IInv, RemovedOK
  <2>9. QED
    BY <1>6, <1>7, <1>10, <2>7, <2>8 DEF IInv
<1>12. CASE task' = None /\ c \notin DOMAIN destroyClientData /\ UNCHANGED destroyClientData
  <2>1. \A do \in {"complete", "delete"}, x \in Adapters, y \in Clients : ~ Doing(do, x, y)'
    BY <1>12, NamesAssumption DEF Doing, Tasks
  <2>2. LifeOK'
    BY <1>1, <1>12, <2>1, <1>0 DEF IInv, LifeOK
  <2>3. RemovedOK'
    BY <1>1, <1>5, <1>12, <2>1, <1>0 DEF IInv, RemovedOK
  <2>4. QED
    BY <1>6, <1>7, <1>10, <2>2, <2>3 DEF IInv
<1>13. CASE /\ task' = None /\ c \in DOMAIN destroyClientData
            /\ destroyClientData' = [destroyClientData EXCEPT ![c] = @ \ {a}]
  <2>1. \A do \in {"complete", "delete"}, x \in Adapters, y \in Clients : ~ Doing(do, x, y)'
    BY <1>13, NamesAssumption DEF Doing, Tasks
  <2>2. /\ DOMAIN destroyClientData' = DOMAIN destroyClientData
        /\ \A y \in DOMAIN destroyClientData, x \in Adapters :
             x \in destroyClientData'[y] <=> x \in destroyClientData[y] /\ ~ (x = a /\ y = c)
    BY <1>13
  <2>3. LifeOK'
    BY <1>1, <2>1, <2>2, <1>0 DEF IInv, LifeOK
  <2>4. RemovedOK'
    BY <1>1, <1>5, <1>8, <2>1, <2>2, <1>0 DEF IInv, RemovedOK
  <2>5. QED
    BY <1>6, <1>7, <1>10, <2>3, <2>4 DEF IInv
<1>14. QED
  BY <1>2, <1>11, <1>12, <1>13 DEF RemoveClientComplete

\* The object is deleted.
LEMMA InvCompleteDestroy == IInv /\ TypeOK' /\ CompleteDestroy => IInv'
<1> SUFFICES ASSUME IInv, TypeOK', CompleteDestroy PROVE IInv'
  OBVIOUS
<1>1. /\ TypeOK /\ UNCHANGED <<queue, gDataMutex, mClientData, gData>>
      /\ task # None /\ task.do = "delete" /\ task' = None
  BY DEF IInv, CompleteDestroy, adapterVars
<1>0. /\ \A x \in Adapters, y \in Clients :
           /\ Sent(Remove(x, y))' <=> Sent(Remove(x, y))
           /\ ToSend(Remove(x, y))' <=> ToSend(Remove(x, y))
           /\ Named(Remove(x, y))' <=> Named(Remove(x, y))
           /\ ToSend(Add(x, y))' <=> ToSend(Add(x, y))
           /\ SentOnce(Remove(x, y))' <=> SentOnce(Remove(x, y))
           /\ ToSendOnce(Remove(x, y))' <=> ToSendOnce(Remove(x, y))
           /\ SentBefore(Add(x, y), Remove(x, y))' <=> SentBefore(Add(x, y), Remove(x, y))
           /\ Has(x, y)' <=> Has(x, y)
      /\ \A y \in Clients : Gone(y)' <=> Gone(y)
  BY <1>1, SameMessages
<1>2. PICK a \in Adapters, c \in Clients :
        task = [do |-> "delete", a |-> a, c |-> c] /\ task.c = c
  BY <1>1 DEF TypeOK, Tasks
<1>3. Doing("delete", a, c)
  BY <1>2 DEF Doing
<1>4. /\ object[c] = "destroyed" /\ c \notin DOMAIN destroyClientData /\ Gone(c)
  BY <1>3 DEF IInv, LifeOK
<1>5. object' = [object EXCEPT ![c] = "free"]
  BY <1>2 DEF CompleteDestroy
<1>6. \A y \in Clients : object'[y] = IF y = c THEN "free" ELSE object[y]
  BY <1>1, <1>5 DEF TypeOK
<1>7. \A do \in {"complete", "delete"}, x \in Adapters, y \in Clients : ~ Doing(do, x, y)'
  BY <1>1, NamesAssumption DEF Doing, Tasks
<1>8. \A x \in Adapters : ~ Named(Remove(x, c)) /\ ~ ToSend(Add(x, c))
  BY <1>4 DEF Gone, Has, Named
<1>9. DOMAIN clientData \subseteq Clients /\ DOMAIN destroyClientData \subseteq Clients
  BY <1>1 DEF TypeOK
<1>10. LifeOK'
  BY <1>1, <1>4, <1>6, <1>7, <1>8, <1>0 DEF IInv, LifeOK, gData
<1>11. AddedOK'
  BY <1>1, <1>9, <1>0 DEF IInv, AddedOK, gData
<1>12. OnceOK'
  BY <1>1, <1>7, <1>0 DEF IInv, OnceOK
<1>13. RemovedOK'
  BY <1>1, <1>7, <1>9, <1>0 DEF IInv, RemovedOK, gData
<1>14. Registered'
  <2>1. \A y \in DOMAIN clientData : clientData[y] \subseteq Adapters
    BY <1>1 DEF TypeOK, Kinds
  <2>2. QED
    BY <1>1, <1>9, <2>1, <1>0 DEF IInv, Registered, gData
<1>15. QED
  BY <1>10, <1>11, <1>12, <1>13, <1>14 DEF IInv

\* A message is sent.
LEMMA InvSend == IInv /\ TypeOK' /\ Send => IInv'
<1> SUFFICES ASSUME IInv, TypeOK', Send PROVE IInv'
  OBVIOUS
<1>1. /\ TypeOK /\ gDataMutex # <<>> /\ queue' = Append(queue, Head(gDataMutex))
      /\ gDataMutex' = Tail(gDataMutex) /\ UNCHANGED <<gData, task, mClientData, object>>
  BY DEF IInv, Send, adapterVars
<1>2. PICK h : h = Head(gDataMutex)
  OBVIOUS
<1>3. /\ \A m : Named(m)' <=> Named(m)
      /\ \A m : Sent(m)' <=> Sent(m) \/ m = h
      /\ \A m : ToSend(m)' => ToSend(m)
      /\ ToSend(h)
      /\ \A m : m = h /\ ToSendOnce(m) => ~ ToSend(m)'
      /\ \A m : ToSendOnce(m) => ToSendOnce(m)'
      /\ \A m : SentOnce(m) /\ (m = h => ~ Sent(m)) => SentOnce(m)'
      /\ \A m, n : SentBefore(m, n) /\ m # h => SentBefore(m, n)'
  BY <1>1, <1>2, Sending
<1>4. \A x \in Adapters, y \in Clients :
        /\ Has(x, y)' <=> Has(x, y)
        /\ \A do \in {"complete", "delete"} : Doing(do, x, y)' <=> Doing(do, x, y)
  BY <1>1, <1>3 DEF Has, Doing
<1>5. \A y \in Clients : Gone(y)' <=> Gone(y)
  BY <1>3, <1>4 DEF Gone
<1>6. DOMAIN clientData \subseteq Clients /\ DOMAIN destroyClientData \subseteq Clients
  BY <1>1 DEF TypeOK
<1>7. LifeOK'
  BY <1>1, <1>3, <1>4, <1>5 DEF IInv, LifeOK, gData
<1>8. AddedOK'
  BY <1>1, <1>4, <1>6 DEF IInv, AddedOK, gData
<1>9. OnceOK'
  <2>1. SUFFICES ASSUME NEW x \in Adapters, NEW y \in Clients
                 PROVE  /\ SentOnce(Remove(x, y))' /\ ToSendOnce(Remove(x, y))'
                        /\ ~ (Sent(Remove(x, y))' /\ ToSend(Remove(x, y))')
                        /\ Doing("complete", x, y)' => ~ Named(Remove(x, y))'
    BY DEF OnceOK
  <2>2. /\ SentOnce(Remove(x, y)) /\ ToSendOnce(Remove(x, y))
        /\ ~ (Sent(Remove(x, y)) /\ ToSend(Remove(x, y)))
        /\ Doing("complete", x, y) => ~ Named(Remove(x, y))
    BY DEF IInv, OnceOK
  <2>3. QED
    BY <1>3, <1>4, <2>2
<1>10. RemovedOK'
  <2>1. \A y \in DOMAIN destroyClientData, x \in Adapters : Add(x, y) # h
    BY <1>3, <1>6 DEF IInv, LifeOK
  <2>2. QED
    BY <1>1, <1>3, <1>4, <1>6, <2>1 DEF IInv, RemovedOK, gData
<1>11. Registered'
  <2>1. \A y \in DOMAIN clientData : clientData[y] \subseteq Adapters
    BY <1>1 DEF TypeOK, Kinds
  <2>2. QED
    BY <1>1, <1>4, <1>6, <2>1 DEF IInv, Registered, gData
<1>12. QED
  BY <1>7, <1>8, <1>9, <1>10, <1>11 DEF IInv

\* A client asks the adapters of the kinds it has now, which are those it had or more,
\* to add it.
LEMMA Registering ==
  ASSUME IInv, TypeOK', NEW c \in Clients, NEW kinds \in Kinds, Load(kinds),
         gDataMutex = <<>>, clientData' = With(clientData, c, kinds),
         UNCHANGED <<destroyClientData, queue, task, mClientData>>,
         object[c] \in {"free", "created"}, object' = [object EXCEPT ![c] = "created"],
         object[c] = "created" => clientData[c] \subseteq kinds,
         \A x \in Adapters : ToSend(Add(x, c))' <=> x \in kinds \cap interfaces',
         \A x \in Adapters, y \in Clients :
           ~ ToSend(Remove(x, y))' /\ (ToSend(Add(x, y))' => y = c)
  PROVE  IInv'
<1>1. \A m : ~ ToSend(m)
  BY DEF ToSend
<1>2. \A m : (Sent(m)' <=> Sent(m)) /\ (SentOnce(m)' <=> SentOnce(m))
  BY DEF Sent, SentOnce
<1>3. \A x \in Adapters, y \in Clients :
        SentBefore(Add(x, y), Remove(x, y)) => SentBefore(Add(x, y), Remove(x, y))'
  BY <1>1 DEF SentBefore
<1>4. \A x \in Adapters, y \in Clients : ToSendOnce(Remove(x, y))'
  BY DEF ToSendOnce, ToSend
<1>5. \A x \in Adapters, y \in Clients :
        /\ Named(Remove(x, y))' <=> Named(Remove(x, y))
        /\ y # c => (Has(x, y)' <=> Has(x, y))
        /\ Has(x, c)' <=> Has(x, c) \/ x \in kinds \cap interfaces'
        /\ \A do \in {"complete", "delete"} : Doing(do, x, y)' <=> Doing(do, x, y)
  BY <1>1, <1>2 DEF Named, Has, Doing
<1>6. \A y \in Clients : y # c => (Gone(y)' <=> Gone(y))
  BY <1>5 DEF Gone
<1>7. /\ interfaces \subseteq interfaces' /\ loadFailed \subseteq loadFailed'
      /\ kinds \subseteq interfaces' \cup loadFailed'
      /\ (interfaces' \ interfaces) \cap loadFailed' = {}
      /\ (loadFailed' \ loadFailed) \cap interfaces = {}
  BY LoadFacts DEF IInv
<1>8. /\ DOMAIN clientData' = DOMAIN clientData \cup {c} /\ clientData'[c] = kinds
      /\ \A y \in DOMAIN clientData : y # c => clientData'[y] = clientData[y]
  BY DEF With
<1>9. \A y \in Clients : object'[y] = IF y = c THEN "created" ELSE object[y]
  BY DEF IInv, TypeOK
<1>10. /\ DOMAIN clientData \subseteq Clients /\ DOMAIN destroyClientData \subseteq Clients
       /\ \A y \in DOMAIN clientData : clientData[y] \subseteq Adapters
  BY DEF IInv, TypeOK, Kinds
<1>11. \A x \in Adapters :
         /\ ~ Named(Remove(x, c))
         /\ \A do \in {"complete", "delete"} : ~ Doing(do, x, c)
  BY DEF IInv, LifeOK
<1>12. c \notin DOMAIN destroyClientData
  BY DEF IInv, LifeOK
<1>13. \A x \in Adapters : Has(x, c) => x \in kinds \cap interfaces
  BY DEF IInv, LifeOK, AddedOK, Gone
<1>14. LifeOK'
  BY <1>5, <1>6, <1>8, <1>9, <1>11, <1>12 DEF IInv, LifeOK
<1>15. AddedOK'
  <2>1. interfaces' \cap loadFailed' = {}
    BY <1>7 DEF IInv, AddedOK
  <2>2. \A y \in DOMAIN clientData : /\ clientData[y] \subseteq interfaces \cup loadFailed
                                     /\ \A x \in Adapters :
                                          Has(x, y) => x \in clientData[y] \cap interfaces
    BY DEF IInv, AddedOK
  <2>3. QED
    BY <1>5, <1>7, <1>8, <1>10, <1>13, <2>1, <2>2 DEF AddedOK
<1>16. OnceOK'
  BY <1>2, <1>4, <1>5 DEF IInv, OnceOK
<1>17. RemovedOK'
  BY <1>3, <1>5, <1>10 DEF IInv, RemovedOK
<1>18. Registered'
  <2>1. \A y \in DOMAIN clientData : clientData[y] \cap interfaces' \subseteq interfaces
    BY <1>7 DEF IInv, AddedOK
  <2>2. kinds \subseteq Adapters
    BY DEF Kinds
  <2>3. QED
    BY <1>5, <1>8, <1>10, <2>1, <2>2 DEF IInv, Registered
<1>19. QED
  BY <1>14, <1>15, <1>16, <1>17, <1>18 DEF IInv

LEMMA InvCreateInstance ==
  ASSUME NEW c \in Clients, NEW kinds \in Kinds
  PROVE  IInv /\ TypeOK' /\ CreateInstance(c, kinds) => IInv'
<1> SUFFICES ASSUME IInv, TypeOK', CreateInstance(c, kinds) PROVE IInv'
  OBVIOUS
<1>1. PICK s, k : k = kinds \cap interfaces' /\ s = Registration(c, k)
  OBVIOUS
<1>2. /\ \A x \in Adapters :
           (\E i \in 1..Len(s) : s[i] = Add(x, c)) <=> x \in kinds \cap interfaces'
      /\ \A i \in 1..Len(s) : s[i].op # "remove" /\ s[i].c = c
  <2>1. k \in Kinds
    BY <1>1 DEF Kinds
  <2>2. /\ \A x \in Adapters : (\E i \in 1..Len(s) : s[i] = Add(x, c)) <=> x \in k
        /\ \A i \in 1..Len(s) : s[i].op # "remove" /\ s[i].c = c
    <3>1. s = Registration(c, k)
      BY <1>1
    <3>2. \A i \in 1..Len(s) : s[i].op # "remove" /\ s[i].c = c
      BY <2>1, <3>1, RegistrationFacts
    <3>3. \A x \in Adapters : (\E i \in 1..Len(s) : s[i] = Add(x, c)) <=> x \in k
      BY <2>1, <3>1, RegistrationFacts
    <3>4. QED
      BY <3>2, <3>3
  <2>3. QED
    BY <1>1, <2>2
<1>3. gDataMutex' = s
  BY <1>1 DEF CreateInstance
<1>4. \A x \in Adapters : ToSend(Add(x, c))' <=> x \in kinds \cap interfaces'
  BY <1>2, <1>3 DEF ToSend
<1>5. \A x \in Adapters, y \in Clients :
        ~ ToSend(Remove(x, y))' /\ (ToSend(Add(x, y))' => y = c)
  BY <1>2, <1>3, MessageFacts DEF ToSend
<1>6. QED
  BY <1>4, <1>5, Registering DEF CreateInstance, adapterVars

LEMMA InvUpdateCallbacks ==
  ASSUME ~ Narrowing, NEW c \in Clients, NEW kinds \in Kinds
  PROVE  IInv /\ TypeOK' /\ UpdateCallbacks(c, kinds) => IInv'
<1> SUFFICES ASSUME IInv, TypeOK', UpdateCallbacks(c, kinds) PROVE IInv'
  OBVIOUS
<1>1. PICK s, k : /\ k = kinds \cap interfaces'
                  /\ s = [i \in DOMAIN InOrder(k) |-> Msg("add", InOrder(k)[i], c)]
  OBVIOUS
<1>2. \A m : (\E i \in 1..Len(s) : s[i] = m) <=> (\E a \in k : m = Add(a, c))
  <2>1. k \in Kinds
    BY <1>1 DEF Kinds
  <2>2. OneForEach(s, "add", k, c)
    BY <1>1, <2>1, EachFacts
  <2>3. QED
    BY <2>2 DEF OneForEach, Add
<1>3. gDataMutex' = s
  BY <1>1 DEF UpdateCallbacks
<1>4. \A m : ToSend(m)' <=> \E a \in k : m = Add(a, c)
  BY <1>2, <1>3 DEF ToSend
<1>5. k = kinds \cap interfaces' /\ k \subseteq Adapters
  BY <1>1 DEF Kinds
<1>6. \A x \in Adapters : ToSend(Add(x, c))' <=> x \in kinds \cap interfaces'
  BY <1>4, <1>5, MessageFacts
<1>7. \A x \in Adapters, y \in Clients :
        ~ ToSend(Remove(x, y))' /\ (ToSend(Add(x, y))' => y = c)
  BY <1>4, <1>5, MessageFacts
<1>8. object' = [object EXCEPT ![c] = "created"]
  BY DEF UpdateCallbacks, IInv, TypeOK
<1>9. QED
  BY <1>6, <1>7, <1>8, Registering DEF UpdateCallbacks, adapterVars

\* destroy() sends one message to each adapter that has the client or will.
LEMMA InvDestroy ==
  ASSUME NEW c \in Clients, NEW callback \in BOOLEAN
  PROVE  IInv /\ TypeOK' /\ Destroy(c, callback) => IInv'
<1> SUFFICES ASSUME IInv, TypeOK', Destroy(c, callback) PROVE IInv'
  OBVIOUS
<1>1. PICK wait : wait = clientData[c] \cap interfaces
  OBVIOUS
<1>2. PICK s : s = [i \in DOMAIN InOrder(wait) |-> Msg("remove", InOrder(wait)[i], c)]
  OBVIOUS
<1>3. wait \in Kinds /\ wait \subseteq Adapters
  BY <1>1 DEF IInv, TypeOK, Kinds
<1>4. /\ \A m : (\E i \in 1..Len(s) : s[i] = m) <=> (\E a \in wait : m = Remove(a, c))
      /\ \A i, j \in 1..Len(s) : s[i] = s[j] => i = j
  <2>1. OneForEach(s, "remove", wait, c)
    BY <1>2, <1>3, EachFacts
  <2>2. QED
    BY <2>1 DEF OneForEach, Remove
<1>5. /\ gDataMutex' = s /\ gDataMutex = <<>>
      /\ UNCHANGED <<interfaces, loadFailed, queue, task, mClientData>>
      /\ object[c] = "created" /\ clientData' = Without(clientData, c)
  BY <1>1, <1>2 DEF Destroy, adapterVars
<1>6. \A m : ~ ToSend(m) /\ (ToSend(m)' <=> \E a \in wait : m = Remove(a, c))
  BY <1>4, <1>5 DEF ToSend
<1>7. \A x \in Adapters, y \in Clients :
        /\ ~ ToSend(Add(x, y))'
        /\ ToSend(Remove(x, y))' <=> y = c /\ x \in wait
  BY <1>3, <1>6, MessageFacts
<1>8. \A m : ToSendOnce(m)'
  BY <1>4, <1>5 DEF ToSendOnce
<1>9. \A m : (Sent(m)' <=> Sent(m)) /\ (SentOnce(m)' <=> SentOnce(m))
  BY <1>5 DEF Sent, SentOnce
<1>10. \A x \in Adapters, y \in Clients :
         SentBefore(Add(x, y), Remove(x, y)) => SentBefore(Add(x, y), Remove(x, y))'
  BY <1>5, <1>6 DEF SentBefore
<1>11. \A x \in Adapters, y \in Clients :
         /\ Named(Remove(x, y))' <=> Named(Remove(x, y)) \/ (y = c /\ x \in wait)
         /\ Has(x, y)' <=> Has(x, y)
         /\ \A do \in {"complete", "delete"} : Doing(do, x, y)' <=> Doing(do, x, y)
  BY <1>5, <1>6, <1>7, <1>9 DEF Named, Has, Doing
<1>12. \A y \in Clients : y # c => (Gone(y)' <=> Gone(y))
  BY <1>11 DEF Gone
<1>13. /\ DOMAIN clientData' = DOMAIN clientData \ {c}
       /\ \A y \in DOMAIN clientData' : clientData'[y] = clientData[y]
  BY <1>5 DEF Without
<1>14. /\ DOMAIN clientData \subseteq Clients /\ DOMAIN destroyClientData \subseteq Clients
       /\ \A y \in DOMAIN clientData : clientData[y] \subseteq Adapters
  BY DEF IInv, TypeOK, Kinds
<1>15. \A x \in Adapters :
         /\ ~ Named(Remove(x, c))
         /\ \A do \in {"complete", "delete"} : ~ Doing(do, x, c)
  BY <1>5 DEF IInv, LifeOK
<1>16. c \in DOMAIN clientData /\ c \notin DOMAIN destroyClientData
  BY <1>5 DEF IInv, LifeOK
<1>17. \A x \in Adapters : Has(x, c) => x \in wait
  BY <1>1, <1>16 DEF IInv, AddedOK
<1>18. wait = {} => Gone(c)'
  BY <1>11, <1>15, <1>17 DEF Gone
<1>19. PICK waits : waits = (callback /\ wait # {})
  OBVIOUS
<1>20. /\ \A y \in Clients : y # c => object'[y] = object[y]
       /\ object'[c] = "destroyed" \/ (object'[c] = "free" /\ wait = {})
       /\ destroyClientData' = destroyClientData
            \/ (object'[c] = "destroyed"
                /\ destroyClientData' = With(destroyClientData, c, wait))
  BY <1>1 DEF Destroy, IInv, TypeOK
<1>21. /\ DOMAIN destroyClientData' \subseteq DOMAIN destroyClientData \cup {c}
       /\ c \in DOMAIN destroyClientData' => /\ object'[c] = "destroyed"
                                             /\ destroyClientData'[c] = wait
       /\ \A y \in DOMAIN destroyClientData :
            y \in DOMAIN destroyClientData' /\ destroyClientData'[y] = destroyClientData[y]
  BY <1>16, <1>20 DEF With
<1>22. LifeOK'
  <2>1. SUFFICES ASSUME NEW y \in Clients
                 PROVE
    (/\ object[y] = "created" <=> y \in DOMAIN clientData
     /\ y \in DOMAIN destroyClientData => object[y] = "destroyed"
     /\ \A a \in Adapters :
          /\ ToSend(Add(a, y)) => object[y] = "created"
          /\ Named(Remove(a, y)) => object[y] = "destroyed"
          /\ \A do \in {"complete", "delete"} : Doing(do, a, y) => object[y] = "destroyed"
          /\ Doing("delete", a, y) => y \notin DOMAIN destroyClientData /\ Gone(y)
     /\ object[y] = "free" => Gone(y))'
    BY DEF LifeOK
  <2>2. CASE y = c
    BY <1>7, <1>11, <1>13, <1>15, <1>18, <1>20, <1>21, <2>2
  <2>3. CASE y # c
    BY <1>7, <1>11, <1>12, <1>13, <1>20, <1>21, <2>3 DEF IInv, LifeOK
  <2>4. QED
    BY <2>2, <2>3
<1>23. AddedOK'
  BY <1>5, <1>11, <1>13, <1>14 DEF IInv, AddedOK
<1>24. OnceOK'
  BY <1>6, <1>7, <1>8, <1>9, <1>11, <1>15 DEF IInv, OnceOK, Named
<1>25. RemovedOK'
  <2>1. \A x \in Adapters :
          /\ c \in mClientData'[x] => Named(Remove(x, c))'
          /\ SentBefore(Add(x, c), Remove(x, c))'
    <3>1. \A x \in Adapters : c \in mClientData[x] \/ Sent(Add(x, c)) => x \in wait
      BY <1>17 DEF Has, Named
    <3>2. \A x \in Adapters : x \in wait => ToSend(Remove(x, c))'
      BY <1>7
    <3>3. QED
      BY <1>5, <3>1, <3>2 DEF SentBefore, Sent, Named
  <2>2. \A x \in Adapters, y \in DOMAIN destroyClientData :
          /\ y \in mClientData'[x] => Named(Remove(x, y))'
          /\ SentBefore(Add(x, y), Remove(x, y))'
          /\ Named(Remove(x, y))' \/ Doing("complete", x, y)' => x \in destroyClientData'[y]
    BY <1>5, <1>10, <1>11, <1>14, <1>16, <1>21 DEF IInv, RemovedOK
  <2>3. \A x \in Adapters : c \in DOMAIN destroyClientData' =>
          (Named(Remove(x, c))' \/ Doing("complete", x, c)' => x \in destroyClientData'[c])
    BY <1>11, <1>15, <1>21
  <2>4. QED
    BY <1>21, <2>1, <2>2, <2>3 DEF RemovedOK
<1>26. Registered'
  BY <1>5, <1>11, <1>13, <1>14 DEF IInv, Registered
<1>27. QED
  BY <1>22, <1>23, <1>24, <1>25, <1>26 DEF IInv

LEMMA InvStep == ~ Narrowing /\ IInv /\ [Next]_vars => IInv'
<1> SUFFICES ASSUME ~ Narrowing, IInv, [Next]_vars PROVE IInv'
  OBVIOUS
<1>1. TypeOK'
  BY TypeStep DEF IInv
<1>2. CASE ClientNext
  BY <1>1, <1>2, InvCreateInstance, InvUpdateCallbacks, InvDestroy DEF ClientNext
<1>3. CASE Send
  BY <1>1, <1>3, InvSend
<1>4. CASE TaskNext
  BY <1>1, <1>4, InvHandleAdd, InvHandleRemove, InvRemoveClientComplete,
     InvCompleteDestroy, InvHandleRequest, InvHandleEngineUp DEF TaskNext
<1>5. ASSUME NEW a \in Adapters, EngineUp(a)
      PROVE  IInv'
  BY <1>1, <1>5, InvEngineUp
<1>6. CASE UNCHANGED vars
  <2>1. queue' = queue /\ gDataMutex' = gDataMutex
        /\ UNCHANGED <<gData, task, mClientData, object>>
    BY <1>6 DEF vars, adapterVars
  <2>2. Shifted(0) /\ Len(queue') \in Nat /\ TypeOK
    BY <2>1 DEF Shifted, IInv, TypeOK
  <2>3. QED
    BY <1>1, <2>1, <2>2, Shifting, Passing
<1>7. QED
  BY <1>2, <1>3, <1>4, <1>5, <1>6 DEF Next

-----------------------------------------------------------------------------
(***************************************************************************)
(* Theorems.                                                               *)
(***************************************************************************)
\* The data of the API and of the adapters have their types.
THEOREM TypeCorrect == Spec => []TypeOK
  BY TypeInit, TypeStep, PTL DEF Spec

\* The messages under way that are not requests add or remove their client.
LEMMA UnderwayFacts ==
  ASSUME TypeOK, NEW c \in Clients
  PROVE  /\ \A m \in Underway(c) : m.op # "request" =>
              \E a \in Adapters : (m = Add(a, c) \/ m = Remove(a, c)) /\ Named(m)
         /\ \A m : m.c = c /\ Named(m) => m \in Underway(c)
<1>1. /\ Range(queue) = {queue[i] : i \in 1..Len(queue)}
      /\ Range(gDataMutex) = {gDataMutex[i] : i \in 1..Len(gDataMutex)}
  <2>1. DOMAIN queue = 1..Len(queue) /\ DOMAIN gDataMutex = 1..Len(gDataMutex)
    BY DEF TypeOK
  <2>2. QED
    BY <2>1 DEF Range
<1>2. \A m : m \in Range(queue) \cup Range(gDataMutex) <=> Named(m)
  BY <1>1 DEF Named, Sent, ToSend
<1>3. Range(queue) \cup Range(gDataMutex) \subseteq Messages
  BY <1>1 DEF TypeOK
<1>4. \A m \in Messages : m.c = c /\ m.op # "request" =>
        \E a \in Adapters : m = Add(a, c) \/ m = Remove(a, c)
  <2>1. SUFFICES ASSUME NEW m \in Messages, m.c = c, m.op # "request"
                 PROVE  \E a \in Adapters : m = Add(a, c) \/ m = Remove(a, c)
    OBVIOUS
  <2>2. m.c # None
    BY <2>1, NamesAssumption
  <2>3. m \in [op : {"add", "remove", "request"}, a : Adapters, c : Clients]
    BY <2>2 DEF Messages
  <2>4. m.a \in Adapters /\ m = [op |-> m.op, a |-> m.a, c |-> c]
    BY <2>1, <2>3
  <2>5. QED
    BY <2>1, <2>3, <2>4 DEF Add, Remove, Msg
<1>5. QED
  BY <1>2, <1>3, <1>4 DEF Underway

\* While callbacks are only added, memory that is deleted is no client of an adapter and
\* about to be none, for any number of clients that call at the same time.
THEOREM DeletedForgotten ==
  ASSUME ~ Narrowing
  PROVE  Spec => []DeletedClientIsForgotten
<1>1. IInv => DeletedClientIsForgotten
  <2>1. SUFFICES ASSUME IInv, NEW c \in Clients, object[c] = "free"
                 PROVE  /\ \A a \in Adapters : c \notin mClientData[a]
                        /\ \A m \in Underway(c) : m.op = "request"
    BY DEF DeletedClientIsForgotten
  <2>2. \A a \in Adapters : /\ c \notin mClientData[a]
                            /\ ~ Named(Add(a, c)) /\ ~ Named(Remove(a, c))
    BY <2>1 DEF IInv, LifeOK, Gone, Has
  <2>3. QED
    BY <2>1, <2>2, UnderwayFacts DEF IInv
<1>2. QED
  BY <1>1, InvInit, InvStep, PTL DEF Spec

\* While callbacks are only added, a client is with all its adapters that are loaded, or
\* the message that adds it is under way.
THEOREM ClientRegistered ==
  ASSUME ~ Narrowing
  PROVE  Spec => []ClientIsRegistered
<1>1. IInv => ClientIsRegistered
  <2>1. SUFFICES ASSUME IInv, NEW c \in DOMAIN clientData,
                        NEW a \in clientData[c] \cap interfaces
                 PROVE  c \in mClientData[a] \/ Add(a, c) \in Underway(c)
    BY DEF ClientIsRegistered, Add
  <2>2. c \in Clients /\ a \in Adapters
    BY <2>1 DEF IInv, TypeOK, Kinds
  <2>3. c \in mClientData[a] \/ Named(Add(a, c))
    BY <2>1 DEF IInv, Registered, Has
  <2>4. Add(a, c).c = c
    BY <2>2, MessageFacts
  <2>5. QED
    BY <2>1, <2>2, <2>3, <2>4, UnderwayFacts DEF IInv
<1>2. QED
  BY <1>1, InvInit, InvStep, PTL DEF Spec
=============================================================================
