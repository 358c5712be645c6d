--------------------------- MODULE GeofenceProofs ---------------------------
(***************************************************************************)
(* Proofs about Geofence, for a modem that fails the calls made before the *)
(* adapter knows of its restart (~EarlyCalls), and that gives out no       *)
(* hardware id twice between restarts (~ReusesIds).                        *)
(*                                                                         *)
(* The adapter, the messages and calls under way and the modem each have a *)
(* part of the truth about a geofence.  The invariant says what they have  *)
(* together: an id is carried by one message, one call or one object at a  *)
(* time; what is under way about a hardware id is about the geofence that  *)
(* has it; and what the modem has is what the adapter will have once it    *)
(* has handled its messages.  Its parts (the operators that end in OK) are *)
(* of parameters, not of variables, so that the lemmas speak of one step   *)
(* at a time: the first message is dropped, a call is made, an answer is   *)
(* sent, the modem restarts.                                               *)
(***************************************************************************)
EXTENDS Geofence, FiniteSetTheorems, TLAPS

-----------------------------------------------------------------------------
(***************************************************************************)
(* Sequences as sets.                                                      *)
(***************************************************************************)
LEMMA TailSet ==
  ASSUME NEW S, NEW q \in Seq(S), q # <<>>
  PROVE  /\ Tail(q) \in Seq(S) /\ Head(q) \in ToSet(q)
         /\ ToSet(q) = {Head(q)} \cup ToSet(Tail(q))
<1>1. PICK n \in Nat : n = Len(q)
  OBVIOUS
<1>2. /\ DOMAIN q = 1..n /\ DOMAIN Tail(q) = 1..(n - 1) /\ n >= 1 /\ Head(q) = q[1]
      /\ \A k \in 1..(n - 1) : Tail(q)[k] = q[k + 1]
  BY <1>1
<1>3. \A k \in 1..n : k = 1 \/ (k - 1 \in 1..(n - 1) /\ (k - 1) + 1 = k)
  BY <1>2
<1>4. \A k \in 1..(n - 1) : k + 1 \in 1..n
  BY <1>2
<1>5. 1 \in 1..n
  BY <1>2
<1>6. ToSet(q) \subseteq {Head(q)} \cup ToSet(Tail(q))
  <2> SUFFICES ASSUME NEW k \in 1..n
               PROVE  q[k] \in {Head(q)} \cup ToSet(Tail(q))
    BY <1>2 DEF ToSet
  <2>1. CASE k = 1
    BY <1>2, <2>1
  <2>2. CASE k - 1 \in 1..(n - 1) /\ (k - 1) + 1 = k
    <3>1. Tail(q)[k - 1] = q[k]
      BY <1>2, <2>2
    <3>2. QED
      BY <1>2, <2>2, <3>1 DEF ToSet
  <2>3. QED
    BY <1>3, <2>1, <2>2
<1>7. {Head(q)} \cup ToSet(Tail(q)) \subseteq ToSet(q)
  <2>1. \A k \in 1..(n - 1) : Tail(q)[k] \in ToSet(q)
    BY <1>2, <1>4 DEF ToSet
  <2>2. QED
    BY <1>2, <1>5, <2>1 DEF ToSet
<1>8. QED
  BY <1>2, <1>6, <1>7

LEMMA ConcatSet ==
  ASSUME NEW S, NEW q \in Seq(S), NEW r \in Seq(S)
  PROVE  q \o r \in Seq(S) /\ ToSet(q \o r) = ToSet(q) \cup ToSet(r)
<1>1. PICK n \in Nat, k \in Nat : n = Len(q) /\ k = Len(r)
  OBVIOUS
<1>2. PICK a : a = q \o r
  OBVIOUS
<1>3. /\ DOMAIN q = 1..n /\ DOMAIN r = 1..k /\ DOMAIN a = 1..(n + k)
      /\ \A i \in 1..(n + k) : a[i] = IF i <= n THEN q[i] ELSE r[i - n]
  BY <1>1, <1>2
<1>4. \A i \in 1..n : i \in 1..(n + k) /\ i <= n
  OBVIOUS
<1>5. \A i \in 1..k : n + i \in 1..(n + k) /\ ~(n + i <= n) /\ (n + i) - n = i
  OBVIOUS
<1>6. \A i \in 1..(n + k) : i \in 1..n \/ (~(i <= n) /\ i - n \in 1..k)
  OBVIOUS
<1>7. \A i \in 1..n : a[i] = q[i]
  BY <1>3, <1>4
<1>8. \A i \in 1..k : a[n + i] = r[i]
  BY <1>3, <1>5
<1>9. ToSet(q) \subseteq ToSet(a) /\ ToSet(r) \subseteq ToSet(a)
  <2>1. \A i \in 1..n : q[i] \in ToSet(a)
    BY <1>3, <1>4, <1>7 DEF ToSet
  <2>2. \A i \in 1..k : r[i] \in ToSet(a)
    <3> SUFFICES ASSUME NEW i \in 1..k
                 PROVE  r[i] \in ToSet(a)
      OBVIOUS
    <3>1. n + i \in DOMAIN a /\ a[n + i] = r[i]
      BY <1>3, <1>5, <1>8
    <3>2. QED
      BY <3>1 DEF ToSet
  <2>3. QED
    BY <1>3, <2>1, <2>2 DEF ToSet
<1>10. ToSet(a) \subseteq ToSet(q) \cup ToSet(r)
  <2> SUFFICES ASSUME NEW i \in 1..(n + k)
               PROVE  a[i] \in ToSet(q) \cup ToSet(r)
    BY <1>3 DEF ToSet
  <2>1. CASE i \in 1..n
    BY <1>3, <1>7, <2>1 DEF ToSet
  <2>2. CASE ~(i <= n) /\ i - n \in 1..k
    BY <1>3, <2>2 DEF ToSet
  <2>3. QED
    BY <1>6, <2>1, <2>2
<1>11. QED
  BY <1>2, <1>9, <1>10

LEMMA AppendSet ==
  ASSUME NEW S, NEW q \in Seq(S), NEW m \in S
  PROVE  Append(q, m) \in Seq(S) /\ ToSet(Append(q, m)) = ToSet(q) \cup {m}
<1>1. PICK n \in Nat : n = Len(q)
  OBVIOUS
<1>2. PICK a : a = Append(q, m)
  OBVIOUS
<1>3. /\ DOMAIN q = 1..n /\ DOMAIN a = 1..(n + 1) /\ a[n + 1] = m
      /\ \A k \in 1..n : a[k] = q[k]
  BY <1>1, <1>2
<1>4. (\A k \in 1..(n + 1) : k = n + 1 \/ k \in 1..n) /\ n + 1 \in 1..(n + 1)
      /\ \A k \in 1..n : k \in 1..(n + 1)
  OBVIOUS
<1>5. ToSet(a) = ToSet(q) \cup {m}
  BY <1>3, <1>4 DEF ToSet
<1>6. QED
  BY <1>2, <1>5

-----------------------------------------------------------------------------
(***************************************************************************)
(* What the messages and calls say, with the commands cs.                  *)
(***************************************************************************)
IsItem(cs, n, i) == n \in DOMAIN cs /\ i \in DOMAIN cs[n].ids

\* The id was given to client c.
Owns(cs, c, id) ==
  \E n \in DOMAIN cs : /\ cs[n].op = "add" /\ cs[n].client = c
                       /\ \E i \in DOMAIN cs[n].ids : cs[n].ids[i] = id

\* What the handlers rely on in a message.
MsgOK(cs, m) ==
  /\ m = [op |-> m.op, arg |-> m.arg, ok |-> m.ok, hw |-> m.hw] /\ m.ok \in BOOLEAN
  /\ m.op = "command" => m.arg \in DOMAIN cs
  /\ m.op = "item" => IsItem(cs, m.arg[1], m.arg[2])
  /\ m.op = "added" => /\ IsItem(cs, m.arg[1], m.arg[2])
                       /\ cs[m.arg[1]].op = "add"
                       /\ m.arg[3] \in Object
                       /\ m.arg[3].id = cs[m.arg[1]].ids[m.arg[2]]
                       /\ m.arg[3].client = cs[m.arg[1]].client
  /\ m.op = "done" => IsItem(cs, m.arg[1], m.arg[2]) /\ cs[m.arg[1]].op # "add"
  /\ m.op = "restored" => m.arg \in Object /\ Owns(cs, m.arg.client, m.arg.id)

\* The answer to a call is about what the call is about.
CallOK(cs, call) ==
  /\ MsgOK(cs, call.then)
  /\ call.then.op \in {"item", "added", "restored", "done", "erased", "ignored"}
  /\ call.call = "sync" <=> call.then.op = "item"
  /\ call.call = "add" <=> call.then.op \in {"added", "restored"}
  /\ call.then.op = "added" => call.object = call.then.arg[3]
  /\ call.then.op = "restored" => call.object = [call.then.arg EXCEPT !.paused = FALSE]
  /\ call.then.op = "done" => /\ call.then.arg[3] = call.hw
                              /\ call.call = cs[call.then.arg[1]].op
                              /\ call.object.mask = cs[call.then.arg[1]].mask
  /\ call.then.op = "erased" => call.call = "remove" /\ call.then.arg = call.hw
  /\ call.then.op = "ignored" => call.call = "pause"

\* The modem has taken a geofence; the object it was taken for, and the hardware id a
\* message is about.
Added(m) == m.ok /\ m.op \in {"added", "restored"}
ObjectOf(m) == IF m.op = "added" THEN m.arg[3] ELSE m.arg
Done(m) == m.ok /\ m.op \in {"done", "erased"}
HwOf(m) == CASE m.op \in {"added", "restored"} -> m.hw
             [] m.op = "done" -> m.arg[3]
             [] m.op = "breach" -> m.arg[1]
             [] OTHER -> m.arg

\* Messages that only a running modem sends, and calls about a hardware id.
OfModem(m) == Added(m) \/ Done(m) \/ m.op = "breach"
OnHw(call) == call.call \notin {"sync", "add"}

\* The modem has removed a geofence, or has set its options.
Removed(cs, m) == m.ok /\ (m.op = "erased" \/ (m.op = "done" /\ cs[m.arg[1]].op = "remove"))
Masked(cs, m) == Added(m) \/ (m.ok /\ m.op = "done" /\ cs[m.arg[1]].op = "modify")
MaskOf(cs, m) == IF Added(m) THEN ObjectOf(m).mask ELSE cs[m.arg[1]].mask

\* The geofence is being added, or added again.
Carries(cs, m, id) ==
  \/ m.op \in {"added", "restored"} /\ ObjectOf(m).id = id
  \/ m.op = "item" /\ cs[m.arg[1]].op = "add" /\ cs[m.arg[1]].ids[m.arg[2]] = id
  \/ /\ m.op = "command" /\ cs[m.arg].op = "add"
     /\ \E i \in DOMAIN cs[m.arg].ids : cs[m.arg].ids[i] = id

-----------------------------------------------------------------------------
(***************************************************************************)
(* The parts of the inductive invariant.  Q and M are the messages in the  *)
(* queue and the calls, q and tm the sequences of them.                    *)
(***************************************************************************)
CmdsOK(cs) ==
  /\ \A n \in DOMAIN cs :
       /\ cs[n].op \in Ops
       /\ cs[n].client \in Clients
       /\ \A i \in DOMAIN cs[n].ids : cs[n].ids[i] \in Ids
       /\ cs[n].op = "add" => cs[n].mask = NewMask
       /\ cs[n].op = "modify" => cs[n].mask \in Masks
  /\ \A n1, n2 \in DOMAIN cs : cs[n1].op = "add" /\ cs[n2].op = "add" =>
       \A i1 \in DOMAIN cs[n1].ids, i2 \in DOMAIN cs[n2].ids :
         cs[n1].ids[i1] = cs[n2].ids[i2] => n1 = n2 /\ i1 = i2

MsgsOK(Q, M, cs) == (\A m \in Q : MsgOK(cs, m)) /\ (\A c \in M : CallOK(cs, c))

\* The modem sends nothing and has nothing between a restart and its message; once
\* that is handled, everything is about hardware ids given out since.
Up(Q) == \E m \in Q : m.op = "engineUp"

Ordered(q) == \A j, k \in DOMAIN q : j < k /\ q[j].op = "engineUp" => ~OfModem(q[k])

GivenOK(Q, M, mg, md, gv) ==
  /\ DOMAIN md \subseteq gv
  /\ Up(Q) => DOMAIN md = {}
  /\ ~Up(Q) => /\ DOMAIN mg \subseteq gv
               /\ \A m \in Q : OfModem(m) => HwOf(m) \in gv
               /\ \A c \in M : OnHw(c) => c.hw \in gv

\* A hardware id is new to the adapter when the geofence that got it is saved.
OnceAdded(q) ==
  \A j, k \in DOMAIN q : Added(q[j]) /\ Added(q[k]) /\ q[j].hw = q[k].hw => j = k

NewHwOK(Q, M, mg) ==
  \A m \in Q : Added(m) =>
    /\ m.hw \notin DOMAIN mg
    /\ \A d \in Q : Done(d) => HwOf(d) # m.hw
    /\ \A c \in M : OnHw(c) => c.hw # m.hw

\* A geofence is added once at a time, and not while the adapter has it.
OnceCarried(q, cs) ==
  \A j, k \in DOMAIN q : \A id : Carries(cs, q[j], id) /\ Carries(cs, q[k], id) => j = k

OnceCalled(tm, cs) ==
  \A j, k \in DOMAIN tm : \A id :
    Carries(cs, tm[j].then, id) /\ Carries(cs, tm[k].then, id) => j = k

CarryOK(Q, M, mg, cs) ==
  /\ \A m \in Q, c \in M : \A id : ~(Carries(cs, m, id) /\ Carries(cs, c.then, id))
  /\ \A hw \in DOMAIN mg :
       /\ \A m \in Q : ~Carries(cs, m, mg[hw].id)
       /\ \A c \in M : ~Carries(cs, c.then, mg[hw].id)

ObjectsOK(mg, cs) ==
  /\ \A hw \in DOMAIN mg : mg[hw] \in Object /\ Owns(cs, mg[hw].client, mg[hw].id)
  /\ \A h1, h2 \in DOMAIN mg : mg[h1].id = mg[h2].id => h1 = h2

\* What is done to a hardware id is done to the geofence it was meant for, and what the
\* modem reports of one is of the geofence that has it.
ErasedOK(Q, M, mg, ids) ==
  /\ \A m \in Q : m.ok /\ m.op = "erased" /\ m.arg \in DOMAIN mg =>
                   mg[m.arg].id \notin DOMAIN ids
  /\ \A c \in M : c.then.op = "erased" /\ c.hw \in DOMAIN mg => mg[c.hw].id \notin DOMAIN ids

DoneOK(Q, M, mg, cs) ==
  /\ \A m \in Q : m.ok /\ m.op = "done" /\ m.arg[3] \in DOMAIN mg =>
                   mg[m.arg[3]].id = cs[m.arg[1]].ids[m.arg[2]]
  /\ \A c \in M : c.then.op = "done" /\ c.hw \in DOMAIN mg =>
                   mg[c.hw].id = cs[c.then.arg[1]].ids[c.then.arg[2]]

BreachOK(Q, mg) ==
  \A b \in Q : b.op = "breach" =>
    /\ b.arg[1] \in DOMAIN mg => mg[b.arg[1]].id = b.arg[2]
    /\ \A m \in Q : Added(m) /\ m.hw = b.arg[1] => ObjectOf(m).id = b.arg[2]

\* The modem has what the adapter has or will have, and no more.
ModemOK(Q, mg, md, cs, cd) ==
  /\ \A hw \in DOMAIN md :
       /\ md[hw] \in Object
       /\ \/ hw \in DOMAIN mg /\ mg[hw].id = md[hw].id
          \/ \E m \in Q : Added(m) /\ m.hw = hw /\ ObjectOf(m).id = md[hw].id
  /\ \A m \in Q : Removed(cs, m) => HwOf(m) \notin DOMAIN md
  /\ ~Up(Q) =>
       /\ \A m \in Q : Added(m) => m.hw \in DOMAIN md
       /\ \A hw \in DOMAIN mg \ DOMAIN md : mg[hw].client \in cd =>
            \E m \in Q : Removed(cs, m) /\ HwOf(m) = hw

\* What the last message about its options says is how the modem has a geofence.
SaysLast(q, cs, hw, mask) ==
  \E k \in DOMAIN q :
    /\ Masked(cs, q[k]) /\ HwOf(q[k]) = hw /\ MaskOf(cs, q[k]) = mask
    /\ \A j \in DOMAIN q : Masked(cs, q[j]) /\ HwOf(q[j]) = hw => j <= k

Silent(q, cs, hw) == \A j \in DOMAIN q : Masked(cs, q[j]) => HwOf(q[j]) # hw

MaskOK(q, mg, md, cs) ==
  \A hw \in DOMAIN md :
    \/ SaysLast(q, cs, hw, md[hw].mask)
    \/ Silent(q, cs, hw) /\ (hw \in DOMAIN mg => mg[hw].mask = md[hw].mask)

MapsOK(mg, ids, cd) ==
  /\ \A id \in DOMAIN ids : ids[id] \in DOMAIN mg /\ mg[ids[id]].id = id
  /\ \A hw \in DOMAIN mg : mg[hw].client \in cd => mg[hw].id \in DOMAIN ids

Good(q, tm, mg, ids, md, gv, cs, cd) ==
  /\ CmdsOK(cs)
  /\ MsgsOK(ToSet(q), ToSet(tm), cs)
  /\ Ordered(q)
  /\ GivenOK(ToSet(q), ToSet(tm), mg, md, gv)
  /\ OnceAdded(q)
  /\ NewHwOK(ToSet(q), ToSet(tm), mg)
  /\ OnceCarried(q, cs)
  /\ OnceCalled(tm, cs)
  /\ CarryOK(ToSet(q), ToSet(tm), mg, cs)
  /\ ObjectsOK(mg, cs)
  /\ ErasedOK(ToSet(q), ToSet(tm), mg, ids)
  /\ DoneOK(ToSet(q), ToSet(tm), mg, cs)
  /\ BreachOK(ToSet(q), mg)
  /\ ModemOK(ToSet(q), mg, md, cs, cd)
  /\ MaskOK(q, mg, md, cs)
  /\ MapsOK(mg, ids, cd)

-----------------------------------------------------------------------------
(***************************************************************************)
(* The first message goes.                                                 *)
(***************************************************************************)
LEMMA HeadAndTail ==
  ASSUME NEW S, NEW q \in Seq(S), q # <<>>, NEW cs,
         Ordered(q), OnceAdded(q), OnceCarried(q, cs)
  PROVE  /\ Ordered(Tail(q)) /\ OnceAdded(Tail(q)) /\ OnceCarried(Tail(q), cs)
         /\ \A m \in ToSet(Tail(q)) :
              /\ Head(q).op = "engineUp" => ~OfModem(m)
              /\ Added(Head(q)) /\ Added(m) => m.hw # Head(q).hw
              /\ \A id : ~(Carries(cs, Head(q), id) /\ Carries(cs, m, id))
<1>1. PICK n \in Nat : n = Len(q)
  OBVIOUS
<1>2. PICK t : t = Tail(q)
  OBVIOUS
<1>3. PICK h : h = Head(q)
  OBVIOUS
<1>4. /\ DOMAIN q = 1..n /\ DOMAIN t = 1..(n - 1) /\ n >= 1 /\ h = q[1]
      /\ \A k \in 1..(n - 1) : t[k] = q[k + 1]
  BY <1>1, <1>2, <1>3
<1>5. 1 \in 1..n /\ \A k \in 1..(n - 1) : k + 1 \in 1..n /\ 1 < k + 1 /\ 1 # k + 1
  BY <1>4
<1>6. \A j, k \in 1..(n - 1) : (j < k => j + 1 < k + 1) /\ (j + 1 = k + 1 => j = k)
  OBVIOUS
<1>7. Ordered(t)
  <2> SUFFICES ASSUME NEW j \in 1..(n - 1), NEW k \in 1..(n - 1), j < k, t[j].op = "engineUp"
               PROVE  ~OfModem(t[k])
    BY <1>4 DEF Ordered
  <2>1. t[j] = q[j + 1] /\ t[k] = q[k + 1] /\ j + 1 \in DOMAIN q /\ k + 1 \in DOMAIN q
    BY <1>4, <1>5
  <2>2. QED
    BY <1>6, <2>1 DEF Ordered
<1>8. OnceAdded(t)
  <2> SUFFICES ASSUME NEW j \in 1..(n - 1), NEW k \in 1..(n - 1),
                      Added(t[j]), Added(t[k]), t[j].hw = t[k].hw
               PROVE  j = k
    BY <1>4 DEF OnceAdded
  <2>1. t[j] = q[j + 1] /\ t[k] = q[k + 1] /\ j + 1 \in DOMAIN q /\ k + 1 \in DOMAIN q
    BY <1>4, <1>5
  <2>2. j + 1 = k + 1
    BY <2>1 DEF OnceAdded
  <2>3. QED
    BY <1>6, <2>2
<1>9. OnceCarried(t, cs)
  <2> SUFFICES ASSUME NEW j \in 1..(n - 1), NEW k \in 1..(n - 1), NEW id,
                      Carries(cs, t[j], id), Carries(cs, t[k], id)
               PROVE  j = k
    BY <1>4 DEF OnceCarried
  <2>1. t[j] = q[j + 1] /\ t[k] = q[k + 1] /\ j + 1 \in DOMAIN q /\ k + 1 \in DOMAIN q
    BY <1>4, <1>5
  <2>2. j + 1 = k + 1
    BY <2>1 DEF OnceCarried
  <2>3. QED
    BY <1>6, <2>2
<1>10. ASSUME NEW m \in ToSet(t)
       PROVE  /\ h.op = "engineUp" => ~OfModem(m)
              /\ Added(h) /\ Added(m) => m.hw # h.hw
              /\ \A id : ~(Carries(cs, h, id) /\ Carries(cs, m, id))
  <2>1. PICK k \in 1..(n - 1) : m = t[k]
    BY <1>4 DEF ToSet
  <2>2. m = q[k + 1] /\ k + 1 \in DOMAIN q /\ 1 \in DOMAIN q /\ 1 < k + 1 /\ 1 # k + 1
    BY <1>4, <1>5, <2>1
  <2>3. h.op = "engineUp" => ~OfModem(m)
    BY <1>4, <2>2 DEF Ordered
  <2>4. Added(h) /\ Added(m) => m.hw # h.hw
    BY <1>4, <2>2 DEF OnceAdded
  <2>5. \A id : ~(Carries(cs, h, id) /\ Carries(cs, m, id))
    BY <1>4, <2>2 DEF OnceCarried
  <2>6. QED
    BY <2>3, <2>4, <2>5
<1>11. QED
  BY <1>2, <1>3, <1>7, <1>8, <1>9, <1>10

LEMMA MaskTail ==
  ASSUME NEW S, NEW q \in Seq(S), q # <<>>, NEW cs, NEW hw
  PROVE  /\ Silent(q, cs, hw) => /\ Silent(Tail(q), cs, hw)
                                 /\ ~(Masked(cs, Head(q)) /\ HwOf(Head(q)) = hw)
         /\ \A mask : SaysLast(q, cs, hw, mask) =>
              \/ SaysLast(Tail(q), cs, hw, mask)
              \/ /\ Silent(Tail(q), cs, hw)
                 /\ Masked(cs, Head(q)) /\ HwOf(Head(q)) = hw /\ MaskOf(cs, Head(q)) = mask
<1>1. PICK n \in Nat : n = Len(q)
  OBVIOUS
<1>2. PICK t : t = Tail(q)
  OBVIOUS
<1>3. PICK h : h = Head(q)
  OBVIOUS
<1>4. /\ DOMAIN q = 1..n /\ DOMAIN t = 1..(n - 1) /\ n >= 1 /\ h = q[1]
      /\ \A k \in 1..(n - 1) : t[k] = q[k + 1]
  BY <1>1, <1>2, <1>3
<1>5. 1 \in 1..n /\ \A k \in 1..(n - 1) : k + 1 \in 1..n
  BY <1>4
<1>6. ASSUME Silent(q, cs, hw)
      PROVE  Silent(t, cs, hw) /\ ~(Masked(cs, h) /\ HwOf(h) = hw)
  BY <1>4, <1>5, <1>6 DEF Silent
<1>7. ASSUME NEW mask, SaysLast(q, cs, hw, mask)
      PROVE  \/ SaysLast(t, cs, hw, mask)
             \/ /\ Silent(t, cs, hw)
                /\ Masked(cs, h) /\ HwOf(h) = hw /\ MaskOf(cs, h) = mask
  <2>1. PICK k \in 1..n :
          /\ Masked(cs, q[k]) /\ HwOf(q[k]) = hw /\ MaskOf(cs, q[k]) = mask
          /\ \A j \in 1..n : Masked(cs, q[j]) /\ HwOf(q[j]) = hw => j <= k
    BY <1>4, <1>7 DEF SaysLast
  <2>2. CASE k = 1
    <3>1. \A j \in 1..(n - 1) : j + 1 \in 1..n /\ ~(j + 1 <= 1)
      OBVIOUS
    <3>2. Silent(t, cs, hw)
      BY <1>4, <2>1, <2>2, <3>1 DEF Silent
    <3>3. QED
      BY <1>4, <2>1, <2>2, <3>2
  <2>3. CASE k # 1
    <3>1. PICK i \in 1..(n - 1) : i + 1 = k
      <4>1. k - 1 \in 1..(n - 1) /\ (k - 1) + 1 = k
        BY <2>3
      <4>2. QED
        BY <4>1
    <3>2. \A j \in 1..(n - 1) : j + 1 \in 1..n /\ (j + 1 <= k => j <= i)
      BY <3>1
    <3>3. SaysLast(t, cs, hw, mask)
      BY <1>4, <2>1, <3>1, <3>2 DEF SaysLast
    <3>4. QED
      BY <3>3
  <2>4. QED
    BY <2>2, <2>3
<1>8. QED
  BY <1>2, <1>3, <1>6, <1>7

\* The hardware ids a message with options is about, whatever becomes of the maps.
LEMMA MaskKept ==
  ASSUME NEW S, NEW q \in Seq(S), q # <<>>, NEW mg, NEW mg2, NEW md, NEW cs,
         MaskOK(q, mg, md, cs),
         \A hw \in DOMAIN mg2 \cap DOMAIN md :
           IF Masked(cs, Head(q)) /\ HwOf(Head(q)) = hw
           THEN mg2[hw].mask = MaskOf(cs, Head(q))
           ELSE hw \in DOMAIN mg /\ mg2[hw].mask = mg[hw].mask
  PROVE  MaskOK(Tail(q), mg2, md, cs)
<1> SUFFICES ASSUME NEW hw \in DOMAIN md
             PROVE  \/ SaysLast(Tail(q), cs, hw, md[hw].mask)
                    \/ /\ Silent(Tail(q), cs, hw)
                       /\ hw \in DOMAIN mg2 => mg2[hw].mask = md[hw].mask
  BY DEF MaskOK
<1>1. CASE Silent(q, cs, hw) /\ (hw \in DOMAIN mg => mg[hw].mask = md[hw].mask)
  BY <1>1, MaskTail
<1>2. CASE SaysLast(q, cs, hw, md[hw].mask)
  BY <1>2, MaskTail
<1>3. QED
  BY <1>1, <1>2 DEF MaskOK

\* A message goes that at most changes objects.
LEMMA MessageDropped ==
  ASSUME NEW S, NEW q \in Seq(S), q # <<>>,
         NEW tm, NEW mg, NEW mg2, NEW ids, NEW md, NEW gv, NEW cs, NEW cd,
         Good(q, tm, mg, ids, md, gv, cs, cd),
         Head(q).op # "engineUp", ~Added(Head(q)),
         \A hw \in DOMAIN mg :
           Removed(cs, Head(q)) /\ HwOf(Head(q)) = hw => mg[hw].client \notin cd,
         DOMAIN mg2 = DOMAIN mg,
         \A hw \in DOMAIN mg :
           /\ mg2[hw] \in Object /\ mg2[hw].id = mg[hw].id /\ mg2[hw].client = mg[hw].client
           /\ mg2[hw].mask = IF Masked(cs, Head(q)) /\ HwOf(Head(q)) = hw
                             THEN MaskOf(cs, Head(q)) ELSE mg[hw].mask
  PROVE  Good(Tail(q), tm, mg2, ids, md, gv, cs, cd)
<1>1. PICK h : h = Head(q)
  OBVIOUS
<1>2. PICK t : t = Tail(q)
  OBVIOUS
<1>3. PICK Q : Q = ToSet(q)
  OBVIOUS
<1>4. PICK T : T = ToSet(t)
  OBVIOUS
<1>5. PICK M : M = ToSet(tm)
  OBVIOUS
<1>6. Q = {h} \cup T
  BY <1>1, <1>2, <1>3, <1>4, TailSet
<1>7. Ordered(t) /\ OnceAdded(t) /\ OnceCarried(t, cs)
  BY <1>2, HeadAndTail DEF Good
<1>8. CmdsOK(cs) /\ OnceCalled(tm, cs) /\ ObjectsOK(mg2, cs) /\ MapsOK(mg2, ids, cd)
  BY DEF Good, ObjectsOK, MapsOK
<1>9. MsgsOK(T, M, cs)
  BY <1>3, <1>5, <1>6 DEF Good, MsgsOK
<1>10. Up(T) <=> Up(Q)
  BY <1>1, <1>6 DEF Up
<1>11. GivenOK(T, M, mg2, md, gv)
  BY <1>3, <1>5, <1>6, <1>10 DEF Good, GivenOK
<1>12. NewHwOK(T, M, mg2)
  BY <1>3, <1>5, <1>6 DEF Good, NewHwOK
<1>13. CarryOK(T, M, mg2, cs)
  BY <1>3, <1>5, <1>6 DEF Good, CarryOK
<1>14. ErasedOK(T, M, mg2, ids) /\ DoneOK(T, M, mg2, cs)
  BY <1>3, <1>5, <1>6 DEF Good, ErasedOK, DoneOK
<1>15. BreachOK(T, mg2)
  BY <1>3, <1>6 DEF Good, BreachOK
<1>16. ModemOK(T, mg2, md, cs, cd)
  BY <1>1, <1>3, <1>6, <1>10 DEF Good, ModemOK
<1>17. MaskOK(t, mg2, md, cs)
  BY <1>2, MaskKept DEF Good
<1>18. QED
  BY <1>2, <1>4, <1>5, <1>7, <1>8, <1>9, <1>11, <1>12, <1>13, <1>14, <1>15, <1>16, <1>17
     DEF Good

\* The modem has removed a geofence, and now the adapter does.
LEMMA GeofenceRemoved ==
  ASSUME NEW S, NEW q \in Seq(S), q # <<>>,
         NEW tm, NEW mg, NEW mg2, NEW ids, NEW ids2, NEW md, NEW gv, NEW cs, NEW cd, NEW gone,
         Good(q, tm, mg, ids, md, gv, cs, cd),
         Removed(cs, Head(q)), HwOf(Head(q)) = gone,
         DOMAIN mg2 = DOMAIN mg \ {gone}, \A hw \in DOMAIN mg2 : mg2[hw] = mg[hw],
         DOMAIN ids2 = {id \in DOMAIN ids : ~(gone \in DOMAIN mg /\ id = mg[gone].id)},
         \A id \in DOMAIN ids2 : ids2[id] = ids[id]
  PROVE  Good(Tail(q), tm, mg2, ids2, md, gv, cs, cd)
<1>1. PICK h : h = Head(q)
  OBVIOUS
<1>2. PICK t : t = Tail(q)
  OBVIOUS
<1>3. PICK Q : Q = ToSet(q)
  OBVIOUS
<1>4. PICK T : T = ToSet(t)
  OBVIOUS
<1>5. PICK M : M = ToSet(tm)
  OBVIOUS
<1>6. Q = {h} \cup T
  BY <1>1, <1>2, <1>3, <1>4, TailSet
<1>7. Ordered(t) /\ OnceAdded(t) /\ OnceCarried(t, cs)
  BY <1>2, HeadAndTail DEF Good
<1>8. h.op \in {"done", "erased"} /\ ~Added(h) /\ h.op # "engineUp"
  BY <1>1 DEF Removed, Added
<1>9. CmdsOK(cs) /\ OnceCalled(tm, cs)
  BY DEF Good
<1>10. ObjectsOK(mg2, cs)
  BY DEF Good, ObjectsOK
<1>11. MapsOK(mg2, ids2, cd)
  BY DEF Good, ObjectsOK, MapsOK
<1>12. MsgsOK(T, M, cs)
  BY <1>3, <1>5, <1>6 DEF Good, MsgsOK
<1>13. Up(T) <=> Up(Q)
  BY <1>6, <1>8 DEF Up
<1>14. GivenOK(T, M, mg2, md, gv)
  BY <1>3, <1>5, <1>6, <1>13 DEF Good, GivenOK
<1>15. NewHwOK(T, M, mg2)
  BY <1>3, <1>5, <1>6 DEF Good, NewHwOK
<1>16. CarryOK(T, M, mg2, cs)
  BY <1>3, <1>5, <1>6 DEF Good, CarryOK
<1>17. ErasedOK(T, M, mg2, ids2) /\ DoneOK(T, M, mg2, cs)
  BY <1>3, <1>5, <1>6 DEF Good, ErasedOK, DoneOK
<1>18. BreachOK(T, mg2)
  BY <1>3, <1>6 DEF Good, BreachOK
<1>19. ModemOK(T, mg2, md, cs, cd)
  <2>1. gone \notin DOMAIN md
    BY <1>1, <1>3, <1>6 DEF Good, ModemOK
  <2>2. QED
    BY <1>1, <1>3, <1>6, <1>8, <1>13, <2>1 DEF Good, ModemOK
<1>20. MaskOK(t, mg2, md, cs)
  <2>1. ~Masked(cs, h)
    BY <1>1, <1>8 DEF Removed, Masked, Added
  <2>2. QED
    BY <1>1, <1>2, <2>1, MaskKept DEF Good
<1>21. QED
  BY <1>2, <1>4, <1>5, <1>7, <1>9, <1>10, <1>11, <1>12, <1>14, <1>15, <1>16, <1>17, <1>18,
     <1>19, <1>20 DEF Good

-----------------------------------------------------------------------------
(***************************************************************************)
(* Calls are made.                                                         *)
(***************************************************************************)

\* What a new call may be about.
NewCall(c, Q, M, mg, ids, gv, cs) ==
  /\ CallOK(cs, c)
  /\ OnHw(c) => /\ Up(Q) \/ c.hw \in gv
                /\ \A m \in Q : Added(m) => m.hw # c.hw
  /\ c.then.op = "erased" /\ c.hw \in DOMAIN mg => mg[c.hw].id \notin DOMAIN ids
  /\ c.then.op = "done" /\ c.hw \in DOMAIN mg =>
       mg[c.hw].id = cs[c.then.arg[1]].ids[c.then.arg[2]]
  /\ \A id : Carries(cs, c.then, id) =>
       /\ \A m \in Q : ~Carries(cs, m, id)
       /\ \A d \in M : ~Carries(cs, d.then, id)
       /\ \A hw \in DOMAIN mg : mg[hw].id # id

LEMMA OnceCalledConcat ==
  ASSUME NEW R, NEW tm \in Seq(R), NEW s \in Seq(R), NEW cs,
         OnceCalled(tm, cs), OnceCalled(s, cs),
         \A c \in ToSet(s), d \in ToSet(tm) : \A id :
           ~(Carries(cs, c.then, id) /\ Carries(cs, d.then, id))
  PROVE  OnceCalled(tm \o s, cs)
<1>1. PICK n \in Nat, l \in Nat : n = Len(tm) /\ l = Len(s)
  OBVIOUS
<1>2. PICK a : a = tm \o s
  OBVIOUS
<1>3. /\ DOMAIN tm = 1..n /\ DOMAIN s = 1..l /\ DOMAIN a = 1..(n + l)
      /\ \A i \in 1..(n + l) : a[i] = IF i <= n THEN tm[i] ELSE s[i - n]
  BY <1>1, <1>2
<1>4. \A i \in 1..(n + l) : \/ i \in 1..n /\ i <= n
                            \/ ~(i <= n) /\ i - n \in 1..l /\ (i - n) + n = i
  OBVIOUS
<1>5. SUFFICES ASSUME NEW j \in 1..(n + l), NEW k \in 1..(n + l), NEW id,
                      Carries(cs, a[j].then, id), Carries(cs, a[k].then, id)
               PROVE  j = k
  BY <1>2, <1>3 DEF OnceCalled
<1>6. CASE j <= n /\ k <= n
  <2>1. j \in DOMAIN tm /\ k \in DOMAIN tm /\ a[j] = tm[j] /\ a[k] = tm[k]
    BY <1>3, <1>4, <1>6
  <2>2. QED
    BY <1>5, <2>1 DEF OnceCalled
<1>7. CASE ~(j <= n) /\ ~(k <= n)
  <2>1. j - n \in DOMAIN s /\ k - n \in DOMAIN s /\ a[j] = s[j - n] /\ a[k] = s[k - n]
    BY <1>3, <1>4, <1>7
  <2>2. j - n = k - n
    BY <1>5, <2>1 DEF OnceCalled
  <2>3. QED
    BY <2>2
<1>8. \A i \in 1..(n + l) : i <= n => a[i] \in ToSet(tm)
  BY <1>3, <1>4 DEF ToSet
<1>9. \A i \in 1..(n + l) : ~(i <= n) => a[i] \in ToSet(s)
  BY <1>3, <1>4 DEF ToSet
<1>10. QED
  BY <1>5, <1>6, <1>7, <1>8, <1>9

LEMMA CallsMade ==
  ASSUME NEW q, NEW R, NEW tm \in Seq(R), NEW s \in Seq(R),
         NEW mg, NEW ids, NEW md, NEW gv, NEW cs, NEW cd,
         Good(q, tm, mg, ids, md, gv, cs, cd),
         \A c \in ToSet(s) : NewCall(c, ToSet(q), ToSet(tm), mg, ids, gv, cs),
         OnceCalled(s, cs)
  PROVE  Good(q, tm \o s, mg, ids, md, gv, cs, cd)
<1>1. PICK Q : Q = ToSet(q)
  OBVIOUS
<1>2. PICK M : M = ToSet(tm)
  OBVIOUS
<1>3. PICK N : N = ToSet(s)
  OBVIOUS
<1>4. ToSet(tm \o s) = M \cup N
  BY <1>2, <1>3, ConcatSet
<1>5. /\ CmdsOK(cs) /\ Ordered(q) /\ OnceAdded(q) /\ OnceCarried(q, cs) /\ ObjectsOK(mg, cs)
      /\ BreachOK(Q, mg) /\ ModemOK(Q, mg, md, cs, cd) /\ MaskOK(q, mg, md, cs)
      /\ MapsOK(mg, ids, cd)
  BY <1>1 DEF Good
<1>6. OnceCalled(tm \o s, cs)
  BY OnceCalledConcat DEF Good, NewCall
<1>7. \A c \in N : NewCall(c, Q, M, mg, ids, gv, cs)
  BY <1>1, <1>2, <1>3
<1>8. MsgsOK(Q, M \cup N, cs)
  BY <1>1, <1>2, <1>7 DEF Good, MsgsOK, NewCall
<1>9. GivenOK(Q, M \cup N, mg, md, gv)
  BY <1>1, <1>2, <1>7 DEF Good, GivenOK, NewCall
<1>10. NewHwOK(Q, M \cup N, mg)
  BY <1>1, <1>2, <1>7 DEF Good, NewHwOK, NewCall
<1>11. CarryOK(Q, M \cup N, mg, cs)
  BY <1>1, <1>2, <1>7 DEF Good, CarryOK, NewCall
<1>12. ErasedOK(Q, M \cup N, mg, ids)
  BY <1>1, <1>2, <1>7 DEF Good, ErasedOK, NewCall
<1>13. DoneOK(Q, M \cup N, mg, cs)
  BY <1>1, <1>2, <1>7 DEF Good, DoneOK, NewCall
<1>14. QED
  BY <1>1, <1>4, <1>5, <1>6, <1>8, <1>9, <1>10, <1>11, <1>12, <1>13 DEF Good

\* One call, or none.
LEMMA CallMade ==
  ASSUME NEW q, NEW R, NEW tm \in Seq(R), NEW c,
         NEW mg, NEW ids, NEW md, NEW gv, NEW cs, NEW cd,
         Good(q, tm, mg, ids, md, gv, cs, cd),
         NewCall(c, ToSet(q), ToSet(tm), mg, ids, gv, cs)
  PROVE  Good(q, tm \o <<c>>, mg, ids, md, gv, cs, cd)
<1>1. PICK P : P = R \cup {c}
  OBVIOUS
<1>2. PICK s : s = <<c>>
  OBVIOUS
<1>3. tm \in Seq(P) /\ s \in Seq(P)
  BY <1>1, <1>2
<1>4. DOMAIN s = {1} /\ s[1] = c
  BY <1>2
<1>5. ToSet(s) = {c}
  BY <1>4 DEF ToSet
<1>6. OnceCalled(s, cs)
  BY <1>4 DEF OnceCalled
<1>7. Good(q, tm \o s, mg, ids, md, gv, cs, cd)
  BY <1>3, <1>5, <1>6, CallsMade
<1>8. QED
  BY <1>2, <1>7

-----------------------------------------------------------------------------
(***************************************************************************)
(* A message is sent by a client or the modem.                             *)
(***************************************************************************)
LEMMA OnceAppend ==
  ASSUME NEW S, NEW q \in Seq(S), NEW m \in S, NEW cs,
         Ordered(q), OnceAdded(q), OnceCarried(q, cs),
         Up(ToSet(q)) => ~OfModem(m),
         Added(m) => \A d \in ToSet(q) : Added(d) => d.hw # m.hw,
         \A id : Carries(cs, m, id) => \A d \in ToSet(q) : ~Carries(cs, d, id)
  PROVE  Ordered(Append(q, m)) /\ OnceAdded(Append(q, m)) /\ OnceCarried(Append(q, m), cs)
<1>1. PICK n \in Nat : n = Len(q)
  OBVIOUS
<1>2. PICK a : a = Append(q, m)
  OBVIOUS
<1>3. /\ DOMAIN q = 1..n /\ DOMAIN a = 1..(n + 1) /\ a[n + 1] = m
      /\ \A k \in 1..n : a[k] = q[k]
  BY <1>1, <1>2
<1>4. \A k \in 1..(n + 1) : k = n + 1 \/ (k \in 1..n /\ ~(n + 1 < k))
  OBVIOUS
<1>5. \A k \in 1..n : q[k] \in ToSet(q)
  BY <1>3 DEF ToSet
<1>6. ~(n + 1 < n + 1)
  OBVIOUS
<1>7. Ordered(a)
  <2> SUFFICES ASSUME NEW j \in 1..(n + 1), NEW k \in 1..(n + 1), j < k, a[j].op = "engineUp"
               PROVE  ~OfModem(a[k])
    BY <1>3 DEF Ordered
  <2>1. CASE k \in 1..n
    <3>1. j \in 1..n
      BY <1>4, <2>1
    <3>2. QED
      BY <1>3, <2>1, <3>1 DEF Ordered
  <2>2. CASE k = n + 1
    <3>1. j \in 1..n
      BY <1>4, <1>6, <2>2
    <3>2. Up(ToSet(q))
      BY <1>3, <1>5, <3>1 DEF Up
    <3>3. QED
      BY <1>3, <2>2, <3>2
  <2>3. QED
    BY <1>4, <2>1, <2>2
<1>8. OnceAdded(a)
  <2> SUFFICES ASSUME NEW j \in 1..(n + 1), NEW k \in 1..(n + 1),
                      Added(a[j]), Added(a[k]), a[j].hw = a[k].hw
               PROVE  j = k
    BY <1>3 DEF OnceAdded
  <2>1. CASE j \in 1..n /\ k \in 1..n
    BY <1>3, <2>1 DEF OnceAdded
  <2>2. CASE j \in 1..n /\ k = n + 1
    BY <1>3, <1>5, <2>2
  <2>3. CASE k \in 1..n /\ j = n + 1
    BY <1>3, <1>5, <2>3
  <2>4. QED
    BY <1>4, <2>1, <2>2, <2>3
<1>9. OnceCarried(a, cs)
  <2> SUFFICES ASSUME NEW j \in 1..(n + 1), NEW k \in 1..(n + 1), NEW id,
                      Carries(cs, a[j], id), Carries(cs, a[k], id)
               PROVE  j = k
    BY <1>3 DEF OnceCarried
  <2>1. CASE j \in 1..n /\ k \in 1..n
    BY <1>3, <2>1 DEF OnceCarried
  <2>2. CASE j \in 1..n /\ k = n + 1
    BY <1>3, <1>5, <2>2
  <2>3. CASE k \in 1..n /\ j = n + 1
    BY <1>3, <1>5, <2>3
  <2>4. QED
    BY <1>4, <2>1, <2>2, <2>3
<1>10. QED
  BY <1>2, <1>7, <1>8, <1>9

LEMMA MaskAppend ==
  ASSUME NEW S, NEW q \in Seq(S), NEW m \in S, NEW cs, NEW hw
  PROVE  /\ Masked(cs, m) /\ HwOf(m) = hw => SaysLast(Append(q, m), cs, hw, MaskOf(cs, m))
         /\ ~(Masked(cs, m) /\ HwOf(m) = hw) =>
              /\ Silent(q, cs, hw) => Silent(Append(q, m), cs, hw)
              /\ \A mask : SaysLast(q, cs, hw, mask) => SaysLast(Append(q, m), cs, hw, mask)
<1>1. PICK n \in Nat : n = Len(q)
  OBVIOUS
<1>2. PICK a : a = Append(q, m)
  OBVIOUS
<1>3. /\ DOMAIN q = 1..n /\ DOMAIN a = 1..(n + 1) /\ a[n + 1] = m
      /\ \A k \in 1..n : a[k] = q[k]
  BY <1>1, <1>2
<1>4. /\ \A k \in 1..(n + 1) : k = n + 1 \/ k \in 1..n
      /\ \A k \in 1..(n + 1) : k <= n + 1
      /\ n + 1 \in 1..(n + 1) /\ \A k \in 1..n : k \in 1..(n + 1)
  OBVIOUS
<1>5. ASSUME Masked(cs, m), HwOf(m) = hw
      PROVE  SaysLast(a, cs, hw, MaskOf(cs, m))
  BY <1>3, <1>4, <1>5 DEF SaysLast
<1>6. ASSUME ~(Masked(cs, m) /\ HwOf(m) = hw), Silent(q, cs, hw)
      PROVE  Silent(a, cs, hw)
  BY <1>3, <1>4, <1>6 DEF Silent
<1>7. ASSUME ~(Masked(cs, m) /\ HwOf(m) = hw), NEW mask, SaysLast(q, cs, hw, mask)
      PROVE  SaysLast(a, cs, hw, mask)
  <2>1. PICK k \in 1..n :
          /\ Masked(cs, q[k]) /\ HwOf(q[k]) = hw /\ MaskOf(cs, q[k]) = mask
          /\ \A j \in 1..n : Masked(cs, q[j]) /\ HwOf(q[j]) = hw => j <= k
    BY <1>3, <1>7 DEF SaysLast
  <2>2. k \in 1..(n + 1) /\ a[k] = q[k]
    BY <1>3, <1>4
  <2>3. \A j \in 1..(n + 1) : Masked(cs, a[j]) /\ HwOf(a[j]) = hw => j <= k
    BY <1>3, <1>4, <1>7, <2>1
  <2>4. QED
    BY <1>3, <2>1, <2>2, <2>3 DEF SaysLast
<1>8. QED
  BY <1>2, <1>5, <1>6, <1>7

\* A command, the end of a client or a breach.
LEMMA MessageSent ==
  ASSUME NEW S, NEW q \in Seq(S), NEW m \in S,
         NEW tm, NEW mg, NEW ids, NEW md, NEW gv, NEW cs, NEW cd,
         Good(q, tm, mg, ids, md, gv, cs, cd),
         MsgOK(cs, m), m.op \in {"command", "removeClient", "breach"},
         m.op = "breach" => /\ m.arg[1] \in DOMAIN md /\ md[m.arg[1]].id = m.arg[2]
                            /\ DOMAIN md \subseteq gv,
         \A id : Carries(cs, m, id) => /\ \A d \in ToSet(q) : ~Carries(cs, d, id)
                                       /\ \A c \in ToSet(tm) : ~Carries(cs, c.then, id)
                                       /\ \A hw \in DOMAIN mg : mg[hw].id # id
  PROVE  Good(Append(q, m), tm, mg, ids, md, gv, cs, cd)
<1>1. PICK Q : Q = ToSet(q)
  OBVIOUS
<1>2. PICK M : M = ToSet(tm)
  OBVIOUS
<1>3. PICK a : a = Append(q, m)
  OBVIOUS
<1>4. ToSet(a) = Q \cup {m}
  BY <1>1, <1>3, AppendSet
<1>5. ~Added(m) /\ ~Done(m) /\ ~Removed(cs, m) /\ ~Masked(cs, m) /\ m.op # "engineUp"
      /\ m.op \notin {"erased", "done"}
  BY DEF Added, Done, Removed, Masked
<1>6. Up(Q) => ~OfModem(m)
  BY <1>1, <1>5 DEF Good, GivenOK, OfModem
<1>7. Ordered(a) /\ OnceAdded(a) /\ OnceCarried(a, cs)
  BY <1>1, <1>3, <1>5, <1>6, OnceAppend DEF Good
<1>8. CmdsOK(cs) /\ OnceCalled(tm, cs) /\ ObjectsOK(mg, cs) /\ MapsOK(mg, ids, cd)
  BY DEF Good
<1>9. MsgsOK(Q \cup {m}, M, cs)
  BY <1>1, <1>2 DEF Good, MsgsOK
<1>10. Up(Q \cup {m}) <=> Up(Q)
  BY <1>5 DEF Up
<1>11. OfModem(m) => HwOf(m) = m.arg[1] /\ m.op = "breach"
  BY <1>5 DEF OfModem, HwOf
<1>12. GivenOK(Q \cup {m}, M, mg, md, gv)
  BY <1>1, <1>2, <1>10, <1>11 DEF Good, GivenOK
<1>13. NewHwOK(Q \cup {m}, M, mg)
  BY <1>1, <1>2, <1>5 DEF Good, NewHwOK
<1>14. CarryOK(Q \cup {m}, M, mg, cs)
  BY <1>1, <1>2 DEF Good, CarryOK
<1>15. ErasedOK(Q \cup {m}, M, mg, ids) /\ DoneOK(Q \cup {m}, M, mg, cs)
  BY <1>1, <1>2, <1>5 DEF Good, ErasedOK, DoneOK
<1>16. BreachOK(Q \cup {m}, mg)
  <2>1. BreachOK(Q, mg)
    BY <1>1 DEF Good
  <2>2. ASSUME m.op = "breach"
        PROVE  /\ m.arg[1] \in DOMAIN mg => mg[m.arg[1]].id = m.arg[2]
               /\ \A d \in Q : Added(d) /\ d.hw = m.arg[1] => ObjectOf(d).id = m.arg[2]
    <3>1. PICK hw \in DOMAIN md : hw = m.arg[1] /\ md[hw].id = m.arg[2]
      BY <2>2
    <3>2. \/ hw \in DOMAIN mg /\ mg[hw].id = md[hw].id
          \/ \E d \in Q : Added(d) /\ d.hw = hw /\ ObjectOf(d).id = md[hw].id
      BY <1>1, <3>1 DEF Good, ModemOK
    <3>3. CASE hw \in DOMAIN mg /\ mg[hw].id = md[hw].id
      BY <1>1, <3>1, <3>3 DEF Good, NewHwOK
    <3>4. CASE \E d \in Q : Added(d) /\ d.hw = hw /\ ObjectOf(d).id = md[hw].id
      <4>1. PICK d \in Q : Added(d) /\ d.hw = hw /\ ObjectOf(d).id = md[hw].id
        BY <3>4
      <4>2. hw \notin DOMAIN mg
        BY <1>1, <4>1 DEF Good, NewHwOK
      <4>3. \A e \in Q : Added(e) /\ e.hw = hw => e = d
        BY <1>1, <4>1 DEF Good, OnceAdded, ToSet
      <4>4. QED
        BY <3>1, <4>1, <4>2, <4>3
    <3>5. QED
      BY <3>2, <3>3, <3>4
  <2>3. QED
    BY <1>5, <2>1, <2>2 DEF BreachOK
<1>17. ModemOK(Q \cup {m}, mg, md, cs, cd)
  BY <1>1, <1>5, <1>10 DEF Good, ModemOK
<1>18. MaskOK(a, mg, md, cs)
  BY <1>3, <1>5, MaskAppend DEF Good, MaskOK
<1>19. QED
  BY <1>2, <1>3, <1>4, <1>7, <1>8, <1>9, <1>12, <1>13, <1>14, <1>15, <1>16, <1>17, <1>18
     DEF Good

\* The modem has taken a geofence, and the adapter saves it.
LEMMA GeofenceSaved ==
  ASSUME NEW S, NEW q \in Seq(S), q # <<>>,
         NEW tm, NEW mg, NEW mg2, NEW ids, NEW ids2, NEW md, NEW gv, NEW cs, NEW cd,
         NEW new, NEW object,
         Good(q, tm, mg, ids, md, gv, cs, cd),
         Added(Head(q)), Head(q).hw = new, ObjectOf(Head(q)) = object,
         mg2 = With(mg, new, [object EXCEPT !.paused = FALSE]), ids2 = With(ids, object.id, new)
  PROVE  Good(Tail(q), tm, mg2, ids2, md, gv, cs, cd)
<1>1. PICK h : h = Head(q)
  OBVIOUS
<1>2. PICK t : t = Tail(q)
  OBVIOUS
<1>3. PICK Q : Q = ToSet(q)
  OBVIOUS
<1>4. PICK T : T = ToSet(t)
  OBVIOUS
<1>5. PICK M : M = ToSet(tm)
  OBVIOUS
<1>6. PICK saved : saved = [object EXCEPT !.paused = FALSE]
  OBVIOUS
<1>7. Q = {h} \cup T
  BY <1>1, <1>2, <1>3, <1>4, TailSet
<1>8. Ordered(t) /\ OnceAdded(t) /\ OnceCarried(t, cs)
  BY <1>2, HeadAndTail DEF Good
<1>9. \A m \in T : /\ Added(m) => m.hw # new
                   /\ \A id : ~(Carries(cs, h, id) /\ Carries(cs, m, id))
  BY <1>1, <1>2, <1>4, HeadAndTail DEF Good
<1>10. Added(h) /\ h.hw = new /\ ObjectOf(h) = object /\ HwOf(h) = new /\ OfModem(h)
       /\ h.op # "engineUp" /\ ~Removed(cs, h) /\ h.op \notin {"erased", "done", "breach"}
  BY <1>1 DEF Added, HwOf, OfModem, Removed
<1>11. object \in Object /\ Owns(cs, object.client, object.id)
  BY <1>1, <1>3, <1>7, <1>10
     DEF Good, MsgsOK, MsgOK, Added, ObjectOf, Owns, IsItem
<1>12. /\ saved \in Object /\ saved.id = object.id /\ saved.client = object.client
       /\ saved.mask = object.mask
  BY <1>6, <1>11 DEF Object
<1>13. /\ DOMAIN mg2 = DOMAIN mg \cup {new} /\ mg2[new] = saved
       /\ \A hw \in DOMAIN mg2 : hw # new => hw \in DOMAIN mg /\ mg2[hw] = mg[hw]
  BY <1>6 DEF With
<1>14. /\ DOMAIN ids2 = DOMAIN ids \cup {object.id} /\ ids2[object.id] = new
       /\ \A id \in DOMAIN ids2 : id # object.id => id \in DOMAIN ids /\ ids2[id] = ids[id]
  BY DEF With
<1>15. Carries(cs, h, object.id)
  BY <1>10 DEF Carries, Added
<1>16. /\ new \notin DOMAIN mg
       /\ \A hw \in DOMAIN mg : mg[hw].id # object.id
       /\ \A m \in T : ~Carries(cs, m, object.id)
       /\ \A c \in M : ~Carries(cs, c.then, object.id)
       /\ \A m \in T : Done(m) => HwOf(m) # new
       /\ \A c \in M : OnHw(c) => c.hw # new
  BY <1>3, <1>5, <1>7, <1>9, <1>10, <1>15 DEF Good, NewHwOK, CarryOK
<1>17. CmdsOK(cs) /\ OnceCalled(tm, cs)
  BY DEF Good
<1>18. ObjectsOK(mg2, cs)
  <2>1. ObjectsOK(mg, cs)
    BY DEF Good
  <2>2. \A hw \in DOMAIN mg2 : mg2[hw] \in Object /\ Owns(cs, mg2[hw].client, mg2[hw].id)
    <3> SUFFICES ASSUME NEW hw \in DOMAIN mg2
                 PROVE  mg2[hw] \in Object /\ Owns(cs, mg2[hw].client, mg2[hw].id)
      OBVIOUS
    <3>1. CASE hw = new
      BY <1>11, <1>12, <1>13, <3>1
    <3>2. CASE hw # new
      BY <1>13, <2>1, <3>2 DEF ObjectsOK
    <3>3. QED
      BY <3>1, <3>2
  <2>3. ASSUME NEW h1 \in DOMAIN mg2, NEW h2 \in DOMAIN mg2, mg2[h1].id = mg2[h2].id
        PROVE  h1 = h2
    <3>4. \A hw \in DOMAIN mg2 : hw # new => mg2[hw].id # mg2[new].id
      <4>1. mg2[new].id = object.id
        BY <1>12, <1>13
      <4>2. \A hw \in DOMAIN mg : mg[hw].id # object.id
        BY <1>16
      <4>3. QED
        BY <1>13, <4>1, <4>2
    <3>1. CASE h1 = new
      BY <2>3, <3>4, <3>1
    <3>2. CASE h2 = new
      BY <2>3, <3>4, <3>2
    <3>3. CASE h1 # new /\ h2 # new
      BY <1>13, <2>1, <2>3, <3>3 DEF ObjectsOK
    <3>5. QED
      BY <3>1, <3>2, <3>3
  <2>4. QED
    BY <2>2, <2>3 DEF ObjectsOK
<1>19. MapsOK(mg2, ids2, cd)
  <2>1. MapsOK(mg, ids, cd)
    BY DEF Good
  <2>2. ASSUME NEW id \in DOMAIN ids2
        PROVE  ids2[id] \in DOMAIN mg2 /\ mg2[ids2[id]].id = id
    <3>1. CASE id = object.id
      BY <1>12, <1>13, <1>14, <3>1
    <3>2. CASE id # object.id
      <4>1. id \in DOMAIN ids /\ ids2[id] = ids[id]
        BY <1>14, <3>2
      <4>2. ids[id] \in DOMAIN mg /\ mg[ids[id]].id = id
        BY <2>1, <4>1 DEF MapsOK
      <4>3. ids[id] # new
        BY <1>16, <4>2
      <4>4. ids[id] \in DOMAIN mg2 /\ mg2[ids[id]] = mg[ids[id]]
        BY <1>13, <4>2, <4>3
      <4>5. QED
        BY <4>1, <4>2, <4>4
    <3>3. QED
      BY <3>1, <3>2
  <2>3. ASSUME NEW hw \in DOMAIN mg2, mg2[hw].client \in cd
        PROVE  mg2[hw].id \in DOMAIN ids2
    <3>1. CASE hw = new
      BY <1>12, <1>13, <1>14, <3>1
    <3>2. CASE hw # new
      BY <1>13, <1>14, <2>1, <2>3, <3>2 DEF MapsOK
    <3>3. QED
      BY <3>1, <3>2
  <2>4. QED
    BY <2>2, <2>3 DEF MapsOK
<1>20. MsgsOK(T, M, cs)
  BY <1>3, <1>5, <1>7 DEF Good, MsgsOK
<1>21. Up(T) <=> Up(Q)
  BY <1>7, <1>10 DEF Up
<1>22. GivenOK(T, M, mg2, md, gv)
  BY <1>3, <1>5, <1>7, <1>10, <1>13, <1>21 DEF Good, GivenOK
<1>23. NewHwOK(T, M, mg2)
  BY <1>3, <1>5, <1>7, <1>9, <1>13 DEF Good, NewHwOK
<1>24. CarryOK(T, M, mg2, cs)
  <2>1. CarryOK(T, M, mg, cs)
    BY <1>3, <1>5, <1>7 DEF Good, CarryOK
  <2>2. ASSUME NEW hw \in DOMAIN mg2
        PROVE  /\ \A m \in T : ~Carries(cs, m, mg2[hw].id)
               /\ \A c \in M : ~Carries(cs, c.then, mg2[hw].id)
    <3>1. CASE hw = new
      BY <1>12, <1>13, <1>16, <3>1
    <3>2. CASE hw # new
      BY <1>13, <2>1, <3>2 DEF CarryOK
    <3>3. QED
      BY <3>1, <3>2
  <2>3. QED
    BY <2>1, <2>2 DEF CarryOK
<1>25. \A c \in M : c.then.op \in {"done", "erased"} => OnHw(c)
  BY <1>5 DEF Good, MsgsOK, CallOK, OnHw
<1>26. \A m \in T : m.ok /\ m.op = "erased" => m.arg # new
  BY <1>16 DEF Done, HwOf
<1>27. \A m \in T : m.ok /\ m.op = "done" => m.arg[3] # new
  BY <1>16 DEF Done, HwOf
<1>28. ErasedOK(T, M, mg2, ids2)
  <2>1. ErasedOK(T, M, mg, ids)
    BY <1>3, <1>5, <1>7 DEF Good, ErasedOK
  <2>2. ASSUME NEW hw \in DOMAIN mg2, hw # new,
               hw \in DOMAIN mg => mg[hw].id \notin DOMAIN ids
        PROVE  mg2[hw].id \notin DOMAIN ids2
    BY <1>13, <1>14, <1>16, <2>2
  <2>3. ASSUME NEW m \in T, m.ok, m.op = "erased", m.arg \in DOMAIN mg2
        PROVE  mg2[m.arg].id \notin DOMAIN ids2
    <3>1. m.arg # new
      BY <1>26, <2>3
    <3>2. m.arg \in DOMAIN mg => mg[m.arg].id \notin DOMAIN ids
      BY <2>1, <2>3 DEF ErasedOK
    <3>3. QED
      BY <2>2, <2>3, <3>1, <3>2
  <2>4. ASSUME NEW c \in M, c.then.op = "erased", c.hw \in DOMAIN mg2
        PROVE  mg2[c.hw].id \notin DOMAIN ids2
    <3>1. c.hw # new
      BY <1>16, <1>25, <2>4
    <3>2. c.hw \in DOMAIN mg => mg[c.hw].id \notin DOMAIN ids
      BY <2>1, <2>4 DEF ErasedOK
    <3>3. QED
      BY <2>2, <2>4, <3>1, <3>2
  <2>5. QED
    BY <2>3, <2>4 DEF ErasedOK
<1>29. DoneOK(T, M, mg2, cs)
  <2>1. DoneOK(T, M, mg, cs)
    BY <1>3, <1>5, <1>7 DEF Good, DoneOK
  <2>2. \A m \in T : m.ok /\ m.op = "done" /\ m.arg[3] \in DOMAIN mg2 =>
          m.arg[3] \in DOMAIN mg /\ mg2[m.arg[3]] = mg[m.arg[3]]
    BY <1>13, <1>27
  <2>3. \A c \in M : c.then.op = "done" /\ c.hw \in DOMAIN mg2 =>
          c.hw \in DOMAIN mg /\ mg2[c.hw] = mg[c.hw]
    BY <1>13, <1>16, <1>25
  <2>4. QED
    BY <2>1, <2>2, <2>3 DEF DoneOK
<1>30. BreachOK(T, mg2)
  <2>1. BreachOK(Q, mg)
    BY <1>3 DEF Good
  <2>2. ASSUME NEW b \in T, b.op = "breach", b.arg[1] \in DOMAIN mg2
        PROVE  mg2[b.arg[1]].id = b.arg[2]
    <3>1. CASE b.arg[1] = new
      BY <1>7, <1>10, <1>12, <1>13, <2>1, <2>2, <3>1 DEF BreachOK
    <3>2. CASE b.arg[1] # new
      BY <1>7, <1>13, <2>1, <2>2, <3>2 DEF BreachOK
    <3>3. QED
      BY <3>1, <3>2
  <2>3. QED
    BY <1>7, <2>1, <2>2 DEF BreachOK
<1>31. ModemOK(T, mg2, md, cs, cd)
  <2>1. ModemOK(Q, mg, md, cs, cd)
    BY <1>3 DEF Good
  <2>2. ASSUME NEW hw \in DOMAIN md
        PROVE  \/ hw \in DOMAIN mg2 /\ mg2[hw].id = md[hw].id
               \/ \E m \in T : Added(m) /\ m.hw = hw /\ ObjectOf(m).id = md[hw].id
    <3>1. CASE hw \in DOMAIN mg /\ mg[hw].id = md[hw].id
      BY <1>13, <1>16, <3>1
    <3>2. CASE \E m \in Q : Added(m) /\ m.hw = hw /\ ObjectOf(m).id = md[hw].id
      BY <1>7, <1>10, <1>12, <1>13, <3>2
    <3>3. QED
      BY <2>1, <3>1, <3>2 DEF ModemOK
  <2>3. \A m \in T : Removed(cs, m) => HwOf(m) \notin DOMAIN md
    BY <1>7, <2>1 DEF ModemOK
  <2>4. ASSUME ~Up(T)
        PROVE  /\ \A m \in T : Added(m) => m.hw \in DOMAIN md
               /\ \A hw \in DOMAIN mg2 \ DOMAIN md : mg2[hw].client \in cd =>
                    \E m \in T : Removed(cs, m) /\ HwOf(m) = hw
    <3>1. \A m \in Q : Added(m) => m.hw \in DOMAIN md
      BY <1>21, <2>1, <2>4 DEF ModemOK
    <3>2. new \in DOMAIN md
      BY <1>7, <1>10, <3>1
    <3>3. ASSUME NEW hw \in DOMAIN mg2 \ DOMAIN md, mg2[hw].client \in cd
          PROVE  \E m \in T : Removed(cs, m) /\ HwOf(m) = hw
      <4>1. hw \in DOMAIN mg \ DOMAIN md /\ mg[hw].client \in cd
        BY <1>13, <3>2, <3>3
      <4>2. PICK m \in Q : Removed(cs, m) /\ HwOf(m) = hw
        BY <1>21, <2>1, <2>4, <4>1 DEF ModemOK
      <4>3. QED
        BY <1>7, <1>10, <4>2
    <3>4. QED
      BY <1>7, <3>1, <3>3
  <2>5. \A hw \in DOMAIN md : md[hw] \in Object
    BY <2>1 DEF ModemOK
  <2>6. QED
    BY <2>2, <2>3, <2>4, <2>5 DEF ModemOK
<1>32. MaskOK(t, mg2, md, cs)
  <2>1. Masked(cs, h) /\ MaskOf(cs, h) = saved.mask
    BY <1>10, <1>12 DEF Masked, MaskOf
  <2>2. \A hw \in DOMAIN mg2 \cap DOMAIN md :
           IF Masked(cs, h) /\ HwOf(h) = hw
           THEN mg2[hw].mask = MaskOf(cs, h)
           ELSE hw \in DOMAIN mg /\ mg2[hw].mask = mg[hw].mask
    BY <1>10, <1>13, <2>1
  <2>3. MaskOK(q, mg, md, cs)
    BY DEF Good
  <2>4. QED
    BY <1>1, <1>2, <2>2, <2>3, MaskKept
<1>33. QED
  BY <1>2, <1>4, <1>5, <1>8, <1>17, <1>18, <1>19, <1>20, <1>22, <1>23, <1>24, <1>28, <1>29,
     <1>30, <1>31, <1>32 DEF Good

\* A client is forgotten, with its ids.
LEMMA ClientForgotten ==
  ASSUME NEW q, NEW tm, NEW mg, NEW ids, NEW ids2, NEW md, NEW gv, NEW cs, NEW cd, NEW c,
         Good(q, tm, mg, ids, md, gv, cs, cd),
         DOMAIN ids2 = {id \in DOMAIN ids : ~Owns(cs, c, id)},
         \A id \in DOMAIN ids2 : ids2[id] = ids[id]
  PROVE  Good(q, tm, mg, ids2, md, gv, cs, cd \ {c})
<1>1. PICK Q : Q = ToSet(q)
  OBVIOUS
<1>2. PICK M : M = ToSet(tm)
  OBVIOUS
<1>3. \A id, b : Owns(cs, b, id) /\ Owns(cs, c, id) => b = c
  BY DEF Good, CmdsOK, Owns
<1>4. MapsOK(mg, ids2, cd \ {c})
  BY <1>3 DEF Good, MapsOK, ObjectsOK
<1>5. ErasedOK(Q, M, mg, ids2)
  BY <1>1, <1>2 DEF Good, ErasedOK
<1>6. ModemOK(Q, mg, md, cs, cd \ {c})
  BY <1>1 DEF Good, ModemOK
<1>7. QED
  BY <1>1, <1>2, <1>4, <1>5, <1>6 DEF Good

\* The adapter learns that the modem has restarted, and forgets the geofences.
LEMMA GeofencesForgotten ==
  ASSUME NEW S, NEW q \in Seq(S), q # <<>>,
         NEW tm, NEW mg, NEW mg2, NEW ids, NEW ids2, NEW md, NEW gv, NEW cs, NEW cd,
         Good(q, tm, mg, ids, md, gv, cs, cd),
         Head(q).op = "engineUp", \A c \in ToSet(tm) : c.call = "sync",
         DOMAIN mg2 = {}, DOMAIN ids2 = {}
  PROVE  Good(Tail(q), tm, mg2, ids2, md, gv, cs, cd)
<1>1. PICK h : h = Head(q)
  OBVIOUS
<1>2. PICK t : t = Tail(q)
  OBVIOUS
<1>3. PICK Q : Q = ToSet(q)
  OBVIOUS
<1>4. PICK T : T = ToSet(t)
  OBVIOUS
<1>5. PICK M : M = ToSet(tm)
  OBVIOUS
<1>6. Q = {h} \cup T
  BY <1>1, <1>2, <1>3, <1>4, TailSet
<1>7. Ordered(t) /\ OnceAdded(t) /\ OnceCarried(t, cs)
  BY <1>2, HeadAndTail DEF Good
<1>8. \A m \in T : ~OfModem(m)
  BY <1>2, <1>4, HeadAndTail DEF Good
<1>9. \A m \in T : ~Added(m) /\ ~Done(m) /\ m.op # "breach" /\ ~Removed(cs, m)
                   /\ ~(m.ok /\ m.op \in {"erased", "done"})
  BY <1>8 DEF OfModem, Done, Removed
<1>10. DOMAIN md = {}
  BY <1>1, <1>3, <1>6 DEF Good, GivenOK, Up
<1>11. \A c \in M : ~OnHw(c)
  BY <1>5 DEF OnHw
<1>12. CmdsOK(cs) /\ OnceCalled(tm, cs)
  BY DEF Good
<1>13. MsgsOK(T, M, cs)
  BY <1>3, <1>5, <1>6 DEF Good, MsgsOK
<1>14. ObjectsOK(mg2, cs) /\ MapsOK(mg2, ids2, cd)
  BY DEF ObjectsOK, MapsOK
<1>15. GivenOK(T, M, mg2, md, gv)
  BY <1>8, <1>10, <1>11 DEF GivenOK
<1>16. NewHwOK(T, M, mg2) /\ BreachOK(T, mg2)
  BY <1>9 DEF NewHwOK, BreachOK
<1>17. CarryOK(T, M, mg2, cs)
  BY <1>3, <1>5, <1>6 DEF Good, CarryOK
<1>18. ErasedOK(T, M, mg2, ids2) /\ DoneOK(T, M, mg2, cs)
  BY DEF ErasedOK, DoneOK
<1>19. ModemOK(T, mg2, md, cs, cd)
  BY <1>9, <1>10 DEF ModemOK
<1>20. MaskOK(t, mg2, md, cs)
  BY <1>10 DEF MaskOK
<1>21. QED
  BY <1>2, <1>4, <1>5, <1>7, <1>12, <1>13, <1>14, <1>15, <1>16, <1>17, <1>18, <1>19, <1>20
     DEF Good

\* What a command makes of an object.
LEMMA ChangedObject ==
  ASSUME NEW op \in {"pause", "resume", "modify"}, NEW mask, op = "modify" => mask \in Masks,
         NEW o \in Object
  PROVE  /\ Changed(op, mask, o) \in Object
         /\ Changed(op, mask, o).id = o.id /\ Changed(op, mask, o).client = o.client
         /\ Changed(op, mask, o).mask = IF op = "modify" THEN mask ELSE o.mask
<1>1. CASE op = "pause"
  BY <1>1 DEF Changed, Object
<1>2. CASE op = "resume"
  BY <1>2 DEF Changed, Object
<1>3. CASE op = "modify"
  BY <1>3 DEF Changed, Object
<1>4. QED
  BY <1>1, <1>2, <1>3

-----------------------------------------------------------------------------
(***************************************************************************)
(* The modem answers.                                                      *)
(***************************************************************************)
LEMMA OnceCalledTail ==
  ASSUME NEW R, NEW tm \in Seq(R), tm # <<>>, NEW cs, OnceCalled(tm, cs)
  PROVE  /\ OnceCalled(Tail(tm), cs)
         /\ \A c \in ToSet(Tail(tm)) : \A id :
              ~(Carries(cs, Head(tm).then, id) /\ Carries(cs, c.then, id))
<1>1. PICK n \in Nat : n = Len(tm)
  OBVIOUS
<1>2. PICK t : t = Tail(tm)
  OBVIOUS
<1>3. PICK h : h = Head(tm)
  OBVIOUS
<1>4. /\ DOMAIN tm = 1..n /\ DOMAIN t = 1..(n - 1) /\ n >= 1 /\ h = tm[1]
      /\ \A k \in 1..(n - 1) : t[k] = tm[k + 1]
  BY <1>1, <1>2, <1>3
<1>5. 1 \in 1..n /\ \A k \in 1..(n - 1) : k + 1 \in 1..n /\ 1 # k + 1
  BY <1>4
<1>6. \A j, k \in 1..(n - 1) : j + 1 = k + 1 => j = k
  OBVIOUS
<1>7. OnceCalled(t, cs)
  <2> SUFFICES ASSUME NEW j \in 1..(n - 1), NEW k \in 1..(n - 1), NEW id,
                      Carries(cs, t[j].then, id), Carries(cs, t[k].then, id)
               PROVE  j = k
    BY <1>4 DEF OnceCalled
  <2>1. t[j] = tm[j + 1] /\ t[k] = tm[k + 1] /\ j + 1 \in DOMAIN tm /\ k + 1 \in DOMAIN tm
    BY <1>4, <1>5
  <2>2. j + 1 = k + 1
    BY <2>1 DEF OnceCalled
  <2>3. QED
    BY <1>6, <2>2
<1>8. ASSUME NEW c \in ToSet(t), NEW id, Carries(cs, h.then, id), Carries(cs, c.then, id)
      PROVE  FALSE
  <2>1. PICK k \in 1..(n - 1) : c = t[k]
    BY <1>4 DEF ToSet
  <2>2. c = tm[k + 1] /\ k + 1 \in DOMAIN tm /\ 1 \in DOMAIN tm /\ 1 # k + 1
    BY <1>4, <1>5, <2>1
  <2>3. QED
    BY <1>4, <1>8, <2>2 DEF OnceCalled
<1>9. QED
  BY <1>2, <1>3, <1>7, <1>8

\* What an answer is: that of the call, with its result.
AnswerOf(call, ok, hw) == [call.then EXCEPT !.ok = ok, !.hw = hw]

LEMMA AnswerShape ==
  ASSUME NEW cs, NEW call, CallOK(cs, call), NEW ok \in BOOLEAN, NEW hw
  PROVE  LET m == AnswerOf(call, ok, hw) IN
         /\ m.op = call.then.op /\ m.arg = call.then.arg /\ m.ok = ok /\ m.hw = hw
         /\ MsgOK(cs, m)
         /\ \A id : Carries(cs, m, id) <=> Carries(cs, call.then, id)
         /\ m.op \notin {"breach", "engineUp"}
         /\ m.op \in {"done", "erased"} => OnHw(call) /\ HwOf(m) = call.hw
         /\ Done(m) => OnHw(call) /\ HwOf(m) = call.hw
         /\ Added(m) => ok /\ call.call = "add" /\ HwOf(m) = hw
<1>1. PICK d : d = call.then
  OBVIOUS
<1>2. PICK m : m = AnswerOf(call, ok, hw)
  OBVIOUS
<1>3. d = [op |-> d.op, arg |-> d.arg, ok |-> d.ok, hw |-> d.hw] /\ MsgOK(cs, d)
  BY <1>1 DEF CallOK, MsgOK
<1>4. /\ m.op = d.op /\ m.arg = d.arg /\ m.ok = ok /\ m.hw = hw
      /\ m = [op |-> m.op, arg |-> m.arg, ok |-> m.ok, hw |-> m.hw]
  BY <1>1, <1>2, <1>3 DEF AnswerOf
<1>5. MsgOK(cs, m)
  BY <1>3, <1>4 DEF MsgOK
<1>6. \A id : Carries(cs, m, id) <=> Carries(cs, d, id)
  BY <1>4 DEF Carries, ObjectOf
<1>7. m.op \notin {"breach", "engineUp"}
  BY <1>1, <1>4 DEF CallOK
<1>8. m.op \in {"done", "erased"} => OnHw(call) /\ HwOf(m) = call.hw
  BY <1>1, <1>4 DEF CallOK, OnHw, HwOf
<1>9. Done(m) => m.op \in {"done", "erased"}
  BY DEF Done
<1>10. Added(m) => ok /\ call.call = "add" /\ HwOf(m) = hw
  BY <1>1, <1>4 DEF Added, CallOK, HwOf
<1>11. QED
  BY <1>1, <1>2, <1>4, <1>5, <1>6, <1>7, <1>8, <1>9, <1>10

LEMMA Answered ==
  ASSUME NEW S, NEW R, NEW q \in Seq(S), NEW tm \in Seq(R), tm # <<>>,
         NEW mg, NEW ids, NEW md, NEW md2, NEW gv, NEW gv2, NEW cs, NEW cd,
         NEW ok \in BOOLEAN, NEW new, NEW m, m \in S, m = AnswerOf(Head(tm), ok, new),
         Good(q, tm, mg, ids, md, gv, cs, cd),
         gv \subseteq gv2, DOMAIN md2 \subseteq gv2,
         Up(ToSet(q)) => DOMAIN md2 = {} /\ ~OfModem(m),
         Added(m) => new \in gv2 \ gv,
         ModemOK(ToSet(q) \cup {m}, mg, md2, cs, cd),
         MaskOK(Append(q, m), mg, md2, cs)
  PROVE  Good(Append(q, m), Tail(tm), mg, ids, md2, gv2, cs, cd)
<1>1. PICK Q : Q = ToSet(q)
  OBVIOUS
<1>2. PICK M : M = ToSet(tm)
  OBVIOUS
<1>3. PICK N : N = ToSet(Tail(tm))
  OBVIOUS
<1>4. PICK c : c = Head(tm)
  OBVIOUS
<1>5. PICK a : a = Append(q, m)
  OBVIOUS
<1>6. ToSet(a) = Q \cup {m}
  BY <1>1, <1>5, AppendSet
<1>7. M = {c} \cup N
  BY <1>2, <1>3, <1>4, TailSet
<1>8. CallOK(cs, c)
  BY <1>2, <1>7 DEF Good, MsgsOK
<1>9. /\ m.op = c.then.op /\ m.arg = c.then.arg /\ m.ok = ok /\ m.hw = new
      /\ MsgOK(cs, m)
      /\ \A id : Carries(cs, m, id) <=> Carries(cs, c.then, id)
      /\ m.op \notin {"breach", "engineUp"}
      /\ m.op \in {"done", "erased"} => OnHw(c) /\ HwOf(m) = c.hw
      /\ Done(m) => OnHw(c) /\ HwOf(m) = c.hw
      /\ Added(m) => ok /\ c.call = "add" /\ HwOf(m) = new
  BY <1>4, <1>8, AnswerShape
<1>10. m.op = "erased" => m.arg = c.hw
  BY <1>8, <1>9 DEF CallOK
<1>11. m.op = "done" => m.arg[3] = c.hw
  BY <1>8, <1>9 DEF CallOK
<1>12. OnceCalled(Tail(tm), cs) /\ \A d \in N : \A id :
          ~(Carries(cs, c.then, id) /\ Carries(cs, d.then, id))
  BY <1>3, <1>4, OnceCalledTail DEF Good
<1>13. CmdsOK(cs) /\ ObjectsOK(mg, cs) /\ MapsOK(mg, ids, cd)
  BY DEF Good
<1>14. MsgsOK(Q \cup {m}, N, cs)
  BY <1>1, <1>2, <1>7, <1>9 DEF Good, MsgsOK
<1>15. Up(Q \cup {m}) <=> Up(Q)
  BY <1>9 DEF Up
<1>16. GivenOK(Q, M, mg, md, gv)
  BY <1>1, <1>2 DEF Good
<1>17. Added(m) => ~Up(Q) /\ new \notin gv
  BY <1>1 DEF OfModem
<1>18. OfModem(m) /\ ~Up(Q) => HwOf(m) \in gv2
  BY <1>7, <1>9, <1>16 DEF OfModem, GivenOK
<1>19. GivenOK(Q \cup {m}, N, mg, md2, gv2)
  BY <1>1, <1>7, <1>15, <1>16, <1>18 DEF GivenOK
<1>20. Added(m) => /\ new \notin DOMAIN mg
                   /\ \A d \in Q : /\ Added(d) => d.hw # new
                                   /\ Done(d) => HwOf(d) # new
                                   /\ d.op = "breach" => d.arg[1] # new
                   /\ \A d \in M : OnHw(d) => d.hw # new
  BY <1>16, <1>17 DEF GivenOK, OfModem, HwOf, Added
<1>21. Ordered(a) /\ OnceAdded(a) /\ OnceCarried(a, cs)
  <2>1. Added(m) => \A d \in Q : Added(d) => d.hw # m.hw
    BY <1>9, <1>20
  <2>2. \A id : Carries(cs, m, id) => \A d \in Q : ~Carries(cs, d, id)
    BY <1>1, <1>2, <1>7, <1>9 DEF Good, CarryOK
  <2>3. Ordered(q) /\ OnceAdded(q) /\ OnceCarried(q, cs)
    BY DEF Good
  <2>4. QED
    BY <1>1, <1>5, <2>1, <2>2, <2>3, OnceAppend
<1>22. NewHwOK(Q \cup {m}, N, mg)
  <2>1. NewHwOK(Q, M, mg)
    BY <1>1, <1>2 DEF Good
  <2>2. ~(Added(m) /\ Done(m))
    BY DEF Added, Done
  <2>3. \A d \in Q : Added(d) /\ Done(m) => HwOf(m) # d.hw
    BY <1>7, <1>9, <2>1 DEF NewHwOK
  <2>4. QED
    BY <1>7, <1>9, <1>20, <2>1, <2>2, <2>3 DEF NewHwOK
<1>23. CarryOK(Q \cup {m}, N, mg, cs)
  BY <1>1, <1>2, <1>7, <1>9, <1>12 DEF Good, CarryOK
<1>24. ErasedOK(Q \cup {m}, N, mg, ids)
  <2>1. ErasedOK(Q, M, mg, ids)
    BY <1>1, <1>2 DEF Good
  <2>2. QED
    BY <1>7, <1>9, <1>10, <2>1 DEF ErasedOK
<1>25. DoneOK(Q \cup {m}, N, mg, cs)
  <2>1. DoneOK(Q, M, mg, cs)
    BY <1>1, <1>2 DEF Good
  <2>2. c \in M /\ N \subseteq M
    BY <1>7
  <2>3. m.ok /\ m.op = "done" /\ m.arg[3] \in DOMAIN mg =>
          mg[m.arg[3]].id = cs[m.arg[1]].ids[m.arg[2]]
    <3>1. c.then.op = "done" /\ c.hw \in DOMAIN mg =>
            mg[c.hw].id = cs[c.then.arg[1]].ids[c.then.arg[2]]
      BY <2>1, <2>2 DEF DoneOK
    <3>2. m.op = c.then.op /\ m.arg = c.then.arg
      BY <1>9
    <3>3. QED
      BY <1>11, <3>1, <3>2
  <2>4. QED
    BY <2>1, <2>2, <2>3 DEF DoneOK
<1>26. BreachOK(Q \cup {m}, mg)
  <2>1. BreachOK(Q, mg)
    BY <1>1 DEF Good
  <2>2. QED
    BY <1>9, <1>20, <2>1 DEF BreachOK
<1>27. QED
  BY <1>1, <1>3, <1>5, <1>6, <1>12, <1>13, <1>14, <1>19, <1>21, <1>22, <1>23, <1>24, <1>25,
     <1>26 DEF Good

\* An answer after which the modem has what it had: an item comes through the call
\* queue, or the call is refused.
LEMMA NothingChanges ==
  ASSUME NEW S, NEW R, NEW q \in Seq(S), NEW tm \in Seq(R), tm # <<>>,
         NEW mg, NEW ids, NEW md, NEW gv, NEW cs, NEW cd,
         NEW ok \in BOOLEAN, NEW m, m \in S, m = AnswerOf(Head(tm), ok, None),
         Good(q, tm, mg, ids, md, gv, cs, cd),
         ok => Head(tm).call = "sync"
  PROVE  Good(Append(q, m), Tail(tm), mg, ids, md, gv, cs, cd)
<1>1. PICK Q : Q = ToSet(q)
  OBVIOUS
<1>2. PICK c : c = Head(tm)
  OBVIOUS
<1>3. CallOK(cs, c)
  BY <1>2, TailSet DEF Good, MsgsOK
<1>4. m.op = c.then.op /\ m.ok = ok /\ m.op \notin {"breach", "engineUp"}
  BY <1>2, <1>3, AnswerShape
<1>5. ok => m.op = "item"
  BY <1>2, <1>3, <1>4 DEF CallOK
<1>6. ~Added(m) /\ ~OfModem(m) /\ ~Removed(cs, m) /\ ~Masked(cs, m)
  BY <1>4, <1>5 DEF Added, Done, OfModem, Removed, Masked
<1>7. Up(Q \cup {m}) <=> Up(Q)
  BY <1>4 DEF Up
<1>8. GivenOK(ToSet(q), ToSet(tm), mg, md, gv) /\ ModemOK(Q, mg, md, cs, cd)
      /\ MaskOK(q, mg, md, cs)
  BY <1>1 DEF Good
<1>9. ModemOK(Q \cup {m}, mg, md, cs, cd)
  BY <1>6, <1>7, <1>8 DEF ModemOK
<1>10. MaskOK(Append(q, m), mg, md, cs)
  BY <1>6, <1>8, MaskAppend DEF MaskOK
<1>11. DOMAIN md \subseteq gv /\ (Up(Q) => DOMAIN md = {})
  BY <1>1, <1>8 DEF GivenOK
<1>12. QED
  BY <1>1, <1>6, <1>9, <1>10, <1>11, Answered

\* The modem takes a geofence.
LEMMA GeofenceTaken ==
  ASSUME NEW S, NEW R, NEW q \in Seq(S), NEW tm \in Seq(R), tm # <<>>,
         NEW mg, NEW ids, NEW md, NEW md2, NEW gv, NEW cs, NEW cd,
         NEW new, new \notin gv, NEW m, m \in S,
         NEW ok \in BOOLEAN, m = AnswerOf(Head(tm), ok, new), m.ok,
         Good(q, tm, mg, ids, md, gv, cs, cd),
         Head(tm).call = "add", ~Up(ToSet(q)), md2 = With(md, new, Head(tm).object)
  PROVE  Good(Append(q, m), Tail(tm), mg, ids, md2, gv \cup {new}, cs, cd)
<1>1. PICK Q : Q = ToSet(q)
  OBVIOUS
<1>2. PICK c : c = Head(tm)
  OBVIOUS
<1>3. CallOK(cs, c)
  BY <1>2, TailSet DEF Good, MsgsOK
<1>4. /\ m.op = c.then.op /\ m.arg = c.then.arg /\ m.ok /\ m.hw = new
      /\ MsgOK(cs, m) /\ m.op \notin {"breach", "engineUp"}
  <2>1. /\ m.op = c.then.op /\ m.arg = c.then.arg /\ m.ok = ok /\ m.hw = new
        /\ MsgOK(cs, m) /\ m.op \notin {"breach", "engineUp"}
    BY <1>2, <1>3, AnswerShape
  <2>2. QED
    BY <2>1
<1>5. m.op \in {"added", "restored"}
  BY <1>2, <1>3, <1>4 DEF CallOK
<1>6. Added(m) /\ HwOf(m) = new /\ Masked(cs, m) /\ MaskOf(cs, m) = ObjectOf(m).mask
      /\ ~Removed(cs, m)
  BY <1>4, <1>5 DEF Added, HwOf, Masked, MaskOf, Removed
<1>7. ObjectOf(m) \in Object
  BY <1>4, <1>5 DEF MsgOK, ObjectOf
<1>8. /\ c.object \in Object /\ c.object.id = ObjectOf(m).id
      /\ c.object.mask = ObjectOf(m).mask
  <2>1. CASE m.op = "added"
    BY <1>3, <1>4, <1>7, <2>1 DEF CallOK, ObjectOf
  <2>2. CASE m.op = "restored"
    <3>1. PICK o \in Object : o = c.then.arg
      BY <1>4, <1>7, <2>2 DEF ObjectOf
    <3>2. c.object = [o EXCEPT !.paused = FALSE] /\ ObjectOf(m) = o
      BY <1>3, <1>4, <2>2, <3>1 DEF CallOK, ObjectOf
    <3>3. QED
      BY <3>2 DEF Object
  <2>3. QED
    BY <1>5, <2>1, <2>2
<1>9. /\ DOMAIN md2 = DOMAIN md \cup {new} /\ md2[new] = c.object
      /\ \A hw \in DOMAIN md2 : hw # new => hw \in DOMAIN md /\ md2[hw] = md[hw]
  BY <1>2 DEF With
<1>10. Up(Q \cup {m}) <=> Up(Q)
  BY <1>4 DEF Up
<1>11. GivenOK(Q, ToSet(tm), mg, md, gv) /\ ModemOK(Q, mg, md, cs, cd)
       /\ MaskOK(q, mg, md, cs)
  BY <1>1 DEF Good
<1>12. DOMAIN md \subseteq gv /\ \A d \in Q : OfModem(d) => HwOf(d) \in gv
  BY <1>1, <1>11 DEF GivenOK
<1>13. \A d \in Q : Removed(cs, d) => Done(d)
  BY DEF Removed, Done
<1>14. ModemOK(Q \cup {m}, mg, md2, cs, cd)
  <2>1. ASSUME NEW hw \in DOMAIN md2
        PROVE  /\ md2[hw] \in Object
               /\ \/ hw \in DOMAIN mg /\ mg[hw].id = md2[hw].id
                  \/ \E d \in Q \cup {m} : Added(d) /\ d.hw = hw /\ ObjectOf(d).id = md2[hw].id
    <3>1. CASE hw = new
      <4>1. m \in Q \cup {m} /\ Added(m) /\ m.hw = hw /\ md2[hw] = c.object
        BY <1>4, <1>6, <1>9, <3>1
      <4>2. QED
        BY <1>8, <4>1
    <3>2. CASE hw # new
      <4>1. hw \in DOMAIN md /\ md2[hw] = md[hw]
        BY <1>9, <3>2
      <4>2. /\ md[hw] \in Object
            /\ \/ hw \in DOMAIN mg /\ mg[hw].id = md[hw].id
               \/ \E d \in Q : Added(d) /\ d.hw = hw /\ ObjectOf(d).id = md[hw].id
        BY <1>11, <4>1 DEF ModemOK
      <4>3. QED
        BY <4>1, <4>2
    <3>3. QED
      BY <3>1, <3>2
  <2>2. \A d \in Q \cup {m} : Removed(cs, d) => HwOf(d) \notin DOMAIN md2
    BY <1>6, <1>9, <1>11, <1>12, <1>13 DEF ModemOK, OfModem
  <2>3. \A d \in Q \cup {m} : Added(d) => d.hw \in DOMAIN md2
    BY <1>1, <1>4, <1>9, <1>11 DEF ModemOK
  <2>4. \A hw \in DOMAIN mg \ DOMAIN md2 : mg[hw].client \in cd =>
          \E d \in Q \cup {m} : Removed(cs, d) /\ HwOf(d) = hw
    BY <1>1, <1>9, <1>11 DEF ModemOK
  <2>5. QED
    BY <2>1, <2>2, <2>3, <2>4 DEF ModemOK
<1>15. MaskOK(Append(q, m), mg, md2, cs)
  <2> SUFFICES ASSUME NEW hw \in DOMAIN md2
               PROVE  \/ SaysLast(Append(q, m), cs, hw, md2[hw].mask)
                      \/ /\ Silent(Append(q, m), cs, hw)
                         /\ hw \in DOMAIN mg => mg[hw].mask = md2[hw].mask
    BY DEF MaskOK
  <2>1. CASE hw = new
    <3>1. SaysLast(Append(q, m), cs, hw, MaskOf(cs, m))
      BY <1>6, <2>1, MaskAppend
    <3>2. QED
      BY <1>6, <1>8, <1>9, <2>1, <3>1
  <2>2. CASE hw # new
    BY <1>6, <1>9, <1>11, <2>2, MaskAppend DEF MaskOK
  <2>3. QED
    BY <2>1, <2>2
<1>16. QED
  BY <1>1, <1>9, <1>12, <1>14, <1>15, Answered

\* The modem changes or removes a geofence.
LEMMA GeofenceChanged ==
  ASSUME NEW S, NEW R, NEW q \in Seq(S), NEW tm \in Seq(R), tm # <<>>,
         NEW mg, NEW ids, NEW md, NEW md2, NEW gv, NEW cs, NEW cd,
         NEW hw0 \in DOMAIN md, NEW m, m \in S,
         NEW ok \in BOOLEAN, m = AnswerOf(Head(tm), ok, hw0), m.ok,
         Good(q, tm, mg, ids, md, gv, cs, cd),
         OnHw(Head(tm)), Head(tm).hw = hw0, ~Up(ToSet(q)),
         md2 = IF Head(tm).call = "remove" THEN Without(md, {hw0})
               ELSE [md EXCEPT ![hw0] = Changed(Head(tm).call, Head(tm).object.mask, @)]
  PROVE  Good(Append(q, m), Tail(tm), mg, ids, md2, gv, cs, cd)
<1>1. PICK Q : Q = ToSet(q)
  OBVIOUS
<1>2. PICK c : c = Head(tm)
  OBVIOUS
<1>3. c \in ToSet(tm)
  BY <1>2, TailSet
<1>4. CallOK(cs, c)
  BY <1>3 DEF Good, MsgsOK
<1>5. /\ m.op = c.then.op /\ m.arg = c.then.arg /\ m.ok /\ m.hw = hw0
      /\ MsgOK(cs, m) /\ m.op \notin {"breach", "engineUp"}
      /\ m.op \in {"done", "erased"} => HwOf(m) = hw0
  <2>1. /\ m.op = c.then.op /\ m.arg = c.then.arg /\ m.ok = ok /\ m.hw = hw0
        /\ MsgOK(cs, m) /\ m.op \notin {"breach", "engineUp"}
        /\ m.op \in {"done", "erased"} => HwOf(m) = hw0
    BY <1>2, <1>4, AnswerShape
  <2>2. QED
    BY <2>1
<1>6. m.op \in {"done", "erased", "ignored"}
  BY <1>2, <1>4, <1>5 DEF CallOK, OnHw
<1>7. ~Added(m)
  BY <1>6 DEF Added
<1>8. PICK call : call = c.call
  OBVIOUS
<1>9. /\ call \in {"remove", "pause", "resume", "modify"}
      /\ call = "remove" => /\ m.op \in {"done", "erased"}
                            /\ m.op = "done" => cs[m.arg[1]].op = "remove"
      /\ call # "remove" => /\ m.op \in {"done", "ignored"}
                            /\ m.op = "done" => cs[m.arg[1]].op = call
      /\ call = "modify" => /\ m.op = "done" /\ c.object.mask = cs[m.arg[1]].mask
                            /\ c.object.mask \in Masks
  <2>1. /\ call \in {"remove", "pause", "resume", "modify"}
        /\ call = "remove" => m.op \in {"done", "erased"}
        /\ call # "remove" => m.op \in {"done", "ignored"}
    <3>1. call \notin {"sync", "add"}
      BY <1>2, <1>8 DEF OnHw
    <3>2. m.op = "done" => IsItem(cs, m.arg[1], m.arg[2]) /\ call = cs[m.arg[1]].op
      BY <1>4, <1>5, <1>8 DEF CallOK, MsgOK
    <3>3. m.op = "erased" => call = "remove"
      BY <1>4, <1>5, <1>8 DEF CallOK
    <3>4. m.op = "ignored" => call = "pause"
      BY <1>4, <1>5, <1>8 DEF CallOK
    <3>5. m.op = "done" => call \in Ops
      <4>1. CmdsOK(cs)
        BY DEF Good
      <4>2. QED
        BY <3>2, <4>1 DEF CmdsOK, IsItem
    <3>6. QED
      BY <1>6, <3>1, <3>3, <3>4, <3>5 DEF Ops
  <2>2. m.op = "done" => cs[m.arg[1]].op = call
    BY <1>2, <1>4, <1>5, <1>8 DEF CallOK
  <2>3. call = "modify" => /\ m.op = "done" /\ c.object.mask = cs[m.arg[1]].mask
                           /\ c.object.mask \in Masks
    <3>1. call = "modify" => m.op = "done"
      BY <1>4, <1>5, <1>6, <1>8 DEF CallOK
    <3>2. m.op = "done" => /\ IsItem(cs, m.arg[1], m.arg[2]) /\ call = cs[m.arg[1]].op
                           /\ c.object.mask = cs[m.arg[1]].mask
      BY <1>4, <1>5, <1>8 DEF CallOK, MsgOK
    <3>3. CmdsOK(cs)
      BY DEF Good
    <3>4. m.op = "done" /\ call = "modify" => cs[m.arg[1]].mask \in Masks
      BY <3>2, <3>3 DEF CmdsOK, IsItem
    <3>5. QED
      BY <3>1, <3>2, <3>4
  <2>4. QED
    BY <2>1, <2>2, <2>3
<1>10. /\ Removed(cs, m) <=> call = "remove"
       /\ Masked(cs, m) <=> call = "modify"
       /\ call \in {"remove", "modify"} => HwOf(m) = hw0
       /\ call = "modify" => MaskOf(cs, m) = c.object.mask
  BY <1>5, <1>6, <1>7, <1>9 DEF Removed, Masked, MaskOf
<1>11. GivenOK(Q, ToSet(tm), mg, md, gv) /\ ModemOK(Q, mg, md, cs, cd)
       /\ MaskOK(q, mg, md, cs) /\ NewHwOK(Q, ToSet(tm), mg)
  BY <1>1 DEF Good
<1>12. md[hw0] \in Object
  BY <1>11 DEF ModemOK
<1>13. /\ DOMAIN md2 = IF call = "remove" THEN DOMAIN md \ {hw0} ELSE DOMAIN md
       /\ \A hw \in DOMAIN md2 : hw # hw0 => md2[hw] = md[hw]
       /\ call # "remove" => /\ md2[hw0] \in Object /\ md2[hw0].id = md[hw0].id
                             /\ md2[hw0].mask = IF call = "modify" THEN c.object.mask
                                                ELSE md[hw0].mask
  <2>1. CASE call = "remove"
    BY <1>2, <1>8, <2>1 DEF Without
  <2>2. CASE call # "remove"
    <3>1. md2 = [md EXCEPT ![hw0] = Changed(call, c.object.mask, md[hw0])]
      BY <1>2, <1>8, <2>2
    <3>2. DOMAIN md2 = DOMAIN md /\ md2[hw0] = Changed(call, c.object.mask, md[hw0])
          /\ \A hw \in DOMAIN md2 : hw # hw0 => md2[hw] = md[hw]
      BY <3>1
    <3>3. PICK o \in Object : o = md[hw0]
      BY <1>12
    <3>4. /\ Changed(call, c.object.mask, o) \in Object /\ Changed(call, c.object.mask, o).id = o.id
          /\ Changed(call, c.object.mask, o).mask = IF call = "modify" THEN c.object.mask
                                                    ELSE o.mask
      BY <1>9, <2>2, ChangedObject
    <3>5. QED
      BY <2>2, <3>2, <3>3, <3>4
  <2>3. QED
    BY <2>1, <2>2
<1>14. Up(Q \cup {m}) <=> Up(Q)
  BY <1>5 DEF Up
<1>15. \A d \in Q : Added(d) => d.hw # hw0
  BY <1>2, <1>3, <1>11 DEF NewHwOK
<1>16. ModemOK(Q \cup {m}, mg, md2, cs, cd)
  <2>1. ASSUME NEW hw \in DOMAIN md2
        PROVE  /\ md2[hw] \in Object
               /\ \/ hw \in DOMAIN mg /\ mg[hw].id = md2[hw].id
                  \/ \E d \in Q \cup {m} : Added(d) /\ d.hw = hw /\ ObjectOf(d).id = md2[hw].id
    <3>1. hw \in DOMAIN md /\ md2[hw] \in Object /\ md2[hw].id = md[hw].id
      <4>1. hw \in DOMAIN md /\ (hw = hw0 => call # "remove")
        BY <1>13
      <4>2. md[hw] \in Object
        BY <1>11, <4>1 DEF ModemOK
      <4>3. QED
        BY <1>13, <4>1, <4>2
    <3>2. \/ hw \in DOMAIN mg /\ mg[hw].id = md[hw].id
          \/ \E d \in Q : Added(d) /\ d.hw = hw /\ ObjectOf(d).id = md[hw].id
      BY <1>11, <3>1 DEF ModemOK
    <3>3. QED
      BY <3>1, <3>2
  <2>2. \A d \in Q \cup {m} : Removed(cs, d) => HwOf(d) \notin DOMAIN md2
    BY <1>10, <1>11, <1>13 DEF ModemOK
  <2>3. \A d \in Q \cup {m} : Added(d) => d.hw \in DOMAIN md2
    BY <1>1, <1>7, <1>11, <1>13, <1>15 DEF ModemOK
  <2>4. ASSUME NEW hw \in DOMAIN mg \ DOMAIN md2, mg[hw].client \in cd
        PROVE  \E d \in Q \cup {m} : Removed(cs, d) /\ HwOf(d) = hw
    <3>1. CASE hw \in DOMAIN md
      BY <1>10, <1>13, <2>4, <3>1
    <3>2. CASE hw \notin DOMAIN md
      BY <1>1, <1>11, <2>4, <3>2 DEF ModemOK
    <3>3. QED
      BY <3>1, <3>2
  <2>5. QED
    BY <2>1, <2>2, <2>3, <2>4 DEF ModemOK
<1>17. MaskOK(Append(q, m), mg, md2, cs)
  <2> SUFFICES ASSUME NEW hw \in DOMAIN md2
               PROVE  \/ SaysLast(Append(q, m), cs, hw, md2[hw].mask)
                      \/ /\ Silent(Append(q, m), cs, hw)
                         /\ hw \in DOMAIN mg => mg[hw].mask = md2[hw].mask
    BY DEF MaskOK
  <2>1. CASE hw = hw0 /\ call = "modify"
    <3>1. SaysLast(Append(q, m), cs, hw, MaskOf(cs, m))
      BY <1>10, <2>1, MaskAppend
    <3>2. QED
      BY <1>10, <1>13, <2>1, <3>1
  <2>2. CASE ~(hw = hw0 /\ call = "modify")
    <3>1. hw \in DOMAIN md /\ md2[hw].mask = md[hw].mask
      BY <1>13, <2>2
    <3>2. ~(Masked(cs, m) /\ HwOf(m) = hw)
      BY <1>10, <2>2
    <3>3. QED
      BY <1>11, <3>1, <3>2, MaskAppend DEF MaskOK
  <2>3. QED
    BY <2>1, <2>2
<1>18. DOMAIN md2 \subseteq gv
  BY <1>11, <1>13 DEF GivenOK
<1>19. QED
  BY <1>1, <1>7, <1>16, <1>17, <1>18, Answered

-----------------------------------------------------------------------------
(***************************************************************************)
(* The modem restarts.                                                     *)
(***************************************************************************)
LEMMA OnceConcat ==
  ASSUME NEW S, NEW q \in Seq(S), NEW f \in Seq(S), NEW cs,
         Ordered(q), OnceAdded(q), OnceCarried(q, cs), OnceCarried(f, cs),
         \A m \in ToSet(f) : ~OfModem(m),
         \A m \in ToSet(f), d \in ToSet(q) : \A id :
           ~(Carries(cs, m, id) /\ Carries(cs, d, id))
  PROVE  Ordered(q \o f) /\ OnceAdded(q \o f) /\ OnceCarried(q \o f, cs)
<1>1. PICK n \in Nat, l \in Nat : n = Len(q) /\ l = Len(f)
  OBVIOUS
<1>2. PICK a : a = q \o f
  OBVIOUS
<1>3. /\ DOMAIN q = 1..n /\ DOMAIN f = 1..l /\ DOMAIN a = 1..(n + l)
      /\ \A i \in 1..(n + l) : a[i] = IF i <= n THEN q[i] ELSE f[i - n]
  BY <1>1, <1>2
<1>4. \A i \in 1..(n + l) : \/ i \in 1..n /\ i <= n
                            \/ ~(i <= n) /\ i - n \in 1..l /\ (i - n) + n = i
  OBVIOUS
<1>5. \A i \in 1..(n + l) : i <= n => i \in DOMAIN q /\ a[i] = q[i] /\ a[i] \in ToSet(q)
  BY <1>3, <1>4 DEF ToSet
<1>6. \A i \in 1..(n + l) : ~(i <= n) =>
        i - n \in DOMAIN f /\ a[i] = f[i - n] /\ a[i] \in ToSet(f)
  BY <1>3, <1>4 DEF ToSet
<1>7. Ordered(a)
  <2> SUFFICES ASSUME NEW j \in 1..(n + l), NEW k \in 1..(n + l), j < k, a[j].op = "engineUp",
                      OfModem(a[k])
               PROVE  FALSE
    BY <1>3 DEF Ordered
  <2>1. k <= n
    BY <1>6
  <2>2. j <= n
    BY <2>1
  <2>3. QED
    BY <1>5, <2>1, <2>2 DEF Ordered
<1>8. OnceAdded(a)
  <2> SUFFICES ASSUME NEW j \in 1..(n + l), NEW k \in 1..(n + l),
                      Added(a[j]), Added(a[k]), a[j].hw = a[k].hw
               PROVE  j = k
    BY <1>3 DEF OnceAdded
  <2>1. j <= n /\ k <= n
    BY <1>6 DEF OfModem
  <2>2. QED
    BY <1>5, <2>1 DEF OnceAdded
<1>9. OnceCarried(a, cs)
  <2> SUFFICES ASSUME NEW j \in 1..(n + l), NEW k \in 1..(n + l), NEW id,
                      Carries(cs, a[j], id), Carries(cs, a[k], id)
               PROVE  j = k
    BY <1>3 DEF OnceCarried
  <2>1. CASE j <= n /\ k <= n
    BY <1>5, <2>1 DEF OnceCarried
  <2>2. CASE ~(j <= n) /\ ~(k <= n)
    <3>1. j - n = k - n
      BY <1>6, <2>2 DEF OnceCarried
    <3>2. QED
      BY <3>1
  <2>3. QED
    BY <1>5, <1>6, <2>1, <2>2
<1>10. QED
  BY <1>2, <1>7, <1>8, <1>9

\* The calls fail, but for the items, which come through the call queue.
Failure(call) == [call.then EXCEPT !.ok = call.call = "sync"]

LEMMA ModemGone ==
  ASSUME NEW S, NEW R, NEW q \in Seq(S), NEW tm \in Seq(R),
         NEW mg, NEW ids, NEW md, NEW gv, NEW cs, NEW cd, NEW f \in Seq(S), NEW up \in S,
         Good(q, tm, mg, ids, md, gv, cs, cd),
         DOMAIN f = DOMAIN tm,
         \A k \in DOMAIN tm : f[k] = Failure(tm[k]),
         up = Msg("engineUp", None)
  PROVE  Good(q \o f \o <<up>>, <<>>, mg, ids, <<>>, {}, cs, cd)
<1>1. PICK Q : Q = ToSet(q)
  OBVIOUS
<1>2. PICK M : M = ToSet(tm)
  OBVIOUS
<1>3. PICK F : F = ToSet(f)
  OBVIOUS
<1>4. ASSUME NEW k \in DOMAIN tm
      PROVE  /\ f[k].op = tm[k].then.op /\ f[k].arg = tm[k].then.arg
             /\ MsgOK(cs, f[k]) /\ ~OfModem(f[k]) /\ f[k].op # "engineUp"
             /\ ~(f[k].ok /\ f[k].op \in {"erased", "done"})
             /\ \A id : Carries(cs, f[k], id) <=> Carries(cs, tm[k].then, id)
  <2>1. PICK c : c = tm[k]
    OBVIOUS
  <2>2. PICK m : m = f[k]
    OBVIOUS
  <2>3. CallOK(cs, c)
    BY <2>1 DEF Good, MsgsOK, ToSet
  <2>4. PICK d : d = c.then
    OBVIOUS
  <2>5. d = [op |-> d.op, arg |-> d.arg, ok |-> d.ok, hw |-> d.hw] /\ MsgOK(cs, d)
    BY <2>3, <2>4 DEF CallOK, MsgOK
  <2>6. PICK ok \in BOOLEAN : ok = (c.call = "sync")
    OBVIOUS
  <2>7. m = [d EXCEPT !.ok = ok]
    BY <2>1, <2>2, <2>4, <2>6 DEF Failure
  <2>8. /\ m.op = d.op /\ m.arg = d.arg /\ m.ok = ok /\ m.hw = d.hw
        /\ m = [op |-> m.op, arg |-> m.arg, ok |-> m.ok, hw |-> m.hw]
    BY <2>5, <2>7
  <2>9. MsgOK(cs, m)
    BY <2>5, <2>8 DEF MsgOK
  <2>10. \A id : Carries(cs, m, id) <=> Carries(cs, d, id)
    BY <2>8 DEF Carries, ObjectOf
  <2>11. m.op \in {"item", "added", "restored", "done", "erased", "ignored"}
         /\ (c.call = "sync" => m.op = "item")
    BY <2>3, <2>4, <2>8 DEF CallOK
  <2>12. m.op # "item" => ~m.ok
    <3>1. m.ok = (c.call = "sync")
      BY <2>6, <2>8
    <3>2. QED
      BY <2>11, <3>1
  <2>13. ~OfModem(m) /\ ~(m.ok /\ m.op \in {"erased", "done"})
    BY <2>11, <2>12 DEF OfModem, Added, Done
  <2>14. QED
    BY <2>1, <2>2, <2>4, <2>8, <2>9, <2>10, <2>11, <2>13
<1>5. ASSUME NEW m \in F
      PROVE  /\ MsgOK(cs, m) /\ ~OfModem(m) /\ m.op # "engineUp"
             /\ ~(m.ok /\ m.op \in {"erased", "done"})
             /\ \A id : Carries(cs, m, id) => \E c \in M : Carries(cs, c.then, id)
  <2>1. PICK k \in DOMAIN tm : m = f[k] /\ tm[k] \in M
    BY <1>2, <1>3 DEF ToSet
  <2>2. QED
    BY <1>4, <2>1
<1>6. OnceCarried(f, cs)
  BY <1>4 DEF Good, OnceCalled, OnceCarried
<1>7. PICK g : g = q \o f
  OBVIOUS
<1>8. g \in Seq(S) /\ ToSet(g) = Q \cup F
  BY <1>1, <1>3, <1>7, ConcatSet
<1>9. CarryOK(Q, M, mg, cs)
  BY <1>1, <1>2 DEF Good
<1>10. Ordered(g) /\ OnceAdded(g) /\ OnceCarried(g, cs)
  <2>1. \A m \in F, d \in Q : \A id : ~(Carries(cs, m, id) /\ Carries(cs, d, id))
    BY <1>5, <1>9 DEF CarryOK
  <2>2. Ordered(q) /\ OnceAdded(q) /\ OnceCarried(q, cs)
    BY DEF Good
  <2>3. QED
    BY <1>1, <1>3, <1>5, <1>6, <1>7, <2>1, <2>2, OnceConcat
<1>11. /\ up.op = "engineUp" /\ MsgOK(cs, up) /\ ~OfModem(up) /\ ~Added(up)
       /\ \A id : ~Carries(cs, up, id)
  BY DEF Msg, MsgOK, OfModem, Added, Done, Carries
<1>12. PICK a : a = Append(g, up)
  OBVIOUS
<1>13. q \o f \o <<up>> = a
  BY <1>7, <1>8, <1>12
<1>14. ToSet(a) = Q \cup F \cup {up}
  BY <1>8, <1>12, AppendSet
<1>15. Ordered(a) /\ OnceAdded(a) /\ OnceCarried(a, cs)
  BY <1>8, <1>10, <1>11, <1>12, OnceAppend
<1>16. PICK A : A = ToSet(a)
  OBVIOUS
<1>17. \A m \in A : m \in Q \/ m \in F \/ m = up
  BY <1>14, <1>16
<1>18. \A m \in A : Added(m) \/ Done(m) \/ m.op = "breach"
                    \/ (m.ok /\ m.op \in {"erased", "done"}) => m \in Q
  BY <1>5, <1>11, <1>17 DEF OfModem
<1>19. CmdsOK(cs) /\ ObjectsOK(mg, cs) /\ MapsOK(mg, ids, cd)
  BY DEF Good
<1>20. PICK tm2 : tm2 = <<>>
  OBVIOUS
<1>21. ToSet(tm2) = {} /\ OnceCalled(tm2, cs)
  BY <1>20 DEF ToSet, OnceCalled
<1>22. PICK md2 : md2 = <<>>
  OBVIOUS
<1>23. DOMAIN md2 = {}
  BY <1>22
<1>24. MsgsOK(A, {}, cs)
  BY <1>1, <1>5, <1>11, <1>17 DEF Good, MsgsOK
<1>25. GivenOK(A, {}, mg, md2, {})
  BY <1>11, <1>14, <1>16, <1>23 DEF GivenOK, Up
<1>26. NewHwOK(A, {}, mg)
  BY <1>1, <1>2, <1>18 DEF Good, NewHwOK
<1>27. CarryOK(A, {}, mg, cs)
  BY <1>5, <1>9, <1>11, <1>17 DEF CarryOK
<1>28. ErasedOK(A, {}, mg, ids) /\ DoneOK(A, {}, mg, cs)
  BY <1>1, <1>2, <1>18 DEF Good, ErasedOK, DoneOK
<1>29. BreachOK(A, mg)
  BY <1>1, <1>18 DEF Good, BreachOK
<1>30. ModemOK(A, mg, md2, cs, cd)
  BY <1>11, <1>14, <1>16, <1>23 DEF ModemOK, Up
<1>31. MaskOK(a, mg, md2, cs)
  BY <1>23 DEF MaskOK
<1>32. Good(a, tm2, mg, ids, md2, {}, cs, cd)
  BY <1>15, <1>16, <1>19, <1>21, <1>24, <1>25, <1>26, <1>27, <1>28, <1>29, <1>30, <1>31
     DEF Good
<1>33. QED
  BY <1>13, <1>20, <1>22, <1>32

-----------------------------------------------------------------------------
(***************************************************************************)
(* Commands are given and answered.                                        *)
(***************************************************************************)

\* What the messages and calls say of the commands cs is so of cs2.
Keeps(cs, cs2) ==
  /\ DOMAIN cs \subseteq DOMAIN cs2
  /\ \A n \in DOMAIN cs : /\ cs2[n].op = cs[n].op /\ cs2[n].client = cs[n].client
                          /\ cs2[n].ids = cs[n].ids /\ cs2[n].mask = cs[n].mask

LEMMA MessageKept ==
  ASSUME NEW cs, NEW cs2, Keeps(cs, cs2), NEW m, MsgOK(cs, m)
  PROVE  /\ MsgOK(cs2, m)
         /\ \A id : Carries(cs2, m, id) <=> Carries(cs, m, id)
         /\ Removed(cs2, m) <=> Removed(cs, m)
         /\ Masked(cs2, m) <=> Masked(cs, m)
         /\ m.op = "done" => cs2[m.arg[1]].ids = cs[m.arg[1]].ids
         /\ Masked(cs, m) => MaskOf(cs2, m) = MaskOf(cs, m)
<1>1. \A c, id : Owns(cs, c, id) => Owns(cs2, c, id)
  BY DEF Owns, Keeps
<1>2. m.op = "item" \/ m.op = "added" \/ m.op = "done" => IsItem(cs, m.arg[1], m.arg[2])
  BY DEF MsgOK
<1>3. MsgOK(cs2, m)
  BY <1>1, <1>2 DEF MsgOK, Keeps, IsItem
<1>4. ASSUME NEW id
      PROVE  Carries(cs2, m, id) <=> Carries(cs, m, id)
  BY <1>2 DEF Carries, MsgOK, Keeps, IsItem
<1>5. /\ Removed(cs2, m) <=> Removed(cs, m)
      /\ Masked(cs2, m) <=> Masked(cs, m)
      /\ m.op = "done" => cs2[m.arg[1]].ids = cs[m.arg[1]].ids
  BY <1>2 DEF Removed, Masked, Keeps, IsItem
<1>6. Masked(cs, m) => MaskOf(cs2, m) = MaskOf(cs, m)
  BY <1>2 DEF Masked, MaskOf, Keeps, IsItem
<1>7. QED
  BY <1>3, <1>4, <1>5, <1>6

LEMMA CommandsKept ==
  ASSUME NEW q, NEW tm, NEW mg, NEW ids, NEW md, NEW gv, NEW cs, NEW cs2, NEW cd,
         Good(q, tm, mg, ids, md, gv, cs, cd), Keeps(cs, cs2), CmdsOK(cs2)
  PROVE  Good(q, tm, mg, ids, md, gv, cs2, cd)
<1>1. PICK Q : Q = ToSet(q)
  OBVIOUS
<1>2. PICK M : M = ToSet(tm)
  OBVIOUS
<1>3. MsgsOK(Q, M, cs)
  BY <1>1, <1>2 DEF Good
<1>4. \A c, id : Owns(cs, c, id) => Owns(cs2, c, id)
  BY DEF Owns, Keeps
<1>5. ASSUME NEW m, MsgOK(cs, m)
      PROVE  /\ MsgOK(cs2, m)
             /\ \A id : Carries(cs2, m, id) <=> Carries(cs, m, id)
             /\ Removed(cs2, m) <=> Removed(cs, m)
             /\ Masked(cs2, m) <=> Masked(cs, m)
             /\ m.op = "done" => cs2[m.arg[1]].ids = cs[m.arg[1]].ids
             /\ Masked(cs, m) => MaskOf(cs2, m) = MaskOf(cs, m)
  BY <1>5, MessageKept
<1>6. ASSUME NEW c, CallOK(cs, c)
      PROVE  CallOK(cs2, c)
  <2>1. MsgOK(cs, c.then)
    BY <1>6 DEF CallOK
  <2>2. c.then.op = "done" => c.then.arg[1] \in DOMAIN cs
    BY <2>1 DEF MsgOK, IsItem
  <2>3. QED
    BY <1>5, <1>6, <2>1, <2>2 DEF CallOK, Keeps
<1>7. MsgsOK(Q, M, cs2)
  BY <1>3, <1>5, <1>6 DEF MsgsOK
<1>8. \A m \in Q : MsgOK(cs, m)
  BY <1>3 DEF MsgsOK
<1>9. \A c \in M : MsgOK(cs, c.then)
  BY <1>3 DEF MsgsOK, CallOK
<1>10. \A k \in DOMAIN q : q[k] \in Q
  BY <1>1 DEF ToSet
<1>11. \A k \in DOMAIN tm : tm[k] \in M
  BY <1>2 DEF ToSet
<1>12. OnceCarried(q, cs2)
  BY <1>5, <1>8, <1>10 DEF Good, OnceCarried
<1>13. OnceCalled(tm, cs2)
  BY <1>5, <1>9, <1>11 DEF Good, OnceCalled
<1>14. CarryOK(Q, M, mg, cs2)
  BY <1>1, <1>2, <1>5, <1>8, <1>9 DEF Good, CarryOK
<1>15. ObjectsOK(mg, cs2)
  BY <1>4 DEF Good, ObjectsOK
<1>16. DoneOK(Q, M, mg, cs2)
  <2>1. DoneOK(Q, M, mg, cs)
    BY <1>1, <1>2 DEF Good
  <2>2. QED
    BY <1>5, <1>8, <1>9, <2>1 DEF DoneOK
<1>17. ModemOK(Q, mg, md, cs2, cd)
  BY <1>1, <1>5, <1>8 DEF Good, ModemOK
<1>18. MaskOK(q, mg, md, cs2)
  <2>1. MaskOK(q, mg, md, cs)
    BY DEF Good
  <2>2. \A hw : Silent(q, cs, hw) => Silent(q, cs2, hw)
    BY <1>5, <1>8, <1>10 DEF Silent
  <2>3. ASSUME NEW hw, NEW mask, SaysLast(q, cs, hw, mask)
        PROVE  SaysLast(q, cs2, hw, mask)
    <3>1. \A k \in DOMAIN q : Masked(cs2, q[k]) <=> Masked(cs, q[k])
      BY <1>5, <1>8, <1>10
    <3>2. \A k \in DOMAIN q : Masked(cs, q[k]) => MaskOf(cs2, q[k]) = MaskOf(cs, q[k])
      BY <1>5, <1>8, <1>10
    <3>3. QED
      BY <2>3, <3>1, <3>2 DEF SaysLast
  <2>4. QED
    BY <2>1, <2>2, <2>3 DEF MaskOK
<1>19. QED
  BY <1>1, <1>2, <1>7, <1>12, <1>13, <1>14, <1>15, <1>16, <1>17, <1>18 DEF Good

IsSeq(s) == s \in Seq(ToSet(s))

LEMMA SeqIsSeq ==
  ASSUME NEW S, NEW s \in Seq(S)
  PROVE  IsSeq(s) /\ ToSet(s) \subseteq S
<1>1. PICK n \in Nat : n = Len(s)
  OBVIOUS
<1>2. DOMAIN s = 1..n /\ \A k \in 1..n : s[k] \in S /\ s[k] \in ToSet(s)
  BY <1>1 DEF ToSet
<1>3. s = [k \in 1..n |-> s[k]]
  BY <1>1
<1>4. [k \in 1..n |-> s[k]] \in [1..n -> ToSet(s)]
  BY <1>2
<1>5. s \in Seq(ToSet(s))
  BY <1>2, <1>3, <1>4
<1>6. QED
  BY <1>2, <1>5 DEF IsSeq, ToSet

LEMMA SeqOfMore ==
  ASSUME NEW S, NEW R, S \subseteq R, NEW s \in Seq(S)
  PROVE  s \in Seq(R)
OBVIOUS

LEMMA SeqsOfBoth ==
  ASSUME NEW s, NEW t, IsSeq(s), IsSeq(t)
  PROVE  LET R == ToSet(s) \cup ToSet(t) IN s \in Seq(R) /\ t \in Seq(R)
BY SeqOfMore DEF IsSeq

LEMMA FunctionIsSeq ==
  ASSUME NEW n \in Nat, NEW s, s = [k \in 1..n |-> s[k]]
  PROVE  IsSeq(s)
<1>1. PICK S : S = {s[k] : k \in 1..n}
  OBVIOUS
<1>2. [k \in 1..n |-> s[k]] \in Seq(S)
  BY <1>1
<1>3. QED
  BY <1>2, SeqIsSeq

LEMMA SeqsGrow ==
  ASSUME NEW s, IsSeq(s)
  PROVE  /\ s # <<>> => IsSeq(Tail(s))
         /\ \A m : IsSeq(Append(s, m))
         /\ \A t : IsSeq(t) => IsSeq(s \o t)
<1>1. ASSUME s # <<>>
      PROVE  IsSeq(Tail(s))
  BY <1>1, TailSet, SeqIsSeq DEF IsSeq
<1>2. ASSUME NEW m
      PROVE  IsSeq(Append(s, m))
  <2>1. PICK S : S = ToSet(s) \cup {m}
    OBVIOUS
  <2>2. s \in Seq(S) /\ m \in S
    BY <2>1, SeqOfMore DEF IsSeq
  <2>3. QED
    BY <2>2, AppendSet, SeqIsSeq
<1>3. ASSUME NEW t, IsSeq(t)
      PROVE  IsSeq(s \o t)
  <2>1. PICK S : S = ToSet(s) \cup ToSet(t)
    OBVIOUS
  <2>2. s \in Seq(S) /\ t \in Seq(S)
    BY <1>3, <2>1, SeqsOfBoth
  <2>3. QED
    BY <2>2, ConcatSet, SeqIsSeq
<1>4. QED
  BY <1>1, <1>2, <1>3

-----------------------------------------------------------------------------
(***************************************************************************)
(* The invariant.                                                          *)
(***************************************************************************)

\* The ids given out are those up to the counter, which the bounds keep within Ids.
Counted(cs, count) ==
  /\ count \in Nat \ {0} /\ count <= Len(cs) * MaxCount + 1 /\ Len(cs) <= MaxEvents
  /\ \A c, id : Owns(cs, c, id) => id <= count

Inv ==
  /\ IsSeq(queue) /\ IsSeq(toModem) /\ cmds \in Seq(Command)
  /\ Counted(cmds, mSessionIdCounter) /\ breaches \in Nat
  /\ Good(queue, toModem, mGeofences, mGeofenceIds, modem, given, cmds, mClientData)

\* Commands of which at most the answers differ.
Written(cs, cs2) ==
  /\ cs2 \in Seq(Command) /\ Len(cs2) = Len(cs)
  /\ \A n \in DOMAIN cs : /\ cs2[n].op = cs[n].op /\ cs2[n].client = cs[n].client
                          /\ cs2[n].ids = cs[n].ids /\ cs2[n].mask = cs[n].mask

LEMMA CommandsWritten ==
  ASSUME NEW cs \in Seq(Command), NEW cs2, Written(cs, cs2)
  PROVE  /\ \A count : Counted(cs, count) => Counted(cs2, count)
         /\ \A q, tm, mg, ids, md, gv, cd :
              Good(q, tm, mg, ids, md, gv, cs, cd) => Good(q, tm, mg, ids, md, gv, cs2, cd)
<1>1. DOMAIN cs2 = DOMAIN cs
  BY DEF Written
<1>2. Keeps(cs, cs2)
  BY <1>1 DEF Keeps, Written
<1>3. CmdsOK(cs) => CmdsOK(cs2)
  BY <1>1 DEF CmdsOK, Written
<1>4. \A c, id : Owns(cs2, c, id) => Owns(cs, c, id)
  BY <1>1 DEF Owns, Written
<1>5. \A count : Counted(cs, count) => Counted(cs2, count)
  BY <1>4 DEF Counted, Written
<1>6. ASSUME NEW q, NEW tm, NEW mg, NEW ids, NEW md, NEW gv, NEW cd,
             Good(q, tm, mg, ids, md, gv, cs, cd)
      PROVE  Good(q, tm, mg, ids, md, gv, cs2, cd)
  <2>1. CmdsOK(cs2)
    BY <1>3, <1>6 DEF Good
  <2>2. QED
    BY <1>2, <1>6, <2>1, CommandsKept
<1>7. QED
  BY <1>5, <1>6

Errors == {None, "success", "unknown", "failed", "invalid"}

LEMMA SeqWithItem ==
  ASSUME NEW S, NEW s \in Seq(S), NEW i, NEW v, i \in DOMAIN s => v \in S,
         NEW t, t = [s EXCEPT ![i] = v]
  PROVE  t \in Seq(S)
<1>1. PICK n \in Nat : n = Len(s) /\ DOMAIN s = 1..n /\ \A k \in 1..n : s[k] \in S
  OBVIOUS
<1>2. s = [k \in 1..n |-> s[k]]
  BY <1>1
<1>3. t \in Seq(S)
  <2>1. t = [k \in 1..n |-> IF k = i THEN v ELSE s[k]]
    BY <1>1, <1>2
  <2>2. [k \in 1..n |-> IF k = i THEN v ELSE s[k]] \in Seq(S)
    BY <1>1
  <2>3. QED
    BY <2>1, <2>2
<1>4. QED
  BY <1>3

LEMMA WriteWritten ==
  ASSUME cmds \in Seq(Command), NEW n \in DOMAIN cmds, NEW i \in DOMAIN cmds[n].ids,
         NEW err, i \in DOMAIN cmds[n].errs => err \in Errors, Write(n, i, err)
  PROVE  Written(cmds, cmds')
<1>1. PICK c \in Command : c = cmds[n]
  OBVIOUS
<1>2. PICK errs : errs = IF c.freed THEN c.errs ELSE [c.errs EXCEPT ![i] = err]
  OBVIOUS
<1>3. c.errs \in Seq(Errors)
  BY DEF Command, Errors
<1>4. errs \in Seq(Errors)
  <2>1. PICK w : w = [c.errs EXCEPT ![i] = err]
    OBVIOUS
  <2>2. w \in Seq(Errors)
    BY <1>1, <1>3, <2>1, SeqWithItem
  <2>3. QED
    BY <1>2, <1>3, <2>1, <2>2
<1>5. PICK answer : answer = IF c.client \in mClientData THEN errs ELSE None
  OBVIOUS
<1>6. answer \in Seq(Errors) \cup {None}
  BY <1>4, <1>5
<1>7. PICK d : d = IF i = Len(errs)
                   THEN [c EXCEPT !.errs = errs, !.freed = TRUE, !.answer = answer]
                   ELSE [c EXCEPT !.errs = errs]
  OBVIOUS
<1>8. d \in Command /\ d.op = c.op /\ d.client = c.client /\ d.ids = c.ids /\ d.mask = c.mask
  BY <1>4, <1>6, <1>7 DEF Command, Errors
<1>9. cmds' = [cmds EXCEPT ![n] = d]
  BY <1>1, <1>2, <1>5, <1>7 DEF Write
<1>10. QED
  BY <1>1, <1>8, <1>9 DEF Written

LEMMA FoundWritten ==
  ASSUME cmds \in Seq(Command), NEW n \in DOMAIN cmds, NEW i \in DOMAIN cmds[n].ids,
         cmds' = [cmds EXCEPT ![n].errs[i] = "success"]
  PROVE  Written(cmds, cmds')
<1>1. PICK c \in Command : c = cmds[n]
  OBVIOUS
<1>2. PICK errs : errs = [c.errs EXCEPT ![i] = "success"]
  OBVIOUS
<1>3. c.errs \in Seq(Errors)
  BY DEF Command, Errors
<1>4. errs \in Seq(Errors)
  <2>1. "success" \in Errors
    BY DEF Errors
  <2>2. QED
    BY <1>2, <1>3, <2>1, SeqWithItem
<1>5. PICK d : d = [c EXCEPT !.errs = errs]
  OBVIOUS
<1>6. d \in Command /\ d.op = c.op /\ d.client = c.client /\ d.ids = c.ids /\ d.mask = c.mask
  BY <1>4, <1>5 DEF Command, Errors
<1>7. cmds' = [cmds EXCEPT ![n] = d]
  BY <1>1, <1>2, <1>5
<1>8. QED
  BY <1>1, <1>6, <1>7 DEF Written

LEMMA ConstantSeq ==
  ASSUME NEW T, NEW ids \in Seq(T), NEW S, NEW v \in S
  PROVE  [i \in DOMAIN ids |-> v] \in Seq(S)
<1>1. Len(ids) \in Nat /\ DOMAIN ids = 1..Len(ids)
  OBVIOUS
<1>2. [i \in 1..Len(ids) |-> v] \in Seq(S)
  BY <1>1
<1>3. QED
  BY <1>1, <1>2

LEMMA NullWritten ==
  ASSUME cmds \in Seq(Command), NEW n \in DOMAIN cmds,
         cmds' = [cmds EXCEPT ![n].errs = [i \in DOMAIN cmds[n].ids |-> "invalid"]]
  PROVE  Written(cmds, cmds')
<1>1. PICK c \in Command : c = cmds[n]
  OBVIOUS
<1>2. PICK errs : errs = [i \in DOMAIN c.ids |-> "invalid"]
  OBVIOUS
<1>3. errs \in Seq(Errors)
  <2>1. c.ids \in Seq(Ids)
    BY DEF Command
  <2>2. "invalid" \in Errors
    BY DEF Errors
  <2>3. QED
    BY <1>2, <2>1, <2>2, ConstantSeq
<1>4. PICK d : d = [c EXCEPT !.errs = errs]
  OBVIOUS
<1>5. d \in Command /\ d.op = c.op /\ d.client = c.client /\ d.ids = c.ids /\ d.mask = c.mask
  BY <1>3, <1>4 DEF Command, Errors
<1>6. cmds' = [cmds EXCEPT ![n] = d]
  BY <1>1, <1>2, <1>4
<1>7. QED
  BY <1>1, <1>5, <1>6 DEF Written

-----------------------------------------------------------------------------
(***************************************************************************)
(* Clients.                                                                *)
(***************************************************************************)
LEMMA CarriedIsOwned ==
  ASSUME NEW cs, NEW m, MsgOK(cs, m), NEW id, Carries(cs, m, id)
  PROVE  \E c : Owns(cs, c, id)
<1>1. CASE m.op = "added"
  BY <1>1 DEF MsgOK, Carries, ObjectOf, Owns, IsItem
<1>2. CASE m.op = "restored"
  BY <1>2 DEF MsgOK, Carries, ObjectOf
<1>3. CASE m.op = "item"
  BY <1>3 DEF MsgOK, Carries, Owns, IsItem
<1>4. CASE m.op = "command"
  BY <1>4 DEF MsgOK, Carries, Owns
<1>5. QED
  BY <1>1, <1>2, <1>3, <1>4 DEF Carries

LEMMA CommandGiven ==
  ASSUME Inv, NEW op \in Ops, NEW c \in Clients, NEW ids \in Seq(Ids),
         NEW mask \in Masks \cup {NewMask, None}, NEW whole \in BOOLEAN,
         op = "add" => mask = NewMask, op = "modify" => mask \in Masks,
         op = "add" => /\ \A i, k \in DOMAIN ids : ids[i] = ids[k] => i = k
                       /\ \A i \in DOMAIN ids : ~(ids[i] <= mSessionIdCounter),
         GiveCommand(op, c, ids, mask, whole)
  PROVE  /\ IsSeq(queue') /\ IsSeq(toModem') /\ cmds' \in Seq(Command)
         /\ Len(cmds') = Len(cmds) + 1 /\ Len(cmds) + breaches < MaxEvents
         /\ \A b, id : Owns(cmds', b, id) =>
              Owns(cmds, b, id) \/ (op = "add" /\ \E i \in DOMAIN ids : ids[i] = id)
         /\ Good(queue', toModem', mGeofences', mGeofenceIds', modem', given', cmds',
                 mClientData')
<1>1. PICK cmd : cmd = [op |-> op, client |-> c, ids |-> ids, mask |-> mask, whole |-> whole,
                        errs |-> [i \in DOMAIN ids |-> None], freed |-> FALSE, answer |-> None]
  OBVIOUS
<1>2. PICK n \in Nat : n = Len(cmds)
  BY DEF Inv
<1>3. PICK cs2 : cs2 = Append(cmds, cmd)
  OBVIOUS
<1>4. PICK m : m = Msg("command", n + 1)
  OBVIOUS
<1>5. cmds' = cs2 /\ queue' = Append(queue, m)
  BY <1>1, <1>2, <1>3, <1>4 DEF GiveCommand
<1>6. cmd \in Command
  <2>1. [i \in DOMAIN ids |-> None] \in Seq(Errors)
    <3>1. DOMAIN ids = 1..Len(ids) /\ Len(ids) \in Nat /\ None \in Errors
      BY DEF Errors
    <3>2. QED
      BY <3>1
  <2>2. QED
    BY <1>1, <2>1 DEF Command, Errors
<1>7. /\ cs2 \in Seq(Command) /\ DOMAIN cs2 = 1..(n + 1) /\ cs2[n + 1] = cmd
      /\ DOMAIN cmds = 1..n /\ \A k \in 1..n : cs2[k] = cmds[k]
      /\ Len(cs2) = n + 1
  BY <1>2, <1>3, <1>6 DEF Inv
<1>8. \A k \in 1..(n + 1) : k = n + 1 \/ k \in 1..n
  OBVIOUS
<1>9. n + 1 \in 1..(n + 1) /\ \A k \in 1..n : k \in 1..(n + 1)
  OBVIOUS
<1>10. Keeps(cmds, cs2)
  BY <1>7, <1>9 DEF Keeps
<1>11. \A i \in DOMAIN ids : op = "add" => \A b : ~Owns(cmds, b, ids[i])
  BY DEF Inv, Counted
<1>12. CmdsOK(cs2)
  <2>1. CmdsOK(cmds)
    BY DEF Inv, Good
  <2>2. ASSUME NEW k \in DOMAIN cs2
        PROVE  /\ cs2[k].op \in Ops /\ cs2[k].client \in Clients
               /\ \A i \in DOMAIN cs2[k].ids : cs2[k].ids[i] \in Ids
               /\ cs2[k].op = "add" => cs2[k].mask = NewMask
               /\ cs2[k].op = "modify" => cs2[k].mask \in Masks
    <3>1. CASE k = n + 1
      BY <1>1, <1>7, <3>1
    <3>2. CASE k \in 1..n
      BY <1>7, <2>1, <3>2 DEF CmdsOK
    <3>3. QED
      BY <1>7, <1>8, <3>1, <3>2
  <2>3. ASSUME NEW n1 \in DOMAIN cs2, NEW n2 \in DOMAIN cs2,
               cs2[n1].op = "add", cs2[n2].op = "add",
               NEW i1 \in DOMAIN cs2[n1].ids, NEW i2 \in DOMAIN cs2[n2].ids,
               cs2[n1].ids[i1] = cs2[n2].ids[i2]
        PROVE  n1 = n2 /\ i1 = i2
    <3>1. CASE n1 \in 1..n /\ n2 \in 1..n
      BY <1>7, <2>1, <2>3, <3>1 DEF CmdsOK
    <3>2. CASE n1 = n + 1 /\ n2 = n + 1
      BY <1>1, <1>7, <2>3, <3>2
    <3>3. CASE n1 = n + 1 /\ n2 \in 1..n
      <4>1. Owns(cmds, cmds[n2].client, ids[i1])
        BY <1>1, <1>7, <2>3, <3>3 DEF Owns
      <4>2. QED
        BY <1>1, <1>7, <1>11, <2>3, <3>3, <4>1
    <3>4. CASE n1 \in 1..n /\ n2 = n + 1
      <4>1. Owns(cmds, cmds[n1].client, ids[i2])
        BY <1>1, <1>7, <2>3, <3>4 DEF Owns
      <4>2. QED
        BY <1>1, <1>7, <1>11, <2>3, <3>4, <4>1
    <3>5. QED
      BY <1>7, <1>8, <3>1, <3>2, <3>3, <3>4
  <2>4. QED
    BY <2>2, <2>3 DEF CmdsOK
<1>13. Good(queue, toModem, mGeofences, mGeofenceIds, modem, given, cs2, mClientData)
  BY <1>10, <1>12, CommandsKept DEF Inv
<1>14. MsgOK(cs2, m) /\ m.op = "command" /\ m.arg = n + 1
  BY <1>4, <1>7, <1>9 DEF MsgOK, Msg
<1>15. ASSUME NEW id, Carries(cs2, m, id)
       PROVE  /\ \A d \in ToSet(queue) : ~Carries(cs2, d, id)
              /\ \A d \in ToSet(toModem) : ~Carries(cs2, d.then, id)
              /\ \A hw \in DOMAIN mGeofences : mGeofences[hw].id # id
  <2>1. op = "add" /\ \E i \in DOMAIN ids : ids[i] = id
    BY <1>1, <1>7, <1>14, <1>15 DEF Carries
  <2>2. \A b : ~Owns(cmds, b, id)
    BY <1>11, <2>1
  <2>3. \A d : MsgOK(cmds, d) => ~Carries(cs2, d, id)
    BY <1>10, <2>2, CarriedIsOwned, MessageKept
  <2>4. /\ \A d \in ToSet(queue) : MsgOK(cmds, d)
        /\ \A d \in ToSet(toModem) : MsgOK(cmds, d.then)
        /\ \A hw \in DOMAIN mGeofences : Owns(cmds, mGeofences[hw].client, mGeofences[hw].id)
    BY DEF Inv, Good, MsgsOK, CallOK, ObjectsOK
  <2>5. QED
    BY <2>2, <2>3, <2>4
<1>16. Good(Append(queue, m), toModem, mGeofences, mGeofenceIds, modem, given, cs2, mClientData)
  <2>1. PICK S : S = ToSet(queue) \cup {m}
    OBVIOUS
  <2>2. queue \in Seq(S) /\ m \in S
    BY <2>1, SeqOfMore DEF Inv, IsSeq
  <2>3. QED
    BY <1>13, <1>14, <1>15, <2>2, MessageSent
<1>17. ASSUME NEW b, NEW id, Owns(cs2, b, id)
       PROVE  Owns(cmds, b, id) \/ (op = "add" /\ \E i \in DOMAIN ids : ids[i] = id)
  <2>1. PICK k \in 1..(n + 1) : /\ cs2[k].op = "add" /\ cs2[k].client = b
                                /\ \E i \in DOMAIN cs2[k].ids : cs2[k].ids[i] = id
    BY <1>7, <1>17 DEF Owns
  <2>2. CASE k = n + 1
    BY <1>1, <1>7, <2>1, <2>2
  <2>3. CASE k \in 1..n
    BY <1>7, <2>1, <2>3 DEF Owns
  <2>4. QED
    BY <1>8, <2>2, <2>3
<1>18. IsSeq(Append(queue, m)) /\ IsSeq(toModem)
  BY SeqsGrow DEF Inv
<1>19. /\ UNCHANGED <<mGeofences, mGeofenceIds, mClientData, modem, given, toModem>>
       /\ Len(cmds) + breaches < MaxEvents
  BY DEF GiveCommand, maps, modemVars
<1>20. QED
  BY <1>2, <1>5, <1>7, <1>16, <1>17, <1>18, <1>19

LEMMA Room ==
  ASSUME NEW a \in Nat, NEW b \in Nat, NEW m \in Nat, a < b
  PROVE  a * m \in Nat /\ (a + 1) * m = a * m + m /\ a * m + m <= b * m
<1>1. PICK d \in Nat : b = a + 1 + d
  <2>1. b - a - 1 \in Nat /\ b = a + 1 + (b - a - 1)
    OBVIOUS
  <2>2. QED
    BY <2>1
<1>2. a * m \in Nat /\ d * m \in Nat
  OBVIOUS
<1>3. b * m = a * m + m + d * m /\ (a + 1) * m = a * m + m
  BY <1>1
<1>4. QED
  BY <1>2, <1>3

LEMMA GeofencesAdded ==
  ASSUME Inv, NEW c \in Clients, NEW count \in 1..MaxCount, NEW whole \in BOOLEAN,
         AddGeofences(c, count, whole)
  PROVE  Inv'
<1>1. PICK k \in Nat : k = mSessionIdCounter
  BY DEF Inv, Counted
<1>2. PICK ids : ids = [i \in 1..count |-> k + i]
  OBVIOUS
<1>3. PICK n \in Nat : n = Len(cmds)
  BY DEF Inv
<1>4. /\ GiveCommand("add", c, ids, NewMask, whole) /\ mSessionIdCounter' = k + count
      /\ n < MaxEvents
  BY <1>1, <1>2, <1>3, BoundsAssumption DEF AddGeofences, GiveCommand, Inv
<1>5. count \in Nat /\ count <= MaxCount /\ MaxCount \in Nat /\ MaxEvents \in Nat
  BY BoundsAssumption
<1>6. PICK r \in Nat, t \in Nat, u \in Nat :
         /\ r = n * MaxCount /\ t = MaxEvents * MaxCount /\ u = (n + 1) * MaxCount
         /\ u = r + MaxCount /\ u <= t
  BY <1>4, <1>5, Room
<1>7. k # 0 /\ k <= r + 1 /\ \A b, id : Owns(cmds, b, id) => id <= k
  BY <1>1, <1>3, <1>6 DEF Inv, Counted
<1>8. Ids = 2..(t + 1)
  BY <1>6 DEF Ids
<1>9. \A i \in 1..count : k + i \in Ids /\ ~(k + i <= k) /\ k + i <= k + count
  BY <1>5, <1>6, <1>7, <1>8
<1>10. DOMAIN ids = 1..count /\ \A i \in 1..count : ids[i] = k + i
  BY <1>2
<1>11. ids \in Seq(Ids)
  <2>1. PICK S : S = Ids
    OBVIOUS
  <2>2. \A i \in 1..count : k + i \in S
    BY <1>9, <2>1
  <2>3. [i \in 1..count |-> k + i] \in Seq(S)
    BY <1>5, <2>2
  <2>4. QED
    BY <1>2, <2>1, <2>3
<1>12. \A i, j \in DOMAIN ids : ids[i] = ids[j] => i = j
  BY <1>10
<1>13. \A i \in DOMAIN ids : ~(ids[i] <= mSessionIdCounter)
  BY <1>1, <1>9, <1>10
<1>14. /\ IsSeq(queue') /\ IsSeq(toModem') /\ cmds' \in Seq(Command)
       /\ Len(cmds') = n + 1
       /\ \A b, id : Owns(cmds', b, id) => Owns(cmds, b, id) \/ \E i \in DOMAIN ids : ids[i] = id
       /\ Good(queue', toModem', mGeofences', mGeofenceIds', modem', given', cmds',
               mClientData')
  <2>1. "add" \in Ops
    BY DEF Ops
  <2>2. QED
    BY <1>3, <1>4, <1>11, <1>12, <1>13, <2>1, CommandGiven
<1>15. \A b, id : Owns(cmds', b, id) => id <= k + count
  <2>1. ASSUME NEW b, NEW id, Owns(cmds, b, id)
        PROVE  id <= k + count
    <3>1. id \in Ids
      BY <2>1 DEF Owns, Inv, Good, CmdsOK
    <3>2. id \in Nat /\ id <= k
      BY <1>7, <1>8, <2>1, <3>1
    <3>3. QED
      BY <1>5, <3>2
  <2>2. QED
    BY <1>9, <1>10, <1>14, <2>1
<1>16. k + count \in Nat \ {0} /\ k + count <= u + 1
  BY <1>5, <1>6, <1>7
<1>17. n + 1 <= MaxEvents
  BY <1>4, <1>5
<1>18. Counted(cmds', k + count)
  BY <1>6, <1>14, <1>15, <1>16, <1>17 DEF Counted
<1>19. breaches' = breaches
  BY <1>4 DEF GiveCommand, modemVars
<1>20. QED
  BY <1>4, <1>14, <1>18, <1>19 DEF Inv

LEMMA GeofencesNamed ==
  ASSUME Inv, NEW c \in Clients, NEW ids \in SeqOf(OwnIds(c), MaxCount),
         NEW op \in {"remove", "pause", "resume", "modify"}, NEW mask \in Masks \cup {None},
         op = "modify" => mask \in Masks, NEW whole \in BOOLEAN,
         OnGeofences(op, c, ids, mask, whole)
  PROVE  Inv'
<1>1. GiveCommand(op, c, ids, mask, whole) /\ mSessionIdCounter' = mSessionIdCounter
  BY DEF OnGeofences
<1>2. OwnIds(c) \subseteq Ids
  BY DEF OwnIds, ToSet, Inv, Good, CmdsOK
<1>3. ids \in Seq(Ids)
  <2>1. PICK m \in 0..MaxCount : ids \in [1..m -> OwnIds(c)]
    BY DEF SeqOf
  <2>2. ids = [i \in 1..m |-> ids[i]] /\ \A i \in 1..m : ids[i] \in Ids
    BY <1>2, <2>1
  <2>3. m \in Nat
    BY BoundsAssumption
  <2>4. [i \in 1..m |-> ids[i]] \in Seq(Ids)
    BY <2>2, <2>3
  <2>5. QED
    BY <2>2, <2>4
<1>4. op \in Ops /\ op # "add" /\ mask \in Masks \cup {NewMask, None}
  BY DEF Ops
<1>5. /\ IsSeq(queue') /\ IsSeq(toModem') /\ cmds' \in Seq(Command)
      /\ Len(cmds') = Len(cmds) + 1 /\ Len(cmds) + breaches < MaxEvents
      /\ \A b, id : Owns(cmds', b, id) => Owns(cmds, b, id)
      /\ Good(queue', toModem', mGeofences', mGeofenceIds', modem', given', cmds',
              mClientData')
  BY <1>1, <1>3, <1>4, CommandGiven
<1>6. PICK n \in Nat : n = Len(cmds) /\ n < MaxEvents
  BY <1>5, BoundsAssumption DEF Inv
<1>7. (n + 1) * MaxCount = n * MaxCount + MaxCount /\ n * MaxCount \in Nat /\ n + 1 <= MaxEvents
      /\ MaxCount \in Nat
  BY <1>6, Room, BoundsAssumption
<1>8. PICK r \in Nat : r = n * MaxCount
  BY <1>7
<1>9. Counted(cmds', mSessionIdCounter)
  <2>1. Counted(cmds, mSessionIdCounter)
    BY DEF Inv
  <2>2. mSessionIdCounter <= r + 1 => mSessionIdCounter <= r + MaxCount + 1
    BY <1>7, <2>1 DEF Counted
  <2>3. QED
    BY <1>5, <1>6, <1>7, <1>8, <2>1, <2>2 DEF Counted
<1>10. breaches' = breaches
  BY <1>1 DEF GiveCommand, modemVars
<1>11. QED
  BY <1>1, <1>5, <1>9, <1>10 DEF Inv

\* A message that carries nothing is sent.
LEMMA PlainSent ==
  ASSUME Inv, NEW m, m.op \in {"removeClient", "breach"}, MsgOK(cmds, m),
         m.op = "breach" => m.arg[1] \in DOMAIN modem /\ modem[m.arg[1]].id = m.arg[2],
         queue' = Append(queue, m), breaches' \in Nat,
         UNCHANGED <<maps, mClientData, toModem, modem, given, cmds, mSessionIdCounter>>
  PROVE  Inv'
<1>1. PICK S : S = ToSet(queue) \cup {m}
  OBVIOUS
<1>2. queue \in Seq(S) /\ m \in S
  BY <1>1, SeqOfMore DEF Inv, IsSeq
<1>3. \A id : ~Carries(cmds, m, id)
  BY DEF Carries
<1>4. DOMAIN modem \subseteq given
  BY DEF Inv, Good, GivenOK
<1>5. Good(Append(queue, m), toModem, mGeofences, mGeofenceIds, modem, given, cmds, mClientData)
  BY <1>2, <1>3, <1>4, MessageSent DEF Inv
<1>6. IsSeq(Append(queue, m))
  BY SeqsGrow DEF Inv
<1>7. QED
  BY <1>5, <1>6 DEF Inv, maps

LEMMA ClientDestroyed ==
  ASSUME Inv, NEW c \in Clients, Destroy(c)
  PROVE  Inv'
<1>1. PICK m : m = Msg("removeClient", c)
  OBVIOUS
<1>2. m.op = "removeClient" /\ MsgOK(cmds, m)
  BY <1>1 DEF Msg, MsgOK
<1>3. breaches' \in Nat
  BY DEF Destroy, modemVars, Inv
<1>4. QED
  BY <1>1, <1>2, <1>3, PlainSent DEF Destroy, modemVars

LEMMA BreachReported ==
  ASSUME Inv, NEW hw \in DOMAIN modem, ModemBreach(hw)
  PROVE  Inv'
<1>1. PICK m : m = Msg("breach", <<hw, modem[hw].id>>)
  OBVIOUS
<1>2. /\ m.op = "breach" /\ MsgOK(cmds, m)
      /\ m.arg[1] \in DOMAIN modem /\ modem[m.arg[1]].id = m.arg[2]
  BY <1>1 DEF Msg, MsgOK
<1>3. breaches' \in Nat
  BY DEF ModemBreach, Inv
<1>4. QED
  BY <1>1, <1>2, <1>3, PlainSent DEF ModemBreach, clientVars

-----------------------------------------------------------------------------
(***************************************************************************)
(* Handlers.                                                               *)
(***************************************************************************)
LEMMA FirstMessage ==
  ASSUME Inv, queue # <<>>
  PROVE  /\ queue \in Seq(ToSet(queue)) /\ IsSeq(Tail(queue))
         /\ Head(queue) \in ToSet(queue) /\ MsgOK(cmds, Head(queue))
         /\ ToSet(queue) = {Head(queue)} \cup ToSet(Tail(queue))
         /\ (Head(queue).op # "engineUp" => (Up(ToSet(Tail(queue))) <=> Up(ToSet(queue))))
<1>1. queue \in Seq(ToSet(queue)) /\ IsSeq(Tail(queue))
  BY SeqsGrow DEF Inv, IsSeq
<1>2. Head(queue) \in ToSet(queue) /\ ToSet(queue) = {Head(queue)} \cup ToSet(Tail(queue))
  BY <1>1, TailSet
<1>3. QED
  BY <1>1, <1>2 DEF Inv, Good, MsgsOK, Up

\* A message goes that changes nothing.
LEMMA PlainDropped ==
  ASSUME Inv, queue # <<>>, Head(queue).op # "engineUp",
         ~Added(Head(queue)), ~Masked(cmds, Head(queue)),
         \A hw \in DOMAIN mGeofences :
           Removed(cmds, Head(queue)) /\ HwOf(Head(queue)) = hw =>
             mGeofences[hw].client \notin mClientData
  PROVE  Good(Tail(queue), toModem, mGeofences, mGeofenceIds, modem, given, cmds, mClientData)
<1>1. queue \in Seq(ToSet(queue))
  BY FirstMessage
<1>2. \A hw \in DOMAIN mGeofences : mGeofences[hw] \in Object
  BY DEF Inv, Good, ObjectsOK
<1>3. QED
  BY <1>1, <1>2, MessageDropped DEF Inv

LEMMA CommandHandled ==
  ASSUME Inv, HandleCommand
  PROVE  Inv'
<1>1. PICK h : h = Head(queue)
  OBVIOUS
<1>2. PICK n : n = h.arg
  OBVIOUS
<1>3. queue # <<>> /\ h.op = "command" /\ queue' = Tail(queue)
  BY <1>1 DEF HandleCommand, Handling
<1>4. MsgOK(cmds, h) /\ n \in DOMAIN cmds
  BY <1>1, <1>2, <1>3, FirstMessage DEF MsgOK
<1>5. PICK ids \in Seq(Ids) : ids = cmds[n].ids
  <2>1. cmds[n] \in Command
    BY <1>4 DEF Inv
  <2>2. QED
    BY <2>1 DEF Command
<1>6. PICK l \in Nat : l = Len(ids) /\ DOMAIN ids = 1..l
  OBVIOUS
<1>7. PICK s : s = [i \in 1..l |-> Call("sync", None, None, Msg("item", <<n, i>>))]
  OBVIOUS
<1>8. toModem' = toModem \o s
  BY <1>1, <1>2, <1>5, <1>6, <1>7 DEF HandleCommand, Calls, Arg
<1>9. DOMAIN s = 1..l /\ \A i \in 1..l : s[i] = Call("sync", None, None, Msg("item", <<n, i>>))
  BY <1>7
<1>10. IsSeq(s)
  BY <1>7, <1>9, FunctionIsSeq
<1>11. ASSUME NEW i \in 1..l
       PROVE  /\ CallOK(cmds, s[i]) /\ ~OnHw(s[i])
              /\ s[i].then.op = "item" /\ s[i].then.arg = <<n, i>>
  <2>1. PICK m : m = Msg("item", <<n, i>>)
    OBVIOUS
  <2>2. m.op = "item" /\ m.arg = <<n, i>> /\ m.ok = TRUE
        /\ m = [op |-> m.op, arg |-> m.arg, ok |-> m.ok, hw |-> m.hw]
    BY <2>1 DEF Msg
  <2>3. IsItem(cmds, n, i)
    BY <1>4, <1>5, <1>6 DEF IsItem
  <2>4. MsgOK(cmds, m)
    <3>1. m.arg[1] = n /\ m.arg[2] = i
      BY <2>2
    <3>2. QED
      BY <2>2, <2>3, <3>1 DEF MsgOK
  <2>5. s[i].call = "sync" /\ s[i].then = m
    BY <1>9, <2>1 DEF Call
  <2>6. QED
    BY <2>2, <2>4, <2>5 DEF CallOK, OnHw
<1>12. \A i \in 1..l : \A id : Carries(cmds, s[i].then, id) =>
         cmds[n].op = "add" /\ ids[i] = id
  <2> SUFFICES ASSUME NEW i \in 1..l, NEW id, Carries(cmds, s[i].then, id)
               PROVE  cmds[n].op = "add" /\ ids[i] = id
    OBVIOUS
  <2>1. PICK m : m = s[i].then
    OBVIOUS
  <2>2. m.op = "item" /\ m.arg[1] = n /\ m.arg[2] = i
    BY <1>11, <2>1
  <2>3. Carries(cmds, m, id)
    BY <2>1
  <2>4. QED
    BY <1>5, <2>2, <2>3 DEF Carries
<1>13. \A i \in 1..l : \A id : Carries(cmds, s[i].then, id) => Carries(cmds, h, id)
  <2> SUFFICES ASSUME NEW i \in 1..l, NEW id, Carries(cmds, s[i].then, id)
               PROVE  Carries(cmds, h, id)
    OBVIOUS
  <2>1. cmds[n].op = "add" /\ ids[i] = id
    BY <1>12
  <2>2. QED
    BY <1>2, <1>3, <1>5, <1>6, <2>1 DEF Carries
<1>14. OnceCalled(s, cmds)
  <2> SUFFICES ASSUME NEW j \in 1..l, NEW k \in 1..l, NEW id,
                      Carries(cmds, s[j].then, id), Carries(cmds, s[k].then, id)
               PROVE  j = k
    BY <1>9 DEF OnceCalled
  <2>1. cmds[n].op = "add" /\ ids[j] = id /\ ids[k] = id
    BY <1>12
  <2>2. QED
    BY <1>4, <1>5, <1>6, <2>1 DEF Inv, Good, CmdsOK
<1>15. PICK T : T = ToSet(Tail(queue))
  OBVIOUS
<1>16. \A id : Carries(cmds, h, id) =>
         /\ \A m \in T : ~Carries(cmds, m, id)
         /\ \A d \in ToSet(toModem) : ~Carries(cmds, d.then, id)
         /\ \A hw \in DOMAIN mGeofences : mGeofences[hw].id # id
  <2>1. \A id : Carries(cmds, h, id) => \A m \in T : ~Carries(cmds, m, id)
    BY <1>1, <1>3, <1>15, HeadAndTail, FirstMessage DEF Inv, Good
  <2>2. h \in ToSet(queue)
    BY <1>1, <1>3, FirstMessage
  <2>3. QED
    BY <2>1, <2>2 DEF Inv, Good, CarryOK
<1>17. Good(Tail(queue), toModem, mGeofences, mGeofenceIds, modem, given, cmds, mClientData)
  BY <1>1, <1>3, PlainDropped DEF Added, Masked, Removed
<1>18. \A c \in ToSet(s) : NewCall(c, T, ToSet(toModem), mGeofences, mGeofenceIds, given, cmds)
  BY <1>9, <1>11, <1>13, <1>16 DEF NewCall, ToSet
<1>19. PICK R : toModem \in Seq(R) /\ s \in Seq(R)
  BY <1>10, SeqsOfBoth DEF Inv
<1>20. Good(Tail(queue), toModem \o s, mGeofences, mGeofenceIds, modem, given, cmds, mClientData)
  BY <1>14, <1>15, <1>17, <1>18, <1>19, CallsMade
<1>21. IsSeq(toModem \o s) /\ IsSeq(Tail(queue))
  BY <1>3, <1>10, SeqsGrow DEF Inv
<1>22. UNCHANGED <<mGeofences, mGeofenceIds, mClientData, modem, given, cmds, breaches,
                   mSessionIdCounter>>
  BY DEF HandleCommand, Calls, maps, clientVars
<1>23. QED
  BY <1>3, <1>8, <1>20, <1>21, <1>22 DEF Inv

LEMMA NullCommandHandled ==
  ASSUME Inv, HandleNullCommand
  PROVE  Inv'
<1>1. PICK h : h = Head(queue)
  OBVIOUS
<1>2. PICK n : n = h.arg
  OBVIOUS
<1>3. queue # <<>> /\ h.op = "command" /\ queue' = Tail(queue)
  BY <1>1 DEF HandleNullCommand, Handling
<1>4. MsgOK(cmds, h) /\ n \in DOMAIN cmds
  BY <1>1, <1>2, <1>3, FirstMessage DEF MsgOK
<1>5. cmds' = [cmds EXCEPT ![n].errs = [i \in DOMAIN cmds[n].ids |-> "invalid"]]
  BY <1>1, <1>2 DEF HandleNullCommand, Arg
<1>6. PICK cs2 : cs2 = cmds'
  OBVIOUS
<1>7. Written(cmds, cs2)
  BY <1>4, <1>5, <1>6, NullWritten DEF Inv
<1>8. cs2 \in Seq(Command) /\ Counted(cs2, mSessionIdCounter)
  BY <1>7, CommandsWritten DEF Inv, Written
<1>9. Good(Tail(queue), toModem, mGeofences, mGeofenceIds, modem, given, cmds, mClientData)
  BY <1>1, <1>3, PlainDropped DEF Added, Masked, Removed
<1>10. Good(Tail(queue), toModem, mGeofences, mGeofenceIds, modem, given, cs2, mClientData)
  BY <1>7, <1>9, CommandsWritten DEF Inv
<1>11. IsSeq(Tail(queue))
  BY <1>3, FirstMessage
<1>12. UNCHANGED <<mGeofences, mGeofenceIds, mClientData, toModem, modem, given, breaches,
                   mSessionIdCounter>>
  BY DEF HandleNullCommand, maps, modemVars, clientVars
<1>13. QED
  BY <1>3, <1>6, <1>8, <1>10, <1>11, <1>12 DEF Inv

\* A call is made while a message is handled.
LEMMA OneCall ==
  ASSUME NEW q, NEW tm, IsSeq(tm), NEW c,
         NEW mg, NEW ids, NEW md, NEW gv, NEW cs, NEW cd,
         Good(q, tm, mg, ids, md, gv, cs, cd),
         NewCall(c, ToSet(q), ToSet(tm), mg, ids, gv, cs)
  PROVE  IsSeq(tm \o <<c>>) /\ Good(q, tm \o <<c>>, mg, ids, md, gv, cs, cd)
<1>1. IsSeq(<<c>>)
  <2>1. <<c>> \in Seq({c})
    OBVIOUS
  <2>2. QED
    BY <2>1, SeqIsSeq
<1>2. IsSeq(tm \o <<c>>)
  BY <1>1, SeqsGrow
<1>3. tm \in Seq(ToSet(tm))
  BY DEF IsSeq
<1>4. QED
  BY <1>2, <1>3, CallMade

LEMMA ItemHandled ==
  ASSUME Inv, HandleItem
  PROVE  Inv'
<1>1. PICK h : h = Head(queue)
  OBVIOUS
<1>2. PICK n, i : n = h.arg[1] /\ i = h.arg[2]
  OBVIOUS
<1>3. queue # <<>> /\ h.op = "item" /\ queue' = Tail(queue)
  BY <1>1 DEF HandleItem, Handling
<1>4. MsgOK(cmds, h) /\ IsItem(cmds, n, i) /\ h \in ToSet(queue)
  BY <1>1, <1>2, <1>3, FirstMessage DEF MsgOK
<1>5. PICK c \in Command : c = cmds[n] /\ n \in DOMAIN cmds /\ i \in DOMAIN c.ids
  BY <1>4 DEF Inv, IsItem
<1>6. PICK id \in Ids : id = c.ids[i]
  BY <1>5 DEF Command
<1>7. PICK object : object = [client |-> c.client, id |-> id, mask |-> c.mask, paused |-> FALSE]
  OBVIOUS
<1>8. object.client = c.client /\ object.id = id /\ object.mask = c.mask
  BY <1>7
<1>9. PICK t : t = Tail(queue)
  OBVIOUS
<1>10. Good(t, toModem, mGeofences, mGeofenceIds, modem, given, cmds, mClientData)
  BY <1>1, <1>3, <1>9, PlainDropped DEF Added, Masked, Removed
<1>11. IsSeq(t)
  BY <1>3, <1>9, FirstMessage
<1>12. UNCHANGED <<mGeofences, mGeofenceIds, mClientData, mSessionIdCounter>>
  BY DEF HandleItem, maps, clientVars
<1>13. CASE /\ c.op = "add"
            /\ Calls(<<Call("add", None, object, Msg("added", <<n, i, object>>))>>)
            /\ UNCHANGED cmds
  <2>1. PICK m : m = Msg("added", <<n, i, object>>)
    OBVIOUS
  <2>2. PICK call : call = Call("add", None, object, m)
    OBVIOUS
  <2>3. /\ m.op = "added" /\ m.arg = <<n, i, object>> /\ m.ok = TRUE
        /\ m = [op |-> m.op, arg |-> m.arg, ok |-> m.ok, hw |-> m.hw]
        /\ call.call = "add" /\ call.object = object /\ call.then = m
    BY <2>1, <2>2 DEF Msg, Call
  <2>4. m.arg[1] = n /\ m.arg[2] = i /\ m.arg[3] = object
    BY <2>3
  <2>5. c.client \in Clients /\ c.mask = NewMask
    BY <1>5, <1>13 DEF Inv, Good, CmdsOK
  <2>6. object \in Object
    BY <1>7, <2>5 DEF Object
  <2>7. MsgOK(cmds, m)
    BY <1>4, <1>5, <1>6, <1>8, <1>13, <2>3, <2>4, <2>6 DEF MsgOK
  <2>8. CallOK(cmds, call) /\ ~OnHw(call)
    BY <2>3, <2>4, <2>7 DEF CallOK, OnHw
  <2>9. \A x : Carries(cmds, m, x) => x = id
    BY <1>8, <2>3, <2>4 DEF Carries, ObjectOf
  <2>10. Carries(cmds, h, id)
    BY <1>2, <1>3, <1>5, <1>6, <1>13 DEF Carries
  <2>11. \A d \in ToSet(t) : ~Carries(cmds, d, id)
    BY <1>1, <1>3, <1>9, <2>10, HeadAndTail, FirstMessage DEF Inv, Good
  <2>12. /\ \A d \in ToSet(toModem) : ~Carries(cmds, d.then, id)
         /\ \A hw \in DOMAIN mGeofences : mGeofences[hw].id # id
    BY <1>4, <2>10 DEF Inv, Good, CarryOK
  <2>13. NewCall(call, ToSet(t), ToSet(toModem), mGeofences, mGeofenceIds, given, cmds)
    BY <2>3, <2>8, <2>9, <2>11, <2>12 DEF NewCall
  <2>14. /\ IsSeq(toModem \o <<call>>)
         /\ Good(t, toModem \o <<call>>, mGeofences, mGeofenceIds, modem, given, cmds,
                 mClientData)
    BY <1>10, <2>13, OneCall DEF Inv
  <2>15. toModem' = toModem \o <<call>> /\ UNCHANGED <<modem, given, breaches, cmds>>
    BY <1>13, <2>1, <2>2 DEF Calls
  <2>16. QED
    BY <1>3, <1>9, <1>11, <1>12, <2>14, <2>15 DEF Inv
<1>14. CASE /\ c.op # "add" /\ id \in DOMAIN mGeofenceIds
            /\ LET hw == mGeofenceIds[id] IN
               /\ Calls(<<Call(c.op, hw, object, Msg("done", <<n, i, hw>>))>>)
               /\ cmds' = [cmds EXCEPT ![n].errs[i] = "success"]
  <2>1. PICK hw : hw = mGeofenceIds[id]
    OBVIOUS
  <2>2. PICK m : m = Msg("done", <<n, i, hw>>)
    OBVIOUS
  <2>3. PICK call : call = Call(c.op, hw, object, m)
    OBVIOUS
  <2>4. /\ m.op = "done" /\ m.arg = <<n, i, hw>> /\ m.ok = TRUE
        /\ m = [op |-> m.op, arg |-> m.arg, ok |-> m.ok, hw |-> m.hw]
        /\ call.call = c.op /\ call.object = object /\ call.then = m /\ call.hw = hw
    BY <2>2, <2>3 DEF Msg, Call
  <2>5. m.arg[1] = n /\ m.arg[2] = i /\ m.arg[3] = hw
    BY <2>4
  <2>6. MsgOK(cmds, m)
    BY <1>4, <1>5, <1>14, <2>4, <2>5 DEF MsgOK
  <2>7. c.op \in Ops \ {"add"}
    BY <1>5, <1>14 DEF Inv, Good, CmdsOK
  <2>8. CallOK(cmds, call)
    BY <1>5, <1>8, <2>4, <2>5, <2>6, <2>7 DEF CallOK, Ops
  <2>9. hw \in DOMAIN mGeofences /\ mGeofences[hw].id = id
    BY <1>14, <2>1 DEF Inv, Good, MapsOK
  <2>10. Up(ToSet(t)) \/ hw \in given
    BY <1>10, <2>9 DEF Good, GivenOK
  <2>11. \A d \in ToSet(t) : Added(d) => d.hw # hw
    BY <1>10, <2>9 DEF Good, NewHwOK
  <2>12. \A x : ~Carries(cmds, m, x)
    BY <2>4 DEF Carries
  <2>13. NewCall(call, ToSet(t), ToSet(toModem), mGeofences, mGeofenceIds, given, cmds)
    BY <1>5, <1>6, <2>4, <2>5, <2>8, <2>9, <2>10, <2>11, <2>12 DEF NewCall
  <2>14. /\ IsSeq(toModem \o <<call>>)
         /\ Good(t, toModem \o <<call>>, mGeofences, mGeofenceIds, modem, given, cmds,
                 mClientData)
    BY <1>10, <2>13, OneCall DEF Inv
  <2>15. toModem' = toModem \o <<call>> /\ UNCHANGED <<modem, given, breaches>>
    BY <1>14, <2>1, <2>2, <2>3 DEF Calls
  <2>16. Written(cmds, cmds')
    BY <1>5, <1>14, FoundWritten DEF Inv
  <2>17. /\ Counted(cmds', mSessionIdCounter) /\ cmds' \in Seq(Command)
         /\ Good(t, toModem \o <<call>>, mGeofences, mGeofenceIds, modem, given, cmds',
                 mClientData)
    BY <2>14, <2>16, CommandsWritten DEF Inv, Written
  <2>18. QED
    BY <1>3, <1>9, <1>11, <1>12, <2>14, <2>15, <2>17 DEF Inv
<1>15. CASE /\ c.op # "add" /\ id \notin DOMAIN mGeofenceIds
            /\ Write(n, i, "unknown") /\ UNCHANGED modemVars
  <2>1. "unknown" \in Errors
    BY DEF Errors
  <2>2. Written(cmds, cmds')
    BY <1>5, <1>15, <2>1, WriteWritten DEF Inv
  <2>3. /\ Counted(cmds', mSessionIdCounter) /\ cmds' \in Seq(Command)
        /\ Good(t, toModem, mGeofences, mGeofenceIds, modem, given, cmds', mClientData)
    BY <1>10, <2>2, CommandsWritten DEF Inv, Written
  <2>4. UNCHANGED <<toModem, modem, given, breaches>>
    BY <1>15 DEF modemVars
  <2>5. QED
    BY <1>3, <1>9, <1>11, <1>12, <2>3, <2>4 DEF Inv
<1>16. QED
  BY <1>1, <1>2, <1>5, <1>6, <1>7, <1>13, <1>14, <1>15 DEF HandleItem, Arg

\* A geofence is saved while the first message is handled.
LEMMA FirstSaved ==
  ASSUME Inv, queue # <<>>, Added(Head(queue)), NEW object, object = ObjectOf(Head(queue)),
         Save(object, Head(queue).hw)
  PROVE  Good(Tail(queue), toModem, mGeofences', mGeofenceIds', modem, given, cmds, mClientData)
<1>1. queue \in Seq(ToSet(queue))
  BY FirstMessage
<1>2. PICK mg2 : mg2 = With(mGeofences, Head(queue).hw, [object EXCEPT !.paused = FALSE])
  OBVIOUS
<1>3. PICK ids2 : ids2 = With(mGeofenceIds, object.id, Head(queue).hw)
  OBVIOUS
<1>4. Good(Tail(queue), toModem, mg2, ids2, modem, given, cmds, mClientData)
  BY <1>1, <1>2, <1>3, GeofenceSaved DEF Inv
<1>5. QED
  BY <1>2, <1>3, <1>4 DEF Save

LEMMA AddedHandled ==
  ASSUME Inv, HandleAdded
  PROVE  Inv'
<1>1. PICK h : h = Head(queue)
  OBVIOUS
<1>2. PICK n, i, object : n = h.arg[1] /\ i = h.arg[2] /\ object = h.arg[3]
  OBVIOUS
<1>3. queue # <<>> /\ h.op = "added" /\ queue' = Tail(queue)
  BY <1>1 DEF HandleAdded, Handling
<1>4. n \in DOMAIN cmds /\ i \in DOMAIN cmds[n].ids
  BY <1>1, <1>2, <1>3, FirstMessage DEF MsgOK, IsItem
<1>5. UNCHANGED <<mClientData, toModem, modem, given, breaches, mSessionIdCounter>>
  BY DEF HandleAdded, modemVars, clientVars
<1>6. Result \in Errors
  BY DEF Result, Errors
<1>7. Written(cmds, cmds')
  BY <1>1, <1>2, <1>4, <1>6, WriteWritten DEF Inv, HandleAdded, Arg
<1>8. Good(Tail(queue), toModem, mGeofences', mGeofenceIds', modem, given, cmds, mClientData)
  <2>1. CASE h.ok
    <3>1. Added(h) /\ ObjectOf(h) = object
      BY <1>2, <1>3, <2>1 DEF Added, ObjectOf
    <3>2. Save(object, h.hw)
      BY <1>1, <1>2, <2>1 DEF HandleAdded, Ok, Arg
    <3>3. QED
      BY <1>1, <1>3, <3>1, <3>2, FirstSaved
  <2>2. CASE ~h.ok
    <3>1. UNCHANGED maps
      BY <1>1, <2>2 DEF HandleAdded, Ok
    <3>2. Good(Tail(queue), toModem, mGeofences, mGeofenceIds, modem, given, cmds, mClientData)
      BY <1>1, <1>3, <2>2, PlainDropped DEF Added, Masked, Removed
    <3>3. QED
      BY <3>1, <3>2 DEF maps
  <2>3. QED
    BY <2>1, <2>2
<1>9. /\ Counted(cmds', mSessionIdCounter) /\ cmds' \in Seq(Command)
      /\ Good(Tail(queue), toModem, mGeofences', mGeofenceIds', modem, given, cmds', mClientData)
  BY <1>7, <1>8, CommandsWritten DEF Inv, Written
<1>10. IsSeq(Tail(queue))
  BY <1>3, FirstMessage
<1>11. QED
  BY <1>3, <1>5, <1>9, <1>10 DEF Inv

\* A geofence is removed while the first message is handled.
LEMMA FirstRemoved ==
  ASSUME Inv, queue # <<>>, Removed(cmds, Head(queue)), NEW hw, HwOf(Head(queue)) = hw,
         NEW mg, DOMAIN mg = DOMAIN mGeofences \ {hw},
         \A g \in DOMAIN mg : mg[g] = mGeofences[g],
         NEW ids, DOMAIN ids = {id \in DOMAIN mGeofenceIds :
                                  ~(hw \in DOMAIN mGeofences /\ id = mGeofences[hw].id)},
         \A id \in DOMAIN ids : ids[id] = mGeofenceIds[id]
  PROVE  Good(Tail(queue), toModem, mg, ids, modem, given, cmds, mClientData)
<1>1. queue \in Seq(ToSet(queue))
  BY FirstMessage
<1>2. QED
  BY <1>1, GeofenceRemoved DEF Inv

LEMMA DoneHandled ==
  ASSUME Inv, HandleDone
  PROVE  Inv'
<1>1. PICK h : h = Head(queue)
  OBVIOUS
<1>2. PICK n, i, hw : n = h.arg[1] /\ i = h.arg[2] /\ hw = h.arg[3]
  OBVIOUS
<1>3. queue # <<>> /\ h.op = "done" /\ queue' = Tail(queue)
  BY <1>1 DEF HandleDone, Handling
<1>4. n \in DOMAIN cmds /\ i \in DOMAIN cmds[n].ids /\ cmds[n].op # "add"
  BY <1>1, <1>2, <1>3, FirstMessage DEF MsgOK, IsItem
<1>5. UNCHANGED <<mClientData, toModem, modem, given, breaches, mSessionIdCounter>>
  BY DEF HandleDone, modemVars, clientVars
<1>6. PICK c \in Command : c = cmds[n]
  BY <1>4 DEF Inv
<1>7. c.op \in {"remove", "pause", "resume", "modify"} /\ (c.op = "modify" => c.mask \in Masks)
  BY <1>4, <1>6 DEF Inv, Good, CmdsOK, Ops
<1>8. ~Added(h) /\ h.op # "engineUp" /\ HwOf(h) = hw
  BY <1>2, <1>3 DEF Added, HwOf
<1>9. Written(cmds, cmds')
  <2>1. CASE UNCHANGED cmds
    BY <2>1 DEF Written, Inv
  <2>2. CASE Write(n, i, IF c.op = "modify" /\ ~h.ok THEN c.errs[i] ELSE Result)
    <3>1. PICK err : err = IF c.op = "modify" /\ ~h.ok THEN c.errs[i] ELSE Result
      OBVIOUS
    <3>2. i \in DOMAIN c.errs => err \in Errors
      <4>1. c.errs \in Seq(Errors)
        BY DEF Command, Errors
      <4>2. i \in DOMAIN c.errs => c.errs[i] \in Errors
        BY <4>1
      <4>3. QED
        BY <3>1, <4>2 DEF Errors, Result
    <3>3. QED
      BY <1>4, <1>6, <2>2, <3>1, <3>2, WriteWritten DEF Inv
  <2>3. QED
    BY <1>1, <1>2, <1>6, <2>1, <2>2 DEF HandleDone, Arg, Ok
<1>10. Good(Tail(queue), toModem, mGeofences', mGeofenceIds', modem, given, cmds, mClientData)
  <2>1. CASE ~h.ok
    <3>1. UNCHANGED maps
      BY <1>1, <2>1 DEF HandleDone, Ok
    <3>2. Good(Tail(queue), toModem, mGeofences, mGeofenceIds, modem, given, cmds, mClientData)
      BY <1>1, <1>3, <1>8, <2>1, PlainDropped DEF Added, Masked, Removed
    <3>3. QED
      BY <3>1, <3>2 DEF maps
  <2>2. CASE h.ok /\ c.op = "remove"
    <3>1. RemoveItem(hw)
      BY <1>1, <1>2, <1>6, <2>2 DEF HandleDone, Ok, Arg
    <3>2. Removed(cmds, h)
      BY <1>2, <1>3, <1>6, <2>2 DEF Removed
    <3>3. CASE hw \in DOMAIN mGeofences /\ mGeofences[hw].id \in DOMAIN mGeofenceIds
      <4>1. PICK mg : mg = Without(mGeofences, {hw})
        OBVIOUS
      <4>2. PICK ids : ids = Without(mGeofenceIds, {mGeofences[hw].id})
        OBVIOUS
      <4>3. DOMAIN mg = DOMAIN mGeofences \ {hw} /\ \A g \in DOMAIN mg : mg[g] = mGeofences[g]
        BY <4>1 DEF Without
      <4>4. /\ DOMAIN ids = {id \in DOMAIN mGeofenceIds :
                               ~(hw \in DOMAIN mGeofences /\ id = mGeofences[hw].id)}
            /\ \A id \in DOMAIN ids : ids[id] = mGeofenceIds[id]
        BY <3>3, <4>2 DEF Without
      <4>5. Good(Tail(queue), toModem, mg, ids, modem, given, cmds, mClientData)
        BY <1>1, <1>3, <1>8, <3>2, <4>3, <4>4, FirstRemoved
      <4>6. mGeofences' = mg /\ mGeofenceIds' = ids
        BY <3>1, <3>3, <4>1, <4>2 DEF RemoveItem
      <4>7. QED
        BY <4>5, <4>6
    <3>4. CASE ~(hw \in DOMAIN mGeofences /\ mGeofences[hw].id \in DOMAIN mGeofenceIds)
      <4>1. UNCHANGED maps
        BY <3>1, <3>4 DEF RemoveItem
      <4>2. \A g \in DOMAIN mGeofences : hw = g => mGeofences[g].client \notin mClientData
        BY <3>4 DEF Inv, Good, MapsOK
      <4>3. ~Masked(cmds, h)
        BY <1>2, <1>3, <1>6, <1>8, <2>2 DEF Masked
      <4>4. Good(Tail(queue), toModem, mGeofences, mGeofenceIds, modem, given, cmds,
                 mClientData)
        BY <1>1, <1>3, <1>8, <4>2, <4>3, PlainDropped
      <4>5. QED
        BY <4>1, <4>4 DEF maps
    <3>5. QED
      BY <3>3, <3>4
  <2>3. CASE h.ok /\ c.op # "remove"
    <3>1. ChangeItem(hw, c.op, c.mask)
      BY <1>1, <1>2, <1>6, <2>3 DEF HandleDone, Ok, Arg
    <3>2. PICK mg : mg = IF hw \in DOMAIN mGeofences
                         THEN [mGeofences EXCEPT ![hw] = Changed(c.op, c.mask, mGeofences[hw])]
                         ELSE mGeofences
      OBVIOUS
    <3>3. mGeofences' = mg /\ mGeofenceIds' = mGeofenceIds
      BY <3>1, <3>2 DEF ChangeItem
    <3>4. /\ Masked(cmds, h) <=> c.op = "modify"
          /\ c.op = "modify" => MaskOf(cmds, h) = c.mask
          /\ ~Removed(cmds, h)
      BY <1>2, <1>3, <1>6, <1>8, <2>3 DEF Masked, MaskOf, Removed
    <3>5. \A g \in DOMAIN mGeofences : mGeofences[g] \in Object
      BY DEF Inv, Good, ObjectsOK
    <3>6. ASSUME NEW g \in DOMAIN mGeofences
          PROVE  /\ mg[g] \in Object /\ mg[g].id = mGeofences[g].id
                 /\ mg[g].client = mGeofences[g].client
                 /\ mg[g].mask = IF Masked(cmds, h) /\ HwOf(h) = g
                                 THEN MaskOf(cmds, h) ELSE mGeofences[g].mask
      <4>1. CASE g = hw
        <5>1. PICK o \in Object : o = mGeofences[g]
          BY <3>5
        <5>2. mg[g] = Changed(c.op, c.mask, o)
          BY <3>2, <4>1, <5>1
        <5>3. /\ mg[g] \in Object /\ mg[g].id = o.id /\ mg[g].client = o.client
              /\ mg[g].mask = IF c.op = "modify" THEN c.mask ELSE o.mask
          BY <1>7, <2>3, <5>2, ChangedObject
        <5>4. QED
          BY <1>8, <3>4, <4>1, <5>1, <5>3
      <4>2. CASE g # hw
        BY <1>8, <3>2, <3>5, <4>2
      <4>3. QED
        BY <4>1, <4>2
    <3>7. DOMAIN mg = DOMAIN mGeofences
      BY <3>2
    <3>8. queue \in Seq(ToSet(queue))
      BY <1>3, FirstMessage
    <3>9. Good(Tail(queue), toModem, mg, mGeofenceIds, modem, given, cmds, mClientData)
      BY <1>1, <1>3, <1>8, <3>4, <3>6, <3>7, <3>8, MessageDropped DEF Inv
    <3>10. QED
      BY <3>3, <3>9
  <2>4. QED
    BY <2>1, <2>2, <2>3
<1>11. /\ Counted(cmds', mSessionIdCounter) /\ cmds' \in Seq(Command)
       /\ Good(Tail(queue), toModem, mGeofences', mGeofenceIds', modem, given, cmds',
               mClientData)
  BY <1>9, <1>10, CommandsWritten DEF Inv, Written
<1>12. IsSeq(Tail(queue))
  BY <1>3, FirstMessage
<1>13. QED
  BY <1>3, <1>5, <1>11, <1>12 DEF Inv

LEMMA ErasedHandled ==
  ASSUME Inv, HandleErased
  PROVE  Inv'
<1>1. PICK h : h = Head(queue)
  OBVIOUS
<1>2. PICK hw : hw = h.arg
  OBVIOUS
<1>3. queue # <<>> /\ h.op = "erased" /\ queue' = Tail(queue)
  BY <1>1 DEF HandleErased, Handling
<1>4. UNCHANGED <<mGeofenceIds, mClientData, toModem, modem, given, cmds, breaches,
                  mSessionIdCounter>>
  BY DEF HandleErased, modemVars, clientVars
<1>5. IsSeq(Tail(queue))
  BY <1>3, FirstMessage
<1>6. Good(Tail(queue), toModem, mGeofences', mGeofenceIds, modem, given, cmds, mClientData)
  <2>1. CASE h.ok
    <3>1. PICK mg : mg = Without(mGeofences, {hw})
      OBVIOUS
    <3>2. mGeofences' = mg
      BY <1>1, <1>2, <2>1, <3>1 DEF HandleErased, Ok, Arg
    <3>3. DOMAIN mg = DOMAIN mGeofences \ {hw} /\ \A g \in DOMAIN mg : mg[g] = mGeofences[g]
      BY <3>1 DEF Without
    <3>4. Removed(cmds, h) /\ HwOf(h) = hw
      BY <1>2, <1>3, <2>1 DEF Removed, HwOf
    <3>5. hw \in DOMAIN mGeofences => mGeofences[hw].id \notin DOMAIN mGeofenceIds
      BY <1>1, <1>2, <1>3, <2>1, FirstMessage DEF Inv, Good, ErasedOK
    <3>6. DOMAIN mGeofenceIds = {id \in DOMAIN mGeofenceIds :
                                   ~(hw \in DOMAIN mGeofences /\ id = mGeofences[hw].id)}
      BY <3>5
    <3>7. PICK ids : ids = mGeofenceIds
      OBVIOUS
    <3>8. Good(Tail(queue), toModem, mg, ids, modem, given, cmds, mClientData)
      BY <1>1, <1>3, <3>3, <3>4, <3>6, <3>7, FirstRemoved
    <3>9. QED
      BY <3>2, <3>7, <3>8
  <2>2. CASE ~h.ok
    <3>1. mGeofences' = mGeofences
      BY <1>1, <2>2 DEF HandleErased, Ok
    <3>2. Good(Tail(queue), toModem, mGeofences, mGeofenceIds, modem, given, cmds, mClientData)
      BY <1>1, <1>3, <2>2, PlainDropped DEF Added, Masked, Removed
    <3>3. QED
      BY <3>1, <3>2
  <2>3. QED
    BY <2>1, <2>2
<1>7. QED
  BY <1>3, <1>4, <1>5, <1>6 DEF Inv

LEMMA IgnoredHandled ==
  ASSUME Inv, HandleIgnored
  PROVE  Inv'
<1>1. queue # <<>> /\ Head(queue).op = "ignored" /\ queue' = Tail(queue)
  BY DEF HandleIgnored, Handling
<1>2. Good(Tail(queue), toModem, mGeofences, mGeofenceIds, modem, given, cmds, mClientData)
  BY <1>1, PlainDropped DEF Added, Masked, Removed
<1>3. IsSeq(Tail(queue))
  BY <1>1, FirstMessage
<1>4. QED
  BY <1>1, <1>2, <1>3 DEF Inv, HandleIgnored, maps, modemVars, clientVars

LEMMA BreachHandled ==
  ASSUME Inv, HandleBreach
  PROVE  Inv'
<1>1. queue # <<>> /\ Head(queue).op = "breach" /\ queue' = Tail(queue)
  BY DEF HandleBreach, Handling
<1>2. Good(Tail(queue), toModem, mGeofences, mGeofenceIds, modem, given, cmds, mClientData)
  BY <1>1, PlainDropped DEF Added, Masked, Removed
<1>3. IsSeq(Tail(queue))
  BY <1>1, FirstMessage
<1>4. QED
  BY <1>1, <1>2, <1>3 DEF Inv, HandleBreach, maps, modemVars, clientVars

LEMMA IdsFinite == IsFiniteSet(Ids)
<1>1. MaxEvents * MaxCount + 1 \in Int
  BY BoundsAssumption
<1>2. QED
  BY <1>1, FS_Interval DEF Ids

\* The keys of a map in order.
LEMMA KeysInOrder ==
  ASSUME NEW S, IsFiniteSet(S), NEW s \in InOrder(S)
  PROVE  \E n \in Nat : /\ DOMAIN s = 1..n /\ \A k \in 1..n : s[k] \in S
                        /\ \A j, k \in 1..n : s[j] = s[k] => j = k
<1>1. Cardinality(S) \in Nat
  BY FS_CardinalityType
<1>2. s \in [1..Cardinality(S) -> S] /\ IsInjective(s)
  BY DEF InOrder, Bijection, Injection
<1>3. QED
  BY <1>1, <1>2 DEF IsInjective

LEMMA RemoveClientHandled ==
  ASSUME Inv, HandleRemoveClient
  PROVE  Inv'
<1>1. PICK h : h = Head(queue)
  OBVIOUS
<1>2. PICK c : c = h.arg
  OBVIOUS
<1>3. queue # <<>> /\ h.op = "removeClient" /\ queue' = Tail(queue)
  BY <1>1 DEF HandleRemoveClient, Handling
<1>4. PICK own : own = DOMAIN mGeofenceIds \cap OwnIds(c)
  OBVIOUS
<1>5. PICK ids2 : ids2 = Without(mGeofenceIds, own)
  OBVIOUS
<1>6. \A id : id \in OwnIds(c) <=> Owns(cmds, c, id)
  BY DEF OwnIds, Owns, ToSet
<1>7. /\ DOMAIN ids2 = {id \in DOMAIN mGeofenceIds : ~Owns(cmds, c, id)}
      /\ \A id \in DOMAIN ids2 : ids2[id] = mGeofenceIds[id]
  BY <1>4, <1>5, <1>6 DEF Without
<1>8. IsFiniteSet(own)
  <2>1. own \in SUBSET Ids
    BY <1>4, <1>6 DEF Owns, Inv, Good, CmdsOK
  <2>2. QED
    BY <2>1, IdsFinite, FS_Subset
<1>9. PICK s : /\ s \in InOrder(own)
               /\ Calls([k \in DOMAIN s |-> LET hw == mGeofenceIds[s[k]]
                                            IN Call("remove", hw, None, Msg("erased", hw))])
  BY <1>1, <1>2, <1>4 DEF HandleRemoveClient, Arg
<1>10. PICK n \in Nat : DOMAIN s = 1..n /\ \A k \in 1..n : s[k] \in own
  BY <1>8, <1>9, KeysInOrder
<1>11. PICK calls : calls = [k \in 1..n |-> Call("remove", mGeofenceIds[s[k]], None,
                                                 Msg("erased", mGeofenceIds[s[k]]))]
  OBVIOUS
<1>12. toModem' = toModem \o calls /\ UNCHANGED <<modem, given, breaches>>
  BY <1>9, <1>10, <1>11 DEF Calls
<1>13. /\ DOMAIN calls = 1..n
       /\ \A k \in 1..n : calls[k] = Call("remove", mGeofenceIds[s[k]], None,
                                          Msg("erased", mGeofenceIds[s[k]]))
  BY <1>11
<1>14. IsSeq(calls)
  BY <1>11, <1>13, FunctionIsSeq
<1>15. PICK t : t = Tail(queue)
  OBVIOUS
<1>16. PICK T : T = ToSet(t)
  OBVIOUS
<1>17. Good(t, toModem, mGeofences, mGeofenceIds, modem, given, cmds, mClientData)
  BY <1>1, <1>3, <1>15, PlainDropped DEF Added, Masked, Removed
<1>18. Good(t, toModem, mGeofences, ids2, modem, given, cmds, mClientData \ {c})
  BY <1>7, <1>17, ClientForgotten
<1>19. ASSUME NEW k \in 1..n
       PROVE  /\ NewCall(calls[k], T, ToSet(toModem), mGeofences, ids2, given, cmds)
              /\ \A id : ~Carries(cmds, calls[k].then, id)
  <2>1. PICK id, hw : id = s[k] /\ hw = mGeofenceIds[id]
    OBVIOUS
  <2>2. PICK m : m = Msg("erased", hw)
    OBVIOUS
  <2>3. /\ m.op = "erased" /\ m.arg = hw /\ m.ok = TRUE
        /\ m = [op |-> m.op, arg |-> m.arg, ok |-> m.ok, hw |-> m.hw]
    BY <2>2 DEF Msg
  <2>4. MsgOK(cmds, m)
    BY <2>3 DEF MsgOK
  <2>5. PICK call : call = calls[k]
    OBVIOUS
  <2>6. call.call = "remove" /\ call.hw = hw /\ call.then = m
    BY <1>13, <2>1, <2>2, <2>5 DEF Call
  <2>7. CallOK(cmds, call)
    BY <2>3, <2>4, <2>6 DEF CallOK
  <2>8. id \in DOMAIN mGeofenceIds /\ Owns(cmds, c, id)
    BY <1>4, <1>6, <1>10, <2>1
  <2>9. hw \in DOMAIN mGeofences /\ mGeofences[hw].id = id
    BY <2>1, <2>8 DEF Inv, Good, MapsOK
  <2>10. id \notin DOMAIN ids2
    BY <1>7, <2>8
  <2>11. Up(T) \/ hw \in given
    BY <1>16, <1>17, <2>9 DEF Good, GivenOK
  <2>12. \A d \in T : Added(d) => d.hw # hw
    BY <1>16, <1>17, <2>9 DEF Good, NewHwOK
  <2>13. \A x : ~Carries(cmds, m, x)
    BY <2>3 DEF Carries
  <2>14. NewCall(call, T, ToSet(toModem), mGeofences, ids2, given, cmds)
    BY <2>3, <2>6, <2>7, <2>9, <2>10, <2>11, <2>12, <2>13 DEF NewCall
  <2>15. QED
    BY <2>5, <2>6, <2>13, <2>14
<1>20. OnceCalled(calls, cmds)
  BY <1>13, <1>19 DEF OnceCalled
<1>21. \A d \in ToSet(calls) : NewCall(d, T, ToSet(toModem), mGeofences, ids2, given, cmds)
  BY <1>13, <1>19 DEF ToSet
<1>22. PICK R : toModem \in Seq(R) /\ calls \in Seq(R)
  BY <1>14, SeqsOfBoth DEF Inv
<1>23. Good(t, toModem \o calls, mGeofences, ids2, modem, given, cmds, mClientData \ {c})
  BY <1>16, <1>18, <1>20, <1>21, <1>22, CallsMade
<1>24. IsSeq(toModem \o calls) /\ IsSeq(t)
  BY <1>3, <1>14, <1>15, SeqsGrow DEF Inv
<1>25. /\ UNCHANGED <<mGeofences, cmds, mSessionIdCounter>>
       /\ mGeofenceIds' = ids2 /\ mClientData' = mClientData \ {c}
  BY <1>1, <1>2, <1>4, <1>5 DEF HandleRemoveClient, clientVars, Arg
<1>26. QED
  BY <1>3, <1>12, <1>15, <1>23, <1>24, <1>25 DEF Inv

\* The adapter has finitely many geofences.
LEMMA GeofencesFinite ==
  ASSUME Inv
  PROVE  IsFiniteSet(DOMAIN mGeofences)
<1>1. PICK f : f = [hw \in DOMAIN mGeofences |-> mGeofences[hw].id]
  OBVIOUS
<1>2. \A hw \in DOMAIN mGeofences : mGeofences[hw] \in Object
  BY DEF Inv, Good, ObjectsOK
<1>3. f \in [DOMAIN mGeofences -> Ids]
  BY <1>1, <1>2 DEF Object
<1>4. IsInjective(f)
  BY <1>1 DEF IsInjective, Inv, Good, ObjectsOK
<1>5. f \in Injection(DOMAIN mGeofences, Ids)
  BY <1>3, <1>4 DEF Injection
<1>6. QED
  BY <1>5, IdsFinite, FS_Injection

\* The call that adds a geofence again.
Readdition(o) == Call("add", None, [o EXCEPT !.paused = FALSE], Msg("restored", o))

LEMMA EngineUpHandled ==
  ASSUME Inv, ~EarlyCalls, HandleEngineUp
  PROVE  Inv'
<1>1. PICK h : h = Head(queue)
  OBVIOUS
<1>2. queue # <<>> /\ h.op = "engineUp" /\ queue' = Tail(queue)
  BY <1>1 DEF HandleEngineUp, Handling
<1>3. \A c \in ToSet(toModem) : c.call = "sync"
  BY DEF HandleEngineUp, CallsFailed, ToSet
<1>4. PICK s : /\ s \in InOrder(DOMAIN mGeofences)
               /\ Calls([k \in DOMAIN s |->
                           LET object == mGeofences[s[k]]
                           IN Call("add", None, [object EXCEPT !.paused = FALSE],
                                   Msg("restored", object))])
  BY DEF HandleEngineUp
<1>5. PICK n \in Nat : /\ DOMAIN s = 1..n /\ \A k \in 1..n : s[k] \in DOMAIN mGeofences
                       /\ \A j, k \in 1..n : s[j] = s[k] => j = k
  BY <1>4, GeofencesFinite, KeysInOrder
<1>6. PICK calls : calls = [k \in 1..n |-> Readdition(mGeofences[s[k]])]
  OBVIOUS
<1>7. toModem' = toModem \o calls /\ UNCHANGED <<modem, given, breaches>>
  BY <1>4, <1>5, <1>6 DEF Calls, Readdition
<1>8. DOMAIN calls = 1..n /\ \A k \in 1..n : calls[k] = Readdition(mGeofences[s[k]])
  BY <1>6
<1>9. IsSeq(calls)
  BY <1>6, <1>8, FunctionIsSeq
<1>10. PICK t : t = Tail(queue)
  OBVIOUS
<1>11. PICK T : T = ToSet(t)
  OBVIOUS
<1>12. DOMAIN mGeofences' = {} /\ DOMAIN mGeofenceIds' = {}
  <2>1. CASE DOMAIN mGeofences = {}
    <3>1. DOMAIN mGeofenceIds = {}
      BY <2>1 DEF Inv, Good, MapsOK
    <3>2. QED
      BY <2>1, <3>1 DEF HandleEngineUp, maps
  <2>2. CASE DOMAIN mGeofences # {}
    BY <2>2 DEF HandleEngineUp
  <2>3. QED
    BY <2>1, <2>2
<1>13. PICK mg, ids : mg = mGeofences' /\ ids = mGeofenceIds'
  OBVIOUS
<1>14. queue \in Seq(ToSet(queue)) /\ h \in ToSet(queue) /\ ToSet(queue) = {h} \cup T
  BY <1>1, <1>2, <1>10, <1>11, FirstMessage
<1>15. Good(t, toModem, mg, ids, modem, given, cmds, mClientData)
  BY <1>1, <1>2, <1>3, <1>10, <1>12, <1>13, <1>14, GeofencesForgotten DEF Inv
<1>16. ASSUME NEW k \in 1..n
       PROVE  /\ NewCall(calls[k], T, ToSet(toModem), mg, ids, given, cmds)
              /\ \A id : Carries(cmds, calls[k].then, id) => id = mGeofences[s[k]].id
  <2>1. PICK o \in Object : o = mGeofences[s[k]]
    BY <1>5 DEF Inv, Good, ObjectsOK
  <2>2. PICK m : m = Msg("restored", o)
    OBVIOUS
  <2>3. /\ m.op = "restored" /\ m.arg = o /\ m.ok = TRUE
        /\ m = [op |-> m.op, arg |-> m.arg, ok |-> m.ok, hw |-> m.hw]
    BY <2>2 DEF Msg
  <2>4. PICK call : call = calls[k]
    OBVIOUS
  <2>5. call.call = "add" /\ call.object = [o EXCEPT !.paused = FALSE] /\ call.then = m
    <3>1. call = Readdition(o)
      BY <1>8, <2>1, <2>4
    <3>2. QED
      BY <2>2, <3>1 DEF Readdition, Call
  <2>6. Owns(cmds, o.client, o.id)
    BY <1>5, <2>1 DEF Inv, Good, ObjectsOK
  <2>7. MsgOK(cmds, m)
    BY <2>3, <2>6 DEF MsgOK
  <2>8. CallOK(cmds, call) /\ ~OnHw(call)
    BY <2>3, <2>5, <2>7 DEF CallOK, OnHw
  <2>9. \A id : Carries(cmds, m, id) => id = o.id
    BY <2>3 DEF Carries, ObjectOf
  <2>10. /\ \A d \in T : ~Carries(cmds, d, o.id)
         /\ \A d \in ToSet(toModem) : ~Carries(cmds, d.then, o.id)
    BY <1>5, <1>14, <2>1 DEF Inv, Good, CarryOK
  <2>11. NewCall(call, T, ToSet(toModem), mg, ids, given, cmds)
    BY <1>12, <1>13, <2>3, <2>5, <2>8, <2>9, <2>10 DEF NewCall
  <2>12. QED
    BY <2>1, <2>4, <2>5, <2>9, <2>11
<1>17. OnceCalled(calls, cmds)
  <2> SUFFICES ASSUME NEW j \in 1..n, NEW k \in 1..n, NEW id,
                      Carries(cmds, calls[j].then, id), Carries(cmds, calls[k].then, id)
               PROVE  j = k
    BY <1>8 DEF OnceCalled
  <2>1. mGeofences[s[j]].id = id /\ mGeofences[s[k]].id = id
    BY <1>16
  <2>2. s[j] \in DOMAIN mGeofences /\ s[k] \in DOMAIN mGeofences
    BY <1>5
  <2>3. s[j] = s[k]
    BY <2>1, <2>2 DEF Inv, Good, ObjectsOK
  <2>4. QED
    BY <1>5, <2>3
<1>18. \A d \in ToSet(calls) : NewCall(d, T, ToSet(toModem), mg, ids, given, cmds)
  BY <1>8, <1>16 DEF ToSet
<1>19. PICK R : toModem \in Seq(R) /\ calls \in Seq(R)
  BY <1>9, SeqsOfBoth DEF Inv
<1>20. Good(t, toModem \o calls, mg, ids, modem, given, cmds, mClientData)
  BY <1>11, <1>15, <1>17, <1>18, <1>19, CallsMade
<1>21. IsSeq(toModem \o calls) /\ IsSeq(t)
  BY <1>2, <1>9, <1>10, SeqsGrow DEF Inv
<1>22. UNCHANGED <<mClientData, cmds, mSessionIdCounter>>
  BY DEF HandleEngineUp, clientVars
<1>23. QED
  BY <1>2, <1>7, <1>10, <1>13, <1>20, <1>21, <1>22 DEF Inv

LEMMA RestoredHandled ==
  ASSUME Inv, HandleRestored
  PROVE  Inv'
<1>1. PICK h : h = Head(queue)
  OBVIOUS
<1>2. PICK t : t = Tail(queue)
  OBVIOUS
<1>3. queue # <<>> /\ h.op = "restored" /\ queue' = t
  BY <1>1, <1>2 DEF HandleRestored, Handling
<1>4. IsSeq(t)
  BY <1>2, <1>3, FirstMessage
<1>5. UNCHANGED <<mClientData, cmds, mSessionIdCounter>>
  BY DEF HandleRestored, clientVars
<1>6. CASE h.ok
  <2>1. Save(h.arg, h.hw)
    BY <1>1, <1>6 DEF HandleRestored, Ok, Arg
  <2>2. Added(h) /\ h.arg = ObjectOf(h)
    BY <1>3, <1>6 DEF Added, ObjectOf
  <2>3. PICK mg, ids : mg = mGeofences' /\ ids = mGeofenceIds'
    OBVIOUS
  <2>4. Good(t, toModem, mg, ids, modem, given, cmds, mClientData)
    BY <1>1, <1>2, <1>3, <2>1, <2>2, <2>3, FirstSaved
  <2>5. CASE h.arg.paused
    <3>1. PICK m : m = Msg("ignored", None)
      OBVIOUS
    <3>2. PICK call : call = Call("pause", h.hw, h.arg, m)
      OBVIOUS
    <3>3. /\ m.op = "ignored" /\ m.ok = TRUE
          /\ m = [op |-> m.op, arg |-> m.arg, ok |-> m.ok, hw |-> m.hw]
          /\ call.call = "pause" /\ call.hw = h.hw /\ call.then = m
      BY <3>1, <3>2 DEF Msg, Call
    <3>4. MsgOK(cmds, m)
      BY <3>3 DEF MsgOK
    <3>5. CallOK(cmds, call)
      BY <3>3, <3>4 DEF CallOK
    <3>6. Up(ToSet(t)) \/ h.hw \in given
      <4>1. h.hw \in DOMAIN mg
        BY <1>1, <2>1, <2>3 DEF Save, With
      <4>2. QED
        BY <2>4, <4>1 DEF Good, GivenOK
    <3>7. \A d \in ToSet(t) : Added(d) => d.hw # h.hw
      BY <1>1, <1>2, <1>3, <2>2, HeadAndTail, FirstMessage DEF Inv, Good
    <3>8. \A x : ~Carries(cmds, m, x)
      BY <3>3 DEF Carries
    <3>9. NewCall(call, ToSet(t), ToSet(toModem), mg, ids, given, cmds)
      BY <3>3, <3>5, <3>6, <3>7, <3>8 DEF NewCall
    <3>10. /\ IsSeq(toModem \o <<call>>)
           /\ Good(t, toModem \o <<call>>, mg, ids, modem, given, cmds, mClientData)
      BY <2>4, <3>9, OneCall DEF Inv
    <3>11. toModem' = toModem \o <<call>> /\ UNCHANGED <<modem, given, breaches>>
      BY <1>1, <1>6, <2>5, <3>1, <3>2 DEF HandleRestored, Ok, Arg, Calls
    <3>12. QED
      BY <1>3, <1>4, <1>5, <2>3, <3>10, <3>11 DEF Inv
  <2>6. CASE ~h.arg.paused
    <3>1. toModem' = toModem \o <<>> /\ UNCHANGED <<modem, given, breaches>>
      BY <1>1, <1>6, <2>6 DEF HandleRestored, Ok, Arg, Calls
    <3>2. toModem' = toModem
      BY <3>1 DEF Inv, IsSeq
    <3>3. QED
      BY <1>3, <1>4, <1>5, <2>3, <2>4, <3>1, <3>2 DEF Inv
  <2>7. QED
    BY <2>5, <2>6
<1>7. CASE ~h.ok
  <2>1. UNCHANGED <<maps, modemVars>>
    BY <1>1, <1>7 DEF HandleRestored, Ok
  <2>2. Good(t, toModem, mGeofences, mGeofenceIds, modem, given, cmds, mClientData)
    BY <1>1, <1>2, <1>3, <1>7, PlainDropped DEF Added, Masked, Removed
  <2>3. QED
    BY <1>3, <1>4, <1>5, <2>1, <2>2 DEF Inv, maps, modemVars
<1>8. QED
  BY <1>6, <1>7

-----------------------------------------------------------------------------
(***************************************************************************)
(* The modem.                                                              *)
(***************************************************************************)
LEMMA CallAnswered ==
  ASSUME Inv, toModem # <<>>, NEW ok \in BOOLEAN, NEW hw, Answer(ok, hw)
  PROVE  \E S, R, m :
           /\ queue \in Seq(S) /\ toModem \in Seq(R)
           /\ m \in S /\ m = AnswerOf(Head(toModem), ok, hw) /\ m.ok = ok
           /\ queue' = Append(queue, m) /\ toModem' = Tail(toModem)
           /\ IsSeq(queue') /\ IsSeq(toModem')
<1>1. PICK m : m = AnswerOf(Head(toModem), ok, hw)
  OBVIOUS
<1>2. PICK S : S = ToSet(queue) \cup {m}
  OBVIOUS
<1>3. PICK R : R = ToSet(toModem)
  OBVIOUS
<1>4. queue \in Seq(S) /\ m \in S /\ toModem \in Seq(R)
  BY <1>2, <1>3, SeqOfMore DEF Inv, IsSeq
<1>5. PICK call : call = Head(toModem)
  OBVIOUS
<1>6. call \in ToSet(toModem)
  BY <1>3, <1>4, <1>5, TailSet
<1>7. CallOK(cmds, call)
  BY <1>6 DEF Inv, Good, MsgsOK
<1>8. m.ok = ok
  BY <1>1, <1>5, <1>7, AnswerShape
<1>9. queue' = Append(queue, m) /\ toModem' = Tail(toModem)
  BY <1>1 DEF Answer, AnswerOf
<1>10. IsSeq(queue') /\ IsSeq(toModem')
  BY <1>9, SeqsGrow DEF Inv
<1>11. QED
  BY <1>1, <1>4, <1>8, <1>9, <1>10

LEMMA RefusalSent ==
  ASSUME Inv, ModemRefuses
  PROVE  Inv'
<1>1. toModem # <<>> /\ Answer(FALSE, None)
  BY DEF ModemRefuses
<1>2. PICK S, R, m :
         /\ queue \in Seq(S) /\ toModem \in Seq(R)
         /\ m \in S /\ m = AnswerOf(Head(toModem), FALSE, None) /\ m.ok = FALSE
         /\ queue' = Append(queue, m) /\ toModem' = Tail(toModem)
         /\ IsSeq(queue') /\ IsSeq(toModem')
  BY <1>1, CallAnswered
<1>3. Good(queue, toModem, mGeofences, mGeofenceIds, modem, given, cmds, mClientData)
  BY DEF Inv
<1>4. Good(Append(queue, m), Tail(toModem), mGeofences, mGeofenceIds, modem, given, cmds,
           mClientData)
  BY <1>1, <1>2, <1>3, NothingChanges
<1>5. UNCHANGED <<maps, mClientData, modem, given, cmds, mSessionIdCounter, breaches>>
  BY DEF ModemRefuses, Answer, clientVars
<1>6. QED
  BY <1>2, <1>4, <1>5 DEF Inv, maps

LEMMA AnswerSent ==
  ASSUME Inv, ~EarlyCalls, ~ReusesIds, ModemActs
  PROVE  Inv'
<1>1. PICK call : call = Head(toModem)
  OBVIOUS
<1>2. toModem # <<>> /\ (call.call = "sync" \/ ~Restarting)
  BY <1>1 DEF ModemActs
<1>3. ~Restarting => ~Up(ToSet(queue))
  BY DEF Restarting, Up, ToSet
<1>4. Good(queue, toModem, mGeofences, mGeofenceIds, modem, given, cmds, mClientData)
  BY DEF Inv
<1>5. CASE call.call = "sync" /\ UNCHANGED <<modem, given>> /\ Answer(TRUE, None)
  <2>1. PICK S, R, m :
           /\ queue \in Seq(S) /\ toModem \in Seq(R)
           /\ m \in S /\ m = AnswerOf(Head(toModem), TRUE, None) /\ m.ok = TRUE
           /\ queue' = Append(queue, m) /\ toModem' = Tail(toModem)
           /\ IsSeq(queue') /\ IsSeq(toModem')
    BY <1>2, <1>5, CallAnswered
  <2>2. Good(Append(queue, m), Tail(toModem), mGeofences, mGeofenceIds, modem, given, cmds,
             mClientData)
    BY <1>1, <1>2, <1>4, <1>5, <2>1, NothingChanges
  <2>3. UNCHANGED <<maps, mClientData, modem, given, cmds, mSessionIdCounter, breaches>>
    BY <1>5 DEF Answer, clientVars
  <2>4. QED
    BY <2>1, <2>2, <2>3 DEF Inv, maps
<1>6. ASSUME call.call = "add",
             NEW hw \in HwIds \ (IF ReusesIds THEN DOMAIN modem ELSE given),
             modem' = With(modem, hw, call.object), given' = given \cup {hw}, Answer(TRUE, hw)
      PROVE  Inv'
  <2>1. PICK S, R, m :
           /\ queue \in Seq(S) /\ toModem \in Seq(R)
           /\ m \in S /\ m = AnswerOf(Head(toModem), TRUE, hw) /\ m.ok = TRUE
           /\ queue' = Append(queue, m) /\ toModem' = Tail(toModem)
           /\ IsSeq(queue') /\ IsSeq(toModem')
    BY <1>2, <1>6, CallAnswered
  <2>2. hw \notin given
    BY <1>6
  <2>3. PICK md : md = With(modem, hw, call.object)
    OBVIOUS
  <2>4. ~Up(ToSet(queue))
    BY <1>2, <1>3, <1>6
  <2>5. Good(Append(queue, m), Tail(toModem), mGeofences, mGeofenceIds, md, given \cup {hw}, cmds,
             mClientData)
    BY <1>1, <1>2, <1>4, <1>6, <2>1, <2>2, <2>3, <2>4, GeofenceTaken
  <2>6. UNCHANGED <<maps, mClientData, cmds, mSessionIdCounter, breaches>>
    BY <1>6 DEF Answer, clientVars
  <2>7. QED
    BY <1>6, <2>1, <2>3, <2>5, <2>6 DEF Inv, maps
<1>7. CASE /\ call.call \notin {"sync", "add"} /\ call.hw \in DOMAIN modem
           /\ modem' = IF call.call = "remove" THEN Without(modem, {call.hw})
                       ELSE [modem EXCEPT ![call.hw] = Changed(call.call, call.object.mask, @)]
           /\ UNCHANGED given
           /\ Answer(TRUE, call.hw)
  <2>1. PICK hw \in DOMAIN modem : hw = call.hw
    BY <1>7
  <2>2. PICK S, R, m :
           /\ queue \in Seq(S) /\ toModem \in Seq(R)
           /\ m \in S /\ m = AnswerOf(Head(toModem), TRUE, hw) /\ m.ok = TRUE
           /\ queue' = Append(queue, m) /\ toModem' = Tail(toModem)
           /\ IsSeq(queue') /\ IsSeq(toModem')
    BY <1>2, <1>7, <2>1, CallAnswered
  <2>3. PICK md : md = IF call.call = "remove" THEN Without(modem, {hw})
                       ELSE [modem EXCEPT ![hw] = Changed(call.call, call.object.mask, @)]
    OBVIOUS
  <2>4. ~Up(ToSet(queue)) /\ OnHw(call)
    BY <1>2, <1>3, <1>7 DEF OnHw
  <2>5. Good(Append(queue, m), Tail(toModem), mGeofences, mGeofenceIds, md, given, cmds,
             mClientData)
    BY <1>1, <1>2, <1>4, <2>1, <2>2, <2>3, <2>4, GeofenceChanged
  <2>6. modem' = md
    BY <1>7, <2>1, <2>3
  <2>7. UNCHANGED <<maps, mClientData, given, cmds, mSessionIdCounter, breaches>>
    BY <1>7 DEF Answer, clientVars
  <2>8. QED
    BY <2>2, <2>5, <2>6, <2>7 DEF Inv, maps
<1>8. QED
  BY <1>1, <1>5, <1>6, <1>7 DEF ModemActs

LEMMA ModemLost ==
  ASSUME Inv, ModemRestarts
  PROVE  Inv'
<1>1. PICK f : f = [k \in DOMAIN toModem |-> Failure(toModem[k])]
  OBVIOUS
<1>2. PICK up : up = Msg("engineUp", None)
  OBVIOUS
<1>3. queue' = queue \o f \o <<up>> /\ toModem' = <<>> /\ modem' = <<>> /\ given' = {}
  BY <1>1, <1>2 DEF ModemRestarts, Failure
<1>4. PICK n \in Nat : DOMAIN toModem = 1..n
  BY DEF Inv, IsSeq
<1>5. IsSeq(f)
  BY <1>1, <1>4, FunctionIsSeq
<1>6. PICK S : S = ToSet(queue) \cup ToSet(f) \cup {up}
  OBVIOUS
<1>7. queue \in Seq(S) /\ f \in Seq(S) /\ up \in S
  BY <1>5, <1>6, SeqOfMore DEF Inv, IsSeq
<1>8. PICK R : R = ToSet(toModem)
  OBVIOUS
<1>9. toModem \in Seq(R)
  BY <1>8 DEF Inv, IsSeq
<1>10. /\ DOMAIN f = DOMAIN toModem
       /\ \A k \in DOMAIN toModem : f[k] = Failure(toModem[k])
  BY <1>1
<1>11. Good(queue, toModem, mGeofences, mGeofenceIds, modem, given, cmds, mClientData)
  BY DEF Inv
<1>12. Good(queue \o f \o <<up>>, <<>>, mGeofences, mGeofenceIds, <<>>, {}, cmds, mClientData)
  BY <1>2, <1>7, <1>9, <1>10, <1>11, ModemGone
<1>13. IsSeq(queue \o f \o <<up>>) /\ IsSeq(<<>>)
  <2>1. queue \o f \o <<up>> \in Seq(S) /\ <<>> \in Seq(S)
    BY <1>7
  <2>2. QED
    BY <2>1, SeqIsSeq
<1>14. UNCHANGED <<maps, mClientData, cmds, mSessionIdCounter, breaches>>
  BY DEF ModemRestarts, clientVars
<1>15. QED
  BY <1>3, <1>12, <1>13, <1>14 DEF Inv, maps

-----------------------------------------------------------------------------
(***************************************************************************)
(* The invariant holds.                                                    *)
(***************************************************************************)
LEMMA AtFirst ==
  ASSUME Init
  PROVE  Inv
<1>1. /\ DOMAIN mGeofences = {} /\ DOMAIN mGeofenceIds = {} /\ DOMAIN modem = {} /\ given = {}
      /\ queue = <<>> /\ toModem = <<>> /\ cmds = <<>> /\ DOMAIN cmds = {}
      /\ DOMAIN queue = {} /\ DOMAIN toModem = {} /\ mSessionIdCounter = 1 /\ breaches = 0
  BY DEF Init
<1>2. ToSet(queue) = {} /\ ToSet(toModem) = {}
  BY <1>1 DEF ToSet
<1>3. IsSeq(queue) /\ IsSeq(toModem) /\ cmds \in Seq(Command)
  BY <1>1, <1>2 DEF IsSeq
<1>4. \A c, id : ~Owns(cmds, c, id)
  BY <1>1 DEF Owns
<1>5. Counted(cmds, mSessionIdCounter)
  <2>1. Len(cmds) = 0 /\ MaxCount \in Nat /\ 0 * MaxCount = 0 /\ MaxEvents \in Nat
    BY <1>1, BoundsAssumption
  <2>2. QED
    BY <1>1, <1>4, <2>1 DEF Counted
<1>6. CmdsOK(cmds) /\ MsgsOK(ToSet(queue), ToSet(toModem), cmds) /\ Ordered(queue)
  BY <1>1, <1>2 DEF CmdsOK, MsgsOK, Ordered
<1>7. GivenOK(ToSet(queue), ToSet(toModem), mGeofences, modem, given) /\ OnceAdded(queue)
  BY <1>1, <1>2 DEF GivenOK, OnceAdded, Up
<1>8. /\ NewHwOK(ToSet(queue), ToSet(toModem), mGeofences)
      /\ OnceCarried(queue, cmds) /\ OnceCalled(toModem, cmds)
  BY <1>1, <1>2 DEF NewHwOK, OnceCarried, OnceCalled
<1>9. /\ CarryOK(ToSet(queue), ToSet(toModem), mGeofences, cmds) /\ ObjectsOK(mGeofences, cmds)
      /\ ErasedOK(ToSet(queue), ToSet(toModem), mGeofences, mGeofenceIds)
  BY <1>1, <1>2 DEF CarryOK, ObjectsOK, ErasedOK
<1>10. /\ DoneOK(ToSet(queue), ToSet(toModem), mGeofences, cmds)
       /\ BreachOK(ToSet(queue), mGeofences)
       /\ ModemOK(ToSet(queue), mGeofences, modem, cmds, mClientData)
  BY <1>1, <1>2 DEF DoneOK, BreachOK, ModemOK
<1>11. MaskOK(queue, mGeofences, modem, cmds) /\ MapsOK(mGeofences, mGeofenceIds, mClientData)
  BY <1>1 DEF MaskOK, MapsOK
<1>12. QED
  BY <1>1, <1>3, <1>5, <1>6, <1>7, <1>8, <1>9, <1>10, <1>11 DEF Inv, Good

LEMMA Kept ==
  ASSUME Inv, ~EarlyCalls, ~ReusesIds, [Next]_vars
  PROVE  Inv'
<1>1. CASE ClientNext
  <2>1. PICK c \in Clients :
          \/ \E count \in 1..MaxCount, whole \in BOOLEAN : AddGeofences(c, count, whole)
          \/ \E ids \in SeqOf(OwnIds(c), MaxCount) :
               \/ \E op \in {"remove", "pause", "resume"} : OnGeofences(op, c, ids, None, TRUE)
               \/ \E mask \in Masks, whole \in BOOLEAN :
                    OnGeofences("modify", c, ids, mask, whole)
          \/ Destroy(c)
    BY <1>1 DEF ClientNext
  <2>2. CASE \E count \in 1..MaxCount, whole \in BOOLEAN : AddGeofences(c, count, whole)
    BY <2>2, GeofencesAdded
  <2>3. ASSUME NEW ids \in SeqOf(OwnIds(c), MaxCount), NEW op \in {"remove", "pause", "resume"},
               OnGeofences(op, c, ids, None, TRUE)
        PROVE  Inv'
    BY <2>3, GeofencesNamed
  <2>4. ASSUME NEW ids \in SeqOf(OwnIds(c), MaxCount), NEW mask \in Masks,
               NEW whole \in BOOLEAN, OnGeofences("modify", c, ids, mask, whole)
        PROVE  Inv'
    BY <2>4, GeofencesNamed
  <2>5. CASE Destroy(c)
    BY <2>5, ClientDestroyed
  <2>6. QED
    BY <2>1, <2>2, <2>3, <2>4, <2>5
<1>2. CASE TaskNext
  BY <1>2, CommandHandled, NullCommandHandled, ItemHandled, AddedHandled, DoneHandled,
     RemoveClientHandled, ErasedHandled, EngineUpHandled, RestoredHandled, IgnoredHandled, BreachHandled DEF TaskNext
<1>3. CASE ModemAnswers
  BY <1>3, AnswerSent, RefusalSent DEF ModemAnswers
<1>4. CASE ModemRestarts
  BY <1>4, ModemLost
<1>5. ASSUME NEW hw \in DOMAIN modem, ModemBreach(hw)
      PROVE  Inv'
  BY <1>5, BreachReported
<1>6. CASE UNCHANGED vars
  BY <1>6 DEF vars, maps, modemVars, clientVars, Inv
<1>7. QED
  BY <1>1, <1>2, <1>3, <1>4, <1>5, <1>6 DEF Next

-----------------------------------------------------------------------------
(***************************************************************************)
(* What becomes of a geofence whose addition was a success.                *)
(***************************************************************************)
\* A command to remove the geofence was given; the geofence is being added again.
Named(cs, id) ==
  \E k \in DOMAIN cs : cs[k].op = "remove" /\ \E i \in DOMAIN cs[k].ids : cs[k].ids[i] = id

Returns(m, id) == m.op = "restored" /\ m.arg.id = id

Stays(id, Q, M, ids, cs, lo) ==
  \/ id \in lo \cup DOMAIN ids
  \/ Named(cs, id)
  \/ \E m \in Q : m.ok /\ Returns(m, id)
  \/ \E c \in M : Returns(c.then, id)

\* The client is or will be told of the success; the array has all the items.
Told(cmd, i) == cmd.errs[i] = "success" \/ (cmd.answer # None /\ cmd.answer[i] = "success")
Shaped(cmd) ==
  DOMAIN cmd.errs = DOMAIN cmd.ids /\ (cmd.answer # None => DOMAIN cmd.answer = DOMAIN cmd.ids)

SurviveOK(Q, M, ids, cs, lo, cd) ==
  \A n \in DOMAIN cs : cs[n].op = "add" =>
    /\ Shaped(cs[n])
    /\ cs[n].client \in cd => \A i \in DOMAIN cs[n].ids :
         Told(cs[n], i) => Stays(cs[n].ids[i], Q, M, ids, cs, lo)

Survive ==
  SurviveOK(ToSet(queue), ToSet(toModem), mGeofenceIds, cmds, lost, mClientData)

\* Commands of which only those that are not additions, or are told no more successes,
\* differ.
Continues(cs, cs2) ==
  /\ \A n \in DOMAIN cs : n \in DOMAIN cs2 /\ cs2[n].op = cs[n].op /\ cs2[n].ids = cs[n].ids
  /\ \A n \in DOMAIN cs2 : cs2[n].op = "add" =>
       \/ /\ n \in DOMAIN cs /\ cs2[n].client = cs[n].client
          /\ Shaped(cs[n]) => Shaped(cs2[n])
          /\ \A i \in DOMAIN cs2[n].ids : Told(cs2[n], i) => Told(cs[n], i)
       \/ Shaped(cs2[n]) /\ \A i \in DOMAIN cs2[n].ids : ~Told(cs2[n], i)

LEMMA StillNamed ==
  ASSUME NEW cs, NEW cs2, Continues(cs, cs2), NEW id, Named(cs, id)
  PROVE  Named(cs2, id)
BY DEF Named, Continues

LEMMA NothingLost ==
  ASSUME NEW Q, NEW M, NEW ids, NEW cs, NEW lo, NEW cd,
         NEW Q2, NEW M2, NEW ids2, NEW cs2, NEW lo2, NEW cd2,
         SurviveOK(Q, M, ids, cs, lo, cd), Continues(cs, cs2), cd2 \subseteq cd, lo \subseteq lo2,
         \A m \in Q : m.ok /\ m.op = "restored" => m \in Q2 \/ m.arg.id \in lo2 \cup DOMAIN ids2,
         \A c \in M : c.then.op = "restored" =>
           \/ c \in M2 \/ c.then.arg.id \in lo2
           \/ \E m \in Q2 : m.ok /\ Returns(m, c.then.arg.id),
         \A id \in DOMAIN ids :
           \/ id \in DOMAIN ids2 \/ Named(cs2, id)
           \/ \E c \in M2 : Returns(c.then, id)
           \/ \A c \in cd2 : ~Owns(cs, c, id)
  PROVE  SurviveOK(Q2, M2, ids2, cs2, lo2, cd2)
<1> SUFFICES ASSUME NEW n \in DOMAIN cs2, cs2[n].op = "add"
             PROVE  /\ Shaped(cs2[n])
                    /\ cs2[n].client \in cd2 => \A i \in DOMAIN cs2[n].ids :
                         Told(cs2[n], i) => Stays(cs2[n].ids[i], Q2, M2, ids2, cs2, lo2)
  BY DEF SurviveOK
<1>1. CASE Shaped(cs2[n]) /\ \A i \in DOMAIN cs2[n].ids : ~Told(cs2[n], i)
  BY <1>1
<1>2. CASE /\ n \in DOMAIN cs /\ cs2[n].client = cs[n].client
           /\ Shaped(cs[n]) => Shaped(cs2[n])
           /\ \A i \in DOMAIN cs2[n].ids : Told(cs2[n], i) => Told(cs[n], i)
  <2>0. cs[n].op = "add" /\ cs[n].ids = cs2[n].ids
    BY <1>2 DEF Continues
  <2>1. Shaped(cs2[n])
    BY <1>2, <2>0 DEF SurviveOK
  <2>2. ASSUME cs2[n].client \in cd2, NEW i \in DOMAIN cs2[n].ids, Told(cs2[n], i)
        PROVE  Stays(cs2[n].ids[i], Q2, M2, ids2, cs2, lo2)
    <3>1. PICK id : id = cs2[n].ids[i]
      OBVIOUS
    <3>2. PICK c \in cd2 : c = cs2[n].client
      BY <2>2
    <3>3. Owns(cs, c, id)
      BY <1>2, <2>0, <2>2, <3>1, <3>2 DEF Owns
    <3>4. Stays(id, Q, M, ids, cs, lo)
      BY <1>2, <2>0, <2>2, <3>1, <3>2 DEF SurviveOK
    <3>5. CASE id \in lo
      BY <3>1, <3>5 DEF Stays
    <3>6. CASE id \in DOMAIN ids
      BY <3>1, <3>2, <3>3, <3>6 DEF Stays
    <3>7. CASE Named(cs, id)
      BY <3>1, <3>7, StillNamed DEF Stays
    <3>8. ASSUME NEW m \in Q, m.ok, Returns(m, id)
          PROVE  Stays(id, Q2, M2, ids2, cs2, lo2)
      BY <3>8 DEF Stays, Returns
    <3>9. ASSUME NEW d \in M, Returns(d.then, id)
          PROVE  Stays(id, Q2, M2, ids2, cs2, lo2)
      BY <3>9 DEF Stays, Returns
    <3>10. QED
      BY <3>1, <3>4, <3>5, <3>6, <3>7, <3>8, <3>9 DEF Stays
  <2>3. QED
    BY <2>1, <2>2
<1>3. QED
  BY <1>1, <1>2 DEF Continues

LEMMA SameCommands ==
  ASSUME NEW cs
  PROVE  Continues(cs, cs)
BY DEF Continues

\* Calls are made, a message is sent, a message has been handled.
LEMMA MoreCalls ==
  ASSUME NEW q, IsSeq(q), NEW s, IsSeq(s)
  PROVE  ToSet(q \o s) = ToSet(q) \cup ToSet(s)
<1>1. PICK R : R = ToSet(q) \cup ToSet(s)
  OBVIOUS
<1>2. q \in Seq(R) /\ s \in Seq(R)
  BY <1>1, SeqsOfBoth
<1>3. QED
  BY <1>2, ConcatSet

LEMMA OneMore ==
  ASSUME NEW q, IsSeq(q), NEW m
  PROVE  ToSet(Append(q, m)) = ToSet(q) \cup {m}
<1>1. PICK R : R = ToSet(q) \cup {m}
  OBVIOUS
<1>2. q \in Seq(R) /\ m \in R
  BY <1>1, SeqOfMore DEF IsSeq
<1>3. QED
  BY <1>2, AppendSet

LEMMA OneLess ==
  ASSUME NEW q, IsSeq(q), q # <<>>
  PROVE  ToSet(q) = {Head(q)} \cup ToSet(Tail(q))
BY TailSet DEF IsSeq

-----------------------------------------------------------------------------
(***************************************************************************)
(* The steps.                                                              *)
(***************************************************************************)
\* The first message is handled, and is not the success of one that returns.
LEMMA MessageHandled ==
  ASSUME Inv, Survive, queue # <<>>, queue' = Tail(queue),
         ~(Head(queue).ok /\ Head(queue).op = "restored"),
         ToSet(toModem) \subseteq ToSet(toModem'), Continues(cmds, cmds'), lost' = lost,
         mClientData' \subseteq mClientData,
         \A id \in DOMAIN mGeofenceIds :
           \/ id \in DOMAIN mGeofenceIds' \/ Named(cmds', id)
           \/ \E c \in ToSet(toModem') : Returns(c.then, id)
           \/ \A c \in mClientData' : ~Owns(cmds, c, id)
  PROVE  Survive'
<1>1. PICK Q, T : Q = ToSet(queue) /\ T = ToSet(Tail(queue))
  OBVIOUS
<1>2. Q = {Head(queue)} \cup T
  BY <1>1, OneLess DEF Inv
<1>3. PICK M, M2 : M = ToSet(toModem) /\ M2 = ToSet(toModem')
  OBVIOUS
<1>4. PICK ids2, cs2, cd2 : ids2 = mGeofenceIds' /\ cs2 = cmds' /\ cd2 = mClientData'
  OBVIOUS
<1>5. SurviveOK(Q, M, mGeofenceIds, cmds, lost, mClientData)
  BY <1>1, <1>3 DEF Survive
<1>6. \A m \in Q : m.ok /\ m.op = "restored" => m \in T
  BY <1>2
<1>7. SurviveOK(T, M2, ids2, cs2, lost, cd2)
  BY <1>3, <1>4, <1>5, <1>6, NothingLost
<1>8. QED
  BY <1>1, <1>3, <1>4, <1>7 DEF Survive

\* A message is sent or calls are made, and nothing else.
LEMMA MessageAdded ==
  ASSUME Survive, ToSet(queue) \subseteq ToSet(queue'), toModem' = toModem,
         Continues(cmds, cmds'), lost' = lost, mClientData' = mClientData,
         mGeofenceIds' = mGeofenceIds
  PROVE  Survive'
<1>1. PICK Q, Q2 : Q = ToSet(queue) /\ Q2 = ToSet(queue')
  OBVIOUS
<1>2. PICK M, cs2 : M = ToSet(toModem) /\ cs2 = cmds'
  OBVIOUS
<1>3. SurviveOK(Q2, M, mGeofenceIds, cs2, lost, mClientData)
  <2>1. SurviveOK(Q, M, mGeofenceIds, cmds, lost, mClientData)
    BY <1>1, <1>2 DEF Survive
  <2>2. Q \subseteq Q2 /\ Continues(cmds, cs2)
    BY <1>1, <1>2
  <2>3. QED
    BY <2>1, <2>2, NothingLost
<1>4. QED
  BY <1>1, <1>2, <1>3 DEF Survive

LEMMA GivenSurvives ==
  ASSUME Inv, Survive, NEW op, NEW c, NEW ids, NEW mask, NEW whole,
         GiveCommand(op, c, ids, mask, whole)
  PROVE  Survive'
<1>1. PICK cmd : cmd = [op |-> op, client |-> c, ids |-> ids, mask |-> mask, whole |-> whole,
                        errs |-> [i \in DOMAIN ids |-> None], freed |-> FALSE, answer |-> None]
  OBVIOUS
<1>2. PICK cs2 : cs2 = Append(cmds, cmd)
  OBVIOUS
<1>3. cmds' = cs2 /\ queue' = Append(queue, Msg("command", Len(cmds) + 1))
  BY <1>1, <1>2 DEF GiveCommand
<1>4. PICK n \in Nat : n = Len(cmds) /\ DOMAIN cmds = 1..n
  BY DEF Inv
<1>5. DOMAIN cs2 = 1..(n + 1) /\ cs2[n + 1] = cmd /\ \A k \in 1..n : cs2[k] = cmds[k]
  BY <1>2, <1>4 DEF Inv
<1>6. Shaped(cmd) /\ \A i \in DOMAIN cmd.ids : ~Told(cmd, i)
  <2>1. /\ cmd.errs = [i \in DOMAIN ids |-> None] /\ cmd.answer = None /\ cmd.ids = ids
    BY <1>1
  <2>2. QED
    BY <2>1, NamesAssumption DEF Shaped, Told
<1>7. \A k \in 1..(n + 1) : k = n + 1 \/ k \in 1..n
  OBVIOUS
<1>8. Continues(cmds, cs2)
  <2>1. \A k \in DOMAIN cs2 : (k \in DOMAIN cmds /\ cs2[k] = cmds[k]) \/ cs2[k] = cmd
    BY <1>4, <1>5, <1>7
  <2>2. \A k \in DOMAIN cmds : k \in DOMAIN cs2 /\ cs2[k] = cmds[k]
    BY <1>4, <1>5
  <2>3. QED
    BY <1>6, <2>1, <2>2 DEF Continues
<1>9. ToSet(queue) \subseteq ToSet(queue')
  BY <1>3, OneMore DEF Inv
<1>10. UNCHANGED <<toModem, lost, mClientData, mGeofenceIds>>
  BY DEF GiveCommand, modemVars, maps
<1>11. QED
  BY <1>3, <1>8, <1>9, <1>10, MessageAdded

\* Only a command that is not an addition is written to.
LEMMA WriteContinues ==
  ASSUME Inv, NEW n \in DOMAIN cmds, cmds[n].op # "add", NEW i, NEW err,
         \/ Write(n, i, err) \/ cmds' = [cmds EXCEPT ![n].errs[i] = err]
  PROVE  Continues(cmds, cmds')
<1>1. PICK cs2 : cs2 = cmds'
  OBVIOUS
<1>2. PICK c \in Command : c = cmds[n]
  BY DEF Inv
<1>3. ASSUME Write(n, i, err)
      PROVE  \E d : cs2 = [cmds EXCEPT ![n] = d] /\ d.op = c.op /\ d.ids = c.ids
  <2>1. PICK errs : errs = IF c.freed THEN c.errs ELSE [c.errs EXCEPT ![i] = err]
    OBVIOUS
  <2>2. PICK answer : answer = IF c.client \in mClientData THEN errs ELSE None
    OBVIOUS
  <2>3. PICK d : d = IF i = Len(errs)
                     THEN [c EXCEPT !.errs = errs, !.freed = TRUE, !.answer = answer]
                     ELSE [c EXCEPT !.errs = errs]
    OBVIOUS
  <2>4. d.op = c.op /\ d.ids = c.ids
    BY <2>3 DEF Command
  <2>5. cmds' = [cmds EXCEPT ![n] = d]
    BY <1>2, <1>3, <2>1, <2>2, <2>3 DEF Write
  <2>6. QED
    BY <1>1, <2>4, <2>5
<1>4. ASSUME cmds' = [cmds EXCEPT ![n].errs[i] = err]
      PROVE  \E d : cs2 = [cmds EXCEPT ![n] = d] /\ d.op = c.op /\ d.ids = c.ids
  <2>1. PICK d : d = [c EXCEPT !.errs = [c.errs EXCEPT ![i] = err]]
    OBVIOUS
  <2>2. d.op = c.op /\ d.ids = c.ids
    BY <2>1 DEF Command
  <2>3. cmds' = [cmds EXCEPT ![n] = d]
    BY <1>2, <1>4, <2>1
  <2>4. QED
    BY <1>1, <2>2, <2>3
<1>5. PICK d : cs2 = [cmds EXCEPT ![n] = d] /\ d.op = c.op /\ d.ids = c.ids
  BY <1>3, <1>4
<1>6. /\ DOMAIN cs2 = DOMAIN cmds /\ cs2[n] = d
      /\ \A k \in DOMAIN cmds : k # n => cs2[k] = cmds[k]
  BY <1>5 DEF Inv
<1>7. Continues(cmds, cs2)
  BY <1>2, <1>5, <1>6 DEF Continues
<1>8. QED
  BY <1>1, <1>7

\* Calls of a function over 1..n.
LEMMA CallsGrow ==
  ASSUME Inv, NEW n \in Nat, NEW s, s = [k \in 1..n |-> s[k]], toModem' = toModem \o s
  PROVE  ToSet(toModem') = ToSet(toModem) \cup {s[k] : k \in 1..n}
<1>1. IsSeq(s)
  BY FunctionIsSeq
<1>2. ToSet(s) = {s[k] : k \in 1..n}
  BY DEF ToSet
<1>3. QED
  BY <1>1, <1>2, MoreCalls DEF Inv

LEMMA CommandSurvives ==
  ASSUME Inv, Survive, HandleCommand
  PROVE  Survive'
<1>1. PICK h : h = Head(queue)
  OBVIOUS
<1>2. queue # <<>> /\ h.op = "command" /\ queue' = Tail(queue)
  BY <1>1 DEF HandleCommand, Handling
<1>3. h.arg \in DOMAIN cmds
  BY <1>1, <1>2, FirstMessage DEF MsgOK
<1>4. PICK ids \in Seq(Ids) : ids = cmds[h.arg].ids
  <2>1. cmds[h.arg] \in Command
    BY <1>3 DEF Inv
  <2>2. QED
    BY <2>1 DEF Command
<1>5. PICK l \in Nat : l = Len(ids) /\ DOMAIN ids = 1..l
  OBVIOUS
<1>6. PICK s : s = [i \in 1..l |-> Call("sync", None, None, Msg("item", <<h.arg, i>>))]
  OBVIOUS
<1>7. toModem' = toModem \o s
  BY <1>1, <1>4, <1>5, <1>6 DEF HandleCommand, Calls, Arg
<1>8. s = [i \in 1..l |-> s[i]]
  BY <1>6
<1>9. ToSet(toModem) \subseteq ToSet(toModem')
  BY <1>5, <1>7, <1>8, CallsGrow
<1>10. UNCHANGED <<lost, mClientData, mGeofenceIds, cmds>>
  BY DEF HandleCommand, Calls, maps
<1>11. Continues(cmds, cmds')
  BY <1>10, SameCommands
<1>12. QED
  BY <1>1, <1>2, <1>9, <1>10, <1>11, MessageHandled

LEMMA NullCommandSurvives ==
  ASSUME Inv, Survive, HandleNullCommand
  PROVE  Survive'
<1>1. PICK h : h = Head(queue)
  OBVIOUS
<1>2. PICK n : n = h.arg
  OBVIOUS
<1>3. queue # <<>> /\ h.op = "command" /\ queue' = Tail(queue)
  BY <1>1 DEF HandleNullCommand, Handling
<1>4. n \in DOMAIN cmds
  BY <1>1, <1>2, <1>3, FirstMessage DEF MsgOK
<1>5. PICK c \in Command : c = cmds[n]
  BY <1>4 DEF Inv
<1>6. PICK errs : errs = [i \in DOMAIN c.ids |-> "invalid"]
  OBVIOUS
<1>7. PICK d : d = [c EXCEPT !.errs = errs]
  OBVIOUS
<1>8. /\ d.op = c.op /\ d.ids = c.ids /\ d.client = c.client
      /\ d.answer = c.answer /\ d.errs = errs
  BY <1>7 DEF Command
<1>9. PICK cs2 : cs2 = cmds'
  OBVIOUS
<1>10. cs2 = [cmds EXCEPT ![n] = d]
  BY <1>1, <1>2, <1>5, <1>6, <1>7, <1>9 DEF HandleNullCommand, Arg
<1>11. /\ DOMAIN cs2 = DOMAIN cmds /\ cs2[n] = d
       /\ \A k \in DOMAIN cmds : k # n => cs2[k] = cmds[k]
  BY <1>4, <1>10 DEF Inv
<1>12. Shaped(c) => Shaped(d)
  BY <1>6, <1>8 DEF Shaped
<1>13. \A i \in DOMAIN d.ids : Told(d, i) => Told(c, i)
  BY <1>6, <1>8 DEF Told
<1>14. Continues(cmds, cs2)
  <2>1. \A k \in DOMAIN cs2 : cs2[k] = cmds[k] \/ (k = n /\ cs2[k] = d /\ cmds[k] = c)
    BY <1>5, <1>11
  <2>2. ASSUME NEW k \in DOMAIN cs2
        PROVE  /\ cs2[k].op = cmds[k].op /\ cs2[k].ids = cmds[k].ids
               /\ cs2[k].client = cmds[k].client /\ (Shaped(cmds[k]) => Shaped(cs2[k]))
               /\ \A i \in DOMAIN cs2[k].ids : Told(cs2[k], i) => Told(cmds[k], i)
    BY <1>8, <1>12, <1>13, <2>1
  <2>3. QED
    BY <1>11, <2>2 DEF Continues
<1>15. Continues(cmds, cmds')
  BY <1>9, <1>14
<1>16. UNCHANGED <<lost, mClientData, mGeofenceIds, toModem>>
  BY DEF HandleNullCommand, modemVars, maps
<1>17. ToSet(toModem) \subseteq ToSet(toModem')
  BY <1>16
<1>18. QED
  BY <1>1, <1>3, <1>15, <1>16, <1>17, MessageHandled

LEMMA ItemSurvives ==
  ASSUME Inv, Survive, HandleItem
  PROVE  Survive'
<1>1. PICK h : h = Head(queue)
  OBVIOUS
<1>2. PICK n, i : n = h.arg[1] /\ i = h.arg[2]
  OBVIOUS
<1>3. queue # <<>> /\ h.op = "item" /\ queue' = Tail(queue)
  BY <1>1 DEF HandleItem, Handling
<1>4. n \in DOMAIN cmds
  BY <1>1, <1>2, <1>3, FirstMessage DEF MsgOK, IsItem
<1>5. UNCHANGED <<mClientData, mGeofenceIds>>
  BY DEF HandleItem, maps
<1>6. \A c : toModem' = toModem \o <<c>> => ToSet(toModem) \subseteq ToSet(toModem')
  <2> SUFFICES ASSUME NEW c, toModem' = toModem \o <<c>>
               PROVE  ToSet(toModem) \subseteq ToSet(toModem')
    OBVIOUS
  <2>1. PICK s : s = <<c>>
    OBVIOUS
  <2>2. s \in Seq({c})
    BY <2>1
  <2>3. IsSeq(s)
    BY <2>2, SeqIsSeq
  <2>4. ToSet(toModem \o s) = ToSet(toModem) \cup ToSet(s)
    BY <2>3, MoreCalls DEF Inv
  <2>5. QED
    BY <2>1, <2>4
<1>7. ToSet(toModem) \subseteq ToSet(toModem') /\ lost' = lost
  BY <1>6 DEF HandleItem, Calls, modemVars
<1>8. Continues(cmds, cmds')
  <2>1. CASE UNCHANGED cmds
    BY <2>1, SameCommands
  <2>2. CASE /\ cmds[n].op # "add"
             /\ \/ cmds' = [cmds EXCEPT ![n].errs[i] = "success"]
                \/ Write(n, i, "unknown")
    BY <1>4, <2>2, WriteContinues
  <2>3. QED
    BY <1>1, <1>2, <2>1, <2>2 DEF HandleItem, Arg
<1>9. QED
  BY <1>1, <1>3, <1>5, <1>7, <1>8, MessageHandled

LEMMA DoneSurvives ==
  ASSUME Inv, Survive, HandleDone
  PROVE  Survive'
<1>1. PICK h : h = Head(queue)
  OBVIOUS
<1>2. PICK n, i, hw : n = h.arg[1] /\ i = h.arg[2] /\ hw = h.arg[3]
  OBVIOUS
<1>3. queue # <<>> /\ h.op = "done" /\ queue' = Tail(queue)
  BY <1>1 DEF HandleDone, Handling
<1>4. n \in DOMAIN cmds /\ i \in DOMAIN cmds[n].ids /\ cmds[n].op # "add" /\ h \in ToSet(queue)
  BY <1>1, <1>2, <1>3, FirstMessage DEF MsgOK, IsItem
<1>5. UNCHANGED <<mClientData, toModem, lost>>
  BY DEF HandleDone, modemVars
<1>6. Continues(cmds, cmds')
  <2>1. CASE UNCHANGED cmds
    BY <2>1, SameCommands
  <2>2. CASE \E err : Write(n, i, err)
    BY <1>4, <2>2, WriteContinues
  <2>3. QED
    BY <1>1, <1>2, <2>1, <2>2 DEF HandleDone, Arg
<1>7. ASSUME NEW id \in DOMAIN mGeofenceIds
      PROVE  id \in DOMAIN mGeofenceIds' \/ Named(cmds', id)
  <2>1. CASE UNCHANGED mGeofenceIds
    BY <2>1
  <2>2. CASE h.ok /\ cmds[n].op = "remove" /\ RemoveItem(hw) /\ ~UNCHANGED mGeofenceIds
    <3>1. /\ hw \in DOMAIN mGeofences
          /\ mGeofenceIds' = Without(mGeofenceIds, {mGeofences[hw].id})
      BY <2>2 DEF RemoveItem, maps
    <3>2. mGeofences[hw].id = cmds[n].ids[i]
      BY <1>2, <1>3, <1>4, <2>2, <3>1 DEF Inv, Good, DoneOK
    <3>3. Named(cmds, cmds[n].ids[i])
      BY <1>4, <2>2 DEF Named
    <3>4. Named(cmds', cmds[n].ids[i])
      BY <1>6, <3>3, StillNamed
    <3>5. id \in DOMAIN mGeofenceIds' \/ id = mGeofences[hw].id
      BY <3>1 DEF Without
    <3>6. QED
      BY <3>2, <3>4, <3>5
  <2>3. QED
    BY <1>1, <1>2, <2>1, <2>2 DEF HandleDone, ChangeItem, Arg, Ok, maps
<1>8. QED
  BY <1>1, <1>3, <1>5, <1>6, <1>7, MessageHandled

LEMMA RemoveClientSurvives ==
  ASSUME Inv, Survive, HandleRemoveClient
  PROVE  Survive'
<1>1. PICK h : h = Head(queue)
  OBVIOUS
<1>2. PICK c : c = h.arg
  OBVIOUS
<1>3. queue # <<>> /\ h.op = "removeClient" /\ queue' = Tail(queue)
  BY <1>1 DEF HandleRemoveClient, Handling
<1>4. PICK own : own = DOMAIN mGeofenceIds \cap OwnIds(c)
  OBVIOUS
<1>5. \A id : id \in OwnIds(c) <=> Owns(cmds, c, id)
  BY DEF OwnIds, Owns, ToSet
<1>6. mGeofenceIds' = Without(mGeofenceIds, own) /\ mClientData' = mClientData \ {c}
  BY <1>1, <1>2, <1>4 DEF HandleRemoveClient, Arg
<1>7. IsFiniteSet(own)
  <2>1. own \in SUBSET Ids
    BY <1>4, <1>5 DEF Owns, Inv, Good, CmdsOK
  <2>2. QED
    BY <2>1, IdsFinite, FS_Subset
<1>8. PICK s : /\ s \in InOrder(own)
               /\ Calls([k \in DOMAIN s |-> LET hw == mGeofenceIds[s[k]]
                                            IN Call("remove", hw, None, Msg("erased", hw))])
  BY <1>1, <1>2, <1>4 DEF HandleRemoveClient, Arg
<1>9. PICK n \in Nat : DOMAIN s = 1..n
  BY <1>7, <1>8, KeysInOrder
<1>10. PICK calls : calls = [k \in 1..n |-> Call("remove", mGeofenceIds[s[k]], None,
                                                 Msg("erased", mGeofenceIds[s[k]]))]
  OBVIOUS
<1>11. toModem' = toModem \o calls /\ lost' = lost
  BY <1>8, <1>9, <1>10 DEF Calls
<1>12. calls = [k \in 1..n |-> calls[k]]
  BY <1>10
<1>13. ToSet(toModem) \subseteq ToSet(toModem')
  BY <1>9, <1>11, <1>12, CallsGrow
<1>14. ASSUME NEW id \in DOMAIN mGeofenceIds, id \notin DOMAIN mGeofenceIds'
       PROVE  \A d \in mClientData' : ~Owns(cmds, d, id)
  <2>1. Owns(cmds, c, id)
    BY <1>4, <1>5, <1>6, <1>14 DEF Without
  <2>2. \A d : Owns(cmds, d, id) => d = c
    BY <2>1 DEF Owns, Inv, Good, CmdsOK
  <2>3. QED
    BY <1>6, <2>2
<1>15. UNCHANGED cmds /\ Continues(cmds, cmds')
  BY SameCommands DEF HandleRemoveClient
<1>16. QED
  BY <1>1, <1>3, <1>6, <1>11, <1>13, <1>14, <1>15, MessageHandled

LEMMA EngineUpSurvives ==
  ASSUME Inv, Survive, HandleEngineUp
  PROVE  Survive'
<1>1. PICK h : h = Head(queue)
  OBVIOUS
<1>2. queue # <<>> /\ h.op = "engineUp" /\ queue' = Tail(queue)
  BY <1>1 DEF HandleEngineUp, Handling
<1>3. PICK s : /\ s \in InOrder(DOMAIN mGeofences)
               /\ Calls([k \in DOMAIN s |->
                           LET object == mGeofences[s[k]]
                           IN Call("add", None, [object EXCEPT !.paused = FALSE],
                                   Msg("restored", object))])
  BY DEF HandleEngineUp
<1>4. PICK n \in Nat : DOMAIN s = 1..n
  BY <1>3, GeofencesFinite, KeysInOrder
<1>5. PICK calls : calls = [k \in 1..n |-> Readdition(mGeofences[s[k]])]
  OBVIOUS
<1>6. toModem' = toModem \o calls /\ lost' = lost
  BY <1>3, <1>4, <1>5 DEF Calls, Readdition
<1>7. /\ calls = [k \in 1..n |-> calls[k]]
      /\ \A k \in 1..n : calls[k] = Readdition(mGeofences[s[k]])
  BY <1>5
<1>8. ToSet(toModem') = ToSet(toModem) \cup {calls[k] : k \in 1..n}
  BY <1>4, <1>6, <1>7, CallsGrow
<1>9. \A hw \in DOMAIN mGeofences : \E k \in 1..n : s[k] = hw
  BY <1>3, <1>4 DEF InOrder, Bijection, Surjection
<1>10. ASSUME NEW id \in DOMAIN mGeofenceIds
       PROVE  \E c \in ToSet(toModem') : Returns(c.then, id)
  <2>1. PICK hw \in DOMAIN mGeofences : mGeofences[hw].id = id
    BY DEF Inv, Good, MapsOK
  <2>2. PICK k \in 1..n : s[k] = hw
    BY <1>9
  <2>3. PICK o : o = mGeofences[hw]
    OBVIOUS
  <2>4. PICK c : c = Readdition(o)
    OBVIOUS
  <2>5. c.then.op = "restored" /\ c.then.arg = o
    BY <2>4 DEF Readdition, Call, Msg
  <2>6. c \in ToSet(toModem')
    BY <1>7, <1>8, <2>2, <2>3, <2>4
  <2>7. QED
    BY <2>1, <2>3, <2>5, <2>6 DEF Returns
<1>11. UNCHANGED <<mClientData, cmds>> /\ Continues(cmds, cmds')
  BY SameCommands DEF HandleEngineUp
<1>12. QED
  BY <1>1, <1>2, <1>6, <1>8, <1>10, <1>11, MessageHandled

\* A geofence is saved when its addition was a success, or it returns.
LEMMA AddedSurvives ==
  ASSUME Inv, Survive, HandleAdded
  PROVE  Survive'
<1>1. PICK h : h = Head(queue)
  OBVIOUS
<1>2. PICK n, i, object : n = h.arg[1] /\ i = h.arg[2] /\ object = h.arg[3]
  OBVIOUS
<1>3. queue # <<>> /\ h.op = "added" /\ queue' = Tail(queue)
  BY <1>1 DEF HandleAdded, Handling
<1>4. /\ n \in DOMAIN cmds /\ i \in DOMAIN cmds[n].ids /\ cmds[n].op = "add"
      /\ object.id = cmds[n].ids[i]
  BY <1>1, <1>2, <1>3, FirstMessage DEF MsgOK, IsItem
<1>5. UNCHANGED <<mClientData, toModem, lost>>
  BY DEF HandleAdded, modemVars
<1>6. PICK c \in Command : c = cmds[n]
  BY <1>4 DEF Inv
<1>7. PICK Q, T, M : Q = ToSet(queue) /\ T = ToSet(Tail(queue)) /\ M = ToSet(toModem)
  OBVIOUS
<1>8. PICK ids2, cs2 : ids2 = mGeofenceIds' /\ cs2 = cmds'
  OBVIOUS
<1>9. DOMAIN mGeofenceIds \subseteq DOMAIN ids2 /\ (h.ok => object.id \in DOMAIN ids2)
  <2>1. CASE h.ok
    BY <1>1, <1>2, <1>8, <2>1 DEF HandleAdded, Ok, Arg, Save, With
  <2>2. CASE ~h.ok
    BY <1>1, <1>8, <2>2 DEF HandleAdded, Ok, maps
  <2>3. QED
    BY <2>1, <2>2
<1>10. PICK err : err = Result
  OBVIOUS
<1>11. err = "success" => h.ok
  BY <1>1, <1>10 DEF Result, Ok
<1>12. PICK errs : errs = IF c.freed THEN c.errs ELSE [c.errs EXCEPT ![i] = err]
  OBVIOUS
<1>13. PICK answer : answer = IF c.client \in mClientData THEN errs ELSE None
  OBVIOUS
<1>14. PICK d : d = IF i = Len(errs)
                    THEN [c EXCEPT !.errs = errs, !.freed = TRUE, !.answer = answer]
                    ELSE [c EXCEPT !.errs = errs]
  OBVIOUS
<1>15. cs2 = [cmds EXCEPT ![n] = d]
  <2>1. Write(n, i, err)
    BY <1>1, <1>2, <1>10 DEF HandleAdded, Arg
  <2>2. QED
    BY <1>6, <1>8, <1>12, <1>13, <1>14, <2>1 DEF Write
<1>16. /\ d.op = c.op /\ d.ids = c.ids /\ d.client = c.client /\ d.errs = errs
       /\ d.answer \in {c.answer, errs, None}
  BY <1>13, <1>14 DEF Command
<1>17. /\ DOMAIN cs2 = DOMAIN cmds /\ cs2[n] = d
       /\ \A k \in DOMAIN cmds : k # n => cs2[k] = cmds[k]
  BY <1>4, <1>15 DEF Inv
<1>18. SurviveOK(Q, M, mGeofenceIds, cmds, lost, mClientData)
  BY <1>7 DEF Survive
<1>19. Q = {h} \cup T
  BY <1>1, <1>3, <1>7, OneLess DEF Inv
<1>20. \A id : Named(cmds, id) => Named(cs2, id)
  BY <1>6, <1>16, <1>17 DEF Named
<1>21. \A id : Stays(id, Q, M, mGeofenceIds, cmds, lost) => Stays(id, T, M, ids2, cs2, lost)
  <2> SUFFICES ASSUME NEW id, Stays(id, Q, M, mGeofenceIds, cmds, lost)
               PROVE  Stays(id, T, M, ids2, cs2, lost)
    OBVIOUS
  <2>1. ~Returns(h, id)
    BY <1>3 DEF Returns
  <2>2. QED
    BY <1>9, <1>19, <1>20, <2>1 DEF Stays
<1>22. Shaped(c) /\ DOMAIN errs = DOMAIN c.errs
  BY <1>4, <1>6, <1>12, <1>18 DEF SurviveOK
<1>23. Shaped(d)
  BY <1>16, <1>22 DEF Shaped
<1>24. ASSUME NEW j \in DOMAIN d.ids, Told(d, j), d.client \in mClientData
       PROVE  Stays(d.ids[j], T, M, ids2, cs2, lost)
  <2>1. j \in DOMAIN c.errs
    BY <1>16, <1>22 DEF Shaped
  <2>2. Told(c, j) \/ (j = i /\ errs[j] = "success" /\ err = "success")
    <3>1. errs[j] = "success" \/ (d.answer = c.answer /\ c.answer # None /\ c.answer[j] = "success")
      BY <1>16, <1>24 DEF Told
    <3>2. errs[j] = c.errs[j] \/ (j = i /\ errs[j] = err)
      BY <1>12, <2>1
    <3>3. QED
      BY <3>1, <3>2 DEF Told
  <2>3. CASE Told(c, j)
    BY <1>4, <1>6, <1>16, <1>18, <1>21, <1>24, <2>3 DEF SurviveOK
  <2>4. CASE j = i /\ err = "success"
    <3>1. d.ids[j] \in DOMAIN ids2
      BY <1>4, <1>6, <1>9, <1>11, <1>16, <2>4
    <3>2. QED
      BY <3>1 DEF Stays
  <2>5. QED
    BY <2>2, <2>3, <2>4
<1>25. SurviveOK(T, M, ids2, cs2, lost, mClientData)
  <2> SUFFICES ASSUME NEW k \in DOMAIN cs2, cs2[k].op = "add"
               PROVE  /\ Shaped(cs2[k])
                      /\ cs2[k].client \in mClientData => \A j \in DOMAIN cs2[k].ids :
                           Told(cs2[k], j) => Stays(cs2[k].ids[j], T, M, ids2, cs2, lost)
    BY DEF SurviveOK
  <2>1. CASE k = n
    BY <1>17, <1>23, <1>24, <2>1
  <2>2. CASE k # n
    BY <1>17, <1>18, <1>21, <2>2 DEF SurviveOK
  <2>3. QED
    BY <2>1, <2>2
<1>26. QED
  BY <1>3, <1>5, <1>7, <1>8, <1>25 DEF Survive

LEMMA RestoredSurvives ==
  ASSUME Inv, Survive, HandleRestored
  PROVE  Survive'
<1>1. PICK h : h = Head(queue)
  OBVIOUS
<1>2. queue # <<>> /\ h.op = "restored" /\ queue' = Tail(queue)
  BY <1>1 DEF HandleRestored, Handling
<1>3. UNCHANGED <<mClientData, cmds>> /\ lost' = lost
  BY DEF HandleRestored, Calls, modemVars
<1>4. Continues(cmds, cmds)
  BY SameCommands
<1>5. PICK Q, T, M : Q = ToSet(queue) /\ T = ToSet(Tail(queue)) /\ M = ToSet(toModem)
  OBVIOUS
<1>6. PICK ids2, M2 : ids2 = mGeofenceIds' /\ M2 = ToSet(toModem')
  OBVIOUS
<1>7. Q = {h} \cup T
  BY <1>1, <1>2, <1>5, OneLess DEF Inv
<1>8. M \subseteq M2
  <2>1. CASE \E s : IsSeq(s) /\ toModem' = toModem \o s
    BY <1>5, <1>6, <2>1, MoreCalls DEF Inv
  <2>2. CASE toModem' = toModem
    BY <1>5, <1>6, <2>2
  <2>3. IsSeq(<<>>)
    BY DEF IsSeq
  <2>4. \A c : IsSeq(<<c>>)
    <3> SUFFICES ASSUME NEW c
                 PROVE  IsSeq(<<c>>)
      OBVIOUS
    <3>1. <<c>> \in Seq({c})
      OBVIOUS
    <3>2. QED
      BY <3>1, SeqIsSeq
  <2>5. \/ toModem' = toModem
        \/ toModem' = toModem \o <<>>
        \/ \E c : toModem' = toModem \o <<c>>
    BY DEF HandleRestored, Calls, modemVars
  <2>6. QED
    BY <2>1, <2>2, <2>3, <2>4, <2>5
<1>9. DOMAIN mGeofenceIds \subseteq DOMAIN ids2 /\ (h.ok => h.arg.id \in DOMAIN ids2)
  <2>1. CASE h.ok
    BY <1>1, <1>6, <2>1 DEF HandleRestored, Ok, Arg, Save, With
  <2>2. CASE ~h.ok
    BY <1>1, <1>6, <2>2 DEF HandleRestored, Ok, maps
  <2>3. QED
    BY <2>1, <2>2
<1>10. SurviveOK(Q, M, mGeofenceIds, cmds, lost, mClientData)
  BY <1>5 DEF Survive
<1>11. \A m \in Q : m.ok /\ m.op = "restored" => m \in T \/ m.arg.id \in lost \cup DOMAIN ids2
  BY <1>7, <1>9
<1>12. SurviveOK(T, M2, ids2, cmds, lost, mClientData)
  BY <1>4, <1>8, <1>9, <1>10, <1>11, NothingLost
<1>13. QED
  BY <1>2, <1>3, <1>5, <1>6, <1>12 DEF Survive

LEMMA AnswerSurvives ==
  ASSUME Inv, Survive, toModem # <<>>, NEW ok \in BOOLEAN, NEW hw, Answer(ok, hw)
  PROVE  Survive'
<1>1. PICK call : call = Head(toModem)
  OBVIOUS
<1>2. PICK Q, M, M2 : Q = ToSet(queue) /\ M = ToSet(toModem) /\ M2 = ToSet(Tail(toModem))
  OBVIOUS
<1>3. M = {call} \cup M2
  BY <1>1, <1>2, OneLess DEF Inv
<1>4. PICK m : m = AnswerOf(call, ok, hw)
  OBVIOUS
<1>5. queue' = Append(queue, m) /\ toModem' = Tail(toModem)
  BY <1>1, <1>4 DEF Answer, AnswerOf
<1>6. CallOK(cmds, call)
  BY <1>2, <1>3 DEF Inv, Good, MsgsOK
<1>7. m.op = call.then.op /\ m.arg = call.then.arg /\ m.ok = ok
  BY <1>4, <1>6, AnswerShape
<1>8. ToSet(queue') = Q \cup {m}
  BY <1>2, <1>5, OneMore DEF Inv
<1>9. PICK lo2 : lo2 = lost'
  OBVIOUS
<1>10. lost \subseteq lo2 /\ (~ok /\ call.then.op = "restored" => call.then.arg.id \in lo2)
  <2>1. lo2 = lost \cup (IF ok THEN {} ELSE Restored(<<call>>))
    BY <1>1, <1>9 DEF Answer
  <2>2. call \in ToSet(<<call>>)
    BY DEF ToSet
  <2>3. call.then.op = "restored" => call.then.arg.id \in Restored(<<call>>)
    BY <2>2 DEF Restored
  <2>4. QED
    BY <2>1, <2>3
<1>11. UNCHANGED <<mGeofenceIds, cmds, mClientData>>
  BY DEF Answer, maps
<1>12. SurviveOK(Q, M, mGeofenceIds, cmds, lost, mClientData) /\ Continues(cmds, cmds)
  BY <1>2, SameCommands DEF Survive
<1>13. PICK Q2 : Q2 = Q \cup {m}
  OBVIOUS
<1>14. \A c \in M : c.then.op = "restored" =>
         \/ c \in M2 \/ c.then.arg.id \in lo2
         \/ \E d \in Q2 : d.ok /\ Returns(d, c.then.arg.id)
  <2>1. CASE ok
    <3>1. call.then.op = "restored" => Returns(m, call.then.arg.id) /\ m.ok
      BY <1>7, <2>1 DEF Returns
    <3>2. QED
      BY <1>3, <1>13, <3>1
  <2>2. CASE ~ok
    BY <1>3, <1>10, <2>2
  <2>3. QED
    BY <2>1, <2>2
<1>15. Q \subseteq Q2
  BY <1>13
<1>16. SurviveOK(Q2, M2, mGeofenceIds, cmds, lo2, mClientData)
  BY <1>10, <1>12, <1>14, <1>15, NothingLost
<1>17. QED
  BY <1>2, <1>5, <1>8, <1>9, <1>11, <1>13, <1>16 DEF Survive

LEMMA RestartSurvives ==
  ASSUME Inv, Survive, ModemRestarts
  PROVE  Survive'
<1>1. PICK f : f = [k \in DOMAIN toModem |-> Failure(toModem[k])]
  OBVIOUS
<1>2. PICK up : up = Msg("engineUp", None)
  OBVIOUS
<1>3. queue' = queue \o f \o <<up>> /\ toModem' = <<>>
  BY <1>1, <1>2 DEF ModemRestarts, Failure
<1>4. PICK l \in Nat : DOMAIN toModem = 1..l
  BY DEF Inv, IsSeq
<1>5. IsSeq(f)
  BY <1>1, <1>4, FunctionIsSeq
<1>6. PICK S : S = ToSet(queue) \cup ToSet(f) \cup {up}
  OBVIOUS
<1>7. queue \in Seq(S) /\ f \in Seq(S) /\ <<up>> \in Seq(S)
  BY <1>5, <1>6, SeqOfMore DEF Inv, IsSeq
<1>8. queue \o f \in Seq(S) /\ ToSet(queue) \subseteq ToSet(queue \o f)
  BY <1>7, ConcatSet
<1>9. ToSet(queue) \subseteq ToSet(queue')
  <2>1. PICK a : a = queue \o f
    OBVIOUS
  <2>2. PICK u : u = <<up>>
    OBVIOUS
  <2>3. ToSet(a \o u) = ToSet(a) \cup ToSet(u)
    <3>1. a \in Seq(S) /\ u \in Seq(S)
      BY <1>7, <1>8, <2>1, <2>2
    <3>2. QED
      BY <3>1, ConcatSet
  <2>4. queue' = a \o u
    BY <1>3, <2>1, <2>2
  <2>5. QED
    BY <1>8, <2>1, <2>3, <2>4
<1>10. PICK Q, Q2, M, lo2 :
         Q = ToSet(queue) /\ Q2 = ToSet(queue') /\ M = ToSet(toModem) /\ lo2 = lost'
  OBVIOUS
<1>11. ToSet(toModem') = {}
  BY <1>3 DEF ToSet
<1>12. lo2 = lost \cup Restored(toModem)
  BY <1>10 DEF ModemRestarts
<1>13. \A c \in M : c.then.op = "restored" => c.then.arg.id \in lo2
  BY <1>10, <1>12 DEF Restored
<1>14. SurviveOK(Q, M, mGeofenceIds, cmds, lost, mClientData) /\ Continues(cmds, cmds)
  BY <1>10, SameCommands DEF Survive
<1>15. SurviveOK(Q2, {}, mGeofenceIds, cmds, lo2, mClientData)
  <2>1. /\ Q \subseteq Q2 /\ lost \subseteq lo2
        /\ \A c \in M : c.then.op = "restored" =>
             \/ c \in {} \/ c.then.arg.id \in lo2
             \/ \E d \in Q2 : d.ok /\ Returns(d, c.then.arg.id)
    BY <1>9, <1>10, <1>12, <1>13
  <2>2. QED
    BY <1>14, <2>1, NothingLost
<1>16. UNCHANGED <<mGeofenceIds, cmds, mClientData>>
  BY DEF ModemRestarts, maps
<1>17. QED
  BY <1>10, <1>11, <1>15, <1>16 DEF Survive

LEMMA SurviveKept ==
  ASSUME Inv, Survive, ~ReusesIds, [Next]_vars
  PROVE  Survive'
<1>1. CASE ClientNext
  <2>1. PICK c \in Clients :
          \/ \E count \in 1..MaxCount, whole \in BOOLEAN : AddGeofences(c, count, whole)
          \/ \E ids \in SeqOf(OwnIds(c), MaxCount) :
               \/ \E op \in {"remove", "pause", "resume"} : OnGeofences(op, c, ids, None, TRUE)
               \/ \E mask \in Masks, whole \in BOOLEAN :
                    OnGeofences("modify", c, ids, mask, whole)
          \/ Destroy(c)
    BY <1>1 DEF ClientNext
  <2>2. ASSUME NEW count, NEW whole, AddGeofences(c, count, whole)
        PROVE  Survive'
    BY <2>2, GivenSurvives DEF AddGeofences
  <2>3. ASSUME NEW ids, NEW op, NEW mask, NEW whole, OnGeofences(op, c, ids, mask, whole)
        PROVE  Survive'
    BY <2>3, GivenSurvives DEF OnGeofences
  <2>4. CASE Destroy(c)
    <3>1. ToSet(queue) \subseteq ToSet(queue')
      BY <2>4, OneMore DEF Destroy, Inv
    <3>2. UNCHANGED <<toModem, lost, mClientData, mGeofenceIds, cmds>>
      BY <2>4 DEF Destroy, modemVars, maps
    <3>3. QED
      BY <3>1, <3>2, SameCommands, MessageAdded
  <2>5. QED
    BY <2>1, <2>2, <2>3, <2>4
<1>2. CASE TaskNext
  <2>1. CASE HandleErased \/ HandleIgnored \/ HandleBreach
    <3>1. /\ queue # <<>> /\ queue' = Tail(queue)
          /\ Head(queue).op \in {"erased", "ignored", "breach"}
      BY <2>1 DEF HandleErased, HandleIgnored, HandleBreach, Handling
    <3>2. UNCHANGED <<toModem, lost, mClientData, mGeofenceIds, cmds>>
      BY <2>1 DEF HandleErased, HandleIgnored, HandleBreach, modemVars, maps
    <3>3. Continues(cmds, cmds')
      BY <3>2, SameCommands
    <3>4. QED
      BY <3>1, <3>2, <3>3, MessageHandled
  <2>2. QED
    BY <1>2, <2>1, CommandSurvives, NullCommandSurvives, ItemSurvives, AddedSurvives, DoneSurvives,
       RemoveClientSurvives, EngineUpSurvives, RestoredSurvives DEF TaskNext
<1>3. CASE ModemAnswers
  <2>1. toModem # <<>> /\ \E ok \in BOOLEAN : \E hw : Answer(ok, hw)
    BY <1>3 DEF ModemAnswers, ModemActs, ModemRefuses
  <2>2. QED
    BY <2>1, AnswerSurvives
<1>4. CASE ModemRestarts
  BY <1>4, RestartSurvives
<1>5. ASSUME NEW hw \in DOMAIN modem, ModemBreach(hw)
      PROVE  Survive'
  <2>1. ToSet(queue) \subseteq ToSet(queue')
    BY <1>5, OneMore DEF ModemBreach, Inv
  <2>2. UNCHANGED <<toModem, lost, mClientData, mGeofenceIds, cmds>>
    BY <1>5 DEF ModemBreach, maps
  <2>3. QED
    BY <2>1, <2>2, SameCommands, MessageAdded
<1>6. CASE UNCHANGED vars
  BY <1>6 DEF vars, maps, modemVars, Survive
<1>7. QED
  BY <1>1, <1>2, <1>3, <1>4, <1>5, <1>6 DEF Next

-----------------------------------------------------------------------------
(***************************************************************************)
(* The theorems, for a modem that takes no call before the adapter knows   *)
(* it has restarted, and gives out no hardware id twice between restarts.  *)
(***************************************************************************)
\* An id leads to the object of its geofence, and the object of a client that is there
\* has its id: saveGeofenceItem(), removeGeofenceItem(), stopClientSessions() and
\* restartGeofences() keep the two maps the inverse of each other, whatever calls of
\* removed geofences and clients are under way.
THEOREM TheMapsAgree ==
  ASSUME ~EarlyCalls, ~ReusesIds
  PROVE  Spec => []MapsAgree
<1>1. Inv => MapsAgree
  BY DEF Inv, Good, MapsOK, MapsAgree
<1>2. QED
  BY <1>1, AtFirst, Kept, PTL DEF Spec

\* When nothing is under way, the modem and the adapter have the same geofences of the
\* clients that are there, with the same options: no order of responses, refusals,
\* restarts and commands makes them differ for good.
THEOREM TheModemAgrees ==
  ASSUME ~EarlyCalls, ~ReusesIds
  PROVE  Spec => []ModemAgrees
<1>1. ASSUME Inv, Quiet
      PROVE  /\ DOMAIN modem \subseteq DOMAIN mGeofences
             /\ \A hw \in DOMAIN mGeofences :
                  /\ mGeofences[hw].client \in mClientData => hw \in DOMAIN modem
                  /\ hw \in DOMAIN modem => /\ modem[hw].id = mGeofences[hw].id
                                            /\ modem[hw].mask = mGeofences[hw].mask
  <2>1. ToSet(queue) = {} /\ DOMAIN queue = {}
    BY <1>1 DEF Quiet, ToSet
  <2>2. ~Up(ToSet(queue))
    BY <2>1 DEF Up
  <2>3. \A hw \in DOMAIN modem : hw \in DOMAIN mGeofences /\ mGeofences[hw].id = modem[hw].id
    BY <1>1, <2>1 DEF Inv, Good, ModemOK
  <2>4. \A hw \in DOMAIN mGeofences : mGeofences[hw].client \in mClientData => hw \in DOMAIN modem
    BY <1>1, <2>1, <2>2 DEF Inv, Good, ModemOK
  <2>5. \A hw \in DOMAIN modem : mGeofences[hw].mask = modem[hw].mask
    BY <1>1, <2>1, <2>3 DEF Inv, Good, MaskOK, SaysLast
  <2>6. QED
    BY <2>3, <2>4, <2>5
<1>2. Inv => ModemAgrees
  BY <1>1 DEF ModemAgrees
<1>3. QED
  BY <1>2, AtFirst, Kept, PTL DEF Spec

\* A geofence whose addition reportResponse() told as a success is there until a command
\* names it for removal, its client goes or the modem does not take it back:
\* restartGeofences() loses none.
THEOREM TheGeofencesSurvive ==
  ASSUME ~EarlyCalls, ~ReusesIds
  PROVE  Spec => []GeofencesSurvive
<1>1. Init => Survive
  BY DEF Init, Survive, SurviveOK
<1>2. ASSUME Survive, Quiet, NEW n \in DOMAIN cmds, cmds[n].op = "add",
             cmds[n].client \in mClientData, cmds[n].answer # None, NEW i \in DOMAIN cmds[n].ids
      PROVE  \/ cmds[n].answer[i] # "success"
             \/ cmds[n].ids[i] \in lost \cup DOMAIN mGeofenceIds
             \/ \E k \in DOMAIN cmds :
                  cmds[k].op = "remove" /\ cmds[n].ids[i] \in ToSet(cmds[k].ids)
  <2>1. ToSet(queue) = {} /\ ToSet(toModem) = {}
    BY <1>2 DEF Quiet, ToSet
  <2>2. cmds[n].answer[i] = "success" =>
          Stays(cmds[n].ids[i], {}, {}, mGeofenceIds, cmds, lost)
    BY <1>2, <2>1 DEF Survive, SurviveOK, Told
  <2>3. QED
    BY <2>2 DEF Stays, Named, ToSet
<1>3. Survive => GeofencesSurvive
  BY <1>2 DEF GeofencesSurvive
<1>4. Inv /\ Survive /\ [Next]_vars => Inv' /\ Survive'
  BY Kept, SurviveKept
<1>5. Init => Inv /\ Survive
  BY <1>1, AtFirst
<1>6. QED
  BY <1>3, <1>4, <1>5, PTL DEF Spec

\* geofenceBreach() reports a breach under the id of the geofence that was breached,
\* although it looks up the hardware id only when the message is handled.
THEOREM BreachesAreTrue ==
  ASSUME ~EarlyCalls, ~ReusesIds
  PROVE  Spec => []BreachIsOfItsGeofence
<1>1. Init => BreachIsOfItsGeofence
  BY DEF Init, BreachIsOfItsGeofence
<1>2. ASSUME Inv, BreachIsOfItsGeofence, [Next]_vars
      PROVE  BreachIsOfItsGeofence'
  <2>1. CASE UNCHANGED notified
    BY <1>2, <2>1 DEF BreachIsOfItsGeofence
  <2>2. CASE HandleBreach
    <3>1. PICK h : h = Head(queue)
      OBVIOUS
    <3>2. PICK hw, id : hw = h.arg[1] /\ id = h.arg[2]
      OBVIOUS
    <3>3. queue # <<>> /\ h.op = "breach" /\ h \in ToSet(queue)
      BY <1>2, <2>2, <3>1, FirstMessage DEF HandleBreach, Handling
    <3>4. hw \in DOMAIN mGeofences => mGeofences[hw].id = id
      BY <1>2, <3>2, <3>3 DEF Inv, Good, BreachOK
    <3>5. PICK b : b = [breached |-> id, client |-> mGeofences[hw].client,
                        id |-> mGeofences[hw].id]
      OBVIOUS
    <3>6. b.breached = id /\ b.id = mGeofences[hw].id
      BY <3>5
    <3>7. notified' = notified \/ (hw \in DOMAIN mGeofences /\ notified' = notified \cup {b})
      BY <2>2, <3>1, <3>2, <3>5 DEF HandleBreach, Arg
    <3>8. QED
      BY <1>2, <3>4, <3>6, <3>7 DEF BreachIsOfItsGeofence
  <2>3. CASE ClientNext
    <3>1. UNCHANGED notified
      BY <2>3 DEF ClientNext, AddGeofences, OnGeofences, GiveCommand, Destroy
    <3>2. QED
      BY <2>1, <3>1
  <2>4. CASE TaskNext /\ ~HandleBreach
    <3>1. UNCHANGED notified
      BY <2>4 DEF TaskNext, HandleCommand, HandleNullCommand, HandleItem, HandleAdded,
         HandleDone, HandleErased, HandleRemoveClient, HandleEngineUp, HandleRestored, HandleIgnored
    <3>2. QED
      BY <2>1, <3>1
  <2>5. CASE ModemAnswers \/ ModemRestarts
    <3>1. UNCHANGED notified
      BY <2>5 DEF ModemAnswers, ModemActs, ModemRefuses, Answer, ModemRestarts
    <3>2. QED
      BY <2>1, <3>1
  <2>6. ASSUME NEW hw \in DOMAIN modem, ModemBreach(hw)
        PROVE  BreachIsOfItsGeofence'
    <3>1. UNCHANGED notified
      BY <2>6 DEF ModemBreach
    <3>2. QED
      BY <2>1, <3>1
  <2>7. CASE UNCHANGED vars
    BY <2>1, <2>7 DEF vars
  <2>8. QED
    BY <1>2, <2>2, <2>3, <2>4, <2>5, <2>6, <2>7 DEF Next
<1>3. Inv /\ BreachIsOfItsGeofence /\ [Next]_vars => Inv' /\ BreachIsOfItsGeofence'
  BY <1>2, Kept
<1>4. Init => Inv /\ BreachIsOfItsGeofence
  BY <1>1, AtFirst
<1>5. QED
  BY <1>3, <1>4, PTL DEF Spec
=============================================================================
