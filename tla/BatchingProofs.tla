--------------------------- MODULE BatchingProofs ---------------------------
(***************************************************************************)
(* What is proved of the batching sessions, for every set of clients,      *)
(* every width of a distance and all bounds.                               *)
(***************************************************************************)
EXTENDS Batching, FiniteSetTheorems, SequenceTheorems, WellFoundedInduction, TLAPS

-----------------------------------------------------------------------------
(***************************************************************************)
(* Sequences, their elements and the order of these.                       *)
(***************************************************************************)
LEMMA TailSet ==
  ASSUME NEW S, NEW q \in Seq(S), q # <<>>
  PROVE  /\ Tail(q) \in Seq(S) /\ Head(q) \in ToSet(q)
         /\ ToSet(q) = {Head(q)} \cup ToSet(Tail(q))
<1>1. PICK n \in Nat : n = Len(q)
  OBVIOUS
<1>2. /\ DOMAIN q = 1..n /\ DOMAIN Tail(q) = 1..(n - 1) /\ n >= 1 /\ Head(q) = q[1]
      /\ \A k \in 1..(n - 1) : Tail(q)[k] = q[k + 1]
  BY <1>1
<1>3. \A k \in 1..n : k = 1 \/ (k - 1 \in 1..(n - 1) /\ (k - 1) + 1 = k)
  BY <1>2
<1>4. \A k \in 1..(n - 1) : k + 1 \in 1..n
  BY <1>2
<1>5. 1 \in 1..n
  BY <1>2
<1>6. ToSet(q) \subseteq {Head(q)} \cup ToSet(Tail(q))
  <2> SUFFICES ASSUME NEW k \in 1..n
               PROVE  q[k] \in {Head(q)} \cup ToSet(Tail(q))
    BY <1>2 DEF ToSet
  <2>1. CASE k = 1
    BY <1>2, <2>1
  <2>2. CASE k - 1 \in 1..(n - 1) /\ (k - 1) + 1 = k
    <3>1. Tail(q)[k - 1] = q[k]
      BY <1>2, <2>2
    <3>2. QED
      BY <1>2, <2>2, <3>1 DEF ToSet
  <2>3. QED
    BY <1>3, <2>1, <2>2
<1>7. {Head(q)} \cup ToSet(Tail(q)) \subseteq ToSet(q)
  <2>1. \A k \in 1..(n - 1) : Tail(q)[k] \in ToSet(q)
    BY <1>2, <1>4 DEF ToSet
  <2>2. QED
    BY <1>2, <1>5, <2>1 DEF ToSet
<1>8. QED
  BY <1>2, <1>6, <1>7

LEMMA ConcatSet ==
  ASSUME NEW S, NEW q \in Seq(S), NEW r \in Seq(S)
  PROVE  q \o r \in Seq(S) /\ ToSet(q \o r) = ToSet(q) \cup ToSet(r)
<1>1. PICK n \in Nat, k \in Nat : n = Len(q) /\ k = Len(r)
  OBVIOUS
<1>2. PICK a : a = q \o r
  OBVIOUS
<1>3. /\ DOMAIN q = 1..n /\ DOMAIN r = 1..k /\ DOMAIN a = 1..(n + k)
      /\ \A i \in 1..(n + k) : a[i] = IF i <= n THEN q[i] ELSE r[i - n]
  BY <1>1, <1>2
<1>4. \A i \in 1..n : i \in 1..(n + k) /\ i <= n
  OBVIOUS
<1>5. \A i \in 1..k : n + i \in 1..(n + k) /\ ~(n + i <= n) /\ (n + i) - n = i
  OBVIOUS
<1>6. \A i \in 1..(n + k) : i \in 1..n \/ (~(i <= n) /\ i - n \in 1..k)
  OBVIOUS
<1>7. \A i \in 1..n : a[i] = q[i]
  BY <1>3, <1>4
<1>8. \A i \in 1..k : a[n + i] = r[i]
  BY <1>3, <1>5
<1>9. ToSet(q) \subseteq ToSet(a) /\ ToSet(r) \subseteq ToSet(a)
  <2>1. \A i \in 1..n : q[i] \in ToSet(a)
    BY <1>3, <1>4, <1>7 DEF ToSet
  <2>2. \A i \in 1..k : r[i] \in ToSet(a)
    <3> SUFFICES ASSUME NEW i \in 1..k
                 PROVE  r[i] \in ToSet(a)
      OBVIOUS
    <3>1. n + i \in DOMAIN a /\ a[n + i] = r[i]
      BY <1>3, <1>5, <1>8
    <3>2. QED
      BY <3>1 DEF ToSet
  <2>3. QED
    BY <1>3, <2>1, <2>2 DEF ToSet
<1>10. ToSet(a) \subseteq ToSet(q) \cup ToSet(r)
  <2> SUFFICES ASSUME NEW i \in 1..(n + k)
               PROVE  a[i] \in ToSet(q) \cup ToSet(r)
    BY <1>3 DEF ToSet
  <2>1. CASE i \in 1..n
    BY <1>3, <1>7, <2>1 DEF ToSet
  <2>2. CASE ~(i <= n) /\ i - n \in 1..k
    BY <1>3, <2>2 DEF ToSet
  <2>3. QED
    BY <1>6, <2>1, <2>2
<1>11. QED
  BY <1>2, <1>9, <1>10

LEMMA AppendSet ==
  ASSUME NEW S, NEW q \in Seq(S), NEW m \in S
  PROVE  Append(q, m) \in Seq(S) /\ ToSet(Append(q, m)) = ToSet(q) \cup {m}
<1>1. PICK n \in Nat : n = Len(q)
  OBVIOUS
<1>2. PICK a : a = Append(q, m)
  OBVIOUS
<1>3. /\ DOMAIN q = 1..n /\ DOMAIN a = 1..(n + 1) /\ a[n + 1] = m
      /\ \A k \in 1..n : a[k] = q[k]
  BY <1>1, <1>2
<1>4. (\A k \in 1..(n + 1) : k = n + 1 \/ k \in 1..n) /\ n + 1 \in 1..(n + 1)
      /\ \A k \in 1..n : k \in 1..(n + 1)
  OBVIOUS
<1>5. ToSet(a) = ToSet(q) \cup {m}
  BY <1>3, <1>4 DEF ToSet
<1>6. QED
  BY <1>2, <1>5

IsSeq(s) == s \in Seq(ToSet(s))

LEMMA SeqIsSeq ==
  ASSUME NEW S, NEW s \in Seq(S)
  PROVE  IsSeq(s) /\ ToSet(s) \subseteq S
<1>1. PICK n \in Nat : n = Len(s)
  OBVIOUS
<1>2. DOMAIN s = 1..n /\ \A k \in 1..n : s[k] \in S /\ s[k] \in ToSet(s)
  BY <1>1 DEF ToSet
<1>3. s = [k \in 1..n |-> s[k]]
  BY <1>1
<1>4. [k \in 1..n |-> s[k]] \in [1..n -> ToSet(s)]
  BY <1>2
<1>5. s \in Seq(ToSet(s))
  BY <1>2, <1>3, <1>4
<1>6. QED
  BY <1>2, <1>5 DEF IsSeq, ToSet

LEMMA SeqOfMore ==
  ASSUME NEW S, NEW R, S \subseteq R, NEW s \in Seq(S)
  PROVE  s \in Seq(R)
OBVIOUS

LEMMA SeqsOfBoth ==
  ASSUME NEW s, NEW t, IsSeq(s), IsSeq(t)
  PROVE  LET R == ToSet(s) \cup ToSet(t) IN s \in Seq(R) /\ t \in Seq(R)
BY SeqOfMore DEF IsSeq

LEMMA FunctionIsSeq ==
  ASSUME NEW n \in Nat, NEW s, s = [k \in 1..n |-> s[k]]
  PROVE  IsSeq(s)
<1>1. PICK S : S = {s[k] : k \in 1..n}
  OBVIOUS
<1>2. [k \in 1..n |-> s[k]] \in Seq(S)
  BY <1>1
<1>3. QED
  BY <1>2, SeqIsSeq

LEMMA SeqsGrow ==
  ASSUME NEW s, IsSeq(s)
  PROVE  /\ s # <<>> => IsSeq(Tail(s))
         /\ \A m : IsSeq(Append(s, m))
         /\ \A t : IsSeq(t) => IsSeq(s \o t)
<1>1. ASSUME s # <<>>
      PROVE  IsSeq(Tail(s))
  BY <1>1, TailSet, SeqIsSeq DEF IsSeq
<1>2. ASSUME NEW m
      PROVE  IsSeq(Append(s, m))
  <2>1. PICK S : S = ToSet(s) \cup {m}
    OBVIOUS
  <2>2. s \in Seq(S) /\ m \in S
    BY <2>1, SeqOfMore DEF IsSeq
  <2>3. QED
    BY <2>2, AppendSet, SeqIsSeq
<1>3. ASSUME NEW t, IsSeq(t)
      PROVE  IsSeq(s \o t)
  <2>1. PICK S : S = ToSet(s) \cup ToSet(t)
    OBVIOUS
  <2>2. s \in Seq(S) /\ t \in Seq(S)
    BY <1>3, <2>1, SeqsOfBoth
  <2>3. QED
    BY <2>2, ConcatSet, SeqIsSeq
<1>4. QED
  BY <1>1, <1>2, <1>3

LEMMA EmptyIsSeq == IsSeq(<<>>) /\ ToSet(<<>>) = {}
<1>1. <<>> \in Seq({})
  OBVIOUS
<1>2. ToSet(<<>>) = {}
  BY DEF ToSet
<1>3. QED
  BY <1>1, <1>2 DEF IsSeq

\* The sets of what the sequences are made of.
LEMMA SetsGrow ==
  ASSUME NEW s, IsSeq(s)
  PROVE  /\ s # <<>> => Head(s) \in ToSet(s) /\ ToSet(s) = {Head(s)} \cup ToSet(Tail(s))
         /\ \A m : ToSet(Append(s, m)) = ToSet(s) \cup {m}
         /\ \A t : IsSeq(t) => ToSet(s \o t) = ToSet(s) \cup ToSet(t)
<1>1. ASSUME s # <<>>
      PROVE  Head(s) \in ToSet(s) /\ ToSet(s) = {Head(s)} \cup ToSet(Tail(s))
  BY <1>1, TailSet DEF IsSeq
<1>2. ASSUME NEW m
      PROVE  ToSet(Append(s, m)) = ToSet(s) \cup {m}
  <2>1. PICK S : S = ToSet(s) \cup {m}
    OBVIOUS
  <2>2. s \in Seq(S) /\ m \in S
    BY <2>1, SeqOfMore DEF IsSeq
  <2>3. QED
    BY <2>2, AppendSet
<1>3. ASSUME NEW t, IsSeq(t)
      PROVE  ToSet(s \o t) = ToSet(s) \cup ToSet(t)
  <2>1. PICK S : S = ToSet(s) \cup ToSet(t)
    OBVIOUS
  <2>2. s \in Seq(S) /\ t \in Seq(S)
    BY <1>3, <2>1, SeqsOfBoth
  <2>3. QED
    BY <2>2, ConcatSet
<1>4. QED
  BY <1>1, <1>2, <1>3

\* One element of a sequence comes before another.
Precedes(q, m, t) == \E i, j \in DOMAIN q : i < j /\ q[i] = m /\ q[j] = t

LEMMA PrecedesIn ==
  ASSUME NEW q, NEW m, NEW t, Precedes(q, m, t)
  PROVE  m \in ToSet(q) /\ t \in ToSet(q)
BY DEF Precedes, ToSet

LEMMA PrecedesTail ==
  ASSUME NEW q, IsSeq(q), q # <<>>
  PROVE  /\ \A m, t : Precedes(Tail(q), m, t) => Precedes(q, m, t)
         /\ \A t \in ToSet(Tail(q)) : Precedes(q, Head(q), t)
<1>1. PICK n \in Nat : n = Len(q)
  BY DEF IsSeq
<1>2. /\ DOMAIN q = 1..n /\ DOMAIN Tail(q) = 1..(n - 1) /\ Head(q) = q[1]
      /\ \A k \in 1..(n - 1) : Tail(q)[k] = q[k + 1]
  BY <1>1 DEF IsSeq
<1>3. \A k \in 1..(n - 1) : k + 1 \in 1..n /\ 1 \in 1..n /\ 1 < k + 1
  OBVIOUS
<1>4. ASSUME NEW m, NEW t, Precedes(Tail(q), m, t)
      PROVE  Precedes(q, m, t)
  <2>1. PICK i \in 1..(n - 1), j \in 1..(n - 1) :
           i < j /\ Tail(q)[i] = m /\ Tail(q)[j] = t
    BY <1>2, <1>4 DEF Precedes
  <2>2. i + 1 < j + 1 /\ q[i + 1] = m /\ q[j + 1] = t
    BY <1>2, <2>1
  <2>3. QED
    BY <1>2, <1>3, <2>1, <2>2 DEF Precedes
<1>5. ASSUME NEW t \in ToSet(Tail(q))
      PROVE  Precedes(q, Head(q), t)
  <2>1. PICK j \in 1..(n - 1) : Tail(q)[j] = t
    BY <1>2, <1>5 DEF ToSet
  <2>2. QED
    BY <1>2, <1>3, <2>1 DEF Precedes
<1>6. QED
  BY <1>4, <1>5

LEMMA PrecedesConcat ==
  ASSUME NEW q, NEW r, IsSeq(q), IsSeq(r), NEW m, NEW t
  PROVE  Precedes(q \o r, m, t)
           <=> \/ Precedes(q, m, t) \/ Precedes(r, m, t)
               \/ m \in ToSet(q) /\ t \in ToSet(r)
<1>1. PICK n \in Nat, k \in Nat : n = Len(q) /\ k = Len(r)
  BY DEF IsSeq
<1>2. PICK a : a = q \o r
  OBVIOUS
<1>3. /\ DOMAIN q = 1..n /\ DOMAIN r = 1..k /\ DOMAIN a = 1..(n + k)
      /\ \A i \in 1..(n + k) : a[i] = IF i <= n THEN q[i] ELSE r[i - n]
  BY <1>1, <1>2, SeqsOfBoth DEF IsSeq
<1>4. \A i \in 1..n : i \in 1..(n + k) /\ i <= n
  OBVIOUS
<1>5. \A i \in 1..k : n + i \in 1..(n + k) /\ ~(n + i <= n) /\ (n + i) - n = i
  OBVIOUS
<1>6. \A i \in 1..(n + k) : i \in 1..n \/ (~(i <= n) /\ i - n \in 1..k)
  OBVIOUS
<1>7. \A i \in 1..n : a[i] = q[i]
  BY <1>3, <1>4
<1>8. \A i \in 1..k : a[n + i] = r[i]
  BY <1>3, <1>5
<1>9. ASSUME Precedes(a, m, t)
      PROVE  \/ Precedes(q, m, t) \/ Precedes(r, m, t)
             \/ m \in ToSet(q) /\ t \in ToSet(r)
  <2>1. PICK i \in 1..(n + k), j \in 1..(n + k) : i < j /\ a[i] = m /\ a[j] = t
    BY <1>3, <1>9 DEF Precedes
  <2>2. CASE j \in 1..n
    <3>1. i \in 1..n
      BY <2>1, <2>2
    <3>2. QED
      BY <1>3, <1>7, <2>1, <2>2, <3>1 DEF Precedes
  <2>3. CASE ~(j <= n) /\ i \in 1..n
    <3>1. j - n \in 1..k /\ r[j - n] = t
      BY <1>3, <1>6, <2>1, <2>3
    <3>2. QED
      BY <1>3, <1>7, <2>1, <2>3, <3>1 DEF ToSet
  <2>4. CASE ~(j <= n) /\ ~(i <= n)
    <3>1. j - n \in 1..k /\ r[j - n] = t /\ i - n \in 1..k /\ r[i - n] = m /\ i - n < j - n
      BY <1>3, <1>6, <2>1, <2>4
    <3>2. QED
      BY <1>3, <3>1 DEF Precedes
  <2>5. QED
    BY <1>6, <2>2, <2>3, <2>4
<1>10. ASSUME Precedes(q, m, t)
       PROVE  Precedes(a, m, t)
  BY <1>3, <1>4, <1>7, <1>10 DEF Precedes
<1>11. ASSUME Precedes(r, m, t)
       PROVE  Precedes(a, m, t)
  <2>1. PICK i \in 1..k, j \in 1..k : i < j /\ r[i] = m /\ r[j] = t
    BY <1>3, <1>11 DEF Precedes
  <2>2. n + i < n + j /\ a[n + i] = m /\ a[n + j] = t
    BY <1>8, <2>1
  <2>3. QED
    BY <1>3, <1>5, <2>1, <2>2 DEF Precedes
<1>12. ASSUME m \in ToSet(q), t \in ToSet(r)
       PROVE  Precedes(a, m, t)
  <2>1. PICK i \in 1..n, j \in 1..k : q[i] = m /\ r[j] = t
    BY <1>3, <1>12 DEF ToSet
  <2>2. i < n + j /\ a[i] = m /\ a[n + j] = t
    BY <1>7, <1>8, <2>1
  <2>3. QED
    BY <1>3, <1>4, <1>5, <2>1, <2>2 DEF Precedes
<1>13. QED
  BY <1>2, <1>9, <1>10, <1>11, <1>12

LEMMA PrecedesNone ==
  ASSUME NEW m, NEW t
  PROVE  ~Precedes(<<>>, m, t) /\ \A x : ~Precedes(<<x>>, m, t)
<1>1. ASSUME NEW x
      PROVE  DOMAIN <<x>> = 1..1
  OBVIOUS
<1>2. ~Precedes(<<>>, m, t)
  BY DEF Precedes
<1>3. ASSUME NEW x
      PROVE  ~Precedes(<<x>>, m, t)
  BY <1>1 DEF Precedes
<1>4. QED
  BY <1>2, <1>3

LEMMA AppendAsConcat ==
  ASSUME NEW q, NEW m, IsSeq(q), NEW r, r = <<m>>
  PROVE  Append(q, m) = q \o r /\ IsSeq(r) /\ ToSet(r) = {m}
<1>1. PICK S : S = ToSet(q) \cup {m}
  OBVIOUS
<1>2. q \in Seq(S) /\ m \in S
  BY <1>1, SeqOfMore DEF IsSeq
<1>3. Append(q, m) = q \o r
  BY <1>2
<1>4. r \in Seq({m}) /\ DOMAIN r = 1..1 /\ r[1] = m
  OBVIOUS
<1>5. ToSet(r) = {m}
  BY <1>4 DEF ToSet
<1>6. IsSeq(r)
  BY <1>4, SeqIsSeq
<1>7. QED
  BY <1>3, <1>5, <1>6

LEMMA PrecedesAppend ==
  ASSUME NEW q, NEW x, IsSeq(q), NEW m, NEW t
  PROVE  Precedes(Append(q, x), m, t) <=> Precedes(q, m, t) \/ (m \in ToSet(q) /\ t = x)
<1>1. PICK r : r = <<x>>
  OBVIOUS
<1>2. Append(q, x) = q \o r /\ IsSeq(r) /\ ToSet(r) = {x}
  BY <1>1, AppendAsConcat
<1>3. Precedes(q \o r, m, t)
        <=> \/ Precedes(q, m, t) \/ Precedes(r, m, t)
            \/ m \in ToSet(q) /\ t \in ToSet(r)
  BY <1>2, PrecedesConcat
<1>4. ~Precedes(r, m, t)
  BY <1>1, PrecedesNone
<1>5. QED
  BY <1>2, <1>3, <1>4

-----------------------------------------------------------------------------
(***************************************************************************)
(* The responses of a sequence of calls.                                   *)
(***************************************************************************)
LEMMA SameSeqs ==
  ASSUME NEW n \in Nat, NEW s, NEW t, IsSeq(s), IsSeq(t), Len(s) = n, Len(t) = n,
         \A k \in 1..n : s[k] = t[k]
  PROVE  s = t
BY SeqsOfBoth, SeqEqual

LEMMA ThensIs ==
  ASSUME NEW t, IsSeq(t)
  PROVE  /\ IsSeq(Thens(t)) /\ ToSet(Thens(t)) = {c.then : c \in ToSet(t)}
         /\ t # <<>> => /\ Head(Thens(t)) = Head(t).then /\ Thens(t) # <<>>
                        /\ Tail(Thens(t)) = Thens(Tail(t))
         /\ \A r : IsSeq(r) => Thens(t \o r) = Thens(t) \o Thens(r)
<1>1. PICK n \in Nat : n = Len(t)
  BY DEF IsSeq
<1>2. /\ DOMAIN t = 1..n /\ DOMAIN Thens(t) = 1..n
      /\ \A k \in 1..n : Thens(t)[k] = t[k].then
  BY <1>1 DEF IsSeq, Thens
<1>3. IsSeq(Thens(t))
  <2>1. Thens(t) = [k \in 1..n |-> Thens(t)[k]]
    BY <1>2 DEF Thens
  <2>2. QED
    BY <2>1, FunctionIsSeq
<1>4. ToSet(Thens(t)) = {c.then : c \in ToSet(t)}
  BY <1>2 DEF ToSet
<1>5. ASSUME t # <<>>
      PROVE  /\ Head(Thens(t)) = Head(t).then /\ Thens(t) # <<>>
             /\ Tail(Thens(t)) = Thens(Tail(t))
  <2>1. n >= 1
    BY <1>1, <1>5 DEF IsSeq
  <2>2. PICK r : r = Tail(t)
    OBVIOUS
  <2>3. DOMAIN r = 1..(n - 1) /\ \A k \in 1..(n - 1) : r[k] = t[k + 1]
    BY <1>1, <1>5, <2>2 DEF IsSeq
  <2>4. DOMAIN Thens(r) = 1..(n - 1) /\ \A k \in 1..(n - 1) : Thens(r)[k] = t[k + 1].then
    BY <2>3 DEF Thens
  <2>5. PICK h : h = Thens(t)
    OBVIOUS
  <2>6. Len(h) = n /\ IsSeq(h) /\ h # <<>>
    BY <1>2, <1>3, <2>1, <2>5 DEF IsSeq
  <2>7. /\ Head(h) = h[1] /\ DOMAIN Tail(h) = 1..(n - 1)
        /\ \A k \in 1..(n - 1) : Tail(h)[k] = h[k + 1]
    BY <2>6 DEF IsSeq
  <2>8. \A k \in 1..(n - 1) : k + 1 \in 1..n
    OBVIOUS
  <2>9. \A k \in 1..(n - 1) : Tail(h)[k] = Thens(r)[k]
    BY <1>2, <2>4, <2>5, <2>7, <2>8
  <2>10. Tail(h) = Thens(r)
    <3>1. IsSeq(Tail(h)) /\ Len(Tail(h)) = n - 1
      BY <2>1, <2>6, <2>7, SeqsGrow DEF IsSeq
    <3>2. IsSeq(Thens(r)) /\ Len(Thens(r)) = n - 1
      <4>1. Thens(r) = [k \in 1..(n - 1) |-> Thens(r)[k]] /\ n - 1 \in Nat
        BY <2>1, <2>4 DEF Thens
      <4>2. QED
        BY <2>4, <4>1, FunctionIsSeq DEF IsSeq
    <3>3. n - 1 \in Nat
      BY <2>1
    <3>4. PICK u, v : u = Tail(h) /\ v = Thens(r)
      OBVIOUS
    <3>5. u = v
      BY <2>9, <3>1, <3>2, <3>3, <3>4, SameSeqs
    <3>6. QED
      BY <3>4, <3>5
  <2>11. Head(t) = t[1] /\ 1 \in 1..n
    BY <1>1, <1>5, <2>1 DEF IsSeq
  <2>12. QED
    BY <1>2, <2>2, <2>5, <2>6, <2>7, <2>10, <2>11
<1>6. ASSUME NEW r, IsSeq(r)
      PROVE  Thens(t \o r) = Thens(t) \o Thens(r)
  <2>1. PICK k \in Nat : k = Len(r)
    BY <1>6 DEF IsSeq
  <2>2. /\ DOMAIN r = 1..k /\ DOMAIN Thens(r) = 1..k
        /\ \A i \in 1..k : Thens(r)[i] = r[i].then
    BY <1>6, <2>1 DEF IsSeq, Thens
  <2>3. IsSeq(Thens(r))
    <3>1. Thens(r) = [i \in 1..k |-> Thens(r)[i]]
      BY <2>2 DEF Thens
    <3>2. QED
      BY <3>1, FunctionIsSeq
  <2>4. PICK a, b, x, y : a = t \o r /\ b = x \o y /\ x = Thens(t) /\ y = Thens(r)
    OBVIOUS
  <2>5. Len(x) = n /\ Len(y) = k
    BY <1>2, <1>3, <2>2, <2>3, <2>4 DEF IsSeq
  <2>6. /\ DOMAIN a = 1..(n + k)
        /\ \A i \in 1..(n + k) : a[i] = IF i <= n THEN t[i] ELSE r[i - n]
    BY <1>1, <1>6, <2>1, <2>4, SeqsOfBoth
  <2>7. /\ IsSeq(b) /\ Len(b) = n + k
        /\ \A i \in 1..(n + k) : b[i] = IF i <= n THEN x[i] ELSE y[i - n]
    <3>1. IsSeq(b)
      BY <1>3, <2>3, <2>4, SeqsGrow
    <3>2. PICK R : x \in Seq(R) /\ y \in Seq(R)
      BY <1>3, <2>3, <2>4, SeqsOfBoth
    <3>3. QED
      BY <2>4, <2>5, <3>1, <3>2, ConcatProperties, ZenonT(30)
  <2>8. \A i \in 1..(n + k) : i \in 1..n \/ (~(i <= n) /\ i - n \in 1..k)
    OBVIOUS
  <2>9. \A i \in 1..(n + k) : a[i].then = b[i]
    BY <1>2, <2>2, <2>4, <2>6, <2>7, <2>8
  <2>10. /\ Thens(a) = [i \in 1..(n + k) |-> Thens(a)[i]]
         /\ DOMAIN Thens(a) = 1..(n + k)
         /\ \A i \in 1..(n + k) : Thens(a)[i] = a[i].then
    BY <2>6 DEF Thens
  <2>11. IsSeq(Thens(a)) /\ Len(Thens(a)) = n + k
    <3>1. n + k \in Nat
      OBVIOUS
    <3>2. QED
      BY <2>10, <3>1, FunctionIsSeq DEF IsSeq
  <2>12. Thens(a) = b
    <3>1. PICK u : u = Thens(a)
      OBVIOUS
    <3>2. n + k \in Nat /\ \A i \in 1..(n + k) : u[i] = b[i]
      BY <2>9, <2>10, <3>1
    <3>3. u = b
      BY <2>7, <2>11, <3>1, <3>2, SameSeqs
    <3>4. QED
      BY <3>1, <3>3
  <2>13. QED
    BY <2>4, <2>12
<1>7. QED
  BY <1>3, <1>4, <1>5, <1>6

LEMMA ThensOfNone == Thens(<<>>) = <<>>
BY DEF Thens

LEMMA ThensAppend ==
  ASSUME NEW t, NEW c, IsSeq(t)
  PROVE  Thens(Append(t, c)) = Append(Thens(t), c.then)
<1>1. PICK r, x : r = <<c>> /\ x = <<c.then>>
  OBVIOUS
<1>2. Append(t, c) = t \o r /\ IsSeq(r)
  BY <1>1, AppendAsConcat
<1>3. Thens(r) = x
  <2>1. DOMAIN r = 1..1 /\ r[1] = c
    BY <1>1
  <2>2. Thens(r) = [k \in 1..1 |-> c.then]
    BY <2>1 DEF Thens
  <2>3. QED
    BY <1>1, <2>2
<1>4. IsSeq(Thens(t)) /\ Thens(t \o r) = Thens(t) \o Thens(r)
  BY <1>2, ThensIs
<1>5. Append(Thens(t), c.then) = Thens(t) \o x
  BY <1>1, <1>4, AppendAsConcat
<1>6. QED
  BY <1>2, <1>3, <1>4, <1>5

-----------------------------------------------------------------------------
(***************************************************************************)
(* What messages, calls and the adapter's record are, for the commands D.  *)
(***************************************************************************)
JobOps == {"started", "got", "tripStarted", "tripQueried", "tripRestarted", "tripStopped"}

JobOK(job, D) == job.session \in D /\ job.n \in D \cup {0}

MsgOK(m, D) ==
  /\ m = [op |-> m.op, arg |-> m.arg, ok |-> m.ok, distance |-> m.distance]
  /\ m.op = "command" => m.arg \in D
  /\ m.op \in JobOps \cup {"ignored"} => JobOK(m.arg, D)
  /\ m.op = "stopped" => JobOK(m.arg.job, D)
  /\ m.op \in {"started", "ignored"} => m.arg.options.mode # "trip"

\* A call and its response are about the same session.
CallOK(c, D) ==
  /\ MsgOK(c.then, D)
  /\ c.then.op \notin {"command", "engineUp", "removeClient", "completed"}
  /\ c.call = "startBatching" <=> c.then.op \in {"started", "ignored"}
  /\ c.then.op \in {"started", "ignored"} => c.arg = c.then.arg
  /\ c.call = "stopBatching" <=> c.then.op = "stopped"
  /\ c.then.op = "stopped" => c.arg = c.then.arg.job /\ c.then.ok

Fields == {"sessions", "trips", "ongoing", "dropped", "batchFull", "crossed", "calls",
           "answers"}

IsMap(f) == f = [x \in DOMAIN f |-> f[x]]

AdapterOK(a, D) ==
  /\ a = [x \in Fields |-> a[x]] /\ IsMap(a.trips)
  /\ DOMAIN a.sessions \subseteq D /\ DOMAIN a.trips \subseteq D
  /\ IsSeq(a.calls) /\ \A c \in ToSet(a.calls) : CallOK(c, D)

\* A message is about a command that still needs its answer.
Carries(m, n) ==
  \/ m.op \in JobOps /\ m.arg.n = n
  \/ m.op = "stopped" /\ m.arg.job.n = n

\* What a function of the adapter does to answers and calls; it settles command n.
Grows(a, b) ==
  /\ a.answers \subseteq b.answers /\ ToSet(a.calls) \subseteq ToSet(b.calls)
  /\ b.crossed = a.crossed
Settles(b, n) == n \in b.answers \/ \E c \in ToSet(b.calls) : Carries(c.then, n)

LEMMA CallIs ==
  ASSUME NEW call, NEW arg, NEW then
  PROVE  LET c == Call(call, arg, then) IN c.call = call /\ c.arg = arg /\ c.then = then
BY DEF Call

LEMMA JobIs ==
  ASSUME NEW n, NEW s, NEW options, NEW restart
  PROVE  LET job == Job(n, s, options, restart)
         IN job.n = n /\ job.session = s /\ job.options = options /\ job.restart = restart
BY DEF Job

LEMMA WithIs ==
  ASSUME NEW f, NEW x, NEW y
  PROVE  /\ DOMAIN With(f, x, y) = DOMAIN f \cup {x} /\ With(f, x, y)[x] = y
         /\ \A z \in DOMAIN f \ {x} : With(f, x, y)[z] = f[z]
BY DEF With

LEMMA WithoutIs ==
  ASSUME NEW f, NEW S
  PROVE  /\ DOMAIN Without(f, S) = DOMAIN f \ S
         /\ \A z \in DOMAIN f \ S : Without(f, S)[z] = f[z]
BY DEF Without

LEMMA MapsAre ==
  ASSUME NEW f, NEW g, \/ \E x, y : g = With(f, x, y) \/ \E S : g = Without(f, S)
  PROVE  IsMap(g)
<1>1. ASSUME NEW x, NEW y, g = With(f, x, y)
      PROVE  IsMap(g)
  BY <1>1 DEF With, IsMap
<1>2. ASSUME NEW S, g = Without(f, S)
      PROVE  IsMap(g)
  BY <1>2 DEF Without, IsMap
<1>3. QED
  BY <1>1, <1>2

\* A call is made.
LEMMA CallsIs ==
  ASSUME NEW a, NEW call, NEW arg, NEW then, NEW D, AdapterOK(a, D),
         CallOK(Call(call, arg, then), D)
  PROVE  LET b == Calls(a, call, arg, then)
         IN /\ AdapterOK(b, D) /\ Grows(a, b)
            /\ b.calls = Append(a.calls, Call(call, arg, then))
            /\ Call(call, arg, then) \in ToSet(b.calls)
            /\ b.sessions = a.sessions /\ b.trips = a.trips
            /\ b.batchFull = a.batchFull /\ b.answers = a.answers
<1>1. PICK b, c : b = Calls(a, call, arg, then) /\ c = Call(call, arg, then)
  OBVIOUS
<1>2. /\ b = [x \in Fields |-> b[x]]
      /\ b.calls = Append(a.calls, c)
      /\ b.sessions = a.sessions /\ b.trips = a.trips /\ b.crossed = a.crossed
      /\ b.batchFull = a.batchFull /\ b.answers = a.answers
  BY <1>1 DEF Calls, AdapterOK, Fields
<1>3. IsSeq(b.calls) /\ ToSet(b.calls) = ToSet(a.calls) \cup {c}
  <2>1. PICK t : t = a.calls
    OBVIOUS
  <2>2. IsSeq(t)
    BY <2>1 DEF AdapterOK
  <2>3. IsSeq(Append(t, c)) /\ ToSet(Append(t, c)) = ToSet(t) \cup {c}
    BY <2>2, SeqsGrow, SetsGrow
  <2>4. QED
    BY <1>2, <2>1, <2>3
<1>4. QED
  BY <1>1, <1>2, <1>3 DEF AdapterOK, Grows

LEMMA ReportsIs ==
  ASSUME NEW a, NEW job, NEW D, AdapterOK(a, D)
  PROVE  LET b == Reports(a, job)
         IN /\ AdapterOK(b, D) /\ Grows(a, b) /\ job.n \in b.answers
            /\ b.calls = a.calls /\ b.sessions = a.sessions /\ b.trips = a.trips
            /\ b.batchFull = a.batchFull
BY DEF Reports, AdapterOK, Fields, Grows

LEMMA DisableIfIs ==
  ASSUME NEW a, NEW condition, NEW D, AdapterOK(a, D)
  PROVE  LET b == DisableIf(a, condition)
         IN /\ AdapterOK(b, D) /\ Grows(a, b) /\ b.answers = a.answers
            /\ b.calls = a.calls /\ b.sessions = a.sessions /\ b.trips = a.trips
            /\ ~condition /\ a.batchFull => b.batchFull
<1>1. PICK b : b = DisableIf(a, condition)
  OBVIOUS
<1>2. /\ b = [x \in Fields |-> b[x]]
      /\ b.sessions = a.sessions
      /\ b.trips = a.trips
      /\ b.calls = a.calls
      /\ b.answers = a.answers
      /\ b.crossed = a.crossed
      /\ ~condition /\ a.batchFull => b.batchFull
  BY <1>1 DEF DisableIf, AdapterOK, Fields
<1>3. QED
  BY <1>1, <1>2 DEF AdapterOK, Grows

LEMMA EraseSessionIs ==
  ASSUME NEW a, NEW s, NEW D, AdapterOK(a, D)
  PROVE  LET b == EraseSession(a, s)
         IN /\ AdapterOK(b, D) /\ Grows(a, b) /\ b.answers = a.answers
            /\ b.calls = a.calls /\ b.sessions = Without(a.sessions, {s})
            /\ b.trips = a.trips /\ b.batchFull = a.batchFull
<1>1. PICK b : b = EraseSession(a, s)
  OBVIOUS
<1>2. /\ b = [x \in Fields |-> b[x]]
      /\ b.sessions = Without(a.sessions, {s})
      /\ b.trips = a.trips
      /\ b.calls = a.calls
      /\ b.answers = a.answers
      /\ b.crossed = a.crossed
      /\ b.batchFull = a.batchFull
  BY <1>1 DEF EraseSession, AdapterOK, Fields
<1>3. DOMAIN b.sessions = DOMAIN a.sessions \ {s}
  BY <1>2, WithoutIs
<1>4. QED
  BY <1>1, <1>2, <1>3 DEF AdapterOK, Grows

LEMMA EraseTripIs ==
  ASSUME NEW a, NEW s, NEW D, AdapterOK(a, D)
  PROVE  LET b == EraseTrip(a, s)
         IN /\ AdapterOK(b, D) /\ Grows(a, b) /\ b.answers = a.answers
            /\ b.calls = a.calls /\ b.trips = Without(a.trips, {s})
            /\ b.sessions = a.sessions /\ b.batchFull = a.batchFull
<1>1. PICK b : b = EraseTrip(a, s)
  OBVIOUS
<1>2. /\ b = [x \in Fields |-> b[x]]
      /\ b.sessions = a.sessions
      /\ b.trips = Without(a.trips, {s})
      /\ b.calls = a.calls
      /\ b.answers = a.answers
      /\ b.crossed = a.crossed
      /\ b.batchFull = a.batchFull
  BY <1>1 DEF EraseTrip, AdapterOK, Fields
<1>3. DOMAIN b.trips = DOMAIN a.trips \ {s} /\ IsMap(b.trips)
  BY <1>2, WithoutIs, MapsAre
<1>4. QED
  BY <1>1, <1>2, <1>3 DEF AdapterOK, Grows

LEMMA DropsIs ==
  ASSUME NEW a, NEW trip, NEW garbage, NEW D, AdapterOK(a, D)
  PROVE  \A b \in {Drops(a, trip), DropsGarbage(a, garbage)} :
           /\ AdapterOK(b, D) /\ Grows(a, b) /\ b.answers = a.answers
           /\ b.calls = a.calls /\ b.trips = a.trips /\ b.sessions = a.sessions
           /\ b.batchFull = a.batchFull
BY DEF Drops, DropsGarbage, AdapterOK, Fields, Grows

LEMMA EndsIs ==
  ASSUME NEW a, NEW D, AdapterOK(a, D), NEW ongoing
  PROVE  LET b == [a EXCEPT !.ongoing = ongoing]
         IN /\ AdapterOK(b, D) /\ Grows(a, b) /\ b.answers = a.answers
            /\ b.calls = a.calls /\ b.trips = a.trips /\ b.sessions = a.sessions
            /\ b.batchFull = a.batchFull
<1>1. PICK b : b = [a EXCEPT !.ongoing = ongoing]
  OBVIOUS
<1>2. /\ b = [x \in Fields |-> b[x]]
      /\ b.sessions = a.sessions
      /\ b.trips = a.trips
      /\ b.calls = a.calls
      /\ b.answers = a.answers
      /\ b.crossed = a.crossed
      /\ b.batchFull = a.batchFull
  BY <1>1 DEF AdapterOK, Fields
<1>3. QED
  BY <1>1, <1>2 DEF AdapterOK, Grows

LEMMA SavesIs ==
  ASSUME NEW a, NEW D, AdapterOK(a, D), NEW s \in D, NEW options
  PROVE  LET b == [a EXCEPT !.sessions = With(@, s, options)]
         IN /\ AdapterOK(b, D) /\ Grows(a, b) /\ b.answers = a.answers
            /\ b.calls = a.calls /\ b.trips = a.trips
            /\ b.sessions = With(a.sessions, s, options) /\ b.batchFull = a.batchFull
<1>1. PICK b : b = [a EXCEPT !.sessions = With(@, s, options)]
  OBVIOUS
<1>2. /\ b = [x \in Fields |-> b[x]]
      /\ b.sessions = With(a.sessions, s, options)
      /\ b.trips = a.trips
      /\ b.calls = a.calls
      /\ b.answers = a.answers
      /\ b.crossed = a.crossed
      /\ b.batchFull = a.batchFull
  BY <1>1 DEF AdapterOK, Fields
<1>3. DOMAIN b.sessions = DOMAIN a.sessions \cup {s}
  BY <1>2 DEF With
<1>4. QED
  BY <1>1, <1>2, <1>3 DEF AdapterOK, Grows

\* A call whose response is not about a plain session.
OtherResponses ==
  {"got", "tripStarted", "tripQueried", "tripRestarted", "tripStopped", "remaining",
   "multiplexed", "tripResumed", "tripEnded"}
PlainCalls == {"startBatching", "stopBatching"}

LEMMA CallMade ==
  ASSUME NEW call, NEW arg, NEW then, NEW D, MsgOK(then, D),
         then.op \in OtherResponses, call \notin PlainCalls,
         NEW c, c = Call(call, arg, then)
  PROVE  CallOK(c, D) /\ c.then = then
<1>1. c.call = call /\ c.then = then
  BY CallIs
<1>2. CallOK(c, D)
  BY <1>1 DEF CallOK, OtherResponses, PlainCalls
<1>3. QED
  BY <1>1, <1>2

\* startBatching()
LEMMA StartBatchingIs ==
  ASSUME NEW a, NEW job, NEW D, AdapterOK(a, D), JobOK(job, D), job.options.mode # "trip"
  PROVE  LET b == StartBatching(a, job)
         IN /\ AdapterOK(b, D) /\ Grows(a, b) /\ Settles(b, job.n)
            /\ \E c : c.then = Msg("started", job) /\ b.calls = Append(a.calls, c)
            /\ b.sessions = With(a.sessions, job.session, job.options)
            /\ b.trips = a.trips /\ b.answers = a.answers
            /\ a.batchFull => b.batchFull
            /\ job.options.mode # "noAutoReport" /\ ReportingCount(a) = 0 => b.batchFull
<1>1. PICK x, c, then :
        /\ x = [a EXCEPT
                  !.batchFull = @ \/ (job.options.mode # "noAutoReport" /\ ReportingCount(a) = 0),
                  !.sessions = With(@, job.session, job.options)]
        /\ then = Msg("started", job) /\ c = Call("startBatching", job, then)
  OBVIOUS
<1>2. StartBatching(a, job) = Calls(x, "startBatching", job, then)
  BY <1>1 DEF StartBatching
<1>3. /\ x = [y \in Fields |-> x[y]]
      /\ x.sessions = With(a.sessions, job.session, job.options)
      /\ x.trips = a.trips /\ x.calls = a.calls /\ x.answers = a.answers
      /\ x.crossed = a.crossed
      /\ a.batchFull => x.batchFull
      /\ job.options.mode # "noAutoReport" /\ ReportingCount(a) = 0 => x.batchFull
  BY <1>1 DEF AdapterOK, Fields
<1>4. DOMAIN x.sessions = DOMAIN a.sessions \cup {job.session}
  BY <1>3 DEF With
<1>5. AdapterOK(x, D) /\ Grows(a, x)
  BY <1>3, <1>4 DEF AdapterOK, Grows, JobOK
<1>6. c.call = "startBatching" /\ c.arg = job /\ c.then = then
  BY <1>1, CallIs
<1>7. then.op = "started" /\ then.arg = job /\ MsgOK(then, D)
  BY <1>1 DEF Msg, MsgOK, JobOps
<1>8. CallOK(c, D)
  BY <1>6, <1>7 DEF CallOK
<1>9. PICK b : b = StartBatching(a, job)
  OBVIOUS
<1>10. /\ AdapterOK(b, D) /\ Grows(x, b) /\ b.calls = Append(x.calls, c) /\ c \in ToSet(b.calls)
       /\ b.sessions = x.sessions /\ b.trips = x.trips
       /\ b.batchFull = x.batchFull /\ b.answers = x.answers
  <2>1. PICK call : call = "startBatching"
    OBVIOUS
  <2>2. b = Calls(x, call, job, then) /\ c = Call(call, job, then)
    BY <1>1, <1>2, <1>9, <2>1
  <2>3. QED
    BY <1>5, <1>8, <2>2, CallsIs
<1>11. Settles(b, job.n)
  BY <1>6, <1>7, <1>10 DEF Settles, Carries, JobOps
<1>12. Grows(a, b)
  BY <1>5, <1>10 DEF Grows
<1>13. QED
  BY <1>1, <1>3, <1>6, <1>9, <1>10, <1>11, <1>12, ZenonT(30)

\* stopBatching()
LEMMA StopBatchingIs ==
  ASSUME NEW a, NEW job, NEW D, AdapterOK(a, D), JobOK(job, D)
  PROVE  LET b == StopBatching(a, job)
         IN /\ AdapterOK(b, D) /\ Grows(a, b)
            /\ b.trips = a.trips /\ b.answers = a.answers /\ b.batchFull = a.batchFull
            /\ job.session \notin DOMAIN a.sessions => b = a
            /\ job.session \in DOMAIN a.sessions =>
                 /\ Settles(b, job.n)
                 /\ \E c : /\ b.calls = Append(a.calls, c) /\ c.then.op = "stopped"
                           /\ c.then.arg.job = job
                 /\ b.sessions = Without(a.sessions, {job.session})
<1>1. PICK b : b = StopBatching(a, job)
  OBVIOUS
<1>2. CASE job.session \notin DOMAIN a.sessions
  <2>1. b = a
    BY <1>1, <1>2 DEF StopBatching
  <2>2. QED
    BY <1>1, <1>2, <2>1 DEF Grows
<1>3. CASE job.session \in DOMAIN a.sessions
  <2>1. PICK x, c, then, arg :
          /\ x = EraseSession(a, job.session)
          /\ arg = [job |-> job, mode |-> a.sessions[job.session].mode]
          /\ then = Msg("stopped", arg) /\ c = Call("stopBatching", job, then)
    OBVIOUS
  <2>2. b = Calls(x, "stopBatching", job, then)
    BY <1>1, <1>3, <2>1 DEF StopBatching
  <2>3. /\ AdapterOK(x, D) /\ Grows(a, x) /\ x.answers = a.answers
        /\ x.calls = a.calls /\ x.sessions = Without(a.sessions, {job.session})
        /\ x.trips = a.trips /\ x.batchFull = a.batchFull
    BY <2>1, EraseSessionIs
  <2>4. c.call = "stopBatching" /\ c.arg = job /\ c.then = then
    BY <2>1, CallIs
  <2>5. /\ then.op = "stopped" /\ then.arg = arg /\ arg.job = job /\ then.ok
        /\ then = [op |-> then.op, arg |-> then.arg, ok |-> then.ok, distance |-> then.distance]
    BY <2>1 DEF Msg
  <2>6. CallOK(c, D)
    BY <2>4, <2>5 DEF CallOK, MsgOK, JobOps
  <2>7. /\ AdapterOK(b, D) /\ Grows(x, b) /\ b.calls = Append(x.calls, c) /\ c \in ToSet(b.calls)
        /\ b.sessions = x.sessions /\ b.trips = x.trips
        /\ b.batchFull = x.batchFull /\ b.answers = x.answers
    <3>1. PICK call : call = "stopBatching"
      OBVIOUS
    <3>2. b = Calls(x, call, job, then) /\ c = Call(call, job, then)
      BY <2>1, <2>2, <3>1
    <3>3. QED
      BY <2>3, <2>6, <3>2, CallsIs
  <2>8. Settles(b, job.n)
    BY <2>4, <2>5, <2>7 DEF Settles, Carries
  <2>9. Grows(a, b)
    BY <2>3, <2>7 DEF Grows
  <2>10. QED
    BY <1>1, <1>3, <2>3, <2>4, <2>5, <2>7, <2>8, <2>9
<1>4. QED
  BY <1>2, <1>3

\* startTripBatchingMultiplex()
LEMMA StartTripIs ==
  ASSUME NEW a, NEW job, NEW D, AdapterOK(a, D), JobOK(job, D)
  PROVE  LET b == StartTrip(a, job)
         IN /\ AdapterOK(b, D) /\ Grows(a, b) /\ Settles(b, job.n) /\ b.answers = a.answers
            /\ a.batchFull => b.batchFull
            /\ DOMAIN a.trips = {} =>
                 /\ \E c : c.then = Msg("tripStarted", job) /\ b.calls = Append(a.calls, c)
                 /\ b.sessions = With(a.sessions, job.session, job.options)
                 /\ DOMAIN b.trips = {job.session}
                 /\ ReportingCount(a) = 0 => b.batchFull
            /\ DOMAIN a.trips # {} =>
                 /\ \E c : c.then = Msg("tripQueried", job) /\ b.calls = Append(a.calls, c)
                 /\ b.sessions = a.sessions /\ b.trips = a.trips
                 /\ b.batchFull = a.batchFull
<1>1. PICK b : b = StartTrip(a, job)
  OBVIOUS
<1>2. CASE DOMAIN a.trips = {}
  <2>1. PICK x, then, arg :
          /\ arg = [distance |-> job.options.distance, interval |-> job.options.interval]
          /\ then = Msg("tripStarted", job)
          /\ x = [a EXCEPT
                !.batchFull = @ \/ ReportingCount(a) = 0,
                !.sessions = With(@, job.session, job.options),
                !.trips = With(@, job.session,
                  [ongoingBatch |-> 0, thisTrip |-> 0, onRestart |-> 0,
                   distance |-> job.options.distance, interval |-> job.options.interval])]
    OBVIOUS
  <2>2. b = Calls(x, "startTrip", arg, then)
    BY <1>1, <1>2, <2>1 DEF StartTrip
  <2>3. /\ x = [y \in Fields |-> x[y]]
        /\ x.sessions = With(a.sessions, job.session, job.options)
        /\ \E t : x.trips = With(a.trips, job.session, t)
        /\ x.calls = a.calls /\ x.answers = a.answers
        /\ x.crossed = a.crossed
        /\ a.batchFull => x.batchFull
        /\ ReportingCount(a) = 0 => x.batchFull
    BY <2>1 DEF AdapterOK, Fields
  <2>4. DOMAIN x.sessions = DOMAIN a.sessions \cup {job.session}
    BY <2>3 DEF With
  <2>5. DOMAIN x.trips = {job.session} /\ IsMap(x.trips)
    <3>1. IsMap(x.trips)
      BY <2>3, MapsAre
    <3>2. QED
      BY <1>2, <2>3, <3>1 DEF With
  <2>6. AdapterOK(x, D) /\ Grows(a, x)
    BY <2>3, <2>4, <2>5 DEF AdapterOK, Grows, JobOK
  <2>7. then.op = "tripStarted" /\ then.arg = job /\ MsgOK(then, D)
    BY <2>1 DEF Msg, MsgOK, JobOps
  <2>8. /\ AdapterOK(b, D) /\ Grows(x, b)
        /\ \E c : c.then = then /\ b.calls = Append(x.calls, c) /\ c \in ToSet(b.calls)
        /\ b.sessions = x.sessions /\ b.trips = x.trips
        /\ b.batchFull = x.batchFull /\ b.answers = x.answers
    <3>1. PICK call : call = "startTrip"
      OBVIOUS
    <3>2. PICK c : c = Call(call, arg, then)
      OBVIOUS
    <3>3. CallOK(c, D) /\ c.then = then
      <4>1. MsgOK(then, D) /\ then.op \in OtherResponses
        BY <2>7 DEF OtherResponses
      <4>2. call \notin PlainCalls
        BY <3>1 DEF PlainCalls
      <4>3. QED
        BY <3>2, <4>1, <4>2, CallMade
    <3>4. b = Calls(x, call, arg, then)
      BY <2>2, <3>1
    <3>5. QED
      BY <2>6, <3>2, <3>3, <3>4, CallsIs
  <2>9. Settles(b, job.n)
    BY <2>7, <2>8 DEF Settles, Carries, JobOps
  <2>10. Grows(a, b)
    BY <2>6, <2>8 DEF Grows
  <2>11. QED
    BY <1>1, <1>2, <2>1, <2>3, <2>5, <2>8, <2>9, <2>10, ZenonT(30)
<1>3. CASE DOMAIN a.trips # {}
  <2>1. PICK then : then = Msg("tripQueried", job)
    OBVIOUS
  <2>2. b = Calls(a, "query", None, then)
    BY <1>1, <1>3, <2>1 DEF StartTrip
  <2>3. then.op = "tripQueried" /\ then.arg = job /\ MsgOK(then, D)
    BY <2>1 DEF Msg, MsgOK, JobOps
  <2>4. /\ AdapterOK(b, D) /\ Grows(a, b)
        /\ \E c : c.then = then /\ b.calls = Append(a.calls, c) /\ c \in ToSet(b.calls)
        /\ b.sessions = a.sessions /\ b.trips = a.trips
        /\ b.batchFull = a.batchFull /\ b.answers = a.answers
    <3>1. PICK call : call = "query"
      OBVIOUS
    <3>2. PICK c : c = Call(call, None, then)
      OBVIOUS
    <3>3. CallOK(c, D) /\ c.then = then
      <4>1. MsgOK(then, D) /\ then.op \in OtherResponses
        BY <2>3 DEF OtherResponses
      <4>2. call \notin PlainCalls
        BY <3>1 DEF PlainCalls
      <4>3. QED
        BY <3>2, <4>1, <4>2, CallMade
    <3>4. b = Calls(a, call, None, then)
      BY <2>2, <3>1
    <3>5. QED
      BY <3>2, <3>3, <3>4, CallsIs
  <2>5. Settles(b, job.n)
    BY <2>3, <2>4 DEF Settles, Carries, JobOps
  <2>6. QED
    BY <1>1, <1>3, <2>1, <2>4, <2>5
<1>4. QED
  BY <1>2, <1>3

\* restartTripBatching()
LEMMA RestartTripBatchingIs ==
  ASSUME NEW a, NEW query, NEW distance, NEW D, AdapterOK(a, D)
  PROVE  LET b == RestartTripBatching(a, query, distance)
         IN /\ AdapterOK(b, D) /\ Grows(a, b)
            /\ \E c : c.then.op \in {"tripEnded", "remaining"} /\ b.calls = Append(a.calls, c)
            /\ b.sessions = a.sessions /\ b.trips = a.trips /\ b.answers = a.answers
            /\ a.batchFull /\ (DOMAIN a.trips # {} \/ ReportingCount(b) # 0) => b.batchFull
<1>1. PICK b : b = RestartTripBatching(a, query, distance)
  OBVIOUS
<1>2. CASE DOMAIN a.trips = {}
  <2>1. PICK x, y, then, call, c :
          /\ x = [a EXCEPT !.ongoing = NoTrip] /\ then = Msg("tripEnded", None)
          /\ call = "stopTrip" /\ y = Calls(x, call, None, then)
          /\ c = Call(call, None, then)
    OBVIOUS
  <2>2. b = DisableIf(y, ReportingCount(a) = 0)
    BY <1>1, <1>2, <2>1 DEF RestartTripBatching
  <2>3. /\ AdapterOK(x, D) /\ Grows(a, x) /\ x.calls = a.calls /\ x.sessions = a.sessions
        /\ x.trips = a.trips /\ x.answers = a.answers /\ x.batchFull = a.batchFull
    BY <2>1, EndsIs
  <2>4. then.op = "tripEnded" /\ MsgOK(then, D)
    BY <2>1 DEF Msg, MsgOK, JobOps
  <2>5. CallOK(c, D) /\ c.then = then
    <3>1. MsgOK(then, D) /\ then.op \in OtherResponses
      BY <2>4 DEF OtherResponses
    <3>2. call \notin PlainCalls /\ c = Call(call, None, then)
      BY <2>1 DEF PlainCalls
    <3>3. QED
      BY <3>1, <3>2, CallMade
  <2>6. /\ AdapterOK(y, D) /\ Grows(x, y) /\ y.calls = Append(x.calls, c)
        /\ y.sessions = x.sessions /\ y.trips = x.trips /\ y.answers = x.answers
        /\ y.batchFull = x.batchFull
    <3>1. y = Calls(x, call, None, then) /\ c = Call(call, None, then)
      BY <2>1
    <3>2. QED
      BY <2>3, <2>5, <3>1, CallsIs
  <2>7. /\ AdapterOK(b, D) /\ Grows(y, b) /\ b.calls = y.calls
        /\ b.sessions = y.sessions /\ b.trips = y.trips /\ b.answers = y.answers
        /\ ~(ReportingCount(a) = 0) /\ y.batchFull => b.batchFull
    BY <2>2, <2>6, DisableIfIs
  <2>8. ReportingCount(b) = ReportingCount(a)
    BY <2>3, <2>6, <2>7 DEF ReportingCount
  <2>9. Grows(a, b)
    BY <2>3, <2>6, <2>7 DEF Grows
  <2>10. c.then.op \in {"tripEnded", "remaining"} /\ b.calls = Append(a.calls, c)
    BY <2>3, <2>4, <2>5, <2>6, <2>7
  <2>11. QED
    BY <1>1, <1>2, <2>3, <2>6, <2>7, <2>8, <2>9, <2>10
<1>3. CASE DOMAIN a.trips # {}
  <2>1. PICK then, call, c :
          /\ then = Msg("remaining", [distance |-> MinRemaining(a.trips),
                                      interval |-> MinInterval(a.trips),
                                      query |-> query, covered |-> distance])
          /\ call = "query" /\ c = Call(call, None, then)
    OBVIOUS
  <2>2. b = Calls(a, call, None, then)
    BY <1>1, <1>3, <2>1 DEF RestartTripBatching
  <2>3. then.op = "remaining" /\ MsgOK(then, D)
    BY <2>1 DEF Msg, MsgOK, JobOps
  <2>4. CallOK(c, D) /\ c.then = then
    <3>1. MsgOK(then, D) /\ then.op \in OtherResponses
      BY <2>3 DEF OtherResponses
    <3>2. call \notin PlainCalls /\ c = Call(call, None, then)
      BY <2>1 DEF PlainCalls
    <3>3. QED
      BY <3>1, <3>2, CallMade
  <2>5. /\ AdapterOK(b, D) /\ Grows(a, b) /\ b.calls = Append(a.calls, c)
        /\ b.sessions = a.sessions /\ b.trips = a.trips /\ b.answers = a.answers
        /\ b.batchFull = a.batchFull
    BY <2>1, <2>2, <2>4, CallsIs
  <2>6. QED
    BY <1>1, <2>3, <2>4, <2>5
<1>4. QED
  BY <1>2, <1>3

\* What starts a session, by its mode.
LEMMA StartIs ==
  ASSUME NEW a, NEW job, NEW D, AdapterOK(a, D), JobOK(job, D)
  PROVE  LET b == Start(a, job)
         IN /\ AdapterOK(b, D) /\ Grows(a, b) /\ Settles(b, job.n) /\ b.answers = a.answers
<1>1. PICK b : b = Start(a, job)
  OBVIOUS
<1>2. CASE job.options.mode = "trip"
  BY <1>2, StartTripIs DEF Start
<1>3. CASE job.options.mode # "trip"
  BY <1>3, StartBatchingIs DEF Start
<1>4. QED
  BY <1>2, <1>3

\* stopTripBatchingMultiplexCommon(): the trip is erased and the modem's trip started anew
\* if there are more; then the session is started again if it is updated.
TripErased(a, y, job, D) ==
  /\ AdapterOK(y, D) /\ Grows(a, y) /\ y.answers = a.answers
  /\ y.sessions = a.sessions /\ y.trips = Without(a.trips, {job.session})
  /\ DOMAIN y.trips = {} => y.calls = a.calls
  /\ DOMAIN y.trips # {} =>
       \E c : c.then.op = "remaining" /\ y.calls = Append(a.calls, c)
  /\ a.batchFull => y.batchFull
Continued(y, job) ==
  Reports(IF job.restart THEN Start(EraseSession(y, job.session), job) ELSE y, job)

LEMMA StopTripCommonIs ==
  ASSUME NEW a, NEW job, NEW garbage, NEW D, AdapterOK(a, D), JobOK(job, D)
  PROVE  \E y : TripErased(a, y, job, D) /\ StopTripCommon(a, job, garbage) = Continued(y, job)
<1>1. PICK d : d = IF job.session \in DOMAIN a.trips THEN Drops(a, a.trips[job.session])
                   ELSE DropsGarbage(a, garbage)
  OBVIOUS
<1>2. /\ AdapterOK(d, D) /\ Grows(a, d) /\ d.answers = a.answers /\ d.calls = a.calls
      /\ d.trips = a.trips /\ d.sessions = a.sessions /\ d.batchFull = a.batchFull
  BY <1>1, DropsIs
<1>3. PICK e : e = EraseTrip(d, job.session)
  OBVIOUS
<1>4. /\ AdapterOK(e, D) /\ Grows(d, e) /\ e.answers = d.answers /\ e.calls = d.calls
      /\ e.trips = Without(a.trips, {job.session}) /\ e.sessions = d.sessions
      /\ e.batchFull = d.batchFull
  <2>1. PICK s : s = job.session
    OBVIOUS
  <2>2. e = EraseTrip(d, s) /\ d.trips = a.trips /\ AdapterOK(d, D)
    BY <1>2, <1>3, <2>1
  <2>3. /\ AdapterOK(e, D) /\ Grows(d, e) /\ e.answers = d.answers /\ e.calls = d.calls
        /\ e.trips = Without(d.trips, {s}) /\ e.sessions = d.sessions
        /\ e.batchFull = d.batchFull
    BY <2>2, EraseTripIs
  <2>4. QED
    BY <2>1, <2>2, <2>3
<1>5. PICK y : y = IF DOMAIN e.trips = {} THEN [e EXCEPT !.ongoing = NoTrip]
                   ELSE RestartTripBatching(e, TRUE, 0)
  OBVIOUS
<1>6. StopTripCommon(a, job, garbage) = Continued(y, job)
  BY <1>1, <1>3, <1>5 DEF StopTripCommon, Continued
<1>7. CASE DOMAIN e.trips = {}
  <2>1. /\ AdapterOK(y, D) /\ Grows(e, y) /\ y.answers = e.answers /\ y.calls = e.calls
        /\ y.trips = e.trips /\ y.sessions = e.sessions /\ y.batchFull = e.batchFull
    BY <1>4, <1>5, <1>7, EndsIs
  <2>2. Grows(a, y)
    BY <1>2, <1>4, <2>1 DEF Grows
  <2>3. QED
    BY <1>2, <1>4, <1>6, <1>7, <2>1, <2>2 DEF TripErased
<1>8. CASE DOMAIN e.trips # {}
  <2>1. y = RestartTripBatching(e, TRUE, 0)
    BY <1>5, <1>8
  <2>2. /\ AdapterOK(y, D) /\ Grows(e, y)
        /\ y.sessions = e.sessions /\ y.trips = e.trips /\ y.answers = e.answers
        /\ e.batchFull => y.batchFull
    <3>1. PICK query, distance : query = TRUE /\ distance = 0
      OBVIOUS
    <3>2. y = RestartTripBatching(e, query, distance) /\ AdapterOK(e, D)
      BY <1>4, <2>1, <3>1
    <3>3. QED
      BY <1>8, <3>2, RestartTripBatchingIs
  <2>3. \E c : c.then.op = "remaining" /\ y.calls = Append(e.calls, c)
    <3>1. PICK then, c : /\ then = Msg("remaining", [distance |-> MinRemaining(e.trips),
                                      interval |-> MinInterval(e.trips),
                                      query |-> TRUE, covered |-> 0])
                         /\ c = Call("query", None, then)
      OBVIOUS
    <3>2. y = Calls(e, "query", None, then)
      BY <1>8, <2>1, <3>1 DEF RestartTripBatching
    <3>3. y.calls = Append(e.calls, c)
      BY <1>4, <3>1, <3>2 DEF Calls, AdapterOK, Fields
    <3>4. c.then.op = "remaining"
      BY <3>1 DEF Call, Msg
    <3>5. QED
      BY <3>3, <3>4
  <2>4. Grows(a, y)
    BY <1>2, <1>4, <2>2 DEF Grows
  <2>5. QED
    BY <1>2, <1>4, <1>6, <1>8, <2>2, <2>3, <2>4 DEF TripErased
<1>9. QED
  BY <1>7, <1>8

LEMMA StopTripCommonSettles ==
  ASSUME NEW a, NEW job, NEW garbage, NEW D, AdapterOK(a, D), JobOK(job, D)
  PROVE  LET b == StopTripCommon(a, job, garbage)
         IN AdapterOK(b, D) /\ Grows(a, b) /\ Settles(b, job.n)
<1>1. PICK y : TripErased(a, y, job, D) /\ StopTripCommon(a, job, garbage) = Continued(y, job)
  BY StopTripCommonIs
<1>2. PICK x, z, b :
        /\ x = EraseSession(y, job.session)
        /\ z = IF job.restart THEN Start(x, job) ELSE y
        /\ b = Reports(z, job)
  OBVIOUS
<1>3. AdapterOK(x, D) /\ Grows(y, x)
  BY <1>1, <1>2, EraseSessionIs DEF TripErased
<1>4. AdapterOK(z, D) /\ Grows(y, z)
  <2>1. AdapterOK(Start(x, job), D) /\ Grows(x, Start(x, job))
    BY <1>3, StartIs
  <2>2. Grows(y, Start(x, job)) /\ Grows(y, y)
    BY <1>3, <2>1 DEF Grows
  <2>3. QED
    BY <1>1, <1>2, <2>1, <2>2 DEF TripErased
<1>5. AdapterOK(b, D) /\ Grows(z, b) /\ job.n \in b.answers
  BY <1>2, <1>4, ReportsIs
<1>6. Grows(a, b) /\ Settles(b, job.n)
  BY <1>1, <1>4, <1>5 DEF Grows, Settles, TripErased
<1>7. QED
  BY <1>1, <1>2, <1>5, <1>6 DEF Continued

\* stopTripBatchingMultiplex()
LEMMA StopTripIs ==
  ASSUME NEW a, NEW job, NEW garbage, NEW D, AdapterOK(a, D), JobOK(job, D)
  PROVE  LET b == StopTrip(a, job, garbage)
         IN /\ AdapterOK(b, D) /\ Grows(a, b) /\ Settles(b, job.n)
            /\ Cardinality(DOMAIN a.trips) = 1 =>
                 /\ \E c : c.then = Msg("tripStopped", job) /\ b.calls = Append(a.calls, c)
                 /\ b.sessions = a.sessions /\ b.trips = a.trips
                 /\ b.batchFull = a.batchFull
            /\ Cardinality(DOMAIN a.trips) # 1 => b = StopTripCommon(a, job, garbage)
<1>1. PICK b : b = StopTrip(a, job, garbage)
  OBVIOUS
<1>2. CASE Cardinality(DOMAIN a.trips) = 1
  <2>1. PICK then, call, c :
          then = Msg("tripStopped", job) /\ call = "stopTrip" /\ c = Call(call, None, then)
    OBVIOUS
  <2>2. b = Calls(a, call, None, then)
    BY <1>1, <1>2, <2>1 DEF StopTrip
  <2>3. then.op = "tripStopped" /\ then.arg = job /\ MsgOK(then, D)
    BY <2>1 DEF Msg, MsgOK, JobOps
  <2>4. CallOK(c, D) /\ c.then = then
    <3>1. MsgOK(then, D) /\ then.op \in OtherResponses
      BY <2>3 DEF OtherResponses
    <3>2. call \notin PlainCalls /\ c = Call(call, None, then)
      BY <2>1 DEF PlainCalls
    <3>3. QED
      BY <3>1, <3>2, CallMade
  <2>5. /\ AdapterOK(b, D) /\ Grows(a, b) /\ b.calls = Append(a.calls, c) /\ c \in ToSet(b.calls)
        /\ b.sessions = a.sessions /\ b.trips = a.trips /\ b.batchFull = a.batchFull
    BY <2>1, <2>2, <2>4, CallsIs
  <2>6. Settles(b, job.n)
    BY <2>3, <2>4, <2>5 DEF Settles, Carries, JobOps
  <2>7. QED
    BY <1>1, <1>2, <2>1, <2>4, <2>5, <2>6
<1>3. CASE Cardinality(DOMAIN a.trips) # 1
  <2>1. b = StopTripCommon(a, job, garbage)
    BY <1>1, <1>3 DEF StopTrip
  <2>2. QED
    BY <1>1, <1>3, <2>1, StopTripCommonSettles
<1>4. QED
  BY <1>2, <1>3

-----------------------------------------------------------------------------
(***************************************************************************)
(* Types, and the commands that are under way.                             *)
(***************************************************************************)
CmdsOK ==
  /\ IsSeq(cmds)
  /\ \A n \in DOMAIN cmds :
       /\ cmds[n].session \in DOMAIN cmds /\ (cmds[n].op = "start" => cmds[n].session = n)
       /\ cmds[n].op \in {"start", "update", "stop", "get"}

QueueOK ==
  /\ IsSeq(queue) /\ \A m \in ToSet(queue) : MsgOK(m, DOMAIN cmds)
  /\ IsSeq(toModem) /\ \A c \in ToSet(toModem) : CallOK(c, DOMAIN cmds)
  /\ IsSeq(mPendingMsgs)
  /\ \A m \in ToSet(mPendingMsgs) : MsgOK(m, DOMAIN cmds) /\ m.op = "command"

MapsOK ==
  /\ IsMap(mTripSessions)
  /\ DOMAIN mBatchingSessions \subseteq DOMAIN cmds
  /\ DOMAIN mTripSessions \subseteq DOMAIN cmds
  /\ modem = [batching |-> modem.batching, trip |-> modem.trip]
  /\ DOMAIN modem.batching \subseteq DOMAIN cmds
  /\ accepted \subseteq DOMAIN cmds

Types == CmdsOK /\ QueueOK /\ MapsOK

\* Every accepted command without an answer is carried by a message or by a call.
CommandsAreCarried ==
  \A n \in accepted \ answered :
    \E m \in ToSet(queue) \cup ToSet(Thens(toModem)) : Carries(m, n)

\* A message is handled, and what it carries is settled.
Handled(a) ==
  /\ AdapterOK(a, DOMAIN cmds) /\ Becomes(a)
  /\ \A n : Carries(Head(queue), n) => Settles(a, n)

LEMMA AdapterIs ==
  ASSUME Types
  PROVE  /\ AdapterOK(Adapter, DOMAIN cmds)
         /\ Adapter.sessions = mBatchingSessions /\ Adapter.trips = mTripSessions
         /\ Adapter.calls = <<>> /\ Adapter.answers = {}
         /\ (Adapter.batchFull <=> batchFull) /\ (Adapter.crossed <=> crossed)
<1>1. /\ Adapter = [x \in Fields |-> Adapter[x]]
      /\ Adapter.sessions = mBatchingSessions /\ Adapter.trips = mTripSessions
      /\ Adapter.calls = <<>> /\ Adapter.answers = {}
      /\ (Adapter.batchFull <=> batchFull) /\ (Adapter.crossed <=> crossed)
  BY DEF Adapter, Fields
<1>2. IsSeq(Adapter.calls) /\ ToSet(Adapter.calls) = {}
  BY <1>1, EmptyIsSeq
<1>3. QED
  BY <1>1, <1>2 DEF AdapterOK, Types, MapsOK

LEMMA HeadIs ==
  ASSUME Types, queue # <<>>
  PROVE  /\ MsgOK(Head(queue), DOMAIN cmds) /\ Head(queue) \in ToSet(queue)
         /\ IsSeq(Tail(queue)) /\ ToSet(queue) = {Head(queue)} \cup ToSet(Tail(queue))
<1>1. IsSeq(queue)
  BY DEF Types, QueueOK
<1>2. QED
  BY <1>1, SeqsGrow, SetsGrow DEF Types, QueueOK

\* A message that carries nothing.
LEMMA CarriesNothing ==
  ASSUME NEW m, m.op \notin JobOps \cup {"stopped"}
  PROVE  \A n : ~Carries(m, n)
BY DEF Carries

LEMMA HandledByReport ==
  ASSUME NEW a, NEW job, AdapterOK(a, DOMAIN cmds), Becomes(Reports(a, job)),
         \/ Head(queue).op \in JobOps /\ Head(queue).arg = job
         \/ Head(queue).op = "stopped" /\ Head(queue).arg.job = job
  PROVE  Handled(Reports(a, job))
<1>1. PICK b : b = Reports(a, job)
  OBVIOUS
<1>2. AdapterOK(b, DOMAIN cmds) /\ job.n \in b.answers
  BY <1>1, ReportsIs
<1>3. \A n : Carries(Head(queue), n) => n = job.n
  BY DEF Carries, JobOps
<1>4. QED
  BY <1>1, <1>2, <1>3 DEF Handled, Settles

LEMMA HandledWithNothing ==
  ASSUME NEW a, AdapterOK(a, DOMAIN cmds), Becomes(a),
         Head(queue).op \notin JobOps \cup {"stopped"}
  PROVE  Handled(a)
BY CarriesNothing DEF Handled

LEMMA HandleStartedTypes ==
  ASSUME Types, HandleStarted
  PROVE  \E a : Handled(a)
<1>1. PICK e, d : /\ e = IF Ok THEN Adapter ELSE EraseSession(Adapter, Arg.session)
                  /\ d = DisableIf(e, /\ ~Ok /\ Arg.options.mode # "noAutoReport"
                                      /\ ReportingCount(e) = 0)
  OBVIOUS
<1>2. Becomes(Reports(d, Arg)) /\ Head(queue).op = "started"
  BY <1>1 DEF HandleStarted, Continues, Handling
<1>3. AdapterOK(e, DOMAIN cmds)
  BY <1>1, AdapterIs, EraseSessionIs
<1>4. AdapterOK(d, DOMAIN cmds)
  BY <1>1, <1>3, DisableIfIs
<1>5. QED
  BY <1>2, <1>4, HandledByReport DEF Arg, JobOps

LEMMA HandleStoppedTypes ==
  ASSUME Types, HandleStopped
  PROVE  \E a : Handled(a)
<1>1. PICK job, d, s, x :
        /\ job = Arg.job
        /\ d = DisableIf(Adapter, ReportingCount(Adapter) = 0 /\ Arg.mode # "noAutoReport")
        /\ s = [Adapter EXCEPT !.sessions = With(@, job.session, job.options)]
        /\ x = IF ~Ok THEN s ELSE IF job.restart THEN Start(d, job) ELSE d
  OBVIOUS
<1>2. Becomes(Reports(x, job)) /\ Head(queue).op = "stopped" /\ queue # <<>>
  BY <1>1 DEF HandleStopped, Continues, Handling
<1>3. JobOK(job, DOMAIN cmds)
  BY <1>1, <1>2, HeadIs DEF MsgOK, Arg
<1>4. AdapterOK(d, DOMAIN cmds) /\ AdapterOK(s, DOMAIN cmds)
  <2>1. AdapterOK(d, DOMAIN cmds)
    BY <1>1, AdapterIs, DisableIfIs
  <2>2. AdapterOK(s, DOMAIN cmds)
    BY <1>1, <1>3, AdapterIs, SavesIs DEF JobOK
  <2>3. QED
    BY <2>1, <2>2
<1>5. AdapterOK(Start(d, job), DOMAIN cmds)
  BY <1>3, <1>4, StartIs
<1>6. AdapterOK(x, DOMAIN cmds)
  BY <1>1, <1>4, <1>5
<1>7. QED
  BY <1>1, <1>2, <1>6, HandledByReport DEF Arg

LEMMA HandleGotTypes ==
  ASSUME Types, HandleGot \/ HandleTripRestarted
  PROVE  \E a : Handled(a)
<1>1. Becomes(Reports(Adapter, Arg)) /\ Head(queue).op \in JobOps
  BY DEF HandleGot, HandleTripRestarted, Continues, Handling, JobOps
<1>2. QED
  BY <1>1, AdapterIs, HandledByReport DEF Arg

LEMMA HandleIgnoredTypes ==
  ASSUME Types, HandleIgnored
  PROVE  \E a : Handled(a)
<1>1. Becomes(Adapter) /\ Head(queue).op \notin JobOps \cup {"stopped"}
  BY DEF HandleIgnored, Continues, Handling, JobOps
<1>2. QED
  BY <1>1, AdapterIs, HandledWithNothing

LEMMA HandleTripStartedTypes ==
  ASSUME Types, HandleTripStarted
  PROVE  \E a : Handled(a)
<1>1. PICK ongoing, e1, e2, d, s, x :
        /\ ongoing = [distance |-> Arg.options.distance, interval |-> Arg.options.interval]
        /\ e1 = EraseSession(Adapter, Arg.session) /\ e2 = EraseTrip(e1, Arg.session)
        /\ d = DisableIf(e2, ReportingCount(e2) = 0)
        /\ s = [Adapter EXCEPT !.ongoing = ongoing]
        /\ x = IF Ok THEN s ELSE d
  OBVIOUS
<1>2. Becomes(Reports(x, Arg)) /\ Head(queue).op = "tripStarted"
  BY <1>1 DEF HandleTripStarted, Continues, Handling
<1>3. AdapterOK(e1, DOMAIN cmds)
  BY <1>1, AdapterIs, EraseSessionIs
<1>4. AdapterOK(e2, DOMAIN cmds)
  BY <1>1, <1>3, EraseTripIs
<1>5. AdapterOK(d, DOMAIN cmds)
  BY <1>1, <1>4, DisableIfIs
<1>6. AdapterOK(s, DOMAIN cmds)
  BY <1>1, AdapterIs, EndsIs
<1>7. QED
  BY <1>1, <1>2, <1>5, <1>6, HandledByReport DEF Arg, JobOps

LEMMA HandleTripStoppedTypes ==
  ASSUME Types, HandleTripStopped
  PROVE  \E a : Handled(a)
<1>1. PICK garbage \in Garbage :
        Becomes(StopTripCommon(DisableIf(Adapter, Ok /\ ReportingCount(Adapter) = 1), Arg,
                               garbage))
  BY DEF HandleTripStopped
<1>2. Head(queue).op = "tripStopped" /\ queue # <<>>
  BY DEF HandleTripStopped, Continues, Handling
<1>3. JobOK(Arg, DOMAIN cmds)
  BY <1>2, HeadIs DEF MsgOK, Arg, JobOps
<1>4. PICK d, b : /\ d = DisableIf(Adapter, Ok /\ ReportingCount(Adapter) = 1)
                  /\ b = StopTripCommon(d, Arg, garbage)
  OBVIOUS
<1>5. AdapterOK(d, DOMAIN cmds)
  BY <1>4, AdapterIs, DisableIfIs
<1>6. AdapterOK(b, DOMAIN cmds) /\ Settles(b, Arg.n)
  BY <1>3, <1>4, <1>5, StopTripCommonSettles
<1>7. \A n : Carries(Head(queue), n) => n = Arg.n
  BY <1>2 DEF Carries, Arg
<1>8. QED
  BY <1>1, <1>4, <1>6, <1>7 DEF Handled

\* The trip of the response to a query.
QueriedTrip(o, covered) ==
  [ongoingBatch |-> covered, thisTrip |-> 0, onRestart |-> 0,
   distance |-> o.distance, interval |-> o.interval]

LEMMA TripsAreSaved ==
  ASSUME NEW a, NEW D, AdapterOK(a, D),
         NEW trips, DOMAIN trips \subseteq D, IsMap(trips)
  PROVE  LET b == [a EXCEPT !.trips = trips]
         IN /\ AdapterOK(b, D) /\ Grows(a, b) /\ b.answers = a.answers /\ b.calls = a.calls
            /\ b.trips = trips /\ b.sessions = a.sessions /\ b.batchFull = a.batchFull
<1>1. PICK b : b = [a EXCEPT !.trips = trips]
  OBVIOUS
<1>2. /\ b = [x \in Fields |-> b[x]]
      /\ b.answers = a.answers /\ b.calls = a.calls /\ b.crossed = a.crossed
      /\ b.trips = trips /\ b.sessions = a.sessions /\ b.batchFull = a.batchFull
  BY <1>1 DEF AdapterOK, Fields
<1>3. QED
  BY <1>1, <1>2 DEF AdapterOK, Grows

LEMMA RestartedIs ==
  ASSUME NEW trips
  PROVE  DOMAIN Restarted(trips) = DOMAIN trips /\ IsMap(Restarted(trips))
BY DEF Restarted, IsMap

\* What the response to the query of a start does to the adapter.
Queried(a) ==
  \E known :
    /\ AdapterOK(known, DOMAIN cmds) /\ Grows(Adapter, known)
    /\ known.answers = {} /\ known.calls = <<>> /\ known.batchFull = Adapter.batchFull
    /\ known.sessions = mBatchingSessions
    /\ DOMAIN known.trips = DOMAIN mTripSessions \/ (Ok /\
         DOMAIN known.trips = DOMAIN mTripSessions \cup {Arg.session})
    /\ \/ a = Reports(known, Arg)
       \/ \E c : /\ c.then = Msg("tripRestarted", Arg) /\ CallOK(c, DOMAIN cmds)
                 /\ AdapterOK(a, DOMAIN cmds) /\ Grows(known, a) /\ a.answers = {}
                 /\ a.calls = Append(known.calls, c) /\ c \in ToSet(a.calls)
                 /\ a.sessions = known.sessions /\ DOMAIN a.trips = DOMAIN known.trips
                 /\ a.batchFull = known.batchFull

LEMMA HandleTripQueriedIs ==
  ASSUME Types, HandleTripQueried
  PROVE  \E a : Queried(a) /\ Becomes(a)
<1>1. Head(queue).op = "tripQueried" /\ queue # <<>>
  BY DEF HandleTripQueried, Continues, Handling
<1>2. JobOK(Arg, DOMAIN cmds)
  BY <1>1, HeadIs DEF MsgOK, Arg, JobOps
<1>3. PICK covered, o, remaining, known, ongoing, x, then :
        /\ covered = Head(queue).distance /\ o = Arg.options
        /\ remaining = IF Ok THEN Minus(mOngoing.distance, covered) ELSE mOngoing.distance
        /\ known = IF ~Ok THEN Adapter
                   ELSE [Adapter EXCEPT !.trips = With(@, Arg.session, QueriedTrip(o, covered))]
        /\ ongoing = [distance |-> IF o.distance < remaining THEN o.distance ELSE remaining,
                      interval |-> IF mOngoing.interval > o.interval THEN o.interval
                                   ELSE mOngoing.interval]
        /\ x = [known EXCEPT !.ongoing = ongoing, !.trips = Restarted(@)]
        /\ then = Msg("tripRestarted", Arg)
  OBVIOUS
<1>10. PICK a : /\ a = IF mOngoing.interval > o.interval \/ o.distance < remaining
                       THEN Calls(x, "restartTrip", ongoing, then)
                       ELSE Reports(known, Arg)
                /\ Becomes(a)
  <2>1. Becomes(IF mOngoing.interval > o.interval \/ o.distance < remaining
                THEN Calls(x, "restartTrip", ongoing, then)
                ELSE Reports(known, Arg))
    BY <1>3 DEF HandleTripQueried, QueriedTrip
  <2>2. QED
    BY <2>1
<1>11. a = Calls(x, "restartTrip", ongoing, then) \/ a = Reports(known, Arg)
  BY <1>10
<1>4. /\ AdapterOK(known, DOMAIN cmds) /\ Grows(Adapter, known)
      /\ known.answers = {} /\ known.calls = <<>> /\ known.batchFull = Adapter.batchFull
      /\ known.sessions = mBatchingSessions
      /\ DOMAIN known.trips = DOMAIN mTripSessions \/ (Ok /\
           DOMAIN known.trips = DOMAIN mTripSessions \cup {Arg.session})
  <2>1. CASE ~Ok
    <3>1. known = Adapter /\ Grows(Adapter, Adapter)
      BY <1>3, <2>1 DEF Grows
    <3>2. QED
      BY <3>1, AdapterIs
  <2>2. CASE Ok
    <3>1. PICK trips : trips = With(Adapter.trips, Arg.session, QueriedTrip(o, covered))
      OBVIOUS
    <3>2. DOMAIN trips = DOMAIN mTripSessions \cup {Arg.session} /\ IsMap(trips)
      <4>1. IsMap(trips)
        BY <3>1, MapsAre
      <4>2. QED
        BY <3>1, <4>1, AdapterIs DEF With
    <3>3. DOMAIN trips \subseteq DOMAIN cmds
      BY <1>2, <3>2 DEF JobOK, Types, MapsOK
    <3>4. known = [Adapter EXCEPT !.trips = trips]
      BY <1>3, <2>2, <3>1
    <3>5. /\ AdapterOK(known, DOMAIN cmds) /\ Grows(Adapter, known)
          /\ known.answers = Adapter.answers /\ known.calls = Adapter.calls
          /\ known.trips = trips /\ known.sessions = Adapter.sessions
          /\ known.batchFull = Adapter.batchFull
      BY <3>2, <3>3, <3>4, AdapterIs, TripsAreSaved
    <3>6. QED
      BY <2>2, <3>2, <3>5, AdapterIs
  <2>3. QED
    BY <2>1, <2>2
<1>5. CASE a = Reports(known, Arg)
  BY <1>4, <1>5, <1>10 DEF Queried
<1>6. CASE a = Calls(x, "restartTrip", ongoing, then)
  <2>1. PICK trips, call, c : /\ trips = Restarted(known.trips) /\ call = "restartTrip"
                              /\ c = Call(call, ongoing, then)
    OBVIOUS
  <2>2. x = [known EXCEPT !.ongoing = ongoing, !.trips = trips] /\ DOMAIN trips = DOMAIN known.trips
    BY <1>3, <2>1, RestartedIs
  <2>3. DOMAIN trips \subseteq DOMAIN cmds /\ IsMap(trips)
    BY <1>4, <2>1, <2>2, RestartedIs DEF AdapterOK
  <2>4. /\ AdapterOK(x, DOMAIN cmds) /\ Grows(known, x) /\ x.answers = known.answers
        /\ x.calls = known.calls
        /\ x.trips = trips /\ x.sessions = known.sessions /\ x.batchFull = known.batchFull
    <3>1. PICK z : z = [known EXCEPT !.ongoing = ongoing]
      OBVIOUS
    <3>2. /\ AdapterOK(z, DOMAIN cmds) /\ Grows(known, z) /\ z.answers = known.answers
          /\ z.calls = known.calls /\ z.trips = known.trips /\ z.sessions = known.sessions
          /\ z.batchFull = known.batchFull
      BY <1>4, <3>1, EndsIs, SMTT(20)
    <3>3. x = [z EXCEPT !.trips = trips]
      BY <2>2, <3>1
    <3>4. /\ AdapterOK(x, DOMAIN cmds) /\ Grows(z, x) /\ x.answers = z.answers
          /\ x.calls = z.calls
          /\ x.trips = trips /\ x.sessions = z.sessions /\ x.batchFull = z.batchFull
      BY <2>3, <3>2, <3>3, TripsAreSaved
    <3>5. QED
      BY <3>2, <3>4 DEF Grows
  <2>5. then.op = "tripRestarted" /\ then.arg = Arg /\ MsgOK(then, DOMAIN cmds)
    BY <1>2, <1>3 DEF Msg, MsgOK, JobOps
  <2>6. CallOK(c, DOMAIN cmds) /\ c.then = then
    <3>1. MsgOK(then, DOMAIN cmds) /\ then.op \in OtherResponses
      BY <2>5 DEF OtherResponses
    <3>2. call \notin PlainCalls /\ c = Call(call, ongoing, then)
      BY <2>1 DEF PlainCalls
    <3>3. QED
      BY <3>1, <3>2, CallMade
  <2>7. a = Calls(x, call, ongoing, then)
    BY <1>6, <2>1
  <2>8. /\ AdapterOK(a, DOMAIN cmds) /\ Grows(x, a) /\ a.calls = Append(x.calls, c)
        /\ c \in ToSet(a.calls) /\ a.sessions = x.sessions /\ a.trips = x.trips
        /\ a.batchFull = x.batchFull /\ a.answers = x.answers
    <3>1. AdapterOK(x, DOMAIN cmds) /\ CallOK(c, DOMAIN cmds) /\ c = Call(call, ongoing, then)
      BY <2>1, <2>4, <2>6
    <3>2. QED
      BY <2>7, <3>1, CallsIs
  <2>9. Grows(known, a)
    BY <2>4, <2>8 DEF Grows
  <2>10. c.then = Msg("tripRestarted", Arg)
    BY <1>3, <2>6
  <2>11. \E d : /\ d.then = Msg("tripRestarted", Arg) /\ CallOK(d, DOMAIN cmds)
                 /\ AdapterOK(a, DOMAIN cmds) /\ Grows(known, a) /\ a.answers = {}
                 /\ a.calls = Append(known.calls, d) /\ d \in ToSet(a.calls)
                 /\ a.sessions = known.sessions /\ DOMAIN a.trips = DOMAIN known.trips
                 /\ a.batchFull = known.batchFull
    BY <1>4, <2>2, <2>4, <2>6, <2>8, <2>9, <2>10
  <2>12. QED
    BY <1>4, <1>10, <2>11 DEF Queried
<1>7. QED
  BY <1>5, <1>6, <1>11

LEMMA HandleTripQueriedTypes ==
  ASSUME Types, HandleTripQueried
  PROVE  \E a : Handled(a)
<1>1. PICK a : Queried(a) /\ Becomes(a)
  BY HandleTripQueriedIs
<1>2. Head(queue).op = "tripQueried"
  BY DEF HandleTripQueried, Continues, Handling
<1>3. PICK known :
    /\ AdapterOK(known, DOMAIN cmds)
    /\ \/ a = Reports(known, Arg)
       \/ \E c : /\ c.then = Msg("tripRestarted", Arg)
                 /\ AdapterOK(a, DOMAIN cmds) /\ c \in ToSet(a.calls)
  BY <1>1 DEF Queried
<1>4. CASE a = Reports(known, Arg)
  BY <1>1, <1>2, <1>3, <1>4, HandledByReport DEF Arg, JobOps
<1>5. CASE \E c : /\ c.then = Msg("tripRestarted", Arg)
                  /\ AdapterOK(a, DOMAIN cmds) /\ c \in ToSet(a.calls)
  <2>1. PICK c : /\ c.then = Msg("tripRestarted", Arg)
                 /\ AdapterOK(a, DOMAIN cmds) /\ c \in ToSet(a.calls)
    BY <1>5
  <2>2. c.then.op = "tripRestarted" /\ c.then.arg = Arg
    BY <2>1 DEF Msg
  <2>3. \A n : Carries(Head(queue), n) => Carries(c.then, n)
    BY <1>2, <2>2 DEF Carries, JobOps, Arg
  <2>4. QED
    BY <1>1, <2>1, <2>3 DEF Handled, Settles
<1>6. QED
  BY <1>3, <1>4, <1>5

\* A continuation that makes one call about no command.
LEMMA CallAboutTrips ==
  ASSUME NEW a, NEW D, AdapterOK(a, D), NEW call, NEW arg, NEW then,
         then.op \in {"remaining", "multiplexed", "tripResumed", "tripEnded"},
         then = [op |-> then.op, arg |-> then.arg, ok |-> then.ok, distance |-> then.distance],
         call \notin PlainCalls
  PROVE  LET b == Calls(a, call, arg, then)
         IN /\ AdapterOK(b, D) /\ Grows(a, b)
            /\ \E c : c.then = then /\ b.calls = Append(a.calls, c)
            /\ b.sessions = a.sessions /\ b.trips = a.trips
            /\ b.batchFull = a.batchFull /\ b.answers = a.answers
<1>1. PICK c, b : c = Call(call, arg, then) /\ b = Calls(a, call, arg, then)
  OBVIOUS
<1>2. MsgOK(then, D) /\ then.op \in OtherResponses
  BY DEF MsgOK, JobOps, OtherResponses
<1>3. CallOK(c, D) /\ c.then = then
  BY <1>1, <1>2, CallMade
<1>4. /\ AdapterOK(b, D) /\ Grows(a, b) /\ b.calls = Append(a.calls, c)
      /\ b.sessions = a.sessions /\ b.trips = a.trips
      /\ b.batchFull = a.batchFull /\ b.answers = a.answers
  BY <1>1, <1>3, CallsIs
<1>5. QED
  BY <1>1, <1>3, <1>4


\* What a continuation does that is about trips and no command: no session and no answer
\* is touched, no trip is new, and it makes one call at most, for a trip that ends too.
AboutTrips(a) ==
  /\ AdapterOK(a, DOMAIN cmds) /\ Grows(Adapter, a) /\ a.answers = {}
  /\ a.sessions = mBatchingSessions /\ DOMAIN a.trips \subseteq DOMAIN mTripSessions
  /\ \/ a.calls = <<>> /\ DOMAIN a.trips = DOMAIN mTripSessions
     \/ \E c : /\ c.then.op \in {"remaining", "multiplexed", "tripEnded"}
               /\ a.calls = Append(<<>>, c)
  /\ (DOMAIN a.trips = {} /\ ReportingCount(a) = 0) \/ (batchFull => a.batchFull)

LEMMA AdapterIsAboutTrips ==
  ASSUME Types
  PROVE  AboutTrips(Adapter)
<1>1. Grows(Adapter, Adapter)
  BY DEF Grows
<1>2. QED
  BY <1>1, AdapterIs DEF AboutTrips

LEMMA HandleRemainingIs ==
  ASSUME Types, HandleRemaining
  PROVE  \E a : AboutTrips(a) /\ Becomes(a)
<1>1. PICK covered, left, going, shorter, faster, ongoing, then, call, x, a :
        /\ call = "restartTrip"
        /\ then = Msg("multiplexed", [covered |-> covered, ongoing |-> ongoing])
        /\ x = Calls(Adapter, call, ongoing, then)
        /\ a = x \/ a = Adapter
        /\ Becomes(a)
  <2>1. PICK covered : covered = IF Arg.query THEN Head(queue).distance ELSE Arg.covered
    OBVIOUS
  <2>2. PICK left : left = Minus(mOngoing.distance, covered)
    OBVIOUS
  <2>3. \E ongoing :
          Becomes(Calls(Adapter, "restartTrip", ongoing,
                        Msg("multiplexed", [covered |-> covered, ongoing |-> ongoing])))
          \/ Becomes(Adapter)
    BY <2>1, <2>2 DEF HandleRemaining
  <2>4. QED
    BY <2>3
<1>2. then.op = "multiplexed" /\ MsgOK(then, DOMAIN cmds)
  BY <1>1 DEF Msg, MsgOK, JobOps
<1>3. PICK c : c = Call(call, ongoing, then)
  OBVIOUS
<1>4. CallOK(c, DOMAIN cmds) /\ c.then = then
  <2>1. then.op \in OtherResponses /\ call \notin PlainCalls
    BY <1>1, <1>2 DEF OtherResponses, PlainCalls
  <2>2. QED
    BY <1>2, <1>3, <2>1, CallMade
<1>5. CASE a = x
  <2>1. /\ AdapterOK(a, DOMAIN cmds) /\ Grows(Adapter, a)
        /\ a.calls = Append(Adapter.calls, c)
        /\ a.sessions = Adapter.sessions /\ a.trips = Adapter.trips
        /\ a.batchFull = Adapter.batchFull /\ a.answers = Adapter.answers
    <3>1. a = Calls(Adapter, call, ongoing, then)
      BY <1>1, <1>5
    <3>2. /\ AdapterOK(Adapter, DOMAIN cmds) /\ CallOK(c, DOMAIN cmds)
          /\ c = Call(call, ongoing, then)
      BY <1>3, <1>4, AdapterIs
    <3>3. QED
      BY <3>1, <3>2, CallsIs
  <2>2. /\ a.calls = Append(<<>>, c) /\ a.sessions = mBatchingSessions
        /\ a.trips = mTripSessions /\ a.answers = {} /\ (batchFull => a.batchFull)
    BY <2>1, AdapterIs
  <2>3. c.then.op = "multiplexed"
    BY <1>2, <1>4
  <2>4. AboutTrips(a)
    BY <2>1, <2>2, <2>3 DEF AboutTrips
  <2>5. QED
    BY <1>1, <2>4
<1>6. CASE a = Adapter
  BY <1>1, <1>6, AdapterIsAboutTrips
<1>7. QED
  BY <1>1, <1>5, <1>6

\* How far a trip has gone, when the modem's trip has been restarted.
SoFar(t, arg) ==
  LET sofar == Plus(t.onRestart, Minus(arg.covered, t.ongoingBatch))
  IN [t EXCEPT !.thisTrip = sofar, !.onRestart = sofar, !.ongoingBatch = 0]

LEMMA HandleMultiplexedIs ==
  ASSUME Types, HandleMultiplexed
  PROVE  \E a : AboutTrips(a) /\ Becomes(a)
<1>1. PICK counted, ongoing, a :
        /\ DOMAIN counted = DOMAIN mTripSessions /\ IsMap(counted)
        /\ a = [Adapter EXCEPT !.trips = counted, !.ongoing = ongoing] \/ a = Adapter
        /\ Becomes(a)
  <2>1. PICK counted :
          counted = [s \in DOMAIN mTripSessions |-> SoFar(mTripSessions[s], Arg)]
    OBVIOUS
  <2>2. \/ Becomes([Adapter EXCEPT !.trips = counted, !.ongoing = Arg.ongoing])
        \/ Becomes(Adapter)
    <3>1. PICK f : f = [s \in DOMAIN mTripSessions |->
             LET t == mTripSessions[s]
                 sofar == Plus(t.onRestart, Minus(Arg.covered, t.ongoingBatch))
             IN [t EXCEPT !.thisTrip = sofar, !.onRestart = sofar, !.ongoingBatch = 0]]
      OBVIOUS
    <3>2. \/ Becomes([Adapter EXCEPT !.trips = f, !.ongoing = Arg.ongoing])
          \/ Becomes(Adapter)
      BY <3>1 DEF HandleMultiplexed
    <3>3. f = counted
      BY <2>1, <3>1 DEF SoFar
    <3>4. QED
      BY <3>2, <3>3
  <2>3. DOMAIN counted = DOMAIN mTripSessions /\ IsMap(counted)
    <3>1. DOMAIN counted = DOMAIN mTripSessions
      BY <2>1
    <3>2. counted = [s \in DOMAIN counted |-> counted[s]]
      BY <2>1
    <3>3. QED
      BY <3>1, <3>2 DEF IsMap
  <2>4. PICK ongoing : ongoing = Arg.ongoing
    OBVIOUS
  <2>5. PICK a : /\ a = [Adapter EXCEPT !.trips = counted, !.ongoing = ongoing] \/ a = Adapter
                 /\ Becomes(a)
    BY <2>2, <2>4
  <2>6. QED
    BY <2>3, <2>5
<1>2. CASE a = [Adapter EXCEPT !.trips = counted, !.ongoing = ongoing]
  <2>1. PICK x : x = [Adapter EXCEPT !.trips = counted]
    OBVIOUS
  <2>2. /\ AdapterOK(x, DOMAIN cmds) /\ Grows(Adapter, x) /\ x.answers = Adapter.answers
        /\ x.calls = Adapter.calls /\ x.trips = counted /\ x.sessions = Adapter.sessions
        /\ x.batchFull = Adapter.batchFull
    <3>1. DOMAIN counted \subseteq DOMAIN cmds
      BY <1>1 DEF Types, MapsOK
    <3>2. QED
      BY <1>1, <2>1, <3>1, AdapterIs, TripsAreSaved
  <2>3. a = [x EXCEPT !.ongoing = ongoing]
    BY <1>2, <2>1
  <2>4. /\ AdapterOK(a, DOMAIN cmds) /\ Grows(x, a) /\ a.answers = x.answers
        /\ a.calls = x.calls /\ a.trips = x.trips /\ a.sessions = x.sessions
        /\ a.batchFull = x.batchFull
    BY <2>2, <2>3, EndsIs
  <2>5. Grows(Adapter, a)
    BY <2>2, <2>4 DEF Grows
  <2>6. AboutTrips(a)
    BY <1>1, <2>2, <2>4, <2>5, AdapterIs DEF AboutTrips
  <2>7. QED
    BY <1>1, <2>6
<1>3. CASE a = Adapter
  BY <1>1, <1>3, AdapterIsAboutTrips
<1>4. QED
  BY <1>1, <1>2, <1>3

LEMMA HandleTripResumedIs ==
  ASSUME Types, HandleTripResumed
  PROVE  \E a : AboutTrips(a) /\ Becomes(a)
<1>1. PICK ongoing, a : /\ a = [Adapter EXCEPT !.ongoing = ongoing] \/ a = Adapter
                        /\ Becomes(a)
  BY DEF HandleTripResumed
<1>2. CASE a = [Adapter EXCEPT !.ongoing = ongoing]
  <2>1. /\ AdapterOK(a, DOMAIN cmds) /\ Grows(Adapter, a) /\ a.answers = Adapter.answers
        /\ a.calls = Adapter.calls /\ a.trips = Adapter.trips /\ a.sessions = Adapter.sessions
        /\ a.batchFull = Adapter.batchFull
    BY <1>2, AdapterIs, EndsIs
  <2>2. AboutTrips(a)
    BY <2>1, AdapterIs DEF AboutTrips
  <2>3. QED
    BY <1>1, <2>2
<1>3. CASE a = Adapter
  BY <1>1, <1>3, AdapterIsAboutTrips
<1>4. QED
  BY <1>1, <1>2, <1>3

LEMMA HandleCompletedIs ==
  ASSUME Types, HandleCompleted
  PROVE  \E a : AboutTrips(a) /\ Becomes(a)
<1>1. PICK counted, complete, garbage, x, d, r, query, covered, a :
        /\ DOMAIN counted = DOMAIN mTripSessions
        /\ x = [Adapter EXCEPT !.trips = Without(counted, complete)]
        /\ d = DropsGarbage(x, garbage)
        /\ r = RestartTripBatching(d, query, covered)
        /\ (a = x /\ complete = {}) \/ a = r
        /\ Becomes(a)
  <2>1. PICK counted : counted = [s \in DOMAIN mTripSessions |->
           LET t == mTripSessions[s]
           IN [t EXCEPT !.thisTrip = Plus(t.onRestart, Minus(Arg, t.ongoingBatch))]]
    OBVIOUS
  <2>2. PICK complete : complete =
          {s \in DOMAIN counted : counted[s].distance <= counted[s].thisTrip}
    OBVIOUS
  <2>3. PICK x : x = [Adapter EXCEPT !.trips = Without(counted, complete)]
    OBVIOUS
  <2>4. PICK garbage \in Garbage :
          Becomes(IF complete = {} THEN x
                  ELSE RestartTripBatching(DropsGarbage(x, garbage), FALSE, Arg))
    BY <2>1, <2>2, <2>3 DEF HandleCompleted
  <2>5. \/ Becomes(x) /\ complete = {}
        \/ Becomes(RestartTripBatching(DropsGarbage(x, garbage), FALSE, Arg))
    BY <2>4
  <2>6. DOMAIN counted = DOMAIN mTripSessions
    BY <2>1
  <2>7. QED
    BY <2>3, <2>5, <2>6
<1>2. PICK trips : trips = Without(counted, complete)
  OBVIOUS
<1>3. /\ DOMAIN trips \subseteq DOMAIN mTripSessions /\ DOMAIN trips \subseteq DOMAIN cmds
      /\ complete = {} => DOMAIN trips = DOMAIN mTripSessions
  <2>1. DOMAIN trips = DOMAIN counted \ complete
    BY <1>2, WithoutIs
  <2>2. QED
    BY <1>1, <2>1 DEF Types, MapsOK
<1>4. /\ AdapterOK(x, DOMAIN cmds) /\ Grows(Adapter, x) /\ x.answers = Adapter.answers
      /\ x.calls = Adapter.calls /\ x.trips = trips /\ x.sessions = Adapter.sessions
      /\ x.batchFull = Adapter.batchFull
  <2>1. x = [Adapter EXCEPT !.trips = trips] /\ IsMap(trips)
    BY <1>1, <1>2, MapsAre
  <2>2. QED
    BY <1>3, <2>1, AdapterIs, TripsAreSaved
<1>5. CASE a = x /\ complete = {}
  <2>1. AboutTrips(a)
    BY <1>3, <1>4, <1>5, AdapterIs DEF AboutTrips
  <2>2. QED
    BY <1>1, <2>1
<1>6. CASE a = r
  <2>1. /\ AdapterOK(d, DOMAIN cmds) /\ Grows(x, d) /\ d.answers = x.answers
        /\ d.calls = x.calls /\ d.trips = x.trips /\ d.sessions = x.sessions
        /\ d.batchFull = x.batchFull
    <3>1. d \in {Drops(x, garbage), DropsGarbage(x, garbage)}
      BY <1>1
    <3>2. AdapterOK(x, DOMAIN cmds)
      BY <1>4
    <3>3. QED
      BY <3>1, <3>2, DropsIs
  <2>2. a = RestartTripBatching(d, query, covered)
    BY <1>1, <1>6
  <2>3. /\ AdapterOK(a, DOMAIN cmds) /\ Grows(d, a)
        /\ \E c : c.then.op \in {"tripEnded", "remaining"} /\ a.calls = Append(d.calls, c)
        /\ a.sessions = d.sessions /\ a.trips = d.trips /\ a.answers = d.answers
        /\ d.batchFull /\ (DOMAIN d.trips # {} \/ ReportingCount(a) # 0) => a.batchFull
    BY <2>1, <2>2, RestartTripBatchingIs, SMTT(20)
  <2>4. Grows(Adapter, a)
    BY <1>4, <2>1, <2>3 DEF Grows
  <2>5. /\ a.answers = {} /\ a.sessions = mBatchingSessions
        /\ DOMAIN a.trips \subseteq DOMAIN mTripSessions
        /\ \E c : c.then.op \in {"tripEnded", "remaining"} /\ a.calls = Append(<<>>, c)
    <3>1. d.calls = <<>> /\ d.answers = {} /\ d.sessions = mBatchingSessions /\ d.trips = trips
      BY <1>4, <2>1, AdapterIs
    <3>2. QED
      BY <1>3, <2>3, <3>1
  <2>6. (DOMAIN a.trips = {} /\ ReportingCount(a) = 0) \/ (batchFull => a.batchFull)
    BY <1>4, <2>1, <2>3, AdapterIs
  <2>7. AboutTrips(a)
    BY <2>3, <2>4, <2>5, <2>6 DEF AboutTrips
  <2>8. QED
    BY <1>1, <2>7
<1>7. QED
  BY <1>1, <1>5, <1>6

LEMMA TripContinuationTypes ==
  ASSUME Types,
         HandleRemaining \/ HandleMultiplexed \/ HandleTripResumed \/ HandleCompleted
  PROVE  \E a : Handled(a)
<1>1. Head(queue).op \notin JobOps \cup {"stopped"}
  BY DEF HandleRemaining, HandleMultiplexed, HandleTripResumed, HandleCompleted, Continues,
         Handling, JobOps
<1>2. PICK a : AboutTrips(a) /\ Becomes(a)
  BY HandleRemainingIs, HandleMultiplexedIs, HandleTripResumedIs, HandleCompletedIs
<1>3. QED
  BY <1>1, <1>2, HandledWithNothing DEF AboutTrips

-----------------------------------------------------------------------------
(***************************************************************************)
(* The loop over the sessions of a client that is removed.                 *)
(***************************************************************************)
\* Every set of natural numbers has a least one.
LEMMA Least ==
  ASSUME NEW S \in SUBSET Nat, S # {}
  PROVE  \E m \in S : \A k \in S : m <= k
<1> DEFINE Below(m) == 0..m
           T == {Below(m) : m \in S}
<1>1. T \subseteq FiniteSubsetsOf(Nat) /\ T # {}
  <2>1. ASSUME NEW m \in S
        PROVE  Below(m) \in FiniteSubsetsOf(Nat)
    <3>1. m \in Int /\ 0 \in Int /\ 0..m \subseteq Nat
      OBVIOUS
    <3>2. IsFiniteSet(0..m)
      BY <3>1, FS_Interval
    <3>3. QED
      BY <3>1, <3>2 DEF FiniteSubsetsOf
  <2>2. QED
    BY <2>1
<1>2. PICK t \in T : \A u \in T : ~(<<u, t>> \in StrictSubsetOrdering(Nat))
  BY <1>1, FS_StrictSubsetOrderingWellFounded, WFMin
<1>3. PICK m \in S : t = Below(m)
  BY <1>2
<1>4. ASSUME NEW k \in S, k < m
      PROVE  FALSE
  <2>1. Below(k) \subseteq Below(m) /\ m \in Below(m) /\ m \notin Below(k)
    BY <1>4
  <2>2. Below(k) \in FiniteSubsetsOf(Nat) /\ Below(m) \in FiniteSubsetsOf(Nat)
    BY <1>1
  <2>3. <<Below(k), t>> \in StrictSubsetOrdering(Nat)
    BY <1>3, <2>1, <2>2 DEF StrictSubsetOrdering, FiniteSubsetsOf
  <2>4. QED
    BY <1>2, <2>3
<1>5. QED
  BY <1>4

\* What holds at first and is kept by each step holds after each of them.
LEMMA StepByStep ==
  ASSUME NEW n \in Nat, NEW S, 0 \in S, \A k \in 1..n : k - 1 \in S => k \in S
  PROVE  \A k \in 0..n : k \in S
<1> DEFINE Bad == {k \in 0..n : k \notin S}
<1>1. SUFFICES ASSUME Bad # {}
               PROVE  FALSE
  OBVIOUS
<1>2. PICK m \in Bad : \A k \in Bad : m <= k
  <2>1. Bad \in SUBSET Nat
    OBVIOUS
  <2>2. QED
    BY <1>1, <2>1, Least
<1>3. m # 0 /\ m \in 1..n
  BY <1>2
<1>4. m - 1 \in 0..n /\ m - 1 \notin Bad
  BY <1>2, <1>3
<1>5. QED
  BY <1>2, <1>3, <1>4

\* The adapter after each session that is stopped.
After(f, order, garbage, n) ==
  f = [k \in 0..n |-> IF k = 0 THEN Adapter ELSE StopSession(f[k - 1], order[k], garbage)]

LEMMA AfterExists ==
  ASSUME NEW order, NEW garbage, NEW n \in Nat
  PROVE  \E f : After(f, order, garbage, n)
<1> DEFINE S == {m \in Nat : \E f : After(f, order, garbage, m)}
<1>1. 0 \in S
  <2>1. After([k \in 0..0 |-> Adapter], order, garbage, 0)
    BY DEF After
  <2>2. QED
    BY <2>1
<1>2. ASSUME NEW m \in 1..n, m - 1 \in S
      PROVE  m \in S
  <2>1. PICK f : After(f, order, garbage, m - 1)
    BY <1>2
  <2> DEFINE Step(h, k) == IF k = 0 THEN Adapter ELSE StopSession(h[k - 1], order[k], garbage)
             g == [k \in 0..m |-> Step(f, k)]
  <2>2. f = [k \in 0..(m - 1) |-> Step(f, k)]
    BY <2>1 DEF After
  <2>3. \A k \in 0..(m - 1) : f[k] = g[k]
    <3> HIDE DEF Step
    <3>1. \A k \in 0..(m - 1) : k \in 0..m /\ f[k] = Step(f, k)
      BY <2>2
    <3>2. QED
      BY <3>1
  <2>4. \A k \in 0..m : k # 0 => k - 1 \in 0..(m - 1)
    OBVIOUS
  <2>5. \A k \in 0..m : Step(f, k) = Step(g, k)
    <3> HIDE DEF g
    <3>1. \A k \in 0..m : k # 0 => f[k - 1] = g[k - 1]
      BY <2>3, <2>4
    <3>2. QED
      BY <3>1
  <2>6. g = [k \in 0..m |-> Step(g, k)]
    <3> HIDE DEF Step
    <3>1. \A k \in 0..m : g[k] = Step(g, k)
      BY <2>5
    <3>2. QED
      BY <3>1
  <2>7. After(g, order, garbage, m)
    BY <2>6 DEF After
  <2>8. QED
    BY <2>7
<1> HIDE DEF S
<1>3. n \in S
  BY <1>1, <1>2, StepByStep
<1>4. QED
  BY <1>3 DEF S

LEMMA StopSessionsIs ==
  ASSUME NEW order, NEW garbage, NEW n \in Nat, Len(order) = n
  PROVE  \E f : /\ StopSessions(order, garbage) = f[n] /\ f[0] = Adapter
                /\ \A k \in 1..n : f[k] = StopSession(f[k - 1], order[k], garbage)
<1> DEFINE f == CHOOSE g : After(g, order, garbage, n)
<1>1. After(f, order, garbage, n)
  BY AfterExists
<1>2. StopSessions(order, garbage) = f[n]
  BY DEF StopSessions, After
<1> HIDE DEF f
<1>3. f[0] = Adapter /\ \A k \in 1..n : f[k] = StopSession(f[k - 1], order[k], garbage)
  BY <1>1 DEF After
<1>4. QED
  BY <1>2, <1>3

\* updateClientsEventMask()
Masked(a, own) ==
  [a EXCEPT !.batchFull = ReportingCount(a) > 0,
            !.crossed = @ \/ \E s \in own : mBatchingSessions[s].mode = "trip"]

\* The client's sessions, stopped one after the other.
RemovedInSteps(own, order, n, f, garbage, a) ==
  /\ own = {s \in DOMAIN mBatchingSessions : cmds[s].client = Arg}
  /\ n \in Nat /\ IsSeq(order) /\ Len(order) = n /\ ToSet(order) = own
  /\ \A i, j \in 1..n : i < j => order[i] < order[j]
  /\ f[0] = Adapter
  /\ \A k \in 1..n : f[k] = StopSession(f[k - 1], order[k], garbage)
  /\ a = Masked(f[n], own) /\ Becomes(a)

LEMMA OrdersIs ==
  ASSUME NEW S, IsFiniteSet(S), S \subseteq Nat, NEW order \in Orders(S)
  PROVE  /\ IsSeq(order) /\ Len(order) \in Nat /\ Len(order) = Cardinality(S)
         /\ ToSet(order) = S
         /\ \A i, j \in 1..Len(order) : i < j => order[i] < order[j]
<1>1. PICK n \in Nat : n = Cardinality(S)
  BY FS_CardinalityType
<1>2. order \in [1..n -> S] /\ \A i, j \in 1..n : i < j => order[i] < order[j]
  BY <1>1 DEF Orders
<1>3. IsSeq(order) /\ Len(order) = n /\ DOMAIN order = 1..n
  <2>1. order = [k \in 1..n |-> order[k]]
    BY <1>2
  <2>2. order \in Seq(S)
    BY <1>2
  <2>3. QED
    BY <1>2, <2>1, <2>2, FunctionIsSeq
<1>4. order \in Injection(1..n, S)
  <2>1. ASSUME NEW i \in 1..n, NEW j \in 1..n, order[i] = order[j]
        PROVE  i = j
    <3>1. order[i] \in Nat /\ order[j] \in Nat
      BY <1>2
    <3>2. ~(order[i] < order[j]) /\ ~(order[j] < order[i])
      BY <2>1, <3>1
    <3>3. QED
      BY <1>2, <3>2
  <2>2. QED
    BY <1>2, <2>1 DEF Injection, IsInjective
<1>5. Cardinality(1..n) = n
  BY FS_Interval
<1>6. order \in Surjection(1..n, S)
  BY <1>1, <1>4, <1>5, FS_Injection
<1>7. ToSet(order) = S
  BY <1>2, <1>3, <1>6 DEF ToSet, Surjection
<1>8. QED
  BY <1>1, <1>2, <1>3, <1>7

LEMMA SomeCommandsAreFinite ==
  ASSUME Types, NEW S, S \subseteq DOMAIN cmds
  PROVE  IsFiniteSet(S) /\ S \subseteq Nat
<1>1. PICK n \in Nat : n = Len(cmds)
  BY DEF Types, CmdsOK, IsSeq
<1>2. DOMAIN cmds = 1..n
  BY <1>1 DEF Types, CmdsOK, IsSeq
<1>3. IsFiniteSet(1..n)
  BY FS_Interval
<1>4. QED
  BY <1>2, <1>3, FS_Subset

LEMMA HandleRemoveClientIs ==
  ASSUME Types, HandleRemoveClient
  PROVE  \E own, order, n, f, garbage, a : RemovedInSteps(own, order, n, f, garbage, a)
<1>1. PICK own : own = {s \in DOMAIN mBatchingSessions : cmds[s].client = Arg}
  OBVIOUS
<1>2. PICK order, garbage, b :
        /\ order \in Orders(own) /\ garbage \in Garbage
        /\ b = StopSessions(order, garbage)
        /\ Becomes(Masked(b, own))
  BY <1>1 DEF HandleRemoveClient, Masked
<1>3. own \subseteq DOMAIN cmds
  BY <1>1 DEF Types, MapsOK
<1>4. IsFiniteSet(own) /\ own \subseteq Nat
  BY <1>3, SomeCommandsAreFinite
<1>5. /\ IsSeq(order) /\ Len(order) \in Nat /\ ToSet(order) = own
      /\ \A i, j \in 1..Len(order) : i < j => order[i] < order[j]
  BY <1>2, <1>4, OrdersIs
<1>6. PICK n \in Nat : n = Len(order)
  BY <1>5
<1>7. PICK f : /\ b = f[n] /\ f[0] = Adapter
               /\ \A k \in 1..n : f[k] = StopSession(f[k - 1], order[k], garbage)
  BY <1>2, <1>6, StopSessionsIs
<1>8. PICK a : a = Masked(f[n], own)
  OBVIOUS
<1>9. Becomes(a)
  BY <1>2, <1>7, <1>8
<1>10. QED
  BY <1>1, <1>5, <1>6, <1>7, <1>8, <1>9 DEF RemovedInSteps

LEMMA StopSessionIs ==
  ASSUME NEW a, NEW s \in DOMAIN cmds, NEW garbage, AdapterOK(a, DOMAIN cmds)
  PROVE  LET b == StopSession(a, s, garbage)
         IN AdapterOK(b, DOMAIN cmds) /\ Grows(a, b)
<1>1. PICK job, b : job = Job(0, s, DefaultOptions, FALSE) /\ b = StopSession(a, s, garbage)
  OBVIOUS
<1>2. JobOK(job, DOMAIN cmds)
  BY <1>1 DEF Job, JobOK
<1>3. CASE mBatchingSessions[s].mode = "trip"
  <2>1. b = StopTrip(a, job, garbage)
    BY <1>1, <1>3 DEF StopSession
  <2>2. QED
    BY <1>1, <1>2, <2>1, StopTripIs
<1>4. CASE mBatchingSessions[s].mode # "trip"
  <2>1. b = StopBatching(a, job)
    BY <1>1, <1>4 DEF StopSession
  <2>2. PICK D : D = DOMAIN cmds
    OBVIOUS
  <2>3. AdapterOK(b, D) /\ Grows(a, b)
    BY <1>2, <2>1, <2>2, StopBatchingIs
  <2>4. QED
    BY <1>1, <2>2, <2>3
<1>5. QED
  BY <1>3, <1>4

LEMMA MaskIs ==
  ASSUME NEW a, NEW D, AdapterOK(a, D), NEW own
  PROVE  LET b == Masked(a, own)
         IN /\ AdapterOK(b, D) /\ b.calls = a.calls /\ b.answers = a.answers
            /\ b.sessions = a.sessions /\ b.trips = a.trips
            /\ b.batchFull <=> ReportingCount(a) > 0
            /\ b.crossed <=> a.crossed \/ \E s \in own : mBatchingSessions[s].mode = "trip"
<1>1. PICK b : b = Masked(a, own)
  OBVIOUS
<1>2. /\ b = [x \in Fields |-> b[x]]
      /\ b.calls = a.calls /\ b.answers = a.answers
      /\ b.sessions = a.sessions /\ b.trips = a.trips
      /\ b.batchFull <=> ReportingCount(a) > 0
      /\ b.crossed <=> a.crossed \/ \E s \in own : mBatchingSessions[s].mode = "trip"
  BY <1>1 DEF Masked, AdapterOK, Fields
<1>3. AdapterOK(b, D)
  BY <1>2 DEF AdapterOK
<1>4. QED
  BY <1>1, <1>2, <1>3

LEMMA EachStopIs ==
  ASSUME Types, NEW own, NEW order, NEW n, NEW f, NEW garbage, NEW a,
         RemovedInSteps(own, order, n, f, garbage, a)
  PROVE  /\ \A k \in 0..n : AdapterOK(f[k], DOMAIN cmds) /\ Grows(Adapter, f[k])
         /\ \A k \in 1..n : order[k] \in own /\ own \subseteq DOMAIN mBatchingSessions
         /\ AdapterOK(a, DOMAIN cmds) /\ a.calls = f[n].calls /\ a.answers = f[n].answers
         /\ a.sessions = f[n].sessions /\ a.trips = f[n].trips
<1> DEFINE S == {k \in 0..n : AdapterOK(f[k], DOMAIN cmds) /\ Grows(Adapter, f[k])}
<1>1. n \in Nat /\ f[0] = Adapter /\ DOMAIN order = 1..n
  BY DEF RemovedInSteps, IsSeq
<1>2. \A k \in 1..n : order[k] \in own /\ own \subseteq DOMAIN mBatchingSessions
  BY <1>1 DEF RemovedInSteps, ToSet
<1>3. 0 \in S
  <2>1. AdapterOK(f[0], DOMAIN cmds) /\ Grows(Adapter, f[0])
    BY <1>1, AdapterIs DEF Grows
  <2>2. QED
    BY <1>1, <2>1
<1>4. ASSUME NEW k \in 1..n, k - 1 \in S
      PROVE  k \in S
  <2>1. order[k] \in DOMAIN cmds
    BY <1>2 DEF Types, MapsOK
  <2>2. f[k] = StopSession(f[k - 1], order[k], garbage)
    BY DEF RemovedInSteps
  <2>3. AdapterOK(f[k - 1], DOMAIN cmds) /\ Grows(Adapter, f[k - 1])
    BY <1>4
  <2>4. PICK x, s : x = f[k - 1] /\ s = order[k]
    OBVIOUS
  <2>5. AdapterOK(f[k], DOMAIN cmds) /\ Grows(x, f[k])
    BY <2>1, <2>2, <2>3, <2>4, StopSessionIs
  <2>6. Grows(Adapter, f[k])
    BY <2>3, <2>4, <2>5 DEF Grows
  <2>7. QED
    BY <1>1, <2>5, <2>6
<1> HIDE DEF S
<1>5. \A k \in 0..n : k \in S
  BY <1>1, <1>3, <1>4, StepByStep
<1>6. \A k \in 0..n : AdapterOK(f[k], DOMAIN cmds) /\ Grows(Adapter, f[k])
  BY <1>5 DEF S
<1>7. PICK x : x = f[n]
  OBVIOUS
<1>8. AdapterOK(x, DOMAIN cmds)
  BY <1>1, <1>6, <1>7
<1>9. a = Masked(x, own)
  BY <1>7 DEF RemovedInSteps
<1>10. /\ AdapterOK(a, DOMAIN cmds) /\ a.calls = x.calls /\ a.answers = x.answers
       /\ a.sessions = x.sessions /\ a.trips = x.trips
  BY <1>8, <1>9, MaskIs
<1>11. QED
  BY <1>2, <1>6, <1>7, <1>10

LEMMA HandleRemoveClientTypes ==
  ASSUME Types, HandleRemoveClient
  PROVE  \E a : Handled(a)
<1>1. PICK own, order, n, f, garbage, a : RemovedInSteps(own, order, n, f, garbage, a)
  BY HandleRemoveClientIs
<1>2. AdapterOK(a, DOMAIN cmds)
  BY <1>1, EachStopIs
<1>3. Becomes(a)
  BY <1>1 DEF RemovedInSteps
<1>4. Head(queue).op \notin JobOps \cup {"stopped"}
  BY DEF HandleRemoveClient, Handling, JobOps
<1>5. QED
  BY <1>2, <1>3, <1>4, HandledWithNothing

-----------------------------------------------------------------------------
(***************************************************************************)
(* Commands, restarts, clients and the modem.                              *)
(***************************************************************************)
\* The job of the command at the head of the queue.
CommandJob == Job(Arg, cmds[Arg].session, cmds[Arg].options, cmds[Arg].op = "update")

\* What a command that passes does.
Performed(a) ==
  \E garbage :
    \/ cmds[Arg].op = "start" /\ a = Start(Adapter, CommandJob)
    \/ /\ cmds[Arg].op \in {"update", "stop"} /\ cmds[Arg].session \in DOMAIN mBatchingSessions
       /\ \/ /\ cmds[Arg].session \in DOMAIN mTripSessions
             /\ a = StopTrip(Adapter, CommandJob, garbage)
          \/ /\ cmds[Arg].session \notin DOMAIN mTripSessions
             /\ a = StopBatching(Adapter, CommandJob)
    \/ /\ cmds[Arg].op = "get"
       /\ a = Calls(Adapter, "getBatchedLocations", None, Msg("got", CommandJob))

CommandPutOff ==
  /\ mPendingMsgs' = Append(mPendingMsgs, Head(queue)) /\ ~engineKnown
  /\ UNCHANGED <<sessionVars, toModem, accepted, answered, crossed>>
CommandRejected ==
  UNCHANGED <<sessionVars, mPendingMsgs, toModem, accepted, answered, crossed>>
CommandPerformed(a) ==
  /\ Performed(a) /\ Becomes(a) /\ accepted' = accepted \cup {Arg} /\ UNCHANGED mPendingMsgs

LEMMA HandleCommandIs ==
  ASSUME Types, HandleCommand
  PROVE  /\ Head(queue).op = "command" /\ queue # <<>> /\ queue' = Tail(queue)
         /\ Arg \in DOMAIN cmds /\ UNCHANGED <<modemVars, clientVars, mClientData, engineKnown>>
         /\ \/ CommandPutOff \/ CommandRejected
            \/ \E a : CommandPerformed(a)
<1>1. /\ Head(queue).op = "command" /\ queue # <<>> /\ queue' = Tail(queue)
      /\ UNCHANGED <<modemVars, clientVars, mClientData, engineKnown>>
  BY DEF HandleCommand, Handling
<1>2. Arg \in DOMAIN cmds
  BY <1>1, HeadIs DEF MsgOK, Arg
<1>3. PICK cmd, job : cmd = cmds[Arg] /\ job = CommandJob
  OBVIOUS
<1>4. \/ CommandPutOff \/ CommandRejected
      \/ /\ Passes(cmd) /\ \E garbage \in Garbage : Becomes(Perform(cmd, job, garbage))
         /\ accepted' = accepted \cup {Arg} /\ UNCHANGED mPendingMsgs
  BY <1>3 DEF HandleCommand, CommandPutOff, CommandRejected, CommandJob
<1>5. ASSUME Passes(cmd), NEW garbage, Becomes(Perform(cmd, job, garbage)),
             accepted' = accepted \cup {Arg}, UNCHANGED mPendingMsgs
      PROVE  \E a : CommandPerformed(a)
  <2>1. PICK a : a = Perform(cmd, job, garbage)
    OBVIOUS
  <2>2. cmd.op \in {"start", "update", "stop", "get"}
    BY <1>2, <1>3 DEF Types, CmdsOK
  <2>3. cmd.op # "start" => cmd.session \in DOMAIN mBatchingSessions
    BY <1>5 DEF Passes, InMap
  <2>4. CASE cmd.op = "start"
    <3>1. a = Start(Adapter, job)
      BY <2>1, <2>4 DEF Perform
    <3>2. QED
      BY <1>3, <1>5, <2>1, <2>4, <3>1 DEF CommandPerformed, Performed
  <2>5. CASE cmd.op \in {"update", "stop"}
    <3>1. a = IF cmd.session \in DOMAIN mTripSessions THEN StopTrip(Adapter, job, garbage)
              ELSE StopBatching(Adapter, job)
      BY <2>1, <2>5 DEF Perform
    <3>2. QED
      BY <1>3, <1>5, <2>1, <2>3, <2>5, <3>1 DEF CommandPerformed, Performed
  <2>6. CASE cmd.op = "get"
    <3>1. a = Calls(Adapter, "getBatchedLocations", None, Msg("got", job))
      BY <2>1, <2>6 DEF Perform
    <3>2. QED
      BY <1>3, <1>5, <2>1, <2>6, <3>1 DEF CommandPerformed, Performed
  <2>7. QED
    BY <2>2, <2>4, <2>5, <2>6
<1>6. QED
  BY <1>1, <1>2, <1>4, <1>5

LEMMA CommandJobIs ==
  ASSUME Types, Arg \in DOMAIN cmds
  PROVE  /\ JobOK(CommandJob, DOMAIN cmds) /\ CommandJob.n = Arg
         /\ CommandJob.session = cmds[Arg].session /\ CommandJob.options = cmds[Arg].options
         /\ CommandJob.restart <=> cmds[Arg].op = "update"
<1>1. /\ CommandJob.n = Arg
      /\ CommandJob.session = cmds[Arg].session /\ CommandJob.options = cmds[Arg].options
      /\ CommandJob.restart <=> cmds[Arg].op = "update"
  BY DEF CommandJob, Job
<1>2. QED
  BY <1>1 DEF JobOK, Types, CmdsOK

LEMMA PerformedTypes ==
  ASSUME Types, Arg \in DOMAIN cmds, NEW a, Performed(a)
  PROVE  AdapterOK(a, DOMAIN cmds) /\ Grows(Adapter, a) /\ Settles(a, Arg)
<1>1. PICK job, D : job = CommandJob /\ D = DOMAIN cmds
  OBVIOUS
<1>2. /\ JobOK(job, D) /\ job.n = Arg /\ job.session = cmds[Arg].session
      /\ AdapterOK(Adapter, D) /\ Adapter.sessions = mBatchingSessions
  BY <1>1, CommandJobIs, AdapterIs
<1>3. CASE a = Start(Adapter, job)
  <2>1. AdapterOK(a, D) /\ Grows(Adapter, a) /\ Settles(a, job.n)
    BY <1>2, <1>3, StartIs
  <2>2. QED
    BY <1>1, <1>2, <2>1
<1>4. CASE \E garbage : a = StopTrip(Adapter, job, garbage)
  <2>1. AdapterOK(a, D) /\ Grows(Adapter, a) /\ Settles(a, job.n)
    BY <1>2, <1>4, StopTripIs
  <2>2. QED
    BY <1>1, <1>2, <2>1
<1>5. CASE a = StopBatching(Adapter, job) /\ cmds[Arg].session \in DOMAIN mBatchingSessions
  <2>1. job.session \in DOMAIN Adapter.sessions
    BY <1>2, <1>5
  <2>2. AdapterOK(a, D) /\ Grows(Adapter, a) /\ Settles(a, job.n)
    BY <1>2, <1>5, <2>1, StopBatchingIs
  <2>3. QED
    BY <1>1, <1>2, <2>2
<1>6. CASE a = Calls(Adapter, "getBatchedLocations", None, Msg("got", job))
  <2>1. PICK call, then, c : /\ call = "getBatchedLocations" /\ then = Msg("got", job)
                             /\ c = Call(call, None, then)
    OBVIOUS
  <2>2. then.op = "got" /\ then.arg = job /\ MsgOK(then, D)
    BY <1>2, <2>1 DEF Msg, MsgOK, JobOps
  <2>3. then.op \in OtherResponses /\ call \notin PlainCalls
    BY <2>1, <2>2 DEF OtherResponses, PlainCalls
  <2>4. CallOK(c, D) /\ c.then = then
    BY <2>1, <2>2, <2>3, CallMade
  <2>5. a = Calls(Adapter, call, None, then) /\ c = Call(call, None, then)
    BY <1>6, <2>1
  <2>6. AdapterOK(a, D) /\ Grows(Adapter, a) /\ c \in ToSet(a.calls)
    BY <1>2, <2>4, <2>5, CallsIs
  <2>7. Settles(a, Arg)
    BY <1>2, <2>2, <2>4, <2>6 DEF Settles, Carries, JobOps
  <2>8. QED
    BY <1>1, <2>6, <2>7
<1>7. QED
  BY <1>1, <1>3, <1>4, <1>5, <1>6 DEF Performed

\* What is known about messages and calls does not change when there are more commands.
LEMMA MoreCommands ==
  ASSUME NEW D, NEW E, D \subseteq E
  PROVE  /\ \A m : MsgOK(m, D) => MsgOK(m, E)
         /\ \A c : CallOK(c, D) => CallOK(c, E)
BY DEF MsgOK, CallOK, JobOK

\* What is handled leaves.
LEMMA BecomesTypes ==
  ASSUME Types, NEW a, AdapterOK(a, DOMAIN cmds), Becomes(a), queue # <<>>,
         IsSeq(queue'), ToSet(queue') \subseteq ToSet(queue) \cup ToSet(mPendingMsgs),
         UNCHANGED modem, UNCHANGED cmds, accepted' \subseteq accepted \cup DOMAIN cmds,
         IsSeq(mPendingMsgs'), ToSet(mPendingMsgs') \subseteq ToSet(mPendingMsgs)
  PROVE  Types'
<1>1. CmdsOK'
  BY DEF Types, CmdsOK
<1>2. MapsOK'
  BY DEF Types, MapsOK, Becomes, AdapterOK
<1>3. IsSeq(toModem') /\ \A c \in ToSet(toModem') : CallOK(c, DOMAIN cmds)
  <2>1. toModem' = toModem \o a.calls
    BY DEF Becomes
  <2>2. IsSeq(toModem) /\ IsSeq(a.calls)
    BY DEF Types, QueueOK, AdapterOK
  <2>3. IsSeq(toModem') /\ ToSet(toModem') = ToSet(toModem) \cup ToSet(a.calls)
    BY <2>1, <2>2, SeqsGrow, SetsGrow
  <2>4. QED
    BY <2>3 DEF Types, QueueOK, AdapterOK
<1>4. QueueOK'
  BY <1>3 DEF Types, QueueOK
<1>5. QED
  BY <1>1, <1>2, <1>4 DEF Types

\* A step in which all that was carried still is, or is answered.
LEMMA CarriedOn ==
  ASSUME Types, CommandsAreCarried, NEW fresh, accepted' \subseteq accepted \cup fresh,
         answered \subseteq answered',
         \A n \in accepted \cup fresh, m \in ToSet(queue) \cup ToSet(Thens(toModem)) :
           Carries(m, n) =>
             \/ n \in answered'
             \/ \E l \in ToSet(queue') \cup ToSet(Thens(toModem')) : Carries(l, n),
         \A n \in fresh :
             \/ n \in answered'
             \/ \E l \in ToSet(queue') \cup ToSet(Thens(toModem')) : Carries(l, n)
  PROVE  CommandsAreCarried'
<1>1. SUFFICES ASSUME NEW n \in accepted' \ answered'
               PROVE  \E l \in ToSet(queue') \cup ToSet(Thens(toModem')) : Carries(l, n)
  BY DEF CommandsAreCarried
<1>2. CASE n \in fresh
  BY <1>2
<1>3. CASE n \in accepted
  <2>1. n \in accepted \ answered
    BY <1>3
  <2>2. PICK m \in ToSet(queue) \cup ToSet(Thens(toModem)) : Carries(m, n)
    BY <2>1 DEF CommandsAreCarried
  <2>3. QED
    BY <1>3, <2>2
<1>4. QED
  BY <1>2, <1>3

LEMMA BecomesCarries ==
  ASSUME Types, CommandsAreCarried, NEW a, AdapterOK(a, DOMAIN cmds), Becomes(a),
         queue # <<>>, ToSet(Tail(queue)) \subseteq ToSet(queue'),
         \A n : Carries(Head(queue), n) => Settles(a, n),
         NEW fresh, fresh \subseteq DOMAIN cmds, accepted' \subseteq accepted \cup fresh,
         \A n \in fresh : Settles(a, n)
  PROVE  CommandsAreCarried'
<1>1. PICK l : l = ToSet(queue') \cup ToSet(Thens(toModem'))
  OBVIOUS
<1>2. /\ answered' = answered \cup (a.answers \ {0}) /\ toModem' = toModem \o a.calls
  BY DEF Becomes
<1>3. IsSeq(toModem) /\ IsSeq(a.calls)
  BY DEF Types, QueueOK, AdapterOK
<1>4. IsSeq(toModem') /\ ToSet(toModem') = ToSet(toModem) \cup ToSet(a.calls)
  BY <1>2, <1>3, SeqsGrow, SetsGrow
<1>5. /\ ToSet(Thens(toModem')) = {c.then : c \in ToSet(toModem')}
      /\ ToSet(Thens(toModem)) = {c.then : c \in ToSet(toModem)}
  BY <1>3, <1>4, ThensIs
<1>6. ASSUME NEW n \in DOMAIN cmds, Settles(a, n)
      PROVE  n \in answered' \/ \E k \in l : Carries(k, n)
  <2>1. n # 0
    <3>1. DOMAIN cmds = 1..Len(cmds) /\ Len(cmds) \in Nat
      BY DEF Types, CmdsOK, IsSeq
    <3>2. QED
      BY <3>1
  <2>2. CASE n \in a.answers
    BY <1>2, <2>1, <2>2
  <2>3. CASE \E c \in ToSet(a.calls) : Carries(c.then, n)
    BY <1>1, <1>4, <1>5, <2>3
  <2>4. QED
    BY <1>6, <2>2, <2>3 DEF Settles
<1>7. ToSet(queue) = {Head(queue)} \cup ToSet(Tail(queue))
  BY HeadIs
<1>8. ASSUME NEW n \in accepted \cup fresh,
             NEW m \in ToSet(queue) \cup ToSet(Thens(toModem)), Carries(m, n)
      PROVE  n \in answered' \/ \E k \in l : Carries(k, n)
  <2>1. n \in DOMAIN cmds
    BY DEF Types, MapsOK
  <2>2. CASE m = Head(queue)
    BY <1>6, <1>8, <2>1, <2>2
  <2>3. CASE m \in ToSet(Tail(queue))
    BY <1>1, <1>8, <2>3
  <2>4. CASE m \in ToSet(Thens(toModem))
    BY <1>1, <1>4, <1>5, <1>8, <2>4
  <2>5. QED
    BY <1>7, <2>2, <2>3, <2>4
<1>9. answered \subseteq answered'
  BY <1>2
<1>10. \A n \in fresh : n \in answered' \/ \E k \in l : Carries(k, n)
  BY <1>6
<1>11. QED
  BY <1>1, <1>8, <1>9, <1>10, CarriedOn

LEMMA HandlersKeepCarried ==
  ASSUME Types, CommandsAreCarried, NEW a, Handled(a), queue # <<>>, queue' = Tail(queue),
         UNCHANGED <<mPendingMsgs, modemVars, clientVars, accepted>>
  PROVE  Types' /\ CommandsAreCarried'
<1>1. IsSeq(queue') /\ ToSet(queue') \subseteq ToSet(queue)
  BY HeadIs
<1>2. UNCHANGED modem /\ UNCHANGED cmds /\ UNCHANGED mPendingMsgs /\ accepted' = accepted
  BY DEF modemVars, clientVars
<1>3. Types'
  <2>1. IsSeq(mPendingMsgs') /\ mPendingMsgs' = mPendingMsgs
    BY <1>2 DEF Types, QueueOK
  <2>2. QED
    BY <1>1, <1>2, <2>1, BecomesTypes DEF Handled
<1>4. CommandsAreCarried'
  <2>1. PICK fresh : fresh = {}
    OBVIOUS
  <2>2. /\ fresh \subseteq DOMAIN cmds /\ accepted' \subseteq accepted \cup fresh
        /\ \A n \in fresh : Settles(a, n)
    BY <1>2, <2>1
  <2>3. /\ AdapterOK(a, DOMAIN cmds) /\ Becomes(a) /\ ToSet(Tail(queue)) \subseteq ToSet(queue')
        /\ \A n : Carries(Head(queue), n) => Settles(a, n)
    BY DEF Handled
  <2>4. QED
    BY <2>2, <2>3, BecomesCarries
<1>5. QED
  BY <1>3, <1>4

LEMMA HandleCommandKeeps ==
  ASSUME Types, CommandsAreCarried, HandleCommand
  PROVE  Types' /\ CommandsAreCarried'
<1>1. /\ Head(queue).op = "command" /\ queue # <<>> /\ queue' = Tail(queue)
      /\ Arg \in DOMAIN cmds /\ UNCHANGED <<modemVars, clientVars, mClientData, engineKnown>>
      /\ CommandPutOff \/ CommandRejected \/ \E a : CommandPerformed(a)
  BY HandleCommandIs
<1>2. /\ IsSeq(queue') /\ ToSet(queue) = {Head(queue)} \cup ToSet(queue')
      /\ MsgOK(Head(queue), DOMAIN cmds)
  BY <1>1, HeadIs
<1>3. UNCHANGED modem /\ UNCHANGED cmds
  BY <1>1 DEF modemVars, clientVars
<1>4. \A n : ~Carries(Head(queue), n)
  BY <1>1 DEF Carries, JobOps
<1>5. CASE CommandPutOff \/ CommandRejected
  <2>1. /\ UNCHANGED <<sessionVars, toModem, accepted, answered, crossed>>
        /\ mPendingMsgs' = mPendingMsgs \/ mPendingMsgs' = Append(mPendingMsgs, Head(queue))
    BY <1>5 DEF CommandPutOff, CommandRejected
  <2>2. CmdsOK'
    BY <1>3 DEF Types, CmdsOK
  <2>3. MapsOK'
    BY <1>3, <2>1 DEF Types, MapsOK, sessionVars
  <2>4. /\ IsSeq(mPendingMsgs')
        /\ \A m \in ToSet(mPendingMsgs') : MsgOK(m, DOMAIN cmds) /\ m.op = "command"
    <3>1. CASE mPendingMsgs' = mPendingMsgs
      BY <3>1 DEF Types, QueueOK
    <3>2. CASE mPendingMsgs' = Append(mPendingMsgs, Head(queue))
      <4>1. IsSeq(mPendingMsgs') /\ ToSet(mPendingMsgs') = ToSet(mPendingMsgs) \cup {Head(queue)}
        BY <3>2, SeqsGrow, SetsGrow DEF Types, QueueOK
      <4>2. QED
        BY <1>1, <1>2, <4>1 DEF Types, QueueOK
    <3>3. QED
      BY <2>1, <3>1, <3>2
  <2>5. QueueOK'
    BY <1>2, <1>3, <2>1, <2>4 DEF Types, QueueOK
  <2>6. CommandsAreCarried'
    BY <1>2, <1>4, <2>1 DEF CommandsAreCarried
  <2>7. QED
    BY <2>2, <2>3, <2>5, <2>6 DEF Types
<1>6. CASE \E a : CommandPerformed(a)
  <2>1. PICK a : CommandPerformed(a)
    BY <1>6
  <2>2. AdapterOK(a, DOMAIN cmds) /\ Settles(a, Arg)
    BY <1>1, <2>1, PerformedTypes DEF CommandPerformed
  <2>3. PICK fresh : fresh = {Arg}
    OBVIOUS
  <2>4. /\ Becomes(a) /\ accepted' = accepted \cup fresh /\ mPendingMsgs' = mPendingMsgs
        /\ IsSeq(mPendingMsgs) /\ fresh \subseteq DOMAIN cmds
    BY <1>1, <2>1, <2>3 DEF CommandPerformed, Types, QueueOK
  <2>5. Types'
    BY <1>1, <1>2, <1>3, <2>2, <2>4, BecomesTypes
  <2>6. \A n \in fresh : Settles(a, n)
    BY <2>2, <2>3
  <2>7. CommandsAreCarried'
    BY <1>1, <1>4, <2>2, <2>4, <2>6, BecomesCarries
  <2>8. QED
    BY <2>5, <2>7
<1>7. QED
  BY <1>1, <1>5, <1>6

\* restartSessions()
StartedAgain(c) ==
  /\ CallOK(c, DOMAIN cmds) /\ c.call = "startBatching"
  /\ c.then.op = "ignored" /\ c.then.arg.session \in PlainSessions
  /\ c.then.arg.n = 0 /\ c.then.arg.restart = FALSE
  /\ c.then.arg.options = mBatchingSessions[c.then.arg.session]

LEMMA PlainCallsAre ==
  ASSUME Types, NEW order, IsSeq(order), ToSet(order) = PlainSessions
  PROVE  /\ IsSeq(CallsOfPlain(order))
         /\ \A c \in ToSet(CallsOfPlain(order)) :
              StartedAgain(c)
         /\ \A s \in PlainSessions : \E c \in ToSet(CallsOfPlain(order)) :
              c.then.arg.session = s
<1>1. PICK n \in Nat : n = Len(order)
  BY DEF IsSeq
<1>2. DOMAIN order = 1..n /\ PlainSessions \subseteq DOMAIN mBatchingSessions
  BY <1>1 DEF IsSeq, PlainSessions
<1>3. PICK calls : calls = CallsOfPlain(order)
  OBVIOUS
<1>4. DOMAIN calls = 1..n /\ calls = [k \in 1..n |-> calls[k]]
  BY <1>2, <1>3 DEF CallsOfPlain
<1>5. IsSeq(calls)
  BY <1>4, FunctionIsSeq
<1>6. ASSUME NEW k \in 1..n
      PROVE  /\ StartedAgain(calls[k]) /\ calls[k].then.arg.session = order[k]
             /\ order[k] \in PlainSessions
  <2>1. PICK c, job, then :
          /\ job = Job(0, order[k], mBatchingSessions[order[k]], FALSE)
          /\ then = Msg("ignored", job) /\ c = Call("startBatching", job, then)
    OBVIOUS
  <2>2. calls[k] = c
    BY <1>2, <1>3, <2>1 DEF CallsOfPlain
  <2>3. order[k] \in PlainSessions
    BY <1>2 DEF ToSet
  <2>4. /\ job.session = order[k] /\ job.n = 0 /\ job.restart = FALSE
        /\ job.options = mBatchingSessions[order[k]]
    BY <2>1 DEF Job
  <2>5. JobOK(job, DOMAIN cmds) /\ job.options.mode # "trip"
    BY <1>2, <2>3, <2>4 DEF JobOK, Types, MapsOK, PlainSessions
  <2>6. then.op = "ignored" /\ then.arg = job /\ MsgOK(then, DOMAIN cmds)
    BY <2>1, <2>5 DEF Msg, MsgOK, JobOps
  <2>7. c.call = "startBatching" /\ c.arg = job /\ c.then = then
    BY <2>1 DEF Call
  <2>8. CallOK(c, DOMAIN cmds)
    BY <2>6, <2>7 DEF CallOK
  <2>9. QED
    BY <2>2, <2>3, <2>4, <2>6, <2>7, <2>8 DEF StartedAgain
<1>7. ToSet(calls) = {calls[k] : k \in 1..n} /\ PlainSessions = {order[k] : k \in 1..n}
  BY <1>2, <1>4 DEF ToSet
<1>8. ASSUME NEW c \in ToSet(calls)
      PROVE  StartedAgain(c)
  <2>1. PICK k \in 1..n : c = calls[k]
    BY <1>7
  <2>2. QED
    BY <1>6, <2>1
<1>9. ASSUME NEW s \in PlainSessions
      PROVE  \E c \in ToSet(calls) : c.then.arg.session = s
  BY <1>6, <1>7
<1>10. QED
  BY <1>3, <1>5, <1>8, <1>9

\* The adapter when it has started its sessions again.
SessionsRestarted(a, order) ==
  /\ AdapterOK(a, DOMAIN cmds) /\ a.answers = {} /\ (a.crossed <=> crossed)
  /\ a.sessions = mBatchingSessions /\ a.trips = mTripSessions
  /\ a.batchFull <=> batchFull \/ ReportingCount(Adapter) > 0
  /\ \/ DOMAIN mTripSessions = {} /\ a.calls = CallsOfPlain(order)
     \/ \E c : /\ CallOK(c, DOMAIN cmds) /\ c.then.op = "tripResumed" /\ c.call = "startTrip"
               /\ a.calls = Append(CallsOfPlain(order), c)

LEMMA RestartSessionsIs ==
  ASSUME Types, NEW order, IsSeq(order), ToSet(order) = PlainSessions
  PROVE  SessionsRestarted(RestartSessions(Adapter, order), order)
<1>1. PICK b : b = [Adapter EXCEPT !.batchFull = @ \/ ReportingCount(Adapter) > 0,
                                   !.calls = CallsOfPlain(order)]
  OBVIOUS
<1>2. /\ b = [x \in Fields |-> b[x]] /\ b.calls = CallsOfPlain(order)
      /\ b.sessions = mBatchingSessions /\ b.trips = mTripSessions /\ b.answers = {}
      /\ b.batchFull <=> batchFull \/ ReportingCount(Adapter) > 0
      /\ b.crossed <=> crossed
  BY <1>1 DEF Fields, Adapter
<1>3. AdapterOK(b, DOMAIN cmds)
  BY <1>2, PlainCallsAre DEF StartedAgain, AdapterOK, Types, MapsOK
<1>4. PICK a : a = ResumeTrips(b) /\ RestartSessions(Adapter, order) = a
  BY <1>1 DEF RestartSessions
<1>5. CASE DOMAIN b.trips = {}
  <2>1. a = b
    BY <1>4, <1>5 DEF ResumeTrips
  <2>2. QED
    BY <1>2, <1>3, <1>4, <1>5, <2>1 DEF SessionsRestarted
<1>6. CASE DOMAIN b.trips # {}
  <2>1. PICK ongoing, x, then, call, c :
          /\ ongoing = [distance |-> MinRemaining(b.trips), interval |-> MinInterval(b.trips)]
          /\ x = [b EXCEPT !.ongoing = ongoing] /\ then = Msg("tripResumed", None)
          /\ call = "startTrip" /\ c = Call(call, ongoing, then)
    OBVIOUS
  <2>2. a = Calls(x, call, ongoing, then)
    BY <1>4, <1>6, <2>1 DEF ResumeTrips
  <2>3. /\ AdapterOK(x, DOMAIN cmds) /\ Grows(b, x) /\ x.answers = b.answers
        /\ x.calls = b.calls /\ x.trips = b.trips /\ x.sessions = b.sessions
        /\ x.batchFull = b.batchFull
    BY <1>3, <2>1, EndsIs, SMTT(20)
  <2>4. then.op = "tripResumed" /\ MsgOK(then, DOMAIN cmds)
    BY <2>1 DEF Msg, MsgOK, JobOps
  <2>5. then.op \in OtherResponses /\ call \notin PlainCalls
    BY <2>1, <2>4 DEF OtherResponses, PlainCalls
  <2>6. CallOK(c, DOMAIN cmds) /\ c.then = then /\ c.call = call
    BY <2>1, <2>4, <2>5, CallMade, CallIs
  <2>7. /\ AdapterOK(a, DOMAIN cmds) /\ Grows(x, a) /\ a.calls = Append(x.calls, c)
        /\ a.sessions = x.sessions /\ a.trips = x.trips
        /\ a.batchFull = x.batchFull /\ a.answers = x.answers
    <3>1. CallOK(c, DOMAIN cmds) /\ c = Call(call, ongoing, then) /\ AdapterOK(x, DOMAIN cmds)
      BY <2>1, <2>3, <2>6
    <3>2. QED
      BY <2>2, <3>1, CallsIs
  <2>8. a.crossed <=> crossed
    BY <1>2, <2>3, <2>7 DEF Grows
  <2>9. \E d : /\ CallOK(d, DOMAIN cmds) /\ d.then.op = "tripResumed" /\ d.call = "startTrip"
               /\ a.calls = Append(CallsOfPlain(order), d)
    BY <1>2, <2>1, <2>3, <2>4, <2>6, <2>7
  <2>10. QED
    BY <1>2, <1>4, <2>3, <2>7, <2>8, <2>9 DEF SessionsRestarted
<1>7. QED
  BY <1>5, <1>6

LEMMA HandleEngineUpIs ==
  ASSUME Types, HandleEngineUp
  PROVE  /\ queue # <<>> /\ Head(queue).op = "engineUp" /\ toModem = <<>>
         /\ queue' = Tail(queue) \o mPendingMsgs /\ mPendingMsgs' = <<>>
         /\ UNCHANGED <<modemVars, clientVars, accepted, early>>
         /\ \E a, order : /\ SessionsRestarted(a, order) /\ Becomes(a)
                          /\ IsSeq(order) /\ ToSet(order) = PlainSessions
                          /\ \A i, j \in 1..Len(order) : i < j => order[i] < order[j]
<1>1. PICK order \in Orders(PlainSessions) : Becomes(RestartSessions(Adapter, order))
  BY DEF HandleEngineUp
<1>2. IsFiniteSet(PlainSessions) /\ PlainSessions \subseteq Nat
  <2>1. PlainSessions \subseteq DOMAIN cmds
    BY DEF PlainSessions, Types, MapsOK
  <2>2. QED
    BY <2>1, SomeCommandsAreFinite
<1>3. /\ IsSeq(order) /\ ToSet(order) = PlainSessions
      /\ \A i, j \in 1..Len(order) : i < j => order[i] < order[j]
  BY <1>2, OrdersIs
<1>4. PICK a : a = RestartSessions(Adapter, order)
  OBVIOUS
<1>5. SessionsRestarted(a, order)
  BY <1>3, <1>4, RestartSessionsIs
<1>6. QED
  BY <1>1, <1>3, <1>4, <1>5 DEF HandleEngineUp

LEMMA HandleEngineUpKeeps ==
  ASSUME Types, CommandsAreCarried, HandleEngineUp
  PROVE  Types' /\ CommandsAreCarried'
<1>1. PICK a, order : SessionsRestarted(a, order) /\ Becomes(a)
  BY HandleEngineUpIs
<1>2. AdapterOK(a, DOMAIN cmds)
  BY <1>1 DEF SessionsRestarted
<1>3. /\ queue # <<>> /\ Head(queue).op = "engineUp"
      /\ queue' = Tail(queue) \o mPendingMsgs /\ mPendingMsgs' = <<>>
      /\ UNCHANGED modem /\ UNCHANGED cmds /\ accepted' = accepted
  BY HandleEngineUpIs DEF modemVars, clientVars
<1>4. /\ IsSeq(Tail(queue)) /\ IsSeq(mPendingMsgs)
      /\ ToSet(queue) = {Head(queue)} \cup ToSet(Tail(queue))
  BY <1>3, HeadIs DEF Types, QueueOK
<1>5. IsSeq(queue') /\ ToSet(queue') = ToSet(Tail(queue)) \cup ToSet(mPendingMsgs)
  BY <1>3, <1>4, SeqsGrow, SetsGrow
<1>6. IsSeq(mPendingMsgs') /\ ToSet(mPendingMsgs') \subseteq ToSet(mPendingMsgs)
  BY <1>3, EmptyIsSeq
<1>7. Types'
  <2>1. ToSet(queue') \subseteq ToSet(queue) \cup ToSet(mPendingMsgs)
    BY <1>4, <1>5
  <2>2. QED
    BY <1>1, <1>2, <1>3, <1>5, <1>6, <2>1, BecomesTypes
<1>8. CommandsAreCarried'
  <2>1. PICK fresh : fresh = {}
    OBVIOUS
  <2>2. /\ fresh \subseteq DOMAIN cmds /\ accepted' \subseteq accepted \cup fresh
        /\ \A n \in fresh : Settles(a, n)
    BY <1>3, <2>1
  <2>3. \A n : Carries(Head(queue), n) => Settles(a, n)
    BY <1>3 DEF Carries, JobOps
  <2>4. ToSet(Tail(queue)) \subseteq ToSet(queue')
    BY <1>5
  <2>5. QED
    BY <1>1, <1>2, <1>3, <2>2, <2>3, <2>4, BecomesCarries
<1>9. QED
  BY <1>7, <1>8

\* A client gives a command.
LEMMA GiveCommandKeeps ==
  ASSUME Types, CommandsAreCarried,
         NEW op \in {"start", "update", "stop", "get"}, NEW c, NEW s, NEW options,
         GiveCommand(op, c, s, options),
         s \in DOMAIN cmds \/ s = Len(cmds) + 1, op = "start" => s = Len(cmds) + 1
  PROVE  Types' /\ CommandsAreCarried'
<1>1. PICK n, cmd, m : /\ n = Len(cmds) /\ m = Msg("command", n + 1)
                       /\ cmd = [op |-> op, client |-> c, session |-> s, options |-> options]
  OBVIOUS
<1>2. n \in Nat /\ DOMAIN cmds = 1..n /\ IsSeq(cmds)
  BY <1>1 DEF Types, CmdsOK, IsSeq
<1>3. /\ cmds' = Append(cmds, cmd) /\ queue' = Append(queue, m)
      /\ UNCHANGED <<sessionVars, modem, toModem, mPendingMsgs, accepted, answered>>
  BY <1>1 DEF GiveCommand, modemVars
<1>4. IsSeq(cmds') /\ DOMAIN cmds' = 1..(n + 1)
  BY <1>1, <1>2, <1>3, SeqsGrow DEF IsSeq
<1>5. (\A k \in DOMAIN cmds : cmds'[k] = cmds[k]) /\ cmds'[n + 1] = cmd
  <2>1. PICK S : cmds \in Seq(S) /\ cmd \in S
    <3>1. PICK S : S = ToSet(cmds) \cup {cmd}
      OBVIOUS
    <3>2. QED
      BY <1>2, <3>1, SeqOfMore DEF IsSeq
  <2>2. QED
    BY <1>1, <1>3, <2>1
<1>6. DOMAIN cmds \subseteq DOMAIN cmds' /\ n + 1 \in DOMAIN cmds'
      /\ \A k \in DOMAIN cmds' : k \in DOMAIN cmds \/ k = n + 1
  BY <1>2, <1>4
<1>7. CmdsOK'
  <2>1. s \in DOMAIN cmds' /\ (op = "start" => s = n + 1)
    BY <1>1, <1>6
  <2>2. cmd.op = op /\ cmd.session = s
    BY <1>1
  <2>3. ASSUME NEW k \in DOMAIN cmds'
        PROVE  /\ cmds'[k].session \in DOMAIN cmds'
               /\ cmds'[k].op = "start" => cmds'[k].session = k
               /\ cmds'[k].op \in {"start", "update", "stop", "get"}
    <3>1. CASE k \in DOMAIN cmds
      BY <1>5, <1>6, <3>1 DEF Types, CmdsOK
    <3>2. CASE k = n + 1
      BY <1>5, <2>1, <2>2, <3>2
    <3>3. QED
      BY <1>6, <3>1, <3>2
  <2>4. QED
    BY <1>4, <2>3 DEF CmdsOK
<1>8. IsSeq(queue') /\ ToSet(queue') = ToSet(queue) \cup {m}
  BY <1>3, SeqsGrow, SetsGrow DEF Types, QueueOK
<1>9. MsgOK(m, DOMAIN cmds') /\ m.op = "command"
  BY <1>1, <1>6 DEF Msg, MsgOK, JobOps
<1>10. QueueOK'
  BY <1>3, <1>6, <1>8, <1>9, MoreCommands DEF Types, QueueOK
<1>11. MapsOK'
  BY <1>3, <1>6 DEF Types, MapsOK, sessionVars
<1>12. CommandsAreCarried'
  BY <1>3, <1>8 DEF CommandsAreCarried
<1>13. QED
  BY <1>7, <1>10, <1>11, <1>12 DEF Types

LEMMA DestroyKeeps ==
  ASSUME Types, CommandsAreCarried, NEW c, Destroy(c)
  PROVE  Types' /\ CommandsAreCarried'
<1>1. PICK m : m = Msg("removeClient", c)
  OBVIOUS
<1>2. /\ queue' = Append(queue, m)
      /\ UNCHANGED <<sessionVars, modem, toModem, mPendingMsgs, accepted, answered, cmds>>
  BY <1>1 DEF Destroy, modemVars
<1>3. IsSeq(queue') /\ ToSet(queue') = ToSet(queue) \cup {m}
  BY <1>2, SeqsGrow, SetsGrow DEF Types, QueueOK
<1>4. MsgOK(m, DOMAIN cmds)
  BY <1>1 DEF Msg, MsgOK, JobOps
<1>5. QueueOK'
  BY <1>2, <1>3, <1>4 DEF Types, QueueOK
<1>6. CmdsOK' /\ MapsOK'
  BY <1>2 DEF Types, CmdsOK, MapsOK, sessionVars
<1>7. CommandsAreCarried'
  BY <1>2, <1>3 DEF CommandsAreCarried
<1>8. QED
  BY <1>5, <1>6, <1>7 DEF Types

LEMMA ClientNextKeeps ==
  ASSUME Types, CommandsAreCarried, ClientNext
  PROVE  Types' /\ CommandsAreCarried'
<1>1. PICK c \in Clients :
        \/ \E o \in bounds.options : StartBatchingCommand(c, o)
        \/ \E s \in Sessions(c) :
             \/ \E o \in bounds.options : UpdateBatchingOptionsCommand(c, s, o)
             \/ StopBatchingCommand(c, s)
             \/ GetBatchedLocationsCommand(c, s)
        \/ Destroy(c)
  BY DEF ClientNext
<1>2. ASSUME NEW o, StartBatchingCommand(c, o)
      PROVE  Types' /\ CommandsAreCarried'
  <2>1. PICK op, s : op = "start" /\ s = Len(cmds) + 1
    OBVIOUS
  <2>2. GiveCommand(op, c, s, o)
    BY <1>2, <2>1 DEF StartBatchingCommand
  <2>3. QED
    BY <2>1, <2>2, GiveCommandKeeps
<1>3. ASSUME NEW s \in Sessions(c), NEW op \in {"update", "stop", "get"}, NEW o,
             GiveCommand(op, c, s, o)
      PROVE  Types' /\ CommandsAreCarried'
  <2>1. s \in DOMAIN cmds /\ op \in {"start", "update", "stop", "get"} /\ op # "start"
    BY <1>3 DEF Sessions
  <2>2. QED
    BY <1>3, <2>1, GiveCommandKeeps
<1>4. ASSUME NEW s \in Sessions(c), NEW o, UpdateBatchingOptionsCommand(c, s, o)
      PROVE  Types' /\ CommandsAreCarried'
  BY <1>3, <1>4 DEF UpdateBatchingOptionsCommand
<1>5. ASSUME NEW s \in Sessions(c), StopBatchingCommand(c, s)
      PROVE  Types' /\ CommandsAreCarried'
  BY <1>3, <1>5 DEF StopBatchingCommand
<1>6. ASSUME NEW s \in Sessions(c), GetBatchedLocationsCommand(c, s)
      PROVE  Types' /\ CommandsAreCarried'
  BY <1>3, <1>6 DEF GetBatchedLocationsCommand
<1>7. QED
  BY <1>1, <1>2, <1>4, <1>5, <1>6, DestroyKeeps

LEMMA TaskNextKeeps ==
  ASSUME Types, CommandsAreCarried, TaskNext
  PROVE  Types' /\ CommandsAreCarried'
<1>1. CASE HandleCommand
  BY <1>1, HandleCommandKeeps
<1>2. CASE HandleEngineUp
  BY <1>2, HandleEngineUpKeeps
<1>3. CASE HandleCompleted \/ HandleRemoveClient
  <2>1. /\ queue # <<>> /\ queue' = Tail(queue)
        /\ UNCHANGED <<mPendingMsgs, modemVars, clientVars, accepted>>
    BY <1>3 DEF HandleCompleted, HandleRemoveClient, Handling
  <2>2. PICK a : Handled(a)
    BY <1>3, TripContinuationTypes, HandleRemoveClientTypes
  <2>3. QED
    BY <2>1, <2>2, HandlersKeepCarried
<1>4. CASE \/ HandleStarted \/ HandleStopped \/ HandleGot \/ HandleIgnored
           \/ HandleTripStarted \/ HandleTripQueried \/ HandleTripRestarted
           \/ HandleTripStopped \/ HandleRemaining \/ HandleMultiplexed \/ HandleTripResumed
  <2>1. \E op : Continues(op)
    BY <1>4 DEF HandleStarted, HandleStopped, HandleGot, HandleIgnored, HandleTripStarted,
       HandleTripQueried, HandleTripRestarted, HandleTripStopped, HandleRemaining,
       HandleMultiplexed, HandleTripResumed
  <2>2. /\ queue # <<>> /\ queue' = Tail(queue)
        /\ UNCHANGED <<mPendingMsgs, modemVars, clientVars, accepted>>
    BY <2>1 DEF Continues, Handling
  <2>3. PICK a : Handled(a)
    BY <1>4, HandleStartedTypes, HandleStoppedTypes, HandleGotTypes, HandleIgnoredTypes,
       HandleTripStartedTypes, HandleTripQueriedTypes, HandleTripStoppedTypes,
       TripContinuationTypes
  <2>4. QED
    BY <2>2, <2>3, HandlersKeepCarried
<1>5. QED
  BY <1>1, <1>2, <1>3, <1>4 DEF TaskNext

\* The response of a call, when the modem has answered it.
Response(m, ok, distance) == [m EXCEPT !.ok = ok, !.distance = distance]

LEMMA AnswerIs ==
  ASSUME NEW m, NEW D, MsgOK(m, D), NEW ok, NEW distance,
         NEW r, r = Response(m, ok, distance)
  PROVE  /\ MsgOK(r, D) /\ r.op = m.op /\ r.arg = m.arg /\ r.ok = ok
         /\ \A n : Carries(m, n) <=> Carries(r, n)
<1>1. m = [op |-> m.op, arg |-> m.arg, ok |-> m.ok, distance |-> m.distance]
  BY DEF MsgOK
<1>2. /\ r.op = m.op /\ r.arg = m.arg /\ r.ok = ok
      /\ r = [op |-> r.op, arg |-> r.arg, ok |-> r.ok, distance |-> r.distance]
  BY <1>1 DEF Response
<1>3. MsgOK(r, D)
  BY <1>2 DEF MsgOK
<1>4. \A n : Carries(m, n) <=> Carries(r, n)
  BY <1>2 DEF Carries
<1>5. QED
  BY <1>2, <1>3, <1>4

LEMMA AnswersKeeps ==
  ASSUME Types, CommandsAreCarried, toModem # <<>>, NEW ok, NEW distance, Answers(ok, distance),
         modem' = [batching |-> modem'.batching, trip |-> modem'.trip],
         DOMAIN modem'.batching \subseteq DOMAIN cmds
  PROVE  Types' /\ CommandsAreCarried'
<1>1. PICK c : c = Head(toModem)
  OBVIOUS
<1>2. PICK m, r : m = c.then /\ r = Response(m, ok, distance)
  OBVIOUS
<1>3. /\ queue' = Append(queue, r) /\ toModem' = Tail(toModem)
      /\ UNCHANGED <<sessionVars, mPendingMsgs, cmds, accepted, answered>>
  BY <1>1, <1>2 DEF Answers, clientVars, Response
<1>4. IsSeq(toModem) /\ IsSeq(queue)
  BY DEF Types, QueueOK
<1>5. /\ c \in ToSet(toModem) /\ IsSeq(toModem')
      /\ ToSet(toModem) = {c} \cup ToSet(toModem')
  BY <1>1, <1>3, <1>4, SeqsGrow, SetsGrow
<1>6. MsgOK(m, DOMAIN cmds)
  BY <1>2, <1>5 DEF Types, QueueOK, CallOK
<1>7. MsgOK(r, DOMAIN cmds) /\ \A n : Carries(m, n) <=> Carries(r, n)
  BY <1>2, <1>6, AnswerIs
<1>8. IsSeq(queue') /\ ToSet(queue') = ToSet(queue) \cup {r}
  BY <1>3, <1>4, SeqsGrow, SetsGrow
<1>9. QueueOK'
  BY <1>3, <1>5, <1>7, <1>8 DEF Types, QueueOK
<1>10. CmdsOK' /\ MapsOK'
  BY <1>3 DEF Types, CmdsOK, MapsOK, sessionVars
<1>11. /\ ToSet(Thens(toModem)) = {k.then : k \in ToSet(toModem)}
       /\ ToSet(Thens(toModem')) = {k.then : k \in ToSet(toModem')}
  BY <1>4, <1>5, ThensIs
<1>12. \A n : \A k \in ToSet(queue) \cup ToSet(Thens(toModem)) : Carries(k, n) =>
         \E l \in ToSet(queue') \cup ToSet(Thens(toModem')) : Carries(l, n)
  BY <1>2, <1>5, <1>7, <1>8, <1>11
<1>13. CommandsAreCarried'
  BY <1>3, <1>12 DEF CommandsAreCarried
<1>14. QED
  BY <1>9, <1>10, <1>13 DEF Types

LEMMA ModemAnswersKeeps ==
  ASSUME Types, CommandsAreCarried, ModemAnswers
  PROVE  Types' /\ CommandsAreCarried'
<1>1. modem = [batching |-> modem.batching, trip |-> modem.trip]
      /\ DOMAIN modem.batching \subseteq DOMAIN cmds
  BY DEF Types, MapsOK
<1>2. CASE ModemActs
  <2>1. PICK c, distance : c = Head(toModem) /\ Answers(TRUE, distance) /\ toModem # <<>>
    BY <1>2 DEF ModemActs
  <2>2. CallOK(c, DOMAIN cmds)
    BY <2>1, SetsGrow DEF Types, QueueOK
  <2>3. \/ /\ c.call = "startBatching"
           /\ modem' = [modem EXCEPT !.batching = With(@, c.arg.session, c.arg.options)]
        \/ modem' = [modem EXCEPT !.batching = Without(@, {c.arg.session})]
        \/ \E t : modem' = [modem EXCEPT !.trip = t]
        \/ modem' = modem
    BY <1>2, <2>1 DEF ModemActs
  <2>4. /\ modem' = [batching |-> modem'.batching, trip |-> modem'.trip]
        /\ DOMAIN modem'.batching \subseteq DOMAIN cmds
    <3>1. CASE /\ c.call = "startBatching"
               /\ modem' = [modem EXCEPT !.batching = With(@, c.arg.session, c.arg.options)]
      <4>1. c.arg.session \in DOMAIN cmds
        BY <2>2, <3>1 DEF CallOK, MsgOK, JobOK, JobOps
      <4>2. /\ modem' = [batching |-> modem'.batching, trip |-> modem'.trip]
            /\ modem'.batching = With(modem.batching, c.arg.session, c.arg.options)
        BY <1>1, <3>1
      <4>3. QED
        BY <1>1, <4>1, <4>2 DEF With
    <3>2. CASE modem' = [modem EXCEPT !.batching = Without(@, {c.arg.session})]
      <4>1. /\ modem' = [batching |-> modem'.batching, trip |-> modem'.trip]
            /\ modem'.batching = Without(modem.batching, {c.arg.session})
        BY <1>1, <3>2
      <4>2. QED
        BY <1>1, <4>1 DEF Without
    <3>3. CASE \E t : modem' = [modem EXCEPT !.trip = t]
      BY <1>1, <3>3
    <3>4. CASE modem' = modem
      BY <1>1, <3>4
    <3>5. QED
      BY <2>3, <3>1, <3>2, <3>3, <3>4
  <2>5. PICK ok : ok = TRUE
    OBVIOUS
  <2>6. QED
    BY <2>1, <2>4, <2>5, AnswersKeeps
<1>3. CASE ModemRefuses
  <2>1. PICK ok, distance : ok = FALSE /\ distance = 0
    OBVIOUS
  <2>2. Answers(ok, distance) /\ toModem # <<>> /\ modem' = modem
    BY <1>3, <2>1 DEF ModemRefuses
  <2>3. QED
    BY <1>1, <2>2, AnswersKeeps
<1>4. QED
  BY <1>2, <1>3 DEF ModemAnswers

\* The responses of the calls that a restart of the modem fails.
Failed(m) == [m EXCEPT !.ok = FALSE]
Failures(t) == [k \in DOMAIN t |-> Failed(t[k].then)]

LEMMA FailureIs ==
  ASSUME NEW m, NEW D, MsgOK(m, D), NEW r, r = Failed(m)
  PROVE  /\ MsgOK(r, D) /\ r.op = m.op /\ r.arg = m.arg /\ r.ok = FALSE
         /\ \A n : Carries(m, n) <=> Carries(r, n)
<1>1. m = [op |-> m.op, arg |-> m.arg, ok |-> m.ok, distance |-> m.distance]
  BY DEF MsgOK
<1>2. /\ r.op = m.op /\ r.arg = m.arg /\ r.ok = FALSE
      /\ r = [op |-> r.op, arg |-> r.arg, ok |-> r.ok, distance |-> r.distance]
  BY <1>1 DEF Failed
<1>3. MsgOK(r, D)
  BY <1>2 DEF MsgOK
<1>4. \A n : Carries(m, n) <=> Carries(r, n)
  BY <1>2 DEF Carries
<1>5. QED
  BY <1>2, <1>3, <1>4

LEMMA FailuresAre ==
  ASSUME NEW t, IsSeq(t)
  PROVE  /\ IsSeq(Failures(t)) /\ Len(Failures(t)) = Len(t) /\ Len(t) \in Nat
         /\ \A k \in 1..Len(t) : Failures(t)[k] = Failed(t[k].then)
         /\ \A r \in ToSet(Failures(t)) :
              \E c \in ToSet(t) : r = Failed(c.then)
         /\ \A c \in ToSet(t) : Failed(c.then) \in ToSet(Failures(t))
<1>1. PICK n \in Nat : n = Len(t)
  BY DEF IsSeq
<1>2. PICK f : f = Failures(t)
  OBVIOUS
<1>3. DOMAIN t = 1..n /\ DOMAIN f = 1..n
      /\ \A k \in 1..n : f[k] = Failed(t[k].then)
  BY <1>1, <1>2 DEF IsSeq, Failures
<1>4. IsSeq(f)
  <2>1. f = [k \in 1..n |-> f[k]]
    BY <1>2, <1>3 DEF Failures
  <2>2. QED
    BY <2>1, FunctionIsSeq
<1>5. Len(f) = n
  BY <1>3, <1>4 DEF IsSeq
<1>6. QED
  BY <1>1, <1>2, <1>3, <1>4, <1>5 DEF ToSet

LEMMA ModemStartsIs ==
  ASSUME Types, ModemStarts
  PROVE  \E r, u :
    /\ r = Failures(toModem) /\ u = <<Msg("engineUp", None)>>
    /\ queue' = queue \o r \o u /\ toModem' = <<>>
    /\ modem' = [batching |-> <<>>, trip |-> None]
    /\ UNCHANGED <<sessionVars, mClientData, engineKnown, mPendingMsgs, clientVars, accepted,
                   answered, early, crossed, refusals>>
    /\ IsSeq(r) /\ IsSeq(u) /\ ToSet(u) = {Msg("engineUp", None)} /\ IsSeq(queue \o r)
    /\ IsSeq(queue') /\ ToSet(queue') = ToSet(queue) \cup ToSet(r) \cup ToSet(u)
<1>1. PICK r, m, u : r = Failures(toModem) /\ m = Msg("engineUp", None) /\ u = <<m>>
  OBVIOUS
<1>2. /\ queue' = queue \o r \o u /\ toModem' = <<>>
      /\ modem' = [batching |-> <<>>, trip |-> None]
      /\ UNCHANGED <<sessionVars, mClientData, engineKnown, mPendingMsgs, clientVars, accepted,
                   answered, early, crossed, refusals>>
  BY <1>1 DEF ModemStarts, Failures, Failed
<1>3. IsSeq(queue) /\ IsSeq(toModem)
  BY DEF Types, QueueOK
<1>4. IsSeq(r)
  BY <1>1, <1>3, FailuresAre
<1>5. IsSeq(u) /\ ToSet(u) = {m}
  BY <1>1, <1>3, AppendAsConcat
<1>6. IsSeq(queue \o r) /\ ToSet(queue \o r) = ToSet(queue) \cup ToSet(r)
  BY <1>3, <1>4, SeqsGrow, SetsGrow
<1>7. IsSeq(queue') /\ ToSet(queue') = ToSet(queue) \cup ToSet(r) \cup ToSet(u)
  <2>1. PICK q : q = queue \o r
    OBVIOUS
  <2>2. IsSeq(q) /\ queue' = q \o u /\ ToSet(q) = ToSet(queue) \cup ToSet(r)
    BY <1>2, <1>6, <2>1
  <2>3. QED
    BY <1>5, <2>2, SeqsGrow, SetsGrow
<1>8. QED
  BY <1>1, <1>2, <1>4, <1>5, <1>6, <1>7

LEMMA ModemStartsKeeps ==
  ASSUME Types, CommandsAreCarried, ModemStarts
  PROVE  Types' /\ CommandsAreCarried'
<1>1. PICK r, u :
    /\ r = Failures(toModem) /\ u = <<Msg("engineUp", None)>>
    /\ toModem' = <<>>
    /\ modem' = [batching |-> <<>>, trip |-> None]
    /\ UNCHANGED <<sessionVars, mPendingMsgs, cmds, accepted, answered>>
    /\ ToSet(u) = {Msg("engineUp", None)}
    /\ IsSeq(queue') /\ ToSet(queue') = ToSet(queue) \cup ToSet(r) \cup ToSet(u)
  BY ModemStartsIs DEF clientVars
<1>2. IsSeq(queue) /\ IsSeq(toModem)
  BY DEF Types, QueueOK
<1>3. ASSUME NEW m \in ToSet(queue')
      PROVE  MsgOK(m, DOMAIN cmds)
  <2>1. CASE m \in ToSet(queue)
    BY <2>1 DEF Types, QueueOK
  <2>2. CASE m \in ToSet(r)
    <3>1. PICK c \in ToSet(toModem) : m = Failed(c.then)
      BY <1>1, <1>2, <2>2, FailuresAre
    <3>2. PICK l : l = c.then
      OBVIOUS
    <3>3. MsgOK(l, DOMAIN cmds) /\ m = Failed(l)
      BY <3>1, <3>2 DEF Types, QueueOK, CallOK
    <3>4. QED
      BY <3>3, FailureIs
  <2>3. CASE m \in ToSet(u)
    BY <1>1, <2>3 DEF Msg, MsgOK, JobOps
  <2>4. QED
    BY <1>1, <2>1, <2>2, <2>3
<1>4. QueueOK'
  BY <1>1, <1>3, EmptyIsSeq DEF Types, QueueOK
<1>5. CmdsOK' /\ MapsOK'
  <2>1. CmdsOK'
    BY <1>1 DEF Types, CmdsOK
  <2>2. modem' = [batching |-> modem'.batching, trip |-> modem'.trip] /\ DOMAIN modem'.batching = {}
    BY <1>1
  <2>3. QED
    BY <1>1, <2>1, <2>2 DEF Types, MapsOK, sessionVars
<1>6. ASSUME NEW n, NEW m \in ToSet(queue) \cup ToSet(Thens(toModem)), Carries(m, n)
      PROVE  \E l \in ToSet(queue') \cup ToSet(Thens(toModem')) : Carries(l, n)
  <2>1. CASE m \in ToSet(queue)
    BY <1>1, <1>6, <2>1
  <2>2. CASE m \in ToSet(Thens(toModem))
    <3>1. PICK c \in ToSet(toModem) : m = c.then
      BY <1>2, <2>2, ThensIs
    <3>2. PICK l : l = Failed(m)
      OBVIOUS
    <3>3. l \in ToSet(r)
      BY <1>1, <1>2, <3>1, <3>2, FailuresAre
    <3>4. MsgOK(m, DOMAIN cmds)
      BY <3>1 DEF Types, QueueOK, CallOK
    <3>5. Carries(l, n)
      BY <1>6, <3>2, <3>4, FailureIs
    <3>6. QED
      BY <1>1, <3>3, <3>5
  <2>3. QED
    BY <2>1, <2>2
<1>7. CommandsAreCarried'
  BY <1>1, <1>6 DEF CommandsAreCarried
<1>8. QED
  BY <1>4, <1>5, <1>7 DEF Types

LEMMA DeviceMovesKeeps ==
  ASSUME Types, CommandsAreCarried, DeviceMoves
  PROVE  Types' /\ CommandsAreCarried'
<1>1. /\ \E t : modem' = [modem EXCEPT !.trip = t]
      /\ UNCHANGED <<mBatchingSessions, mTripSessions, mPendingMsgs, toModem, cmds, accepted,
                     answered>>
      /\ queue' = queue \/ \E distance : queue' = Append(queue, Msg("completed", distance))
  BY DEF DeviceMoves, clientVars
<1>2. modem' = [batching |-> modem.batching, trip |-> modem'.trip]
  BY <1>1 DEF Types, MapsOK
<1>3. CmdsOK' /\ MapsOK'
  <2>1. CmdsOK'
    BY <1>1 DEF Types, CmdsOK
  <2>2. modem' = [batching |-> modem'.batching, trip |-> modem'.trip]
        /\ modem'.batching = modem.batching
    BY <1>2
  <2>3. QED
    BY <1>1, <2>1, <2>2 DEF Types, MapsOK
<1>4. IsSeq(queue') /\ ToSet(queue) \subseteq ToSet(queue')
      /\ \A m \in ToSet(queue') : MsgOK(m, DOMAIN cmds)
  <2>1. CASE queue' = queue
    BY <2>1 DEF Types, QueueOK
  <2>2. ASSUME NEW distance, queue' = Append(queue, Msg("completed", distance))
        PROVE  IsSeq(queue') /\ ToSet(queue) \subseteq ToSet(queue')
               /\ \A m \in ToSet(queue') : MsgOK(m, DOMAIN cmds)
    <3>1. PICK m : m = Msg("completed", distance)
      OBVIOUS
    <3>2. IsSeq(queue') /\ ToSet(queue') = ToSet(queue) \cup {m}
      BY <2>2, <3>1, SeqsGrow, SetsGrow DEF Types, QueueOK
    <3>3. MsgOK(m, DOMAIN cmds)
      BY <3>1 DEF Msg, MsgOK, JobOps
    <3>4. QED
      BY <3>2, <3>3 DEF Types, QueueOK
  <2>3. QED
    BY <1>1, <2>1, <2>2
<1>5. QueueOK'
  BY <1>1, <1>4 DEF Types, QueueOK
<1>6. CommandsAreCarried'
  BY <1>1, <1>4 DEF CommandsAreCarried
<1>7. QED
  BY <1>3, <1>5, <1>6 DEF Types

LEMMA InitTypes ==
  ASSUME Init
  PROVE  Types /\ CommandsAreCarried
<1>1. IsSeq(<<>>) /\ ToSet(<<>>) = {} /\ DOMAIN <<>> = {}
  BY EmptyIsSeq
<1>2. CmdsOK
  BY <1>1 DEF Init, CmdsOK
<1>3. QueueOK
  BY <1>1 DEF Init, QueueOK
<1>4. MapsOK
  <2>1. modem = [batching |-> modem.batching, trip |-> modem.trip] /\ modem.batching = <<>>
    BY DEF Init
  <2>2. IsMap(mTripSessions)
    BY DEF Init, IsMap
  <2>3. QED
    BY <1>1, <2>1, <2>2 DEF Init, MapsOK
<1>5. CommandsAreCarried
  BY DEF Init, CommandsAreCarried
<1>6. QED
  BY <1>2, <1>3, <1>4, <1>5 DEF Types

LEMMA TypesStutter ==
  ASSUME Types, CommandsAreCarried, UNCHANGED vars
  PROVE  Types' /\ CommandsAreCarried'
<1>1. UNCHANGED <<cmds, queue, toModem, mPendingMsgs, mBatchingSessions, mTripSessions, modem,
                  accepted, answered>>
  BY DEF vars, sessionVars, modemVars, clientVars
<1>2. CmdsOK' /\ QueueOK' /\ MapsOK'
  BY <1>1 DEF Types, CmdsOK, QueueOK, MapsOK
<1>3. CommandsAreCarried'
  BY <1>1 DEF CommandsAreCarried
<1>4. QED
  BY <1>2, <1>3 DEF Types

LEMMA NextTypes ==
  ASSUME Types, CommandsAreCarried, [Next]_vars
  PROVE  Types' /\ CommandsAreCarried'
BY TypesStutter, ClientNextKeeps, TaskNextKeeps, ModemAnswersKeeps, ModemStartsKeeps,
   DeviceMovesKeeps DEF Next

\* The messages, the calls under way and the adapter's maps are about commands that were
\* given, a call and its response about the same session, and each accepted command that
\* is not answered is carried by one of them.
THEOREM CommandsCarried == Spec => [](Types /\ CommandsAreCarried)
<1>1. Init => Types /\ CommandsAreCarried
  BY InitTypes
<1>2. Types /\ CommandsAreCarried /\ [Next]_vars => (Types /\ CommandsAreCarried)'
  BY NextTypes
<1>3. QED
  BY <1>1, <1>2, PTL DEF Spec

\* When nothing is under way, each command that passed the checks of its proc() has been
\* answered or its client is gone, whatever calls of the modem it took, refused or lost in
\* a restart (reportResponse()).
THEOREM AcceptedAnswered == Spec => []AcceptedIsAnswered
<1>1. Types /\ CommandsAreCarried => AcceptedIsAnswered
  <2> SUFFICES ASSUME Types, CommandsAreCarried, Quiet
               PROVE  accepted \subseteq answered
    BY DEF AcceptedIsAnswered
  <2>1. ToSet(queue) = {} /\ ToSet(Thens(toModem)) = {}
    BY EmptyIsSeq, ThensOfNone DEF Quiet
  <2>2. QED
    BY <2>1 DEF CommandsAreCarried
<1>2. QED
  BY <1>1, CommandsCarried, PTL

-----------------------------------------------------------------------------
(***************************************************************************)
(* Plain sessions.  What a message or a response is about:                 *)
(***************************************************************************)
Starts(m, s)  == m.op \in {"started", "ignored"} /\ m.arg.session = s
Stops(m, s)   == m.op = "stopped" /\ m.arg.job.session = s
About(m, s)   == Starts(m, s) \/ Stops(m, s)
Queries(m, s) == m.op = "tripQueried" /\ m.arg.session = s
OfTrip(m, s)  == m.op \in {"tripStarted", "tripStopped"} /\ m.arg.session = s
Names(m, s)   == About(m, s) \/ Queries(m, s) \/ OfTrip(m, s)
Asks(m, s)    == m.op = "command" /\ m.arg = s
Undoes(m, s)  == m.op = "started" /\ m.arg.session = s /\ ~m.ok

InFlight     == ToSet(queue) \cup ToSet(Thens(toModem))
Behind(m, t) == Precedes(queue \o Thens(toModem), m, t)

\* At most one response about trips is under way.
OneTrip == \A m, t : Behind(m, t) => m.op \notin TripResponses \/ t.op \notin TripResponses

\* Of a session, at most one start is under way, and after it at most one stop.
InTurn(m, t, s) == About(m, s) /\ About(t, s) => m.op # "stopped" /\ t.op = "stopped"

Ordered(s) ==
  /\ \A m, t : Behind(m, t) => InTurn(m, t, s)
  /\ \A m, t : Precedes(queue \o mPendingMsgs, m, t) => ~Asks(m, s) \/ ~Asks(t, s)
  /\ \A m, t : Precedes(queue, m, t) /\ m.op = "engineUp" => ~About(t, s)

\* A session whose start has not been handled.
Asked(s) ==
  cmds[s].op = "start" /\ \E m \in ToSet(queue) \cup ToSet(mPendingMsgs) : Asks(m, s)
Unknown(W, S, T, s) == s \notin DOMAIN S \cup DOMAIN T /\ \A m \in W : ~Names(m, s)

\* What is under way (W) about a session agrees with the maps of sessions and trips.
Tokens(W, S, T, s) ==
  /\ \A m \in W : Stops(m, s) \/ Queries(m, s) => s \notin DOMAIN S \cup DOMAIN T
  /\ \A m, t \in W : ~Stops(m, s) \/ ~Queries(t, s)
  /\ \A m \in W : Starts(m, s) =>
       (\E t \in W : Stops(t, s)) \/ (s \in DOMAIN S /\ S[s] = m.arg.options)
  /\ s \in DOMAIN S /\ S[s].mode # "trip" => s \notin DOMAIN T
  /\ \A m \in W : OfTrip(m, s) => DOMAIN T = {s} /\ s \in DOMAIN S /\ S[s].mode = "trip"

\* The modem's sessions (B) are those of the map once the calls (M) have been made and
\* the messages (Q) handled.
Served(Q, M, S, B, s) ==
  /\ \A m \in Q : Undoes(m, s) => s \notin DOMAIN B
  /\ \A m \in M : m.op = "started" /\ m.arg.session = s => s \notin DOMAIN B
  /\ s \in DOMAIN B =>
       (\E m \in M : Stops(m, s)) \/ (s \in DOMAIN S /\ S[s].mode # "trip" /\ S[s] = B[s])
  /\ (\A m \in Q : m.op # "engineUp") /\ s \in DOMAIN S /\ S[s].mode # "trip" =>
       s \in DOMAIN B \/ (\E m \in M : Starts(m, s)) \/ \E m \in Q : Undoes(m, s)

PlainOK(s) ==
  /\ Ordered(s)
  /\ Asked(s) => Unknown(InFlight, mBatchingSessions, mTripSessions, s)
  /\ Tokens(InFlight, mBatchingSessions, mTripSessions, s)
  /\ Served(ToSet(queue), ToSet(Thens(toModem)), mBatchingSessions, modem.batching, s)

SessionsAgree ==
  /\ (\E m \in ToSet(queue) : m.op = "engineUp") => DOMAIN modem.batching = {}
  /\ \A m \in ToSet(queue) : m.op = "stopped" /\ ~m.ok => m.arg.job.session \in refused
  /\ ~crossed => OneTrip /\ \A s \in DOMAIN cmds \ refused : PlainOK(s)

-----------------------------------------------------------------------------
(***************************************************************************)
(* What the handling of message h may make of a session, when W is what    *)
(* else is under way and N the responses to the calls the handler makes.   *)
(* The maps S and T become S2 and T2.                                      *)
(***************************************************************************)
Untouched(h, W, N, S, S2, T, T2, s) ==
  /\ ~Undoes(h, s) /\ \A t \in N : ~Names(t, s)
  /\ s \in DOMAIN S2 <=> s \in DOMAIN S
  /\ s \in DOMAIN S => S2[s] = S[s]
  /\ s \in DOMAIN T2 => s \in DOMAIN T
  /\ (\E m \in W : OfTrip(m, s)) => DOMAIN T2 = DOMAIN T

Clear(W, B, s) == s \notin DOMAIN B /\ \A m \in W : ~Names(m, s)

StartedPlain(W, N, S2, T2, B, s) ==
  /\ Clear(W, B, s) /\ s \in DOMAIN S2 \ DOMAIN T2 /\ S2[s].mode # "trip"
  /\ \E t \in N : Starts(t, s)
  /\ \A t \in N : Names(t, s) => t.op = "started" /\ t.arg.options = S2[s]

StartedTrip(W, N, S2, T2, B, s) ==
  /\ Clear(W, B, s) /\ DOMAIN T2 = {s} /\ s \in DOMAIN S2 /\ S2[s].mode = "trip"
  /\ \A t \in N : Names(t, s) => t.op = "tripStarted"

QueriedFirst(W, N, S2, T2, B, s) ==
  /\ Clear(W, B, s) /\ s \notin DOMAIN S2 \cup DOMAIN T2
  /\ \A t \in N : Names(t, s) => t.op = "tripQueried"

StoppedPlain(h, N, S, S2, T, T2, s) ==
  /\ s \in DOMAIN S \ DOMAIN T /\ s \notin DOMAIN S2 \cup DOMAIN T2 /\ ~Names(h, s)
  /\ \E t \in N : Stops(t, s)
  /\ \A t \in N : Names(t, s) => t.op = "stopped"

StoppingTrip(h, N, S, S2, T, T2, s) ==
  /\ s \in DOMAIN S /\ DOMAIN T = {s} /\ S2 = S /\ T2 = T /\ ~Names(h, s)
  /\ \A t \in N : Names(t, s) => t.op = "tripStopped"

Undone(h, N, S2, T, T2, s) ==
  /\ Undoes(h, s) /\ \A t \in N : ~Names(t, s)
  /\ s \notin DOMAIN S2 /\ (s \in DOMAIN T2 => s \in DOMAIN T)

TripUndone(h, W, N, S2, T2, s) ==
  /\ OfTrip(h, s) /\ \A t \in N : ~Names(t, s)
  /\ s \notin DOMAIN S2 \cup DOMAIN T2 /\ \A m \in W : m.op \notin TripResponses

TripKnown(h, W, N, S, S2, s) ==
  /\ Queries(h, s) /\ \A t \in N : ~Names(t, s)
  /\ S2 = S /\ \A m \in W : m.op \notin TripResponses

Effect(h, W, N, S, S2, T, T2, B, s) ==
  \/ StartedPlain(W, N, S2, T2, B, s) \/ StartedTrip(W, N, S2, T2, B, s)
  \/ QueriedFirst(W, N, S2, T2, B, s) \/ StoppedPlain(h, N, S, S2, T, T2, s)
  \/ StoppingTrip(h, N, S, S2, T, T2, s) \/ Undone(h, N, S2, T, T2, s)
  \/ TripUndone(h, W, N, S2, T2, s) \/ TripKnown(h, W, N, S, S2, s)

Follows(h, Q, M, N, S, S2, T, T2, B, s) ==
  /\ Tokens(Q \cup M \cup N, S2, T2, s) /\ Served(Q, M \cup N, S2, B, s)
  /\ \A m \in Q \cup M, t \in N : InTurn(m, t, s)

\* No session that was started before is a trip.
PlainStarts(W) == \A m \in W : m.op \in {"started", "ignored"} => m.arg.options.mode # "trip"

LEMMA UntouchedFollows ==
  ASSUME NEW h, NEW Q, NEW M, NEW N, NEW S, NEW S2, NEW T, NEW T2, NEW B, NEW s,
         Tokens({h} \cup Q \cup M, S, T, s), Served({h} \cup Q, M, S, B, s), h.op # "engineUp",
         PlainStarts({h} \cup Q \cup M), \A t \in Q \cup M : InTurn(h, t, s),
         Untouched(h, Q \cup M, N, S, S2, T, T2, s)
  PROVE  Follows(h, Q, M, N, S, S2, T, T2, B, s)
<1>1. Tokens(Q \cup M \cup N, S2, T2, s)
  BY DEF Tokens, Untouched, Names, About, InTurn, Starts, Stops, Queries, OfTrip
<1>2. Served(Q, M \cup N, S2, B, s)
  BY DEF Served, Untouched, Names, About, Starts, Stops, Undoes
<1>3. \A m \in Q \cup M, t \in N : InTurn(m, t, s)
  BY DEF Untouched, Names, InTurn
<1>4. QED
  BY <1>1, <1>2, <1>3 DEF Follows

LEMMA EffectFollows ==
  ASSUME NEW h, NEW Q, NEW M, NEW N, NEW S, NEW S2, NEW T, NEW T2, NEW B, NEW s,
         Tokens({h} \cup Q \cup M, S, T, s), Served({h} \cup Q, M, S, B, s), h.op # "engineUp",
         PlainStarts({h} \cup Q \cup M), \A t \in Q \cup M : InTurn(h, t, s),
         Effect(h, Q \cup M, N, S, S2, T, T2, B, s)
  PROVE  Follows(h, Q, M, N, S, S2, T, T2, B, s)
<1> USE DEF Names, About, Starts, Stops, Queries, OfTrip, Undoes, Follows
<1>1. CASE StartedPlain(Q \cup M, N, S2, T2, B, s)
  <2>1. Tokens(Q \cup M \cup N, S2, T2, s)
    BY <1>1 DEF StartedPlain, Clear, Tokens
  <2>2. Served(Q, M \cup N, S2, B, s)
    BY <1>1 DEF StartedPlain, Clear, Served
  <2>3. \A m \in Q \cup M, t \in N : InTurn(m, t, s)
    BY <1>1 DEF StartedPlain, Clear, InTurn
  <2>4. QED
    BY <2>1, <2>2, <2>3
<1>2. CASE StartedTrip(Q \cup M, N, S2, T2, B, s)
  <2>1. Tokens(Q \cup M \cup N, S2, T2, s)
    BY <1>2 DEF StartedTrip, Clear, Tokens
  <2>2. Served(Q, M \cup N, S2, B, s)
    BY <1>2 DEF StartedTrip, Clear, Served
  <2>3. \A m \in Q \cup M, t \in N : InTurn(m, t, s)
    BY <1>2 DEF StartedTrip, Clear, InTurn
  <2>4. QED
    BY <2>1, <2>2, <2>3
<1>3. CASE QueriedFirst(Q \cup M, N, S2, T2, B, s)
  <2>1. Tokens(Q \cup M \cup N, S2, T2, s)
    BY <1>3 DEF QueriedFirst, Clear, Tokens
  <2>2. Served(Q, M \cup N, S2, B, s)
    BY <1>3 DEF QueriedFirst, Clear, Served
  <2>3. \A m \in Q \cup M, t \in N : InTurn(m, t, s)
    BY <1>3 DEF QueriedFirst, Clear, InTurn
  <2>4. QED
    BY <2>1, <2>2, <2>3
<1>4. CASE StoppedPlain(h, N, S, S2, T, T2, s)
  <2>1. Tokens(Q \cup M \cup N, S2, T2, s)
    BY <1>4 DEF StoppedPlain, Tokens
  <2>2. Served(Q, M \cup N, S2, B, s)
    BY <1>4 DEF StoppedPlain, Served
  <2>3. \A m \in Q \cup M, t \in N : InTurn(m, t, s)
    BY <1>4 DEF StoppedPlain, InTurn, Tokens
  <2>4. QED
    BY <2>1, <2>2, <2>3
<1>5. CASE StoppingTrip(h, N, S, S2, T, T2, s)
  <2>1. S[s].mode = "trip"
    BY <1>5 DEF StoppingTrip, Tokens
  <2>2. Tokens(Q \cup M \cup N, S2, T2, s)
    BY <1>5, <2>1 DEF StoppingTrip, Tokens
  <2>3. Served(Q, M \cup N, S2, B, s)
    BY <1>5, <2>1 DEF StoppingTrip, Served
  <2>4. \A m \in Q \cup M, t \in N : InTurn(m, t, s)
    BY <1>5 DEF StoppingTrip, InTurn
  <2>5. QED
    BY <2>2, <2>3, <2>4
<1>6. CASE Undone(h, N, S2, T, T2, s)
  <2>1. \A m \in Q \cup M : ~Starts(m, s) /\ ~OfTrip(m, s)
    BY <1>6 DEF Undone, Tokens, InTurn, PlainStarts
  <2>2. Tokens(Q \cup M \cup N, S2, T2, s)
    BY <1>6, <2>1 DEF Undone, Tokens
  <2>3. Served(Q, M \cup N, S2, B, s)
    BY <1>6, <2>1 DEF Undone, Served
  <2>4. \A m \in Q \cup M, t \in N : InTurn(m, t, s)
    BY <1>6 DEF Undone, InTurn
  <2>5. QED
    BY <2>2, <2>3, <2>4
<1>7. CASE TripUndone(h, Q \cup M, N, S2, T2, s)
  <2>1. s \in DOMAIN S /\ S[s].mode = "trip" /\ DOMAIN T = {s}
    BY <1>7 DEF TripUndone, Tokens
  <2>2. \A m \in Q \cup M : ~Stops(m, s) /\ ~Queries(m, s)
    BY <1>7, <2>1 DEF TripUndone, Tokens
  <2>3. \A m \in Q \cup M : ~Starts(m, s)
    BY <1>7, <2>1, <2>2 DEF TripUndone, Tokens, PlainStarts
  <2>4. \A m \in Q \cup M : ~OfTrip(m, s)
    BY <1>7 DEF TripUndone, TripResponses
  <2>5. Tokens(Q \cup M \cup N, S2, T2, s)
    BY <1>7, <2>2, <2>3, <2>4 DEF TripUndone, Tokens
  <2>6. Served(Q, M \cup N, S2, B, s)
    BY <1>7, <2>1, <2>2 DEF TripUndone, Served
  <2>7. \A m \in Q \cup M, t \in N : InTurn(m, t, s)
    BY <1>7 DEF TripUndone, InTurn
  <2>8. QED
    BY <2>5, <2>6, <2>7
<1>8. CASE TripKnown(h, Q \cup M, N, S, S2, s)
  <2>1. s \notin DOMAIN S /\ \A m \in Q \cup M : ~Stops(m, s)
    BY <1>8 DEF TripKnown, Tokens
  <2>2. \A m \in Q \cup M : ~Queries(m, s) /\ ~OfTrip(m, s)
    BY <1>8 DEF TripKnown, TripResponses
  <2>3. \A m \in Q \cup M : ~Starts(m, s)
    BY <1>8, <2>1, <2>2 DEF TripKnown, Tokens
  <2>4. Tokens(Q \cup M \cup N, S2, T2, s)
    BY <1>8, <2>1, <2>2, <2>3 DEF TripKnown, Tokens
  <2>5. Served(Q, M \cup N, S2, B, s)
    BY <1>8, <2>1, <2>2, <2>3 DEF TripKnown, Served
  <2>6. \A m \in Q \cup M, t \in N : InTurn(m, t, s)
    BY <1>8 DEF TripKnown, InTurn
  <2>7. QED
    BY <2>4, <2>5, <2>6
<1>9. QED
  BY <1>1, <1>2, <1>3, <1>4, <1>5, <1>6, <1>7, <1>8 DEF Effect

LEMMA BehindIs ==
  ASSUME NEW q, NEW c, IsSeq(q), IsSeq(c), NEW m, NEW t
  PROVE  Precedes(q \o Thens(c), m, t)
           <=> \/ Precedes(q, m, t) \/ Precedes(Thens(c), m, t)
               \/ m \in ToSet(q) /\ t \in ToSet(Thens(c))
BY ThensIs, PrecedesConcat

\* What the handler of the first message leaves under way.
LEMMA BehindHandled ==
  ASSUME Types, queue # <<>>, NEW calls, IsSeq(calls), toModem' = toModem \o calls,
         queue' = Tail(queue), NEW Q, Q = ToSet(Tail(queue)),
         NEW M, M = ToSet(Thens(toModem)), NEW N, N = ToSet(Thens(calls))
  PROVE  /\ ToSet(queue) = {Head(queue)} \cup Q /\ ToSet(queue') = Q
         /\ ToSet(Thens(toModem')) = M \cup N
         /\ \A m, t : Behind(m, t)' =>
              Behind(m, t) \/ (m \in Q \cup M /\ t \in N) \/ Precedes(Thens(calls), m, t)
         /\ \A t \in Q \cup M : Behind(Head(queue), t)
<1>1. IsSeq(queue) /\ IsSeq(toModem) /\ IsSeq(Tail(queue))
  BY SeqsGrow DEF Types, QueueOK
<1>2. ToSet(queue) = {Head(queue)} \cup Q
  BY <1>1, SetsGrow
<1>3. /\ IsSeq(Thens(toModem)) /\ IsSeq(Thens(calls))
      /\ Thens(toModem \o calls) = Thens(toModem) \o Thens(calls)
  BY <1>1, ThensIs
<1>4. ToSet(Thens(toModem')) = M \cup N
  BY <1>3, SetsGrow
<1>5. IsSeq(toModem')
  BY <1>1, SeqsGrow
<1>6. ASSUME NEW m, NEW t, Behind(m, t)'
      PROVE  Behind(m, t) \/ (m \in Q \cup M /\ t \in N) \/ Precedes(Thens(calls), m, t)
  <2>1. Precedes(Tail(queue) \o Thens(toModem'), m, t)
    BY <1>6 DEF Behind
  <2>2. \/ Precedes(Tail(queue), m, t) \/ Precedes(Thens(toModem'), m, t)
        \/ m \in Q /\ t \in M \cup N
    BY <1>1, <1>4, <1>5, <2>1, BehindIs
  <2>3. Precedes(Thens(toModem'), m, t) =>
          \/ Precedes(Thens(toModem), m, t) \/ Precedes(Thens(calls), m, t)
          \/ m \in M /\ t \in N
    BY <1>3, PrecedesConcat
  <2>4. Precedes(Tail(queue), m, t) => Precedes(queue, m, t)
    BY <1>1, PrecedesTail
  <2>5. Precedes(queue, m, t) \/ Precedes(Thens(toModem), m, t) \/ (m \in Q /\ t \in M)
          => Behind(m, t)
    BY <1>1, <1>2, BehindIs DEF Behind
  <2>6. QED
    BY <2>2, <2>3, <2>4, <2>5
<1>7. ASSUME NEW t \in Q \cup M
      PROVE  Behind(Head(queue), t)
  <2>1. t \in Q => Precedes(queue, Head(queue), t)
    BY <1>1, PrecedesTail
  <2>2. QED
    BY <1>1, <1>2, <1>7, <2>1, BehindIs DEF Behind
<1>8. QED
  BY <1>2, <1>4, <1>6, <1>7

\* A handler does with a session what is written above, and does not make it known before
\* its start.
Effected(a, s) ==
  LET h == Head(queue)
      W == ToSet(Tail(queue)) \cup ToSet(Thens(toModem))
      N == ToSet(Thens(a.calls))
  IN \/ Untouched(h, W, N, mBatchingSessions, a.sessions, mTripSessions, a.trips, s)
     \/ ~Asked(s)' /\ Effect(h, W, N, mBatchingSessions, a.sessions, mTripSessions, a.trips,
                             modem.batching, s)

HandlerStep(a) ==
  /\ queue # <<>> /\ Head(queue).op # "engineUp" /\ queue' = Tail(queue)
  /\ AdapterOK(a, DOMAIN cmds) /\ Becomes(a) /\ (crossed => a.crossed)
  /\ UNCHANGED <<mPendingMsgs, modem, refused, cmds>>

LEMMA TypesPlainStarts ==
  ASSUME Types
  PROVE  PlainStarts(InFlight)
<1>1. IsSeq(toModem)
  BY DEF Types, QueueOK
<1>2. ToSet(Thens(toModem)) = {c.then : c \in ToSet(toModem)}
  BY <1>1, ThensIs
<1>3. \A m \in InFlight : MsgOK(m, DOMAIN cmds)
  BY <1>2 DEF Types, QueueOK, CallOK, InFlight
<1>4. QED
  BY <1>3 DEF PlainStarts, MsgOK

LEMMA HandlerKeepsSession ==
  ASSUME Types, SessionsAgree, NEW a, HandlerStep(a), ~crossed,
         NEW s \in DOMAIN cmds \ refused, Effected(a, s),
         \A m, t : Precedes(Thens(a.calls), m, t) => InTurn(m, t, s)
  PROVE  PlainOK(s)'
<1>1. PICK Q, M, N : /\ Q = ToSet(Tail(queue)) /\ M = ToSet(Thens(toModem))
                     /\ N = ToSet(Thens(a.calls))
  OBVIOUS
<1>2. PICK h, S, S2, T, T2, B : /\ h = Head(queue) /\ S = mBatchingSessions
                                /\ S2 = a.sessions /\ T = mTripSessions /\ T2 = a.trips
                                /\ B = modem.batching
  OBVIOUS
<1>3. /\ IsSeq(queue) /\ IsSeq(Tail(queue)) /\ IsSeq(mPendingMsgs) /\ IsSeq(a.calls)
      /\ toModem' = toModem \o a.calls
      /\ mBatchingSessions' = S2 /\ mTripSessions' = T2 /\ modem'.batching = B
  BY <1>2, SeqsGrow DEF Types, QueueOK, HandlerStep, AdapterOK, Becomes
<1>4. /\ ToSet(queue) = {h} \cup Q /\ ToSet(queue') = Q /\ ToSet(Thens(toModem')) = M \cup N
      /\ \A m, t : Behind(m, t)' =>
           Behind(m, t) \/ (m \in Q \cup M /\ t \in N) \/ Precedes(Thens(a.calls), m, t)
      /\ \A t \in Q \cup M : Behind(h, t)
  <2>1. PICK calls : calls = a.calls
    OBVIOUS
  <2>2. queue # <<>> /\ queue' = Tail(queue)
    BY DEF HandlerStep
  <2>3. IsSeq(calls) /\ toModem' = toModem \o calls /\ N = ToSet(Thens(calls))
    BY <1>1, <1>3, <2>1
  <2>4. /\ ToSet(queue) = {Head(queue)} \cup Q /\ ToSet(queue') = Q
        /\ ToSet(Thens(toModem')) = M \cup N
        /\ \A m, t : Behind(m, t)' =>
             Behind(m, t) \/ (m \in Q \cup M /\ t \in N) \/ Precedes(Thens(calls), m, t)
        /\ \A t \in Q \cup M : Behind(Head(queue), t)
    BY <1>1, <2>2, <2>3, BehindHandled
  <2>5. QED
    BY <1>2, <2>1, <2>4
<1>5. PlainOK(s)
  BY DEF SessionsAgree
<1>6. InFlight = {h} \cup Q \cup M /\ InFlight' = Q \cup M \cup N
  BY <1>1, <1>4 DEF InFlight
<1>7. /\ Tokens({h} \cup Q \cup M, S, T, s) /\ Served({h} \cup Q, M, S, B, s)
      /\ PlainStarts({h} \cup Q \cup M) /\ h.op # "engineUp"
  BY <1>1, <1>2, <1>4, <1>5, <1>6, TypesPlainStarts DEF PlainOK, HandlerStep
<1>8. \A t \in Q \cup M : InTurn(h, t, s)
  BY <1>4, <1>5 DEF PlainOK, Ordered
<1>9. Follows(h, Q, M, N, S, S2, T, T2, B, s)
  <2>1. \/ Untouched(h, Q \cup M, N, S, S2, T, T2, s)
        \/ Effect(h, Q \cup M, N, S, S2, T, T2, B, s)
    BY <1>1, <1>2 DEF Effected
  <2>2. QED
    BY <1>7, <1>8, <2>1, UntouchedFollows, EffectFollows
<1>10. Ordered(s)'
  <2>1. \A m, t : Behind(m, t)' => InTurn(m, t, s)
    BY <1>4, <1>5, <1>9 DEF PlainOK, Ordered, Follows
  <2>2. \A m, t : Precedes(Tail(queue), m, t) => Precedes(queue, m, t)
    BY <1>3, PrecedesTail DEF HandlerStep
  <2>3. \A m, t : Precedes(Tail(queue) \o mPendingMsgs, m, t)
                    => Precedes(queue \o mPendingMsgs, m, t)
    BY <1>1, <1>3, <1>4, <2>2, PrecedesConcat
  <2>4. queue' = Tail(queue) /\ mPendingMsgs' = mPendingMsgs
    BY DEF HandlerStep
  <2>5. \A m, t : Precedes(queue' \o mPendingMsgs', m, t) => ~Asks(m, s) \/ ~Asks(t, s)
    BY <1>5, <2>3, <2>4 DEF PlainOK, Ordered
  <2>6. \A m, t : Precedes(queue', m, t) /\ m.op = "engineUp" => ~About(t, s)
    BY <1>5, <2>2, <2>4 DEF PlainOK, Ordered
  <2>7. QED
    BY <2>1, <2>5, <2>6 DEF Ordered
<1>11. Asked(s)' => Unknown(InFlight', S2, T2, s)
  <2>1. SUFFICES ASSUME Asked(s)'
                 PROVE  Unknown(InFlight', S2, T2, s)
    OBVIOUS
  <2>2. Asked(s)
    BY <1>1, <1>4, <2>1 DEF Asked, HandlerStep
  <2>3. Unknown({h} \cup Q \cup M, S, T, s)
    BY <1>2, <1>5, <1>6, <2>2 DEF PlainOK
  <2>4. Untouched(h, Q \cup M, N, S, S2, T, T2, s)
    BY <1>1, <1>2, <2>1 DEF Effected
  <2>5. QED
    BY <1>6, <2>3, <2>4 DEF Unknown, Untouched
<1>12. QED
  BY <1>3, <1>4, <1>6, <1>9, <1>10, <1>11 DEF PlainOK, Follows

\* Two responses about trips cross.
LEMMA TripsDoNotCross ==
  ASSUME Types, NEW a, queue' = Tail(queue), Becomes(a), ~crossed'
  PROVE  OneTrip'
<1>1. UnderWay(a) = queue' \o Thens(toModem') /\ ~TripsCross(a)
  BY DEF Becomes, UnderWay
<1>2. ASSUME NEW m, NEW t, Precedes(UnderWay(a), m, t)
      PROVE  m.op \notin TripResponses \/ t.op \notin TripResponses
  <2>1. PICK i \in DOMAIN UnderWay(a), j \in DOMAIN UnderWay(a) :
          i < j /\ UnderWay(a)[i] = m /\ UnderWay(a)[j] = t
    BY <1>2 DEF Precedes
  <2>2. ~({m.op, t.op} \subseteq TripResponses)
    BY <1>1, <2>1 DEF TripsCross
  <2>3. QED
    BY <2>2
<1>3. QED
  BY <1>1, <1>2 DEF OneTrip, Behind

\* The handlers that make at most one call about a session keep the agreement.
LEMMA HandlerKeepsAgreement ==
  ASSUME Types, SessionsAgree, NEW a, HandlerStep(a),
         ~crossed' /\ ~crossed =>
           \A s \in DOMAIN cmds \ refused :
             /\ Effected(a, s)
             /\ \A m, t : Precedes(Thens(a.calls), m, t) => InTurn(m, t, s)
  PROVE  SessionsAgree'
<1>1. PICK Q, M, N : /\ Q = ToSet(Tail(queue)) /\ M = ToSet(Thens(toModem))
                     /\ N = ToSet(Thens(a.calls))
  OBVIOUS
<1>2. IsSeq(a.calls) /\ toModem' = toModem \o a.calls
  BY DEF HandlerStep, AdapterOK, Becomes
<1>3. /\ ToSet(queue) = {Head(queue)} \cup Q /\ ToSet(queue') = Q
      /\ ToSet(Thens(toModem')) = M \cup N
  <2>1. PICK calls : calls = a.calls
    OBVIOUS
  <2>2. queue # <<>> /\ queue' = Tail(queue)
    BY DEF HandlerStep
  <2>3. IsSeq(calls) /\ toModem' = toModem \o calls /\ N = ToSet(Thens(calls))
    BY <1>1, <1>2, <2>1
  <2>4. QED
    BY <1>1, <2>2, <2>3, BehindHandled, SMTT(20)
<1>4. modem' = modem /\ refused' = refused /\ DOMAIN cmds' = DOMAIN cmds
  BY DEF HandlerStep
<1>5. (\E m \in ToSet(queue') : m.op = "engineUp") => DOMAIN modem'.batching = {}
  BY <1>3, <1>4 DEF SessionsAgree
<1>6. \A m \in ToSet(queue') : m.op = "stopped" /\ ~m.ok => m.arg.job.session \in refused'
  BY <1>1, <1>3, <1>4 DEF SessionsAgree
<1>7. ASSUME ~crossed'
      PROVE  OneTrip' /\ \A s \in DOMAIN cmds' \ refused' : PlainOK(s)'
  <2>1. ~crossed
    BY <1>7 DEF HandlerStep, Becomes
  <2>2. QED
    BY <1>4, <1>7, <2>1, TripsDoNotCross, HandlerKeepsSession DEF HandlerStep
<1>8. QED
  BY <1>5, <1>6, <1>7 DEF SessionsAgree

LEMMA HandlerStepIs ==
  ASSUME Types, queue # <<>>, Head(queue).op # "engineUp", queue' = Tail(queue),
         UNCHANGED <<mPendingMsgs, modemVars, clientVars>>,
         NEW a, AdapterOK(a, DOMAIN cmds), Grows(Adapter, a), Becomes(a)
  PROVE  HandlerStep(a)
BY AdapterIs DEF HandlerStep, Grows, modemVars, clientVars

LEMMA NoCallsMade == ToSet(Thens(<<>>)) = {} /\ \A m, t : ~Precedes(Thens(<<>>), m, t)
BY ThensOfNone, EmptyIsSeq, PrecedesNone

LEMMA OneMoreCall ==
  ASSUME NEW t, IsSeq(t), NEW c, NEW u, u = Append(t, c)
  PROVE  /\ ToSet(Thens(u)) = ToSet(Thens(t)) \cup {c.then}
         /\ \A m, k : Precedes(Thens(u), m, k) =>
              Precedes(Thens(t), m, k) \/ (m \in ToSet(Thens(t)) /\ k = c.then)
<1>1. IsSeq(Thens(t)) /\ Thens(u) = Append(Thens(t), c.then)
  BY ThensIs, ThensAppend
<1>2. QED
  BY <1>1, SetsGrow, PrecedesAppend

\* A session that is known or named has been started.
LEMMA NotAskedAgain ==
  ASSUME Types, SessionsAgree, ~crossed, NEW a, HandlerStep(a), NEW s \in DOMAIN cmds \ refused,
         \/ Names(Head(queue), s) \/ s \in DOMAIN mBatchingSessions \cup DOMAIN mTripSessions
         \/ Asks(Head(queue), s)
  PROVE  ~Asked(s)'
<1>1. PICK Q : Q = ToSet(Tail(queue))
  OBVIOUS
<1>2. /\ IsSeq(queue) /\ IsSeq(Tail(queue)) /\ IsSeq(mPendingMsgs)
      /\ ToSet(queue) = {Head(queue)} \cup Q
      /\ queue' = Tail(queue) /\ mPendingMsgs' = mPendingMsgs /\ cmds' = cmds
  BY <1>1, HeadIs DEF Types, QueueOK, HandlerStep
<1>3. PlainOK(s)
  BY DEF SessionsAgree
<1>4. CASE Asks(Head(queue), s)
  <2>1. \A m \in Q \cup ToSet(mPendingMsgs) : Precedes(queue \o mPendingMsgs, Head(queue), m)
    <3>1. \A m \in Q : Precedes(queue, Head(queue), m)
      BY <1>1, <1>2, PrecedesTail DEF HandlerStep
    <3>2. Head(queue) \in ToSet(queue)
      BY <1>2
    <3>3. QED
      BY <1>2, <3>1, <3>2, PrecedesConcat
  <2>2. \A m \in Q \cup ToSet(mPendingMsgs) : ~Asks(m, s)
    BY <1>3, <1>4, <2>1 DEF PlainOK, Ordered
  <2>3. QED
    BY <1>1, <1>2, <2>2 DEF Asked
<1>5. CASE Names(Head(queue), s) \/ s \in DOMAIN mBatchingSessions \cup DOMAIN mTripSessions
  <2>1. ~Asked(s)
    BY <1>2, <1>3, <1>5 DEF PlainOK, Unknown, InFlight
  <2>2. QED
    BY <1>1, <1>2, <2>1 DEF Asked
<1>6. QED
  BY <1>4, <1>5

Lost(S, R, y)     == DOMAIN R = DOMAIN S \ {y} /\ \A z \in DOMAIN R : R[z] = S[z]
Saved(S, R, y, o) ==
  DOMAIN R = DOMAIN S \cup {y} /\ R[y] = o /\ \A z \in DOMAIN S \ {y} : R[z] = S[z]

LEMMA LostIs ==
  ASSUME NEW S, NEW y, NEW R, R = Without(S, {y})
  PROVE  Lost(S, R, y)
<1>1. PICK Y : Y = {y}
  OBVIOUS
<1>2. DOMAIN R = DOMAIN S \ Y /\ \A z \in DOMAIN S \ Y : R[z] = S[z]
  BY <1>1, WithoutIs
<1>3. QED
  BY <1>1, <1>2 DEF Lost

LEMMA SavedIs ==
  ASSUME NEW S, NEW y, NEW o, NEW R, R = With(S, y, o)
  PROVE  Saved(S, R, y, o)
BY DEF With, Saved

\* Functions of the adapter that change neither the maps nor the calls.
Keeping(x, b) ==
  /\ AdapterOK(b, DOMAIN cmds) /\ Grows(x, b)
  /\ b.calls = x.calls /\ b.sessions = x.sessions /\ b.trips = x.trips

LEMMA ReportsKeeps ==
  ASSUME NEW x, AdapterOK(x, DOMAIN cmds), NEW job, NEW b, b = Reports(x, job)
  PROVE  Keeping(x, b)
<1>1. PICK D : D = DOMAIN cmds
  OBVIOUS
<1>2. /\ AdapterOK(b, D) /\ Grows(x, b)
      /\ b.calls = x.calls /\ b.sessions = x.sessions /\ b.trips = x.trips
  BY <1>1, ReportsIs
<1>3. QED
  BY <1>1, <1>2 DEF Keeping

LEMMA DisableIfKeeps ==
  ASSUME NEW x, AdapterOK(x, DOMAIN cmds), NEW condition, NEW b, b = DisableIf(x, condition)
  PROVE  Keeping(x, b)
<1>1. PICK D : D = DOMAIN cmds
  OBVIOUS
<1>2. /\ AdapterOK(b, D) /\ Grows(x, b)
      /\ b.calls = x.calls /\ b.sessions = x.sessions /\ b.trips = x.trips
  BY <1>1, DisableIfIs
<1>3. QED
  BY <1>1, <1>2 DEF Keeping

LEMMA EndsKeeps ==
  ASSUME NEW x, AdapterOK(x, DOMAIN cmds), NEW ongoing, NEW b, b = [x EXCEPT !.ongoing = ongoing]
  PROVE  Keeping(x, b)
<1>1. PICK D : D = DOMAIN cmds
  OBVIOUS
<1>2. /\ AdapterOK(b, D) /\ Grows(x, b)
      /\ b.calls = x.calls /\ b.sessions = x.sessions /\ b.trips = x.trips
  BY <1>1, EndsIs
<1>3. QED
  BY <1>1, <1>2 DEF Keeping

LEMMA KeepingIsTransitive ==
  ASSUME NEW x, NEW y, NEW b, Keeping(x, y), Keeping(y, b)
  PROVE  Keeping(x, b)
BY DEF Keeping, Grows

LEMMA AdapterKeeps ==
  ASSUME Types
  PROVE  Keeping(Adapter, Adapter)
BY AdapterIs DEF Keeping, Grows

\* What has been done for other sessions leaves session s alone, and makes no call about it.
Others == ToSet(Tail(queue)) \cup ToSet(Thens(toModem))

Spared(x, s) ==
  /\ s \in DOMAIN x.sessions <=> s \in DOMAIN mBatchingSessions
  /\ s \in DOMAIN mBatchingSessions => x.sessions[s] = mBatchingSessions[s]
  /\ s \in DOMAIN x.trips => s \in DOMAIN mTripSessions
  /\ (\E m \in Others : OfTrip(m, s)) => DOMAIN x.trips = DOMAIN mTripSessions
Silent(x, s) == IsSeq(x.calls) /\ \A t \in ToSet(Thens(x.calls)) : ~Names(t, s)
Sequential(a, s) == \A m, t : Precedes(Thens(a.calls), m, t) => InTurn(m, t, s)

LEMMA SparedEffected ==
  ASSUME NEW a, NEW s, Spared(a, s), Silent(a, s), ~Undoes(Head(queue), s)
  PROVE  Effected(a, s)
BY DEF Spared, Silent, Effected, Untouched, Others

LEMMA SilentInTurn ==
  ASSUME NEW a, NEW s, Silent(a, s)
  PROVE  Sequential(a, s)
BY PrecedesIn DEF Silent, Sequential, InTurn, Names

LEMMA KeepingSpares ==
  ASSUME Types, NEW a, NEW s, Keeping(Adapter, a)
  PROVE  Spared(a, s) /\ Silent(a, s)
<1>1. a.sessions = mBatchingSessions /\ a.trips = mTripSessions /\ a.calls = <<>>
  BY AdapterIs DEF Keeping
<1>2. QED
  BY <1>1, NoCallsMade, EmptyIsSeq DEF Spared, Silent

\* One more call.
LEMMA OneCallInTurn ==
  ASSUME NEW x, NEW s, Silent(x, s), NEW c, NEW a, a.calls = Append(x.calls, c)
  PROVE  /\ Sequential(a, s) /\ IsSeq(a.calls) /\ c.then \in ToSet(Thens(a.calls))
         /\ \A t \in ToSet(Thens(a.calls)) : Names(t, s) => t = c.then
<1>1. PICK t, u : t = x.calls /\ u = a.calls
  OBVIOUS
<1>2. IsSeq(t) /\ u = Append(t, c)
  BY <1>1 DEF Silent
<1>3. /\ ToSet(Thens(u)) = ToSet(Thens(t)) \cup {c.then}
      /\ \A m, k : Precedes(Thens(u), m, k) =>
           Precedes(Thens(t), m, k) \/ (m \in ToSet(Thens(t)) /\ k = c.then)
  BY <1>2, OneMoreCall
<1>4. \A m, k : Precedes(Thens(u), m, k) => ~Names(m, s)
  BY <1>1, <1>3, PrecedesIn DEF Silent
<1>5. QED
  BY <1>1, <1>2, <1>3, <1>4, SeqsGrow DEF Sequential, Silent, InTurn, Names

\* Handlers in which every session is either spared or affected in one of the ways above.
AgreesFor(a, s) == Effected(a, s) /\ Sequential(a, s)

LEMMA SparedAgrees ==
  ASSUME NEW a, NEW s, Spared(a, s), Silent(a, s), ~Undoes(Head(queue), s)
  PROVE  AgreesFor(a, s)
BY SparedEffected, SilentInTurn DEF AgreesFor

LEMMA HeadBehind ==
  ASSUME Types, queue # <<>>
  PROVE  \A m \in Others : Behind(Head(queue), m)
<1>1. IsSeq(queue) /\ IsSeq(Tail(queue)) /\ IsSeq(toModem)
  BY HeadIs DEF Types, QueueOK
<1>2. ASSUME NEW m \in Others
      PROVE  Behind(Head(queue), m)
  <2>1. m \in ToSet(Tail(queue)) => Precedes(queue, Head(queue), m)
    BY <1>1, PrecedesTail
  <2>2. Head(queue) \in ToSet(queue)
    BY HeadIs
  <2>3. QED
    BY <1>1, <2>1, <2>2, BehindIs DEF Behind, Others
<1>3. QED
  BY <1>2

\* With a response about trips at the head, there is no other under way.
LEMMA OnlyTrip ==
  ASSUME Types, SessionsAgree, ~crossed, queue # <<>>, Head(queue).op \in TripResponses
  PROVE  \A m \in Others : m.op \notin TripResponses
BY HeadBehind DEF SessionsAgree, OneTrip

\* A call about trips is made only if no response about trips is under way.
LEMMA NoCrossing ==
  ASSUME Types, NEW a, HandlerStep(a), ~crossed'
  PROVE  /\ \A m \in Others, t \in ToSet(Thens(a.calls)) :
              m.op \notin TripResponses \/ t.op \notin TripResponses
         /\ \A m, t : Precedes(Thens(a.calls), m, t) =>
              m.op \notin TripResponses \/ t.op \notin TripResponses
<1>1. PICK calls : calls = a.calls
  OBVIOUS
<1>2. /\ IsSeq(Tail(queue)) /\ IsSeq(toModem) /\ IsSeq(calls)
      /\ queue' = Tail(queue) /\ toModem' = toModem \o calls /\ Becomes(a)
  BY <1>1, HeadIs DEF Types, QueueOK, HandlerStep, AdapterOK, Becomes
<1>3. OneTrip'
  BY <1>2, TripsDoNotCross
<1>4. /\ IsSeq(Thens(toModem)) /\ IsSeq(Thens(calls))
      /\ Thens(toModem') = Thens(toModem) \o Thens(calls)
  BY <1>2, ThensIs
<1>5. ASSUME NEW m, NEW t,
             \/ m \in Others /\ t \in ToSet(Thens(calls))
             \/ Precedes(Thens(calls), m, t)
      PROVE  m.op \notin TripResponses \/ t.op \notin TripResponses
  <2>1. PICK q, u, v : q = Tail(queue) /\ u = Thens(toModem) /\ v = Thens(calls)
    OBVIOUS
  <2>2. /\ IsSeq(q) /\ IsSeq(u) /\ IsSeq(v) /\ IsSeq(u \o v)
        /\ ToSet(u \o v) = ToSet(u) \cup ToSet(v)
    BY <1>2, <1>4, <2>1, SeqsGrow, SetsGrow
  <2>3. Precedes(u, m, t) \/ Precedes(v, m, t) \/ (m \in ToSet(u) /\ t \in ToSet(v))
          => Precedes(u \o v, m, t)
    BY <2>2, PrecedesConcat
  <2>4. Precedes(u \o v, m, t) \/ (m \in ToSet(q) /\ t \in ToSet(u \o v))
          => Precedes(q \o (u \o v), m, t)
    BY <2>2, PrecedesConcat
  <2>5. Precedes(queue' \o Thens(toModem'), m, t)
    BY <1>2, <1>4, <1>5, <2>1, <2>2, <2>3, <2>4 DEF Others
  <2>6. QED
    BY <1>3, <2>5 DEF OneTrip, Behind
<1>6. QED
  BY <1>1, <1>5

-----------------------------------------------------------------------------
(***************************************************************************)
(* Plain sessions and the handlers of responses and reports.               *)
(***************************************************************************)
LEMMA OnlyCall ==
  ASSUME NEW c, NEW u, u = Append(<<>>, c)
  PROVE  IsSeq(u) /\ ToSet(Thens(u)) = {c.then}
<1>1. PICK none : none = <<>>
  OBVIOUS
<1>2. u = Append(none, c) /\ IsSeq(none)
  BY <1>1, EmptyIsSeq
<1>3. ToSet(Thens(u)) = ToSet(Thens(none)) \cup {c.then}
  BY <1>2, OneMoreCall
<1>4. QED
  BY <1>1, <1>2, <1>3, NoCallsMade, SeqsGrow

LEMMA HandlerAgrees ==
  ASSUME Types, SessionsAgree, NEW a, HandlerStep(a),
         ~crossed /\ ~crossed' => \A s \in DOMAIN cmds \ refused : AgreesFor(a, s)
  PROVE  SessionsAgree'
BY HandlerKeepsAgreement DEF AgreesFor, Sequential

\* The handlers after which no session has changed.
LEMMA KeepingAgrees ==
  ASSUME Types, SessionsAgree, NEW a, HandlerStep(a), Keeping(Adapter, a),
         Head(queue).op # "started"
  PROVE  SessionsAgree'
BY KeepingSpares, SparedAgrees, HandlerAgrees DEF Undoes

LEMMA ContinuesStep ==
  ASSUME Types, NEW op, op # "engineUp", Continues(op),
         NEW a, AdapterOK(a, DOMAIN cmds), Grows(Adapter, a), Becomes(a)
  PROVE  HandlerStep(a) /\ Head(queue).op = op
BY HandlerStepIs DEF Continues, Handling

LEMMA HandleGotAgrees ==
  ASSUME Types, SessionsAgree, HandleGot \/ HandleTripRestarted \/ HandleIgnored
  PROVE  SessionsAgree'
<1>1. PICK a, op : /\ a = Reports(Adapter, Arg) \/ a = Adapter
                   /\ Becomes(a) /\ Continues(op) /\ op # "engineUp" /\ op # "started"
  BY DEF HandleGot, HandleTripRestarted, HandleIgnored
<1>2. Keeping(Adapter, a)
  BY <1>1, AdapterIs, AdapterKeeps, ReportsKeeps
<1>3. HandlerStep(a) /\ Head(queue).op = op
  BY <1>1, <1>2, ContinuesStep DEF Keeping
<1>4. QED
  BY <1>1, <1>2, <1>3, KeepingAgrees

\* The continuations and reports that are about trips and no session.
LEMMA AboutTripsAgrees ==
  ASSUME Types, SessionsAgree,
         HandleRemaining \/ HandleMultiplexed \/ HandleTripResumed \/ HandleCompleted
  PROVE  SessionsAgree'
<1>1. PICK a : AboutTrips(a) /\ Becomes(a)
  BY HandleRemainingIs, HandleMultiplexedIs, HandleTripResumedIs, HandleCompletedIs
<1>2. /\ queue # <<>> /\ queue' = Tail(queue)
      /\ Head(queue).op \in {"remaining", "multiplexed", "tripResumed", "completed"}
      /\ UNCHANGED <<mPendingMsgs, modemVars, clientVars>>
  BY DEF HandleRemaining, HandleMultiplexed, HandleTripResumed, HandleCompleted, Continues,
         Handling
<1>3. HandlerStep(a)
  BY <1>1, <1>2, HandlerStepIs DEF AboutTrips
<1>4. \/ a.calls = <<>> /\ DOMAIN a.trips = DOMAIN mTripSessions
      \/ \E c : c.then.op \in {"remaining", "multiplexed", "tripEnded"}
                /\ a.calls = Append(<<>>, c)
  BY <1>1 DEF AboutTrips
<1>5. \A t \in ToSet(Thens(a.calls)) : t.op \in {"remaining", "multiplexed", "tripEnded"}
  <2>1. CASE a.calls = <<>>
    BY <2>1, NoCallsMade
  <2>2. CASE \E c : c.then.op \in {"remaining", "multiplexed", "tripEnded"}
                    /\ a.calls = Append(<<>>, c)
    <3>1. PICK c : /\ c.then.op \in {"remaining", "multiplexed", "tripEnded"}
                   /\ a.calls = Append(<<>>, c)
      BY <2>2
    <3>2. ToSet(Thens(a.calls)) = {c.then}
      BY <3>1, OnlyCall
    <3>3. QED
      BY <3>1, <3>2
  <2>3. QED
    BY <1>4, <2>1, <2>2
<1>6. \A s : Silent(a, s)
  BY <1>1, <1>5 DEF Silent, Names, About, Starts, Stops, Queries, OfTrip, AboutTrips, AdapterOK
<1>7. ASSUME ~crossed', NEW s
      PROVE  Spared(a, s)
  <2>1. ASSUME NEW m \in Others, OfTrip(m, s)
        PROVE  DOMAIN a.trips = DOMAIN mTripSessions
    <3>1. m.op \in TripResponses
      BY <2>1 DEF OfTrip, TripResponses
    <3>2. CASE \E c : c.then.op \in {"remaining", "multiplexed", "tripEnded"}
                      /\ a.calls = Append(<<>>, c)
      <4>1. PICK c : /\ c.then.op \in {"remaining", "multiplexed", "tripEnded"}
                     /\ a.calls = Append(<<>>, c)
        BY <3>2
      <4>2. c.then \in ToSet(Thens(a.calls))
        BY <4>1, OnlyCall
      <4>3. c.then.op \in TripResponses
        BY <4>1 DEF TripResponses
      <4>4. FALSE
        BY <1>3, <1>7, <2>1, <3>1, <4>2, <4>3, NoCrossing
      <4>5. QED
        BY <4>4
    <3>3. QED
      BY <1>4, <3>2
  <2>2. QED
    BY <1>1, <2>1 DEF Spared, AboutTrips
<1>8. QED
  BY <1>2, <1>3, <1>6, <1>7, SparedAgrees, HandlerAgrees DEF Undoes

LEMMA EraseSessionLoses ==
  ASSUME NEW x, AdapterOK(x, DOMAIN cmds), NEW y, NEW b, b = EraseSession(x, y)
  PROVE  /\ AdapterOK(b, DOMAIN cmds) /\ Grows(x, b) /\ b.calls = x.calls
         /\ Lost(x.sessions, b.sessions, y) /\ b.trips = x.trips
<1>1. PICK D : D = DOMAIN cmds
  OBVIOUS
<1>2. /\ AdapterOK(b, D) /\ Grows(x, b) /\ b.calls = x.calls
      /\ b.sessions = Without(x.sessions, {y}) /\ b.trips = x.trips
  BY <1>1, EraseSessionIs
<1>3. PICK S, R : S = x.sessions /\ R = b.sessions
  OBVIOUS
<1>4. Lost(S, R, y)
  BY <1>2, <1>3, LostIs
<1>5. QED
  BY <1>1, <1>2, <1>3, <1>4

LEMMA HandleStartedAgrees ==
  ASSUME Types, SessionsAgree, HandleStarted
  PROVE  SessionsAgree'
<1>1. PICK job, y, e, condition, d, a :
        /\ job = Arg /\ y = job.session
        /\ e = IF Ok THEN Adapter ELSE EraseSession(Adapter, y)
        /\ d = DisableIf(e, condition) /\ a = Reports(d, job) /\ Becomes(a)
  BY DEF HandleStarted
<1>2. /\ AdapterOK(e, DOMAIN cmds) /\ Grows(Adapter, e)
      /\ e.calls = <<>> /\ e.trips = mTripSessions
      /\ Ok => e.sessions = mBatchingSessions
      /\ ~Ok => Lost(mBatchingSessions, e.sessions, y)
  <2>1. CASE Ok
    BY <1>1, <2>1, AdapterIs DEF Grows
  <2>2. CASE ~Ok
    BY <1>1, <2>2, AdapterIs, EraseSessionLoses
  <2>3. QED
    BY <2>1, <2>2
<1>3. Keeping(e, a)
  <2>1. Keeping(e, d)
    BY <1>1, <1>2, DisableIfKeeps
  <2>2. Keeping(d, a)
    BY <1>1, <2>1, ReportsKeeps DEF Keeping
  <2>3. QED
    BY <2>1, <2>2, KeepingIsTransitive
<1>4. HandlerStep(a) /\ Head(queue).op = "started"
  <2>1. AdapterOK(a, DOMAIN cmds) /\ Grows(Adapter, a)
    BY <1>2, <1>3 DEF Keeping, Grows
  <2>2. PICK op : op = "started" /\ Continues(op)
    BY DEF HandleStarted
  <2>3. QED
    BY <1>1, <2>1, <2>2, ContinuesStep
<1>5. PICK S, S2 : S = mBatchingSessions /\ S2 = a.sessions
  OBVIOUS
<1>6. /\ a.trips = mTripSessions /\ (Ok => S2 = S) /\ (~Ok => Lost(S, S2, y))
      /\ \A s : Silent(a, s)
  BY <1>2, <1>3, <1>5, NoCallsMade, EmptyIsSeq DEF Keeping, Silent
<1>7. ASSUME ~crossed, NEW s \in DOMAIN cmds \ refused
      PROVE  AgreesFor(a, s)
  <2>1. CASE ~Ok /\ s = y
    <3>1. Undoes(Head(queue), s) /\ Names(Head(queue), s)
      BY <1>1, <1>4, <2>1 DEF Undoes, Ok, Arg, Names, About, Starts
    <3>2. ~Asked(s)'
      BY <1>4, <1>7, <3>1, NotAskedAgain
    <3>3. s \notin DOMAIN a.sessions
      BY <1>5, <1>6, <2>1 DEF Lost
    <3>4. Effected(a, s)
      BY <1>6, <3>1, <3>2, <3>3 DEF Effected, Effect, Undone, Silent
    <3>5. QED
      BY <1>6, <3>4, SilentInTurn DEF AgreesFor
  <2>2. CASE Ok \/ s # y
    <3>1. ~Undoes(Head(queue), s)
      BY <1>1, <2>2 DEF Undoes, Ok, Arg
    <3>2. Spared(a, s)
      BY <1>5, <1>6, <2>2 DEF Lost, Spared
    <3>3. QED
      BY <1>6, <3>1, <3>2, SparedAgrees
  <2>3. QED
    BY <2>1, <2>2
<1>8. QED
  BY <1>4, <1>7, HandlerAgrees

\* A session is started from the adapter's record x: the modem is asked for a plain session
\* or for a trip, or is queried for the trip it has.
StartsPlain(x, b, job) ==
  /\ job.options.mode # "trip" /\ b.trips = x.trips
  /\ Saved(x.sessions, b.sessions, job.session, job.options)
  /\ \E c : c.then = Msg("started", job) /\ b.calls = Append(x.calls, c)
StartsTrip(x, b, job) ==
  /\ job.options.mode = "trip" /\ DOMAIN x.trips = {} /\ DOMAIN b.trips = {job.session}
  /\ Saved(x.sessions, b.sessions, job.session, job.options)
  /\ \E c : c.then = Msg("tripStarted", job) /\ b.calls = Append(x.calls, c)
QueriesTrip(x, b, job) ==
  /\ b.sessions = x.sessions /\ b.trips = x.trips
  /\ \E c : c.then = Msg("tripQueried", job) /\ b.calls = Append(x.calls, c)
StartedFrom(x, b, job) ==
  /\ AdapterOK(b, DOMAIN cmds) /\ Grows(x, b)
  /\ StartsPlain(x, b, job) \/ StartsTrip(x, b, job) \/ QueriesTrip(x, b, job)

LEMMA StartIsStart ==
  ASSUME NEW x, AdapterOK(x, DOMAIN cmds), NEW job, JobOK(job, DOMAIN cmds),
         NEW b, b = Start(x, job)
  PROVE  StartedFrom(x, b, job)
<1>1. PICK D, S, S2, y, o : /\ D = DOMAIN cmds /\ S = x.sessions /\ S2 = b.sessions
                            /\ y = job.session /\ o = job.options
  OBVIOUS
<1>2. CASE job.options.mode = "trip"
  <2>1. b = StartTrip(x, job)
    BY <1>2 DEF Start
  <2>2. /\ AdapterOK(b, D) /\ Grows(x, b)
        /\ DOMAIN x.trips = {} =>
             /\ \E c : c.then = Msg("tripStarted", job) /\ b.calls = Append(x.calls, c)
             /\ b.sessions = With(x.sessions, job.session, job.options)
             /\ DOMAIN b.trips = {job.session}
        /\ DOMAIN x.trips # {} =>
             /\ \E c : c.then = Msg("tripQueried", job) /\ b.calls = Append(x.calls, c)
             /\ b.sessions = x.sessions /\ b.trips = x.trips
    BY <1>1, <2>1, StartTripIs
  <2>3. CASE DOMAIN x.trips = {}
    <3>1. Saved(S, S2, y, o)
      BY <1>1, <2>2, <2>3, SavedIs
    <3>2. StartsTrip(x, b, job)
      BY <1>1, <1>2, <2>2, <2>3, <3>1 DEF StartsTrip
    <3>3. QED
      BY <1>1, <2>2, <3>2 DEF StartedFrom
  <2>4. CASE DOMAIN x.trips # {}
    BY <1>1, <2>2, <2>4 DEF StartedFrom, QueriesTrip
  <2>5. QED
    BY <2>3, <2>4
<1>3. CASE job.options.mode # "trip"
  <2>1. b = StartBatching(x, job)
    BY <1>3 DEF Start
  <2>2. /\ AdapterOK(b, D) /\ Grows(x, b) /\ b.trips = x.trips
        /\ b.sessions = With(x.sessions, job.session, job.options)
        /\ \E c : c.then = Msg("started", job) /\ b.calls = Append(x.calls, c)
    BY <1>1, <1>3, <2>1, StartBatchingIs, SMTT(20)
  <2>3. Saved(S, S2, y, o)
    BY <1>1, <2>2, SavedIs
  <2>4. StartsPlain(x, b, job)
    BY <1>1, <1>3, <2>2, <2>3 DEF StartsPlain
  <2>5. QED
    BY <1>1, <2>2, <2>4 DEF StartedFrom
<1>4. QED
  BY <1>2, <1>3

StartCall(x, b, job, c) ==
  /\ c.then.arg = job /\ c.then.op \in {"started", "tripStarted", "tripQueried"}
  /\ c.then.op = "started" => StartsPlain(x, b, job)
  /\ c.then.op = "tripStarted" => StartsTrip(x, b, job)
  /\ c.then.op = "tripQueried" => QueriesTrip(x, b, job)

LEMMA StartCallIs ==
  ASSUME NEW x, NEW b, NEW job, StartedFrom(x, b, job)
  PROVE  \E c : b.calls = Append(x.calls, c) /\ StartCall(x, b, job, c)
<1>1. CASE StartsPlain(x, b, job)
  <2>1. PICK c : c.then = Msg("started", job) /\ b.calls = Append(x.calls, c)
    BY <1>1 DEF StartsPlain
  <2>2. c.then.op = "started" /\ c.then.arg = job
    BY <2>1 DEF Msg
  <2>3. QED
    BY <1>1, <2>1, <2>2 DEF StartCall
<1>2. CASE StartsTrip(x, b, job)
  <2>1. PICK c : c.then = Msg("tripStarted", job) /\ b.calls = Append(x.calls, c)
    BY <1>2 DEF StartsTrip
  <2>2. c.then.op = "tripStarted" /\ c.then.arg = job
    BY <2>1 DEF Msg
  <2>3. QED
    BY <1>2, <2>1, <2>2 DEF StartCall
<1>3. CASE QueriesTrip(x, b, job)
  <2>1. PICK c : c.then = Msg("tripQueried", job) /\ b.calls = Append(x.calls, c)
    BY <1>3 DEF QueriesTrip
  <2>2. c.then.op = "tripQueried" /\ c.then.arg = job
    BY <2>1 DEF Msg
  <2>3. QED
    BY <1>3, <2>1, <2>2 DEF StartCall
<1>4. QED
  BY <1>1, <1>2, <1>3 DEF StartedFrom

\* The session that is started.
LEMMA StartAgrees ==
  ASSUME Types, NEW x, NEW b, NEW a, NEW job, StartedFrom(x, b, job), Keeping(b, a),
         NEW s, s = job.session, Silent(x, s), s \notin DOMAIN x.sessions \cup DOMAIN x.trips,
         Clear(Others, modem.batching, s), ~Asked(s)'
  PROVE  AgreesFor(a, s)
<1>1. PICK W, N, S2, T2, B, h, S, T :
        /\ W = Others /\ N = ToSet(Thens(a.calls)) /\ S2 = a.sessions /\ T2 = a.trips
        /\ B = modem.batching
        /\ h = Head(queue) /\ S = mBatchingSessions /\ T = mTripSessions
  OBVIOUS
<1>2. PICK c : a.calls = Append(x.calls, c) /\ StartCall(x, b, job, c)
  BY StartCallIs DEF Keeping
<1>3. Sequential(a, s) /\ c.then \in N /\ \A t \in N : Names(t, s) => t = c.then
  BY <1>1, <1>2, OneCallInTurn
<1>4. Effect(h, W, N, S, S2, T, T2, B, s)
  <2>1. CASE c.then.op = "started"
    <3>1. StartedPlain(W, N, S2, T2, B, s)
      BY <1>1, <1>2, <1>3, <2>1 DEF StartedPlain, StartCall, StartsPlain, Keeping, Saved, Starts
    <3>2. QED
      BY <3>1 DEF Effect
  <2>2. CASE c.then.op = "tripStarted"
    <3>1. StartedTrip(W, N, S2, T2, B, s)
      BY <1>1, <1>2, <1>3, <2>2 DEF StartedTrip, StartCall, StartsTrip, Keeping, Saved
    <3>2. QED
      BY <3>1 DEF Effect
  <2>3. CASE c.then.op = "tripQueried"
    <3>1. QueriedFirst(W, N, S2, T2, B, s)
      BY <1>1, <1>2, <1>3, <2>3 DEF QueriedFirst, StartCall, QueriesTrip, Keeping
    <3>2. QED
      BY <3>1 DEF Effect
  <2>4. QED
    BY <1>2, <2>1, <2>2, <2>3 DEF StartCall
<1>5. Effected(a, s)
  BY <1>1, <1>4 DEF Effected, Others
<1>6. QED
  BY <1>3, <1>5 DEF AgreesFor

\* The others, when no response about trips is under way if another trip is started.
LEMMA StartSpares ==
  ASSUME Types, NEW x, NEW b, NEW a, NEW job, StartedFrom(x, b, job), Keeping(b, a),
         HandlerStep(a), ~crossed', NEW s, s # job.session, Silent(x, s), Spared(x, s),
         ~Undoes(Head(queue), s)
  PROVE  AgreesFor(a, s)
<1>1. PICK c : a.calls = Append(x.calls, c) /\ StartCall(x, b, job, c)
  BY StartCallIs DEF Keeping
<1>2. ~Names(c.then, s)
  BY <1>1 DEF StartCall, Names, About, Starts, Stops, Queries, OfTrip
<1>3. /\ c.then \in ToSet(Thens(a.calls)) /\ Silent(a, s)
  BY <1>1, <1>2, OneCallInTurn DEF Silent
<1>4. PICK S, X, R : S = mBatchingSessions /\ X = x.sessions /\ R = a.sessions
  OBVIOUS
<1>5. (s \in DOMAIN R <=> s \in DOMAIN X) /\ (s \in DOMAIN X => R[s] = X[s])
  BY <1>1, <1>4 DEF Keeping, StartCall, StartsPlain, StartsTrip, QueriesTrip, Saved
<1>6. s \in DOMAIN a.trips => s \in DOMAIN x.trips
  BY <1>1 DEF Keeping, StartCall, StartsPlain, StartsTrip, QueriesTrip
<1>7. ASSUME NEW m \in Others, OfTrip(m, s)
      PROVE  DOMAIN a.trips = DOMAIN mTripSessions
  <2>1. CASE c.then.op = "tripStarted"
    <3>1. c.then.op \in TripResponses /\ m.op \in TripResponses
      BY <1>7, <2>1 DEF OfTrip, TripResponses
    <3>2. QED
      BY <1>3, <1>7, <3>1, NoCrossing
  <2>2. CASE c.then.op # "tripStarted"
    <3>1. a.trips = x.trips
      BY <1>1, <2>2 DEF Keeping, StartCall, StartsPlain, QueriesTrip
    <3>2. QED
      BY <1>7, <3>1 DEF Spared
  <2>3. QED
    BY <2>1, <2>2
<1>8. Spared(a, s)
  BY <1>4, <1>5, <1>6, <1>7 DEF Spared
<1>9. QED
  BY <1>3, <1>8, SparedAgrees

\* A plain session that is restarted, when the modem has stopped it.
LEMMA HandleStoppedAgrees ==
  ASSUME Types, SessionsAgree, HandleStopped
  PROVE  SessionsAgree'
<1>1. PICK job, y, o, condition, d, e, z, a :
        /\ job = Arg.job /\ y = job.session /\ o = job.options
        /\ d = DisableIf(Adapter, condition)
        /\ e = [Adapter EXCEPT !.sessions = With(@, y, o)]
        /\ z = IF ~Ok THEN e ELSE IF job.restart THEN Start(d, job) ELSE d
        /\ a = Reports(z, job) /\ Becomes(a)
  BY DEF HandleStopped
<1>2. PICK op : op = "stopped" /\ Continues(op) /\ Head(queue).op = op /\ queue # <<>>
  BY DEF HandleStopped, Continues, Handling
<1>3. JobOK(job, DOMAIN cmds)
  BY <1>1, <1>2, HeadIs DEF MsgOK, Arg
<1>4. Keeping(Adapter, d) /\ AdapterOK(d, DOMAIN cmds)
  BY <1>1, AdapterIs, DisableIfKeeps DEF Keeping
<1>5. CASE ~Ok
  <2>1. y \in refused
    BY <1>1, <1>2, <1>5, HeadIs DEF SessionsAgree, Arg, Ok
  <2>2. PICK S, D, R : S = mBatchingSessions /\ D = DOMAIN cmds /\ R = e.sessions
    OBVIOUS
  <2>3. /\ AdapterOK(e, D) /\ Grows(Adapter, e) /\ e.calls = Adapter.calls
        /\ e.trips = Adapter.trips /\ R = With(S, y, o)
    <3>1. AdapterOK(Adapter, D) /\ y \in D /\ Adapter.sessions = S
      BY <1>1, <1>3, <2>2, AdapterIs DEF JobOK
    <3>2. /\ AdapterOK(e, D) /\ Grows(Adapter, e) /\ e.calls = Adapter.calls
          /\ e.trips = Adapter.trips /\ e.sessions = With(Adapter.sessions, y, o)
      BY <1>1, <3>1, SavesIs
    <3>3. QED
      BY <2>2, <3>1, <3>2
  <2>4. Saved(S, R, y, o)
    BY <2>3, SavedIs
  <2>5. Keeping(e, a)
    BY <1>1, <1>5, <2>2, <2>3, ReportsKeeps
  <2>6. HandlerStep(a)
    <3>1. AdapterOK(a, DOMAIN cmds) /\ Grows(Adapter, a)
      BY <2>3, <2>5 DEF Keeping, Grows
    <3>2. QED
      BY <1>1, <1>2, <3>1, ContinuesStep
  <2>7. ASSUME NEW s \in DOMAIN cmds \ refused
        PROVE  AgreesFor(a, s)
    <3>1. s # y /\ ~Undoes(Head(queue), s)
      BY <1>2, <2>1 DEF Undoes
    <3>2. Spared(a, s)
      BY <2>2, <2>3, <2>4, <2>5, <3>1, AdapterIs DEF Spared, Keeping, Saved
    <3>3. Silent(a, s)
      BY <2>3, <2>5, AdapterIs, NoCallsMade, EmptyIsSeq DEF Silent, Keeping
    <3>4. QED
      BY <3>1, <3>2, <3>3, SparedAgrees
  <2>8. QED
    BY <2>6, <2>7, HandlerAgrees
<1>6. CASE Ok /\ ~job.restart
  <2>1. Keeping(Adapter, a)
    BY <1>1, <1>4, <1>6, ReportsKeeps, KeepingIsTransitive
  <2>2. HandlerStep(a)
    BY <1>1, <1>2, <2>1, ContinuesStep DEF Keeping
  <2>3. QED
    BY <1>2, <2>1, <2>2, KeepingAgrees
<1>7. CASE Ok /\ job.restart
  <2>1. z = Start(d, job)
    BY <1>1, <1>7
  <2>2. StartedFrom(d, z, job)
    BY <1>3, <1>4, <2>1, StartIsStart
  <2>3. Keeping(z, a)
    BY <1>1, <2>2, ReportsKeeps DEF StartedFrom
  <2>4. HandlerStep(a)
    <3>1. AdapterOK(a, DOMAIN cmds) /\ Grows(Adapter, a)
      BY <1>4, <2>2, <2>3 DEF StartedFrom, Keeping, Grows
    <3>2. QED
      BY <1>1, <1>2, <3>1, ContinuesStep
  <2>5. ASSUME ~crossed, ~crossed', NEW s \in DOMAIN cmds \ refused
        PROVE  AgreesFor(a, s)
    <3>1. ~Undoes(Head(queue), s) /\ Spared(d, s) /\ Silent(d, s)
      BY <1>2, <1>4, KeepingSpares DEF Undoes
    <3>2. CASE s # y
      BY <1>1, <2>2, <2>3, <2>4, <2>5, <3>1, <3>2, StartSpares
    <3>3. CASE s = y
      <4>1. Stops(Head(queue), s)
        BY <1>1, <1>2, <3>3 DEF Stops, Arg
      <4>2. PICK Q, M : Q = ToSet(Tail(queue)) /\ M = ToSet(Thens(toModem))
        OBVIOUS
      <4>3. ToSet(queue) = {Head(queue)} \cup Q /\ Others = Q \cup M
            /\ InFlight = {Head(queue)} \cup Q \cup M
        BY <1>2, <4>2, HeadIs DEF Others, InFlight
      <4>4. s \notin DOMAIN mBatchingSessions \cup DOMAIN mTripSessions
        BY <2>5, <4>1, <4>3 DEF SessionsAgree, PlainOK, Tokens
      <4>5. \A m \in Others : ~About(m, s)
        <5>1. \A m \in Others : Behind(Head(queue), m)
          BY <1>2, HeadBehind
        <5>2. QED
          BY <2>5, <4>1, <5>1 DEF SessionsAgree, PlainOK, Ordered, InTurn, About, Stops
      <4>6. \A m \in Others : ~Queries(m, s) /\ ~OfTrip(m, s)
        BY <2>5, <4>1, <4>3, <4>4 DEF SessionsAgree, PlainOK, Tokens
      <4>7. s \notin DOMAIN modem.batching
        BY <2>5, <4>2, <4>3, <4>4, <4>5 DEF SessionsAgree, PlainOK, Served, About
      <4>8. Clear(Others, modem.batching, s)
        BY <4>5, <4>6, <4>7 DEF Clear, Names
      <4>9. ~Asked(s)'
        BY <2>4, <2>5, <4>1, NotAskedAgain DEF Names, About
      <4>10. s \notin DOMAIN d.sessions \cup DOMAIN d.trips
        BY <1>4, <4>4, AdapterIs DEF Keeping
      <4>11. QED
        BY <1>1, <2>2, <2>3, <3>1, <3>3, <4>8, <4>9, <4>10, StartAgrees
    <3>4. QED
      BY <3>2, <3>3
  <2>6. QED
    BY <2>4, <2>5, HandlerAgrees
<1>8. QED
  BY <1>5, <1>6, <1>7

LEMMA EraseTripLoses ==
  ASSUME NEW x, AdapterOK(x, DOMAIN cmds), NEW y, NEW b, b = EraseTrip(x, y)
  PROVE  /\ AdapterOK(b, DOMAIN cmds) /\ Grows(x, b) /\ b.calls = x.calls
         /\ Lost(x.trips, b.trips, y) /\ b.sessions = x.sessions
<1>1. PICK D : D = DOMAIN cmds
  OBVIOUS
<1>2. /\ AdapterOK(b, D) /\ Grows(x, b) /\ b.calls = x.calls
      /\ b.trips = Without(x.trips, {y}) /\ b.sessions = x.sessions
  BY <1>1, EraseTripIs
<1>3. PICK S, R : S = x.trips /\ R = b.trips
  OBVIOUS
<1>4. Lost(S, R, y)
  BY <1>2, <1>3, LostIs
<1>5. QED
  BY <1>1, <1>2, <1>3, <1>4

\* A trip that the modem has not started is forgotten.
LEMMA HandleTripStartedAgrees ==
  ASSUME Types, SessionsAgree, HandleTripStarted
  PROVE  SessionsAgree'
<1>1. PICK ongoing, job, y, e1, e2, condition, d, k, z, a :
        /\ job = Arg /\ y = job.session
        /\ e1 = EraseSession(Adapter, y) /\ e2 = EraseTrip(e1, y)
        /\ d = DisableIf(e2, condition)
        /\ k = [Adapter EXCEPT !.ongoing = ongoing]
        /\ z = IF Ok THEN k ELSE d
        /\ a = Reports(z, job) /\ Becomes(a)
  BY DEF HandleTripStarted
<1>2. PICK op : op = "tripStarted" /\ Continues(op) /\ Head(queue).op = op /\ queue # <<>>
  BY DEF HandleTripStarted, Continues, Handling
<1>3. \A s : ~Undoes(Head(queue), s)
  BY <1>2 DEF Undoes
<1>4. CASE Ok
  <2>1. Keeping(Adapter, k) /\ AdapterOK(k, DOMAIN cmds)
    BY <1>1, AdapterIs, EndsKeeps DEF Keeping
  <2>2. Keeping(Adapter, a)
    BY <1>1, <1>4, <2>1, ReportsKeeps, KeepingIsTransitive
  <2>3. HandlerStep(a)
    BY <1>1, <1>2, <2>2, ContinuesStep DEF Keeping
  <2>4. QED
    BY <1>2, <2>2, <2>3, KeepingAgrees
<1>5. CASE ~Ok
  <2>1. /\ AdapterOK(e1, DOMAIN cmds) /\ Grows(Adapter, e1) /\ e1.calls = <<>>
        /\ Lost(mBatchingSessions, e1.sessions, y) /\ e1.trips = mTripSessions
    BY <1>1, AdapterIs, EraseSessionLoses
  <2>2. /\ AdapterOK(e2, DOMAIN cmds) /\ Grows(e1, e2) /\ e2.calls = <<>>
        /\ Lost(mTripSessions, e2.trips, y) /\ e2.sessions = e1.sessions
    BY <1>1, <2>1, EraseTripLoses
  <2>3. Keeping(e2, a)
    <3>1. Keeping(e2, d)
      BY <1>1, <2>2, DisableIfKeeps
    <3>2. Keeping(d, a)
      BY <1>1, <1>5, <3>1, ReportsKeeps DEF Keeping
    <3>3. QED
      BY <3>1, <3>2, KeepingIsTransitive
  <2>4. HandlerStep(a)
    <3>1. AdapterOK(a, DOMAIN cmds) /\ Grows(Adapter, a)
      BY <2>1, <2>2, <2>3 DEF Keeping, Grows
    <3>2. QED
      BY <1>1, <1>2, <3>1, ContinuesStep
  <2>5. PICK S, S2, T, T2 : /\ S = mBatchingSessions /\ S2 = a.sessions
                            /\ T = mTripSessions /\ T2 = a.trips
    OBVIOUS
  <2>6. Lost(S, S2, y) /\ Lost(T, T2, y) /\ \A s : Silent(a, s)
    BY <2>1, <2>2, <2>3, <2>5, NoCallsMade, EmptyIsSeq DEF Keeping, Silent
  <2>7. ASSUME ~crossed, NEW s \in DOMAIN cmds \ refused
        PROVE  AgreesFor(a, s)
    <3>1. \A m \in Others : m.op \notin TripResponses
      BY <1>2, <2>7, OnlyTrip DEF TripResponses
    <3>2. CASE s = y
      <4>1. OfTrip(Head(queue), s) /\ Names(Head(queue), s)
        BY <1>1, <1>2, <3>2 DEF OfTrip, Arg, Names
      <4>2. ~Asked(s)'
        BY <2>4, <2>7, <4>1, NotAskedAgain
      <4>3. s \notin DOMAIN S2 \cup DOMAIN T2
        BY <2>6, <3>2 DEF Lost
      <4>4. Effected(a, s)
        BY <2>5, <2>6, <3>1, <4>1, <4>2, <4>3 DEF Effected, Effect, TripUndone, Silent, Others
      <4>5. QED
        BY <2>6, <4>4, SilentInTurn DEF AgreesFor
    <3>3. CASE s # y
      <4>1. \A m \in Others : ~OfTrip(m, s)
        BY <3>1 DEF OfTrip, TripResponses
      <4>2. Spared(a, s)
        BY <2>5, <2>6, <3>3, <4>1 DEF Lost, Spared
      <4>3. QED
        BY <1>3, <2>6, <4>2, SparedAgrees
    <3>4. QED
      BY <3>2, <3>3
  <2>8. QED
    BY <2>4, <2>7, HandlerAgrees
<1>6. QED
  BY <1>4, <1>5

\* A trip that was asked for while the modem had one.
LEMMA HandleTripQueriedAgrees ==
  ASSUME Types, SessionsAgree, HandleTripQueried
  PROVE  SessionsAgree'
<1>1. PICK a : Queried(a) /\ Becomes(a)
  BY HandleTripQueriedIs
<1>2. PICK op : op = "tripQueried" /\ Continues(op) /\ Head(queue).op = op /\ queue # <<>>
  BY DEF HandleTripQueried, Continues, Handling
<1>3. PICK known :
    /\ AdapterOK(known, DOMAIN cmds) /\ Grows(Adapter, known)
    /\ known.calls = <<>> /\ known.sessions = mBatchingSessions
    /\ DOMAIN known.trips \subseteq DOMAIN mTripSessions \cup {Arg.session}
    /\ \/ a = Reports(known, Arg)
       \/ \E c : /\ c.then = Msg("tripRestarted", Arg)
                 /\ AdapterOK(a, DOMAIN cmds) /\ Grows(known, a)
                 /\ a.calls = Append(known.calls, c)
                 /\ a.sessions = known.sessions /\ DOMAIN a.trips = DOMAIN known.trips
  BY <1>1 DEF Queried
<1>4. /\ AdapterOK(a, DOMAIN cmds) /\ Grows(Adapter, a) /\ a.sessions = mBatchingSessions
      /\ DOMAIN a.trips \subseteq DOMAIN mTripSessions \cup {Arg.session}
      /\ \A s : Silent(a, s)
  <2>1. CASE a = Reports(known, Arg)
    <3>1. Keeping(known, a)
      BY <1>3, <2>1, ReportsKeeps
    <3>2. QED
      BY <1>3, <3>1, NoCallsMade, EmptyIsSeq DEF Keeping, Grows, Silent
  <2>2. ASSUME NEW c, c.then = Msg("tripRestarted", Arg),
               AdapterOK(a, DOMAIN cmds), Grows(known, a), a.calls = Append(known.calls, c),
               a.sessions = known.sessions, DOMAIN a.trips = DOMAIN known.trips
        PROVE  /\ Grows(Adapter, a) /\ \A s : Silent(a, s)
    <3>1. a.calls = Append(<<>>, c)
      BY <1>3, <2>2
    <3>2. IsSeq(a.calls) /\ ToSet(Thens(a.calls)) = {c.then}
      BY <3>1, OnlyCall
    <3>3. c.then.op = "tripRestarted"
      BY <2>2 DEF Msg
    <3>4. QED
      BY <1>3, <2>2, <3>2, <3>3
      DEF Grows, Silent, Names, About, Starts, Stops, Queries, OfTrip
  <2>3. QED
    BY <1>3, <2>1, <2>2
<1>5. HandlerStep(a)
  BY <1>1, <1>2, <1>4, ContinuesStep
<1>6. ASSUME ~crossed, NEW s \in DOMAIN cmds \ refused
      PROVE  AgreesFor(a, s)
  <2>1. \A m \in Others : m.op \notin TripResponses
    BY <1>2, <1>6, OnlyTrip DEF TripResponses
  <2>2. CASE s = Arg.session
    <3>1. Queries(Head(queue), s) /\ Names(Head(queue), s)
      BY <1>2, <2>2 DEF Queries, Arg, Names
    <3>2. ~Asked(s)'
      BY <1>5, <1>6, <3>1, NotAskedAgain
    <3>3. Effected(a, s)
      BY <1>4, <2>1, <3>1, <3>2 DEF Effected, Effect, TripKnown, Silent, Others
    <3>4. QED
      BY <1>4, <3>3, SilentInTurn DEF AgreesFor
  <2>3. CASE s # Arg.session
    <3>1. \A m \in Others : ~OfTrip(m, s)
      BY <2>1 DEF OfTrip, TripResponses
    <3>2. ~Undoes(Head(queue), s)
      BY <1>2 DEF Undoes
    <3>3. Spared(a, s)
      BY <1>4, <2>3, <3>1 DEF Spared
    <3>4. QED
      BY <1>4, <3>2, <3>3, SparedAgrees
  <2>4. QED
    BY <2>2, <2>3
<1>7. QED
  BY <1>5, <1>6, HandlerAgrees

\* What is left when a trip is stopped: others keep their trips, and the modem may be asked
\* how far its trip has gone.
TripGone(y, job) ==
  /\ AdapterOK(y, DOMAIN cmds) /\ Grows(Adapter, y)
  /\ y.sessions = mBatchingSessions /\ Lost(mTripSessions, y.trips, job.session)
  /\ DOMAIN mTripSessions \ {job.session} # {} =>
       \E t \in ToSet(Thens(y.calls)) : t.op = "remaining"
  /\ \A s : Silent(y, s)

LEMMA TripErasedIsGone ==
  ASSUME Types, NEW d, Keeping(Adapter, d), NEW job, NEW y,
         TripErased(d, y, job, DOMAIN cmds)
  PROVE  TripGone(y, job)
<1>1. /\ d.calls = <<>> /\ d.sessions = mBatchingSessions /\ d.trips = mTripSessions
      /\ Grows(Adapter, d)
  BY AdapterIs DEF Keeping
<1>2. /\ AdapterOK(y, DOMAIN cmds) /\ Grows(d, y) /\ y.sessions = mBatchingSessions
      /\ y.trips = Without(mTripSessions, {job.session})
      /\ DOMAIN y.trips = {} => y.calls = <<>>
      /\ DOMAIN y.trips # {} => \E c : c.then.op = "remaining" /\ y.calls = Append(<<>>, c)
  BY <1>1 DEF TripErased
<1>3. Grows(Adapter, y)
  BY <1>1, <1>2 DEF Grows
<1>4. PICK S, R, s : S = mTripSessions /\ R = y.trips /\ s = job.session
  OBVIOUS
<1>5. Lost(S, R, s)
  BY <1>2, <1>4, LostIs
<1>6. CASE DOMAIN y.trips = {}
  <2>1. ToSet(Thens(y.calls)) = {} /\ IsSeq(y.calls)
    BY <1>2, <1>6, NoCallsMade, EmptyIsSeq
  <2>2. QED
    BY <1>2, <1>3, <1>4, <1>5, <1>6, <2>1 DEF TripGone, Silent, Lost
<1>7. CASE DOMAIN y.trips # {}
  <2>1. PICK c : c.then.op = "remaining" /\ y.calls = Append(<<>>, c)
    BY <1>2, <1>7
  <2>2. ToSet(Thens(y.calls)) = {c.then} /\ IsSeq(y.calls)
    BY <2>1, OnlyCall
  <2>3. \A s1 : Silent(y, s1)
    BY <2>1, <2>2 DEF Silent, Names, About, Starts, Stops, Queries, OfTrip
  <2>4. QED
    BY <1>2, <1>3, <1>4, <1>5, <2>1, <2>2, <2>3 DEF TripGone
<1>8. QED
  BY <1>6, <1>7

\* How the handler goes on: a trip that is updated is started again.
ContinuedFrom(y, job, a) ==
  \/ ~job.restart /\ Keeping(y, a)
  \/ /\ job.restart
     /\ \E x, z : /\ AdapterOK(x, DOMAIN cmds) /\ Grows(y, x) /\ x.calls = y.calls
                  /\ Lost(y.sessions, x.sessions, job.session) /\ x.trips = y.trips
                  /\ StartedFrom(x, z, job) /\ Keeping(z, a)

LEMMA ContinuedIs ==
  ASSUME Types, NEW job, JobOK(job, DOMAIN cmds), NEW y, TripGone(y, job),
         NEW a, a = Continued(y, job)
  PROVE  ContinuedFrom(y, job, a) /\ AdapterOK(a, DOMAIN cmds) /\ Grows(y, a)
<1>1. PICK s, x, z : /\ s = job.session /\ x = EraseSession(y, s)
                     /\ z = IF job.restart THEN Start(x, job) ELSE y
  OBVIOUS
<1>2. a = Reports(z, job)
  BY <1>1 DEF Continued
<1>3. CASE ~job.restart
  <2>1. Keeping(y, a)
    BY <1>1, <1>2, <1>3, ReportsKeeps DEF TripGone
  <2>2. QED
    BY <1>3, <2>1 DEF ContinuedFrom, Keeping
<1>4. CASE job.restart
  <2>1. /\ AdapterOK(x, DOMAIN cmds) /\ Grows(y, x) /\ x.calls = y.calls
        /\ Lost(y.sessions, x.sessions, s) /\ x.trips = y.trips
    BY <1>1, EraseSessionLoses DEF TripGone
  <2>2. StartedFrom(x, z, job)
    BY <1>1, <1>4, <2>1, StartIsStart
  <2>3. Keeping(z, a)
    BY <1>2, <2>2, ReportsKeeps DEF StartedFrom
  <2>4. ContinuedFrom(y, job, a)
    BY <1>1, <1>4, <2>1, <2>2, <2>3 DEF ContinuedFrom
  <2>5. QED
    BY <2>1, <2>2, <2>3, <2>4 DEF Keeping, StartedFrom, Grows
<1>5. QED
  BY <1>3, <1>4

\* stopTripBatchingMultiplexCommon()
LEMMA StopTripCommonGoes ==
  ASSUME Types, NEW d, Keeping(Adapter, d), NEW job, JobOK(job, DOMAIN cmds), NEW garbage,
         NEW a, a = StopTripCommon(d, job, garbage)
  PROVE  /\ \E y : TripGone(y, job) /\ ContinuedFrom(y, job, a)
         /\ AdapterOK(a, DOMAIN cmds) /\ Grows(Adapter, a)
         /\ DOMAIN mTripSessions \ {job.session} # {} =>
              \E t \in ToSet(Thens(a.calls)) : t.op = "remaining"
<1>1. PICK D : D = DOMAIN cmds
  OBVIOUS
<1>2. AdapterOK(d, D) /\ JobOK(job, D)
  BY <1>1 DEF Keeping
<1>3. PICK y : TripErased(d, y, job, D) /\ StopTripCommon(d, job, garbage) = Continued(y, job)
  BY <1>2, StopTripCommonIs
<1>4. TripGone(y, job)
  BY <1>1, <1>3, TripErasedIsGone
<1>5. ContinuedFrom(y, job, a) /\ AdapterOK(a, DOMAIN cmds) /\ Grows(y, a)
  BY <1>3, <1>4, ContinuedIs
<1>6. Grows(Adapter, a)
  BY <1>4, <1>5 DEF TripGone, Grows
<1>7. ToSet(Thens(y.calls)) \subseteq ToSet(Thens(a.calls))
  <2>1. PICK u, v : u = y.calls /\ v = a.calls
    OBVIOUS
  <2>2. IsSeq(u) /\ IsSeq(v) /\ ToSet(u) \subseteq ToSet(v)
    BY <1>4, <1>5, <2>1 DEF TripGone, AdapterOK, Grows
  <2>3. /\ ToSet(Thens(u)) = {c.then : c \in ToSet(u)}
        /\ ToSet(Thens(v)) = {c.then : c \in ToSet(v)}
    BY <2>2, ThensIs
  <2>4. QED
    BY <2>1, <2>2, <2>3
<1>8. QED
  BY <1>4, <1>5, <1>6, <1>7 DEF TripGone

\* Nothing is under way about a trip of the map when no response about trips is.
LEMMA TripIsClear ==
  ASSUME Types, SessionsAgree, ~crossed, queue # <<>>, NEW s \in DOMAIN cmds \ refused,
         s \in DOMAIN mBatchingSessions, mBatchingSessions[s].mode = "trip",
         \A m \in Others : m.op \notin TripResponses
  PROVE  Clear(Others, modem.batching, s)
<1>1. PICK W, S, T, B : /\ W = InFlight /\ S = mBatchingSessions /\ T = mTripSessions
                        /\ B = modem.batching
  OBVIOUS
<1>2. Tokens(W, S, T, s) /\ Served(ToSet(queue), ToSet(Thens(toModem)), S, B, s)
  BY <1>1 DEF SessionsAgree, PlainOK
<1>3. PlainStarts(W) /\ s \in DOMAIN S /\ S[s].mode = "trip"
  BY <1>1, TypesPlainStarts
<1>4. Others \subseteq W /\ ToSet(Thens(toModem)) \subseteq W
  BY <1>1, HeadIs DEF Others, InFlight
<1>5. \A m \in W : ~Stops(m, s) /\ ~Queries(m, s)
  BY <1>2, <1>3 DEF Tokens
<1>6. \A m \in W : ~Starts(m, s)
  BY <1>2, <1>3, <1>5 DEF Tokens, PlainStarts, Starts
<1>7. s \notin DOMAIN B
  BY <1>2, <1>3, <1>4, <1>5 DEF Served
<1>8. \A m \in Others : ~OfTrip(m, s)
  BY DEF OfTrip, TripResponses
<1>9. QED
  BY <1>1, <1>4, <1>5, <1>6, <1>7, <1>8 DEF Clear, Names, About

LEMMA StopTripCommonAgrees ==
  ASSUME Types, SessionsAgree, ~crossed, ~crossed', NEW a, HandlerStep(a),
         NEW job, NEW y, TripGone(y, job), ContinuedFrom(y, job, a),
         \A m \in Others : m.op \notin TripResponses, NEW s \in DOMAIN cmds \ refused,
         ~Undoes(Head(queue), s),
         s = job.session => /\ s \in DOMAIN mBatchingSessions
                            /\ mBatchingSessions[s].mode = "trip" /\ ~Asked(s)'
  PROVE  AgreesFor(a, s)
<1>1. \A m \in Others : ~OfTrip(m, s)
  BY DEF OfTrip, TripResponses
<1>2. PICK S, T, R : S = mBatchingSessions /\ T = mTripSessions /\ R = y.trips
  OBVIOUS
<1>3. y.sessions = S /\ Lost(T, R, job.session) /\ Silent(y, s)
  BY <1>2 DEF TripGone
<1>4. CASE ~job.restart
  <2>1. a.sessions = S /\ a.trips = R /\ a.calls = y.calls
    BY <1>2, <1>3, <1>4 DEF ContinuedFrom, Keeping
  <2>2. Spared(a, s) /\ Silent(a, s)
    BY <1>1, <1>2, <1>3, <2>1 DEF Spared, Lost, Silent
  <2>3. QED
    BY <2>2, SparedAgrees
<1>5. CASE job.restart
  <2>1. PICK x, z : /\ x.calls = y.calls
                    /\ Lost(y.sessions, x.sessions, job.session) /\ x.trips = y.trips
                    /\ StartedFrom(x, z, job) /\ Keeping(z, a)
    BY <1>5 DEF ContinuedFrom
  <2>2. PICK X : X = x.sessions
    OBVIOUS
  <2>3. Lost(S, X, job.session) /\ x.trips = R /\ Silent(x, s)
    BY <1>2, <1>3, <2>1, <2>2 DEF Silent
  <2>4. CASE s = job.session
    <3>1. s \notin DOMAIN x.sessions \cup DOMAIN x.trips
      BY <1>3, <2>2, <2>3, <2>4 DEF Lost
    <3>2. Clear(Others, modem.batching, s)
      BY <2>4, TripIsClear DEF HandlerStep
    <3>3. QED
      BY <2>1, <2>3, <2>4, <3>1, <3>2, StartAgrees
  <2>5. CASE s # job.session
    <3>1. Spared(x, s)
      BY <1>1, <1>2, <1>3, <2>2, <2>3, <2>5 DEF Spared, Lost
    <3>2. QED
      BY <2>1, <2>3, <2>5, <3>1, StartSpares
  <2>6. QED
    BY <2>4, <2>5
<1>6. QED
  BY <1>4, <1>5

\* The last trip that the modem has stopped.
LEMMA HandleTripStoppedAgrees ==
  ASSUME Types, SessionsAgree, HandleTripStopped
  PROVE  SessionsAgree'
<1>1. PICK garbage, condition, d, job, a :
        /\ d = DisableIf(Adapter, condition) /\ job = Arg
        /\ a = StopTripCommon(d, job, garbage) /\ Becomes(a)
  BY DEF HandleTripStopped
<1>2. PICK op : op = "tripStopped" /\ Continues(op) /\ Head(queue).op = op /\ queue # <<>>
  BY DEF HandleTripStopped, Continues, Handling
<1>3. JobOK(job, DOMAIN cmds)
  BY <1>1, <1>2, HeadIs DEF MsgOK, Arg, JobOps
<1>4. Keeping(Adapter, d)
  BY <1>1, AdapterIs, DisableIfKeeps
<1>5. PICK y : TripGone(y, job) /\ ContinuedFrom(y, job, a)
  BY <1>1, <1>3, <1>4, StopTripCommonGoes
<1>6. AdapterOK(a, DOMAIN cmds) /\ Grows(Adapter, a)
  BY <1>1, <1>3, <1>4, StopTripCommonGoes
<1>7. HandlerStep(a)
  BY <1>1, <1>2, <1>6, ContinuesStep
<1>8. ASSUME ~crossed, ~crossed', NEW s \in DOMAIN cmds \ refused
      PROVE  AgreesFor(a, s)
  <2>1. \A m \in Others : m.op \notin TripResponses
    BY <1>2, <1>8, OnlyTrip DEF TripResponses
  <2>2. ~Undoes(Head(queue), s)
    BY <1>2 DEF Undoes
  <2>3. ASSUME s = job.session
        PROVE  /\ s \in DOMAIN mBatchingSessions /\ mBatchingSessions[s].mode = "trip"
               /\ ~Asked(s)'
    <3>1. OfTrip(Head(queue), s) /\ Names(Head(queue), s) /\ Head(queue) \in InFlight
      BY <1>1, <1>2, <2>3, HeadIs DEF OfTrip, Arg, Names, InFlight
    <3>2. s \in DOMAIN mBatchingSessions /\ mBatchingSessions[s].mode = "trip"
      BY <1>8, <3>1 DEF SessionsAgree, PlainOK, Tokens
    <3>3. ~Asked(s)'
      BY <1>7, <1>8, <3>1, NotAskedAgain
    <3>4. QED
      BY <3>2, <3>3
  <2>4. QED
    BY <1>5, <1>7, <1>8, <2>1, <2>2, <2>3, StopTripCommonAgrees
<1>9. QED
  BY <1>7, <1>8, HandlerAgrees

-----------------------------------------------------------------------------
(***************************************************************************)
(* Plain sessions and the handlers of commands and of client removal.      *)
(***************************************************************************)
\* A command that is put off or rejected changes nothing but its own place.
LEMMA CommandPassedOver ==
  ASSUME Types, SessionsAgree, queue # <<>>, Head(queue).op = "command", queue' = Tail(queue),
         mPendingMsgs' = mPendingMsgs \/ mPendingMsgs' = Append(mPendingMsgs, Head(queue)),
         UNCHANGED <<sessionVars, toModem, crossed, modem, refused, cmds>>
  PROVE  SessionsAgree'
<1>1. PICK q, p, r, u, h : /\ q = queue /\ p = mPendingMsgs /\ r = Tail(queue)
                           /\ u = Thens(toModem) /\ h = Head(queue)
  OBVIOUS
<1>2. /\ IsSeq(q) /\ IsSeq(p) /\ IsSeq(r) /\ IsSeq(u) /\ ToSet(q) = {h} \cup ToSet(r)
      /\ h \in ToSet(q) /\ r = Tail(q) /\ h = Head(q) /\ q # <<>>
  BY <1>1, HeadIs, ThensIs DEF Types, QueueOK
<1>3. /\ \A m, t : Precedes(r, m, t) => Precedes(q, m, t)
      /\ \A t \in ToSet(r) : Precedes(q, h, t)
  BY <1>2, PrecedesTail
<1>4. \A m, t : Precedes(r \o u, m, t) => Precedes(q \o u, m, t)
  <2>1. ASSUME NEW m, NEW t, Precedes(r \o u, m, t)
        PROVE  Precedes(q \o u, m, t)
    <3>1. Precedes(r, m, t) \/ Precedes(u, m, t) \/ (m \in ToSet(r) /\ t \in ToSet(u))
      BY <1>2, <2>1, PrecedesConcat
    <3>2. Precedes(q, m, t) \/ Precedes(u, m, t) \/ (m \in ToSet(q) /\ t \in ToSet(u))
      BY <1>2, <1>3, <3>1
    <3>3. QED
      BY <1>2, <3>2, PrecedesConcat
  <2>2. QED
    BY <2>1
<1>5. PICK v : v = mPendingMsgs'
  OBVIOUS
<1>6. /\ IsSeq(v) /\ ToSet(v) \subseteq {h} \cup ToSet(p)
      /\ \A m, t : Precedes(v, m, t) => Precedes(p, m, t) \/ (m \in ToSet(p) /\ t = h)
  <2>1. CASE v = p
    BY <1>2, <2>1
  <2>2. CASE v = Append(p, h)
    <3>1. IsSeq(v) /\ ToSet(v) = ToSet(p) \cup {h}
      BY <1>2, <2>2, SeqsGrow, SetsGrow
    <3>2. ASSUME NEW m, NEW t
          PROVE  Precedes(v, m, t) <=> Precedes(p, m, t) \/ (m \in ToSet(p) /\ t = h)
      BY <1>2, <2>2, PrecedesAppend
    <3>3. QED
      BY <3>1, <3>2
  <2>3. v = p \/ v = Append(p, h)
    BY <1>1, <1>5
  <2>4. QED
    BY <2>1, <2>2, <2>3
<1>7. ASSUME NEW m, NEW t, Precedes(r \o v, m, t)
      PROVE  Precedes(q \o p, m, t) \/ Precedes(q \o p, t, m)
  <2>1. Precedes(r, m, t) \/ Precedes(v, m, t) \/ (m \in ToSet(r) /\ t \in ToSet(v))
    BY <1>2, <1>6, <1>7, PrecedesConcat
  <2>2. \/ Precedes(q, m, t) \/ Precedes(p, m, t) \/ (m \in ToSet(q) /\ t \in ToSet(p))
        \/ (t \in ToSet(q) /\ m \in ToSet(p)) \/ Precedes(q, t, m)
    BY <1>2, <1>3, <1>6, <2>1
  <2>3. QED
    BY <1>2, <2>2, PrecedesConcat
<1>8. /\ queue' = r /\ mPendingMsgs' = v /\ Thens(toModem') = u
      /\ mBatchingSessions' = mBatchingSessions /\ mTripSessions' = mTripSessions
      /\ modem' = modem /\ refused' = refused /\ cmds' = cmds /\ (crossed' <=> crossed)
  BY <1>1, <1>5 DEF sessionVars
<1>9. \A m, t : Behind(m, t)' => Behind(m, t)
  BY <1>1, <1>4, <1>8 DEF Behind
<1>10. ASSUME NEW s, PlainOK(s)
       PROVE  PlainOK(s)'
  <2>1. ~Names(h, s) /\ ~Undoes(h, s) /\ h.op # "engineUp"
    BY <1>1 DEF Names, About, Starts, Stops, Queries, OfTrip, Undoes
  <2>2. PICK S, T, B, W, M : /\ S = mBatchingSessions /\ T = mTripSessions
                             /\ B = modem.batching /\ W = InFlight' /\ M = ToSet(u)
    OBVIOUS
  <2>3. InFlight = {h} \cup W
    BY <1>1, <1>2, <1>8, <2>2 DEF InFlight
  <2>4. Tokens(W, S, T, s)
    <3>1. Tokens({h} \cup W, S, T, s)
      BY <1>10, <2>2, <2>3 DEF PlainOK
    <3>2. QED
      BY <2>1, <3>1 DEF Tokens, Names, About
  <2>5. Served(ToSet(r), M, S, B, s)
    <3>1. Served({h} \cup ToSet(r), M, S, B, s)
      BY <1>1, <1>2, <1>10, <2>2 DEF PlainOK
    <3>2. QED
      BY <2>1, <3>1 DEF Served
  <2>6. Ordered(s)'
    <3>1. \A m, t : Behind(m, t)' => InTurn(m, t, s)
      BY <1>9, <1>10 DEF PlainOK, Ordered
    <3>2. \A m, t : Precedes(queue' \o mPendingMsgs', m, t) => ~Asks(m, s) \/ ~Asks(t, s)
      BY <1>1, <1>7, <1>8, <1>10 DEF PlainOK, Ordered
    <3>3. \A m, t : Precedes(queue', m, t) /\ m.op = "engineUp" => ~About(t, s)
      BY <1>1, <1>3, <1>8, <1>10 DEF PlainOK, Ordered
    <3>4. QED
      BY <3>1, <3>2, <3>3 DEF Ordered
  <2>7. Asked(s)' => Asked(s)
    BY <1>1, <1>2, <1>6, <1>8 DEF Asked
  <2>8. Asked(s) => Unknown(W, S, T, s)
    BY <1>10, <2>2, <2>3 DEF PlainOK, Unknown
  <2>9. QED
    BY <1>8, <2>2, <2>4, <2>5, <2>6, <2>7, <2>8 DEF PlainOK
<1>11. (\E m \in ToSet(queue') : m.op = "engineUp") => DOMAIN modem'.batching = {}
  BY <1>1, <1>2, <1>8 DEF SessionsAgree
<1>12. \A m \in ToSet(queue') : m.op = "stopped" /\ ~m.ok => m.arg.job.session \in refused'
  BY <1>1, <1>2, <1>8 DEF SessionsAgree
<1>13. ~crossed' => OneTrip' /\ \A s \in DOMAIN cmds' \ refused' : PlainOK(s)'
  BY <1>8, <1>9, <1>10 DEF SessionsAgree, OneTrip
<1>14. QED
  BY <1>11, <1>12, <1>13 DEF SessionsAgree

\* A start command.
LEMMA StartPerformed ==
  ASSUME Types, SessionsAgree, NEW a, HandlerStep(a), Head(queue).op = "command",
         cmds[Arg].op = "start", a = Start(Adapter, CommandJob), ~crossed, ~crossed',
         NEW s \in DOMAIN cmds \ refused, Arg \in DOMAIN cmds
  PROVE  AgreesFor(a, s)
<1>1. PICK job, x : job = CommandJob /\ x = Adapter
  OBVIOUS
<1>2. JobOK(job, DOMAIN cmds) /\ job.session = Arg
  BY <1>1, CommandJobIs DEF Types, CmdsOK
<1>3. /\ AdapterOK(x, DOMAIN cmds) /\ Keeping(Adapter, x) /\ x.sessions = mBatchingSessions
      /\ x.trips = mTripSessions
  BY <1>1, AdapterIs, AdapterKeeps
<1>4. StartedFrom(x, a, job)
  BY <1>1, <1>2, <1>3, StartIsStart
<1>5. Keeping(a, a)
  BY <1>4 DEF StartedFrom, Keeping, Grows
<1>6. Spared(x, s) /\ Silent(x, s) /\ ~Undoes(Head(queue), s)
  BY <1>3, KeepingSpares DEF Undoes
<1>7. CASE s # Arg
  BY <1>2, <1>4, <1>5, <1>6, <1>7, StartSpares
<1>8. CASE s = Arg
  <2>1. Asks(Head(queue), s)
    BY <1>8 DEF Asks, Arg
  <2>2. Head(queue) \in ToSet(queue) /\ Others \subseteq InFlight
        /\ ToSet(Thens(toModem)) \subseteq InFlight
    BY HeadIs DEF HandlerStep, Others, InFlight
  <2>3. Asked(s)
    BY <1>8, <2>1, <2>2 DEF Asked
  <2>4. PlainOK(s)
    BY DEF SessionsAgree
  <2>5. Unknown(InFlight, mBatchingSessions, mTripSessions, s)
    BY <2>3, <2>4 DEF PlainOK
  <2>6. s \notin DOMAIN x.sessions \cup DOMAIN x.trips /\ \A m \in InFlight : ~Names(m, s)
    BY <1>3, <2>5 DEF Unknown
  <2>7. s \notin DOMAIN modem.batching
    BY <1>3, <2>2, <2>4, <2>6 DEF PlainOK, Served, Names, About
  <2>8. Clear(Others, modem.batching, s)
    BY <2>2, <2>6, <2>7 DEF Clear
  <2>9. ~Asked(s)'
    BY <2>1, NotAskedAgain
  <2>10. QED
    BY <1>2, <1>4, <1>5, <1>6, <1>8, <2>6, <2>8, <2>9, StartAgrees
<1>9. QED
  BY <1>7, <1>8

LEMMA StopIsStop ==
  ASSUME NEW x, AdapterOK(x, DOMAIN cmds), NEW job, NEW y, y = job.session, y \in DOMAIN x.sessions,
         NEW b, b = StopBatching(x, job)
  PROVE  /\ b.trips = x.trips /\ Lost(x.sessions, b.sessions, y)
         /\ \E c : b.calls = Append(x.calls, c) /\ c.then.op = "stopped" /\ c.then.arg.job = job
<1>1. PICK e, arg, then, c : /\ e = EraseSession(x, y)
                             /\ arg = [job |-> job, mode |-> x.sessions[y].mode]
                             /\ then = Msg("stopped", arg) /\ c = Call("stopBatching", job, then)
  OBVIOUS
<1>2. /\ AdapterOK(e, DOMAIN cmds) /\ e.calls = x.calls
      /\ Lost(x.sessions, e.sessions, y) /\ e.trips = x.trips
  BY <1>1, EraseSessionLoses
<1>3. b = Calls(e, "stopBatching", job, then)
  BY <1>1 DEF StopBatching
<1>4. b.calls = Append(e.calls, c) /\ b.sessions = e.sessions /\ b.trips = e.trips
  BY <1>1, <1>2, <1>3 DEF Calls, AdapterOK, Fields
<1>5. c.then.op = "stopped" /\ c.then.arg.job = job
  BY <1>1 DEF Call, Msg
<1>6. QED
  BY <1>2, <1>4, <1>5

\* A command that stops a session of the modem.
LEMMA StopPerformed ==
  ASSUME Types, SessionsAgree, NEW a, HandlerStep(a), Head(queue).op = "command",
         a = StopBatching(Adapter, CommandJob), ~crossed, Arg \in DOMAIN cmds,
         CommandJob.session \in DOMAIN mBatchingSessions \ DOMAIN mTripSessions,
         NEW s \in DOMAIN cmds \ refused
  PROVE  AgreesFor(a, s)
<1>1. PICK job, D, y, x, S, S2 :
        /\ job = CommandJob /\ D = DOMAIN cmds /\ y = job.session /\ x = Adapter
        /\ S = mBatchingSessions /\ S2 = a.sessions
  OBVIOUS
<1>2. /\ AdapterOK(x, D) /\ JobOK(job, D) /\ x.sessions = S /\ x.trips = mTripSessions
      /\ x.calls = <<>> /\ y \in DOMAIN S \ DOMAIN mTripSessions
  BY <1>1, AdapterIs, CommandJobIs
<1>3. /\ a.trips = x.trips /\ Lost(x.sessions, a.sessions, y)
      /\ \E c : a.calls = Append(x.calls, c) /\ c.then.op = "stopped" /\ c.then.arg.job = job
  BY <1>1, <1>2, StopIsStop
<1>4. Lost(S, S2, y)
  BY <1>1, <1>2, <1>3
<1>5. PICK c : /\ a.calls = Append(<<>>, c) /\ c.then.op = "stopped" /\ c.then.arg.job = job
  BY <1>2, <1>3
<1>6. IsSeq(a.calls) /\ ToSet(Thens(a.calls)) = {c.then}
  BY <1>5, OnlyCall
<1>7. ~Names(Head(queue), s) /\ ~Undoes(Head(queue), s)
  BY DEF Names, About, Starts, Stops, Queries, OfTrip, Undoes
<1>8. CASE s # y
  <2>1. Silent(a, s)
    BY <1>1, <1>5, <1>6, <1>8 DEF Silent, Names, About, Starts, Stops, Queries, OfTrip
  <2>2. Spared(a, s)
    BY <1>1, <1>2, <1>3, <1>4, <1>8 DEF Spared, Lost
  <2>3. QED
    BY <1>7, <2>1, <2>2, SparedAgrees
<1>9. CASE s = y
  <2>1. ~Asked(s)'
    BY <1>1, <1>2, <1>9, NotAskedAgain
  <2>2. PICK h, N, T, T2 : /\ h = Head(queue) /\ N = ToSet(Thens(a.calls))
                           /\ T = mTripSessions /\ T2 = a.trips
    OBVIOUS
  <2>3. Stops(c.then, s)
    BY <1>1, <1>5, <1>9 DEF Stops
  <2>4. StoppedPlain(h, N, S, S2, T, T2, s)
    BY <1>2, <1>3, <1>4, <1>5, <1>6, <1>7, <1>9, <2>2, <2>3 DEF StoppedPlain, Lost
  <2>5. Effected(a, s)
    BY <1>1, <2>1, <2>2, <2>4 DEF Effected, Effect
  <2>6. Sequential(a, s)
    <3>1. PICK none : none = <<>>
      OBVIOUS
    <3>2. Silent(x, s) /\ a.calls = Append(x.calls, c)
      BY <1>2, <1>5, NoCallsMade, EmptyIsSeq DEF Silent
    <3>3. QED
      BY <3>2, OneCallInTurn
  <2>7. QED
    BY <2>5, <2>6 DEF AgreesFor
<1>10. QED
  BY <1>8, <1>9

\* A command that stops a trip: the modem's trip, when it is the last one.
LEMMA StopTripPerformed ==
  ASSUME Types, SessionsAgree, NEW a, HandlerStep(a), Head(queue).op = "command",
         NEW garbage, a = StopTrip(Adapter, CommandJob, garbage), ~crossed, ~crossed',
         Arg \in DOMAIN cmds,
         CommandJob.session \in DOMAIN mBatchingSessions \cap DOMAIN mTripSessions,
         NEW s \in DOMAIN cmds \ refused
  PROVE  AgreesFor(a, s)
<1>1. PICK job, D, y, x, S, T :
        /\ job = CommandJob /\ D = DOMAIN cmds /\ y = job.session /\ x = Adapter
        /\ S = mBatchingSessions /\ T = mTripSessions
  OBVIOUS
<1>2. /\ AdapterOK(x, D) /\ JobOK(job, D) /\ x.sessions = S /\ x.trips = T
      /\ x.calls = <<>> /\ y \in DOMAIN S /\ y \in DOMAIN T /\ Keeping(Adapter, x)
  BY <1>1, AdapterIs, CommandJobIs, AdapterKeeps
<1>3. a = StopTrip(x, job, garbage)
  BY <1>1
<1>4. ~Names(Head(queue), s) /\ ~Undoes(Head(queue), s)
  BY DEF Names, About, Starts, Stops, Queries, OfTrip, Undoes
<1>5. s = y => ~Asked(s)'
  BY <1>1, <1>2, NotAskedAgain
<1>6. CASE Cardinality(DOMAIN x.trips) = 1
  <2>1. DOMAIN T = {y}
    <3>1. IsFiniteSet(DOMAIN T)
      BY <1>1, SomeCommandsAreFinite DEF Types, MapsOK
    <3>2. PICK t : DOMAIN T = {t}
      BY <1>2, <1>6, <3>1, FS_Singleton
    <3>3. QED
      BY <1>2, <3>2
  <2>2. PICK then, c : then = Msg("tripStopped", job) /\ c = Call("stopTrip", None, then)
    OBVIOUS
  <2>3. /\ a.calls = Append(x.calls, c) /\ a.sessions = x.sessions /\ a.trips = x.trips
        /\ c.then = then
    <3>1. a = Calls(x, "stopTrip", None, then)
      BY <1>3, <1>6, <2>2 DEF StopTrip
    <3>2. QED
      BY <1>2, <2>2, <3>1 DEF Calls, Call, AdapterOK, Fields
  <2>4. /\ IsSeq(a.calls) /\ ToSet(Thens(a.calls)) = {c.then}
        /\ c.then.op = "tripStopped" /\ c.then.arg = job
    <3>1. a.calls = Append(<<>>, c)
      BY <1>2, <2>3
    <3>2. then.op = "tripStopped" /\ then.arg = job
      BY <2>2 DEF Msg
    <3>3. QED
      BY <2>3, <3>1, <3>2, OnlyCall
  <2>5. CASE s # y
    <3>1. Silent(a, s)
      BY <1>1, <2>4, <2>5 DEF Silent, Names, About, Starts, Stops, Queries, OfTrip
    <3>2. Spared(a, s)
      BY <1>1, <1>2, <2>3 DEF Spared
    <3>3. QED
      BY <1>4, <3>1, <3>2, SparedAgrees
  <2>6. CASE s = y
    <3>1. PICK h, N, S2, T2 : /\ h = Head(queue) /\ N = ToSet(Thens(a.calls))
                              /\ S2 = a.sessions /\ T2 = a.trips
      OBVIOUS
    <3>2. StoppingTrip(h, N, S, S2, T, T2, s)
      BY <1>2, <1>4, <2>1, <2>3, <2>4, <2>6, <3>1 DEF StoppingTrip
    <3>3. Effected(a, s)
      BY <1>1, <1>5, <2>6, <3>1, <3>2 DEF Effected, Effect
    <3>4. Silent(x, s) /\ a.calls = Append(x.calls, c)
      BY <1>2, <2>3, NoCallsMade, EmptyIsSeq DEF Silent
    <3>5. Sequential(a, s)
      BY <3>4, OneCallInTurn
    <3>6. QED
      BY <3>3, <3>5 DEF AgreesFor
  <2>7. QED
    BY <2>5, <2>6
<1>7. CASE Cardinality(DOMAIN x.trips) # 1
  <2>1. a = StopTripCommon(x, job, garbage)
    BY <1>3, <1>7 DEF StopTrip
  <2>2. DOMAIN T \ {y} # {}
    <3>1. Cardinality({y}) = 1
      BY FS_Singleton
    <3>2. DOMAIN T # {y}
      BY <1>2, <1>7, <3>1
    <3>3. QED
      BY <1>2, <3>2
  <2>3. /\ \E z : TripGone(z, job) /\ ContinuedFrom(z, job, a)
        /\ \E t \in ToSet(Thens(a.calls)) : t.op = "remaining"
    BY <1>1, <1>2, <2>1, <2>2, StopTripCommonGoes
  <2>4. \A m \in Others : m.op \notin TripResponses
    BY <2>3, NoCrossing DEF TripResponses
  <2>5. PICK z : TripGone(z, job) /\ ContinuedFrom(z, job, a)
    BY <2>3
  <2>6. s = y => S[s].mode = "trip"
    BY <1>1, <1>2 DEF SessionsAgree, PlainOK, Tokens
  <2>7. QED
    BY <1>1, <1>2, <1>4, <1>5, <2>4, <2>5, <2>6, StopTripCommonAgrees
<1>8. QED
  BY <1>6, <1>7

LEMMA HandleCommandAgrees ==
  ASSUME Types, SessionsAgree, HandleCommand
  PROVE  SessionsAgree'
<1>1. /\ Head(queue).op = "command" /\ queue # <<>> /\ queue' = Tail(queue)
      /\ Arg \in DOMAIN cmds /\ UNCHANGED <<modemVars, clientVars, mClientData, engineKnown>>
      /\ CommandPutOff \/ CommandRejected \/ \E a : CommandPerformed(a)
  BY HandleCommandIs
<1>2. CASE CommandPutOff \/ CommandRejected
  <2>1. /\ mPendingMsgs' = mPendingMsgs \/ mPendingMsgs' = Append(mPendingMsgs, Head(queue))
        /\ UNCHANGED <<sessionVars, toModem, crossed>>
    BY <1>2 DEF CommandPutOff, CommandRejected
  <2>2. UNCHANGED <<modem, refused, cmds>>
    BY <1>1 DEF modemVars, clientVars
  <2>3. QED
    BY <1>1, <2>1, <2>2, CommandPassedOver
<1>3. CASE \E a : CommandPerformed(a)
  <2>1. PICK a : CommandPerformed(a)
    BY <1>3
  <2>2. AdapterOK(a, DOMAIN cmds) /\ Grows(Adapter, a)
    BY <1>1, <2>1, PerformedTypes DEF CommandPerformed
  <2>3. HandlerStep(a)
    BY <1>1, <2>1, <2>2, HandlerStepIs DEF CommandPerformed
  <2>4. ASSUME ~crossed, ~crossed', NEW s \in DOMAIN cmds \ refused
        PROVE  AgreesFor(a, s)
    <3>1. CommandJob.session = cmds[Arg].session
      BY <1>1, CommandJobIs
    <3>2. CASE cmds[Arg].op = "start" /\ a = Start(Adapter, CommandJob)
      BY <1>1, <2>3, <2>4, <3>2, StartPerformed
    <3>3. CASE /\ cmds[Arg].session \in DOMAIN mBatchingSessions \cap DOMAIN mTripSessions
               /\ \E garbage : a = StopTrip(Adapter, CommandJob, garbage)
      BY <1>1, <2>3, <2>4, <3>1, <3>3, StopTripPerformed
    <3>4. CASE /\ cmds[Arg].session \in DOMAIN mBatchingSessions \ DOMAIN mTripSessions
               /\ a = StopBatching(Adapter, CommandJob)
      BY <1>1, <2>3, <2>4, <3>1, <3>4, StopPerformed
    <3>5. CASE a = Calls(Adapter, "getBatchedLocations", None, Msg("got", CommandJob))
      <4>1. PICK c, x : x = Adapter /\ c = Call("getBatchedLocations", None, Msg("got", CommandJob))
        OBVIOUS
      <4>2. /\ AdapterOK(x, DOMAIN cmds) /\ x.calls = <<>> /\ x.sessions = mBatchingSessions
            /\ x.trips = mTripSessions
        BY <4>1, AdapterIs
      <4>3. /\ a.calls = Append(x.calls, c) /\ a.sessions = x.sessions /\ a.trips = x.trips
        BY <3>5, <4>1, <4>2 DEF Calls, AdapterOK, Fields
      <4>4. c.then.op = "got"
        BY <4>1 DEF Call, Msg
      <4>5. IsSeq(a.calls) /\ ToSet(Thens(a.calls)) = {c.then}
        <5>1. a.calls = Append(<<>>, c)
          BY <4>2, <4>3
        <5>2. QED
          BY <5>1, OnlyCall
      <4>6. Silent(a, s)
        BY <4>4, <4>5 DEF Silent, Names, About, Starts, Stops, Queries, OfTrip
      <4>7. Spared(a, s) /\ ~Undoes(Head(queue), s)
        BY <1>1, <4>2, <4>3 DEF Spared, Undoes
      <4>8. QED
        BY <4>6, <4>7, SparedAgrees
    <3>6. QED
      BY <2>1, <3>2, <3>3, <3>4, <3>5 DEF CommandPerformed, Performed
  <2>5. QED
    BY <2>3, <2>4, HandlerAgrees
<1>4. QED
  BY <1>1, <1>2, <1>3

\* The plain sessions A have been stopped, one call for each.
AllStopped(x, A) ==
  /\ x.trips = mTripSessions /\ IsSeq(x.calls)
  /\ \A s \in A : /\ s \notin DOMAIN x.sessions /\ Sequential(x, s)
                  /\ \E t \in ToSet(Thens(x.calls)) : Stops(t, s)
                  /\ \A t \in ToSet(Thens(x.calls)) : Names(t, s) => Stops(t, s)
  /\ \A s : s \notin A => Spared(x, s) /\ Silent(x, s)

LEMMA OneMoreStopped ==
  ASSUME NEW x, AdapterOK(x, DOMAIN cmds), NEW A, AllStopped(x, A),
         NEW y, y \in DOMAIN mBatchingSessions \ A,
         NEW job, job.session = y, NEW b, b = StopBatching(x, job)
  PROVE  AllStopped(b, A \cup {y})
<1>1. y \in DOMAIN x.sessions /\ Silent(x, y)
  BY DEF AllStopped, Spared
<1>2. /\ b.trips = x.trips /\ Lost(x.sessions, b.sessions, y)
      /\ \E c : b.calls = Append(x.calls, c) /\ c.then.op = "stopped" /\ c.then.arg.job = job
  BY <1>1, StopIsStop
<1>3. PICK c : b.calls = Append(x.calls, c) /\ c.then.op = "stopped" /\ c.then.arg.job = job
  BY <1>2
<1>4. Stops(c.then, y) /\ \A s : s # y => ~Names(c.then, s)
  BY <1>3 DEF Names, About, Starts, Stops, Queries, OfTrip
<1>5. PICK t, u : t = x.calls /\ u = b.calls
  OBVIOUS
<1>6. /\ IsSeq(u) /\ ToSet(Thens(u)) = ToSet(Thens(t)) \cup {c.then}
      /\ \A m, k : Precedes(Thens(u), m, k) =>
           Precedes(Thens(t), m, k) \/ (m \in ToSet(Thens(t)) /\ k = c.then)
  <2>1. IsSeq(t) /\ u = Append(t, c)
    BY <1>3, <1>5 DEF AllStopped
  <2>2. QED
    BY <2>1, OneMoreCall, SeqsGrow
<1>7. PICK X, R, S : X = x.sessions /\ R = b.sessions /\ S = mBatchingSessions
  OBVIOUS
<1>8. Lost(X, R, y)
  BY <1>2, <1>7
<1>9. ASSUME NEW s \in A
      PROVE  /\ s \notin DOMAIN b.sessions /\ Sequential(b, s)
             /\ \E k \in ToSet(Thens(b.calls)) : Stops(k, s)
             /\ \A k \in ToSet(Thens(b.calls)) : Names(k, s) => Stops(k, s)
  <2>1. /\ s \notin DOMAIN x.sessions /\ Sequential(x, s)
        /\ \E k \in ToSet(Thens(x.calls)) : Stops(k, s)
        /\ \A k \in ToSet(Thens(x.calls)) : Names(k, s) => Stops(k, s)
    BY DEF AllStopped
  <2>2. ~Names(c.then, s)
    BY <1>4
  <2>3. Sequential(b, s)
    BY <1>5, <1>6, <2>1, <2>2 DEF Sequential, InTurn, Names
  <2>4. s \notin DOMAIN b.sessions
    BY <1>7, <1>8, <2>1 DEF Lost
  <2>5. QED
    BY <1>5, <1>6, <2>1, <2>2, <2>3, <2>4
<1>10. /\ y \notin DOMAIN b.sessions /\ Sequential(b, y)
       /\ \E k \in ToSet(Thens(b.calls)) : Stops(k, y)
       /\ \A k \in ToSet(Thens(b.calls)) : Names(k, y) => Stops(k, y)
  <2>1. /\ Sequential(b, y) /\ c.then \in ToSet(Thens(b.calls))
        /\ \A k \in ToSet(Thens(b.calls)) : Names(k, y) => k = c.then
    <3>1. b.calls = Append(x.calls, c) /\ Silent(x, y)
      BY <1>1, <1>3
    <3>2. QED
      BY <3>1, OneCallInTurn
  <2>2. QED
    BY <1>4, <1>7, <1>8, <2>1 DEF Lost
<1>11. ASSUME NEW s, s \notin A \cup {y}
       PROVE  Spared(b, s) /\ Silent(b, s)
  <2>1. Spared(x, s) /\ Silent(x, s) /\ s # y
    BY <1>11 DEF AllStopped
  <2>2. Silent(b, s)
    BY <1>4, <1>5, <1>6, <2>1 DEF Silent
  <2>3. Spared(b, s)
    BY <1>2, <1>7, <1>8, <2>1 DEF Spared, Lost
  <2>4. QED
    BY <2>2, <2>3
<1>12. b.trips = mTripSessions /\ IsSeq(b.calls)
  BY <1>2, <1>5, <1>6 DEF AllStopped
<1>13. QED
  BY <1>9, <1>10, <1>11, <1>12 DEF AllStopped

Upto(order, k) == {order[i] : i \in 1..k}

\* The sessions of a client that is removed, when none of them is a trip.
LEMMA ClientsAllStopped ==
  ASSUME Types, NEW own, NEW order, NEW n, NEW f, NEW garbage, NEW a,
         RemovedInSteps(own, order, n, f, garbage, a),
         \A s \in own : mBatchingSessions[s].mode # "trip"
  PROVE  AllStopped(a, own)
<1> DEFINE S == {k \in 0..n : AllStopped(f[k], Upto(order, k))}
<1>1. /\ n \in Nat /\ f[0] = Adapter /\ DOMAIN order = 1..n /\ own = Upto(order, n)
  BY DEF RemovedInSteps, IsSeq, ToSet, Upto
<1>2. \A k \in 1..n : order[k] \in own /\ own \subseteq DOMAIN mBatchingSessions
  BY EachStopIs
<1>3. 0 \in S
  <2>1. PICK x : x = Adapter
    OBVIOUS
  <2>2. x.trips = mTripSessions /\ IsSeq(x.calls) /\ \A s : Spared(x, s) /\ Silent(x, s)
    BY <2>1, AdapterIs, AdapterKeeps, KeepingSpares, EmptyIsSeq
  <2>3. Upto(order, 0) = {}
    BY DEF Upto
  <2>4. AllStopped(x, {})
    BY <2>2 DEF AllStopped
  <2>5. QED
    BY <1>1, <2>1, <2>3, <2>4
<1>4. ASSUME NEW k \in 1..n, k - 1 \in S
      PROVE  k \in S
  <2>1. PICK x, y, job, b : /\ x = f[k - 1] /\ y = order[k] /\ b = f[k]
                            /\ job = Job(0, y, DefaultOptions, FALSE)
    OBVIOUS
  <2>2. b = StopBatching(x, job)
    <3>1. b = StopSession(x, y, garbage)
      BY <2>1 DEF RemovedInSteps
    <3>2. mBatchingSessions[y].mode # "trip"
      BY <1>2, <2>1
    <3>3. QED
      BY <2>1, <3>1, <3>2 DEF StopSession
  <2>3. k - 1 \in 0..n
    BY <1>1
  <2>4. AdapterOK(x, DOMAIN cmds)
    BY <2>1, <2>3, EachStopIs
  <2>5. PICK A : A = Upto(order, k - 1)
    OBVIOUS
  <2>6. AllStopped(x, A)
    BY <1>4, <2>1, <2>5
  <2>7. y \in DOMAIN mBatchingSessions \ A
    <3>1. own \subseteq Nat
      <4>1. own \subseteq DOMAIN cmds
        BY <1>2 DEF Types, MapsOK, RemovedInSteps
      <4>2. QED
        BY <4>1, SomeCommandsAreFinite
    <3>2. ASSUME NEW i \in 1..(k - 1)
          PROVE  order[i] # y
      <4>1. i \in 1..n /\ i < k
        BY <1>1
      <4>2. order[i] < order[k] /\ order[i] \in Nat /\ order[k] \in Nat
        BY <1>2, <3>1, <4>1 DEF RemovedInSteps
      <4>3. QED
        BY <2>1, <4>2
    <3>3. QED
      BY <1>2, <2>1, <2>5, <3>2 DEF Upto
  <2>8. job.session = y
    BY <2>1 DEF Job
  <2>9. AllStopped(b, A \cup {y})
    BY <2>2, <2>4, <2>6, <2>7, <2>8, OneMoreStopped
  <2>10. Upto(order, k) = A \cup {y}
    <3>1. \A i \in 1..k : i = k \/ i \in 1..(k - 1)
      BY <1>1
    <3>2. k \in 1..k /\ \A i \in 1..(k - 1) : i \in 1..k
      BY <1>1
    <3>3. QED
      BY <2>1, <2>5, <3>1, <3>2 DEF Upto
  <2>11. AllStopped(f[k], Upto(order, k))
    BY <2>1, <2>9, <2>10
  <2>12. k \in 0..n
    BY <1>1
  <2>13. QED
    BY <2>11, <2>12
<1> HIDE DEF S
<1>5. \A k \in 0..n : k \in S
  BY <1>1, <1>3, <1>4, StepByStep
<1>6. AllStopped(f[n], own)
  <2>1. n \in S
    BY <1>1, <1>5
  <2>2. QED
    BY <1>1, <2>1 DEF S
<1>7. PICK x : x = f[n]
  OBVIOUS
<1>8. /\ a.calls = x.calls /\ a.sessions = x.sessions /\ a.trips = x.trips
  BY <1>7, EachStopIs
<1>9. QED
  BY <1>6, <1>7, <1>8 DEF AllStopped, Spared, Silent, Sequential

LEMMA HandleRemoveClientAgrees ==
  ASSUME Types, SessionsAgree, HandleRemoveClient
  PROVE  SessionsAgree'
<1>1. PICK own, order, n, f, garbage, a : RemovedInSteps(own, order, n, f, garbage, a)
  BY HandleRemoveClientIs
<1>2. /\ queue # <<>> /\ Head(queue).op = "removeClient" /\ queue' = Tail(queue)
      /\ UNCHANGED <<mPendingMsgs, modemVars, clientVars>>
  BY DEF HandleRemoveClient, Handling
<1>3. PICK x : x = f[n]
  OBVIOUS
<1>4. AdapterOK(x, DOMAIN cmds) /\ Grows(Adapter, x) /\ a = Masked(x, own) /\ Becomes(a)
  <2>1. a = Masked(x, own) /\ Becomes(a) /\ n \in 0..n
    BY <1>1, <1>3 DEF RemovedInSteps
  <2>2. AdapterOK(x, DOMAIN cmds) /\ Grows(Adapter, x)
    BY <1>1, <1>3, <2>1, EachStopIs
  <2>3. QED
    BY <2>1, <2>2
<1>5. /\ AdapterOK(a, DOMAIN cmds)
      /\ a.crossed <=> x.crossed \/ \E s \in own : mBatchingSessions[s].mode = "trip"
  BY <1>4, MaskIs
<1>6. crossed => a.crossed
  BY <1>4, <1>5, AdapterIs DEF Grows
<1>7. HandlerStep(a)
  BY <1>2, <1>4, <1>5, <1>6 DEF HandlerStep, modemVars, clientVars
<1>8. ASSUME ~crossed, ~crossed', NEW s \in DOMAIN cmds \ refused
      PROVE  AgreesFor(a, s)
  <2>1. ~a.crossed
    BY <1>4, <1>8 DEF Becomes
  <2>2. \A z \in own : mBatchingSessions[z].mode # "trip"
    BY <1>5, <2>1
  <2>3. AllStopped(a, own)
    BY <1>1, <2>2, ClientsAllStopped
  <2>4. ~Names(Head(queue), s) /\ ~Undoes(Head(queue), s)
    BY <1>2 DEF Names, About, Starts, Stops, Queries, OfTrip, Undoes
  <2>5. CASE s \notin own
    BY <2>3, <2>4, <2>5, SparedAgrees DEF AllStopped
  <2>6. CASE s \in own
    <3>1. PICK h, N, S, S2, T, T2 :
            /\ h = Head(queue) /\ N = ToSet(Thens(a.calls)) /\ S = mBatchingSessions
            /\ S2 = a.sessions /\ T = mTripSessions /\ T2 = a.trips
      OBVIOUS
    <3>2. s \in DOMAIN S /\ S[s].mode # "trip"
      BY <1>1, <2>2, <2>6, <3>1 DEF RemovedInSteps
    <3>3. s \notin DOMAIN T
      BY <1>8, <3>1, <3>2 DEF SessionsAgree, PlainOK, Tokens
    <3>4. ~Asked(s)'
      BY <1>7, <1>8, <3>1, <3>2, NotAskedAgain
    <3>5. StoppedPlain(h, N, S, S2, T, T2, s)
      BY <2>3, <2>4, <2>6, <3>1, <3>2, <3>3 DEF StoppedPlain, AllStopped, Stops
    <3>6. Effected(a, s)
      BY <3>1, <3>4, <3>5 DEF Effected, Effect
    <3>7. QED
      BY <2>3, <2>6, <3>6 DEF AgreesFor, AllStopped
  <2>7. QED
    BY <2>5, <2>6
<1>9. QED
  BY <1>7, <1>8, HandlerAgrees

-----------------------------------------------------------------------------
(***************************************************************************)
(* Plain sessions and the restart of the modem.                            *)
(***************************************************************************)
\* The plain sessions that are started again after a restart of the modem.
Restarts(t) ==
  /\ t.op = "ignored" /\ t.arg.session \in PlainSessions
  /\ t.arg.options = mBatchingSessions[t.arg.session]

LEMMA PlainCallsInTurn ==
  ASSUME Types, NEW order, IsSeq(order), ToSet(order) = PlainSessions,
         \A i, j \in 1..Len(order) : i < j => order[i] < order[j],
         NEW m, NEW t, NEW s, Precedes(Thens(CallsOfPlain(order)), m, t)
  PROVE  InTurn(m, t, s)
<1>1. PICK n \in Nat : n = Len(order)
  BY DEF IsSeq
<1>2. PICK v : v = Thens(CallsOfPlain(order))
  OBVIOUS
<1>3. DOMAIN order = 1..n
  BY <1>1 DEF IsSeq
<1>4. DOMAIN v = 1..n /\ \A k \in 1..n : v[k].op = "ignored" /\ v[k].arg.session = order[k]
  BY <1>2, <1>3 DEF Thens, CallsOfPlain, Call, Msg, Job
<1>5. PlainSessions \subseteq Nat
  <2>1. PlainSessions \subseteq DOMAIN cmds
    BY DEF PlainSessions, Types, MapsOK
  <2>2. QED
    BY <2>1, SomeCommandsAreFinite
<1>6. PICK i \in 1..n, j \in 1..n : i < j /\ v[i] = m /\ v[j] = t
  BY <1>2, <1>4 DEF Precedes
<1>7. order[i] < order[j] /\ order[i] \in Nat /\ order[j] \in Nat
  BY <1>1, <1>3, <1>5, <1>6 DEF ToSet
<1>8. m.arg.session # t.arg.session
  BY <1>4, <1>6, <1>7
<1>9. m.op = "ignored" /\ t.op = "ignored"
  BY <1>4, <1>6
<1>10. QED
  BY <1>8, <1>9 DEF InTurn, About, Starts, Stops

RestartCalls(calls) ==
  /\ IsSeq(calls)
  /\ \A t \in ToSet(Thens(calls)) : t.op = "tripResumed" \/ Restarts(t)
  /\ \A s \in PlainSessions : \E t \in ToSet(Thens(calls)) : Starts(t, s)
  /\ \A s, m, t : Precedes(Thens(calls), m, t) => InTurn(m, t, s)

LEMMA RestartCallsAre ==
  ASSUME Types, NEW order, IsSeq(order), ToSet(order) = PlainSessions,
         \A i, j \in 1..Len(order) : i < j => order[i] < order[j],
         NEW a, SessionsRestarted(a, order)
  PROVE  RestartCalls(a.calls)
<1>1. PICK x : x = CallsOfPlain(order)
  OBVIOUS
<1>2. /\ IsSeq(x) /\ \A c \in ToSet(x) : StartedAgain(c)
      /\ \A s \in PlainSessions : \E c \in ToSet(x) : c.then.arg.session = s
  BY <1>1, PlainCallsAre
<1>3. ToSet(Thens(x)) = {c.then : c \in ToSet(x)}
  BY <1>2, ThensIs
<1>4. RestartCalls(x)
  <2>1. \A t \in ToSet(Thens(x)) : Restarts(t)
    BY <1>2, <1>3 DEF StartedAgain, Restarts
  <2>2. ASSUME NEW s \in PlainSessions
        PROVE  \E t \in ToSet(Thens(x)) : Starts(t, s)
    <3>1. PICK c \in ToSet(x) : c.then.arg.session = s
      BY <1>2
    <3>2. c.then \in ToSet(Thens(x)) /\ c.then.op = "ignored"
      BY <1>2, <1>3, <3>1 DEF StartedAgain
    <3>3. QED
      BY <3>1, <3>2 DEF Starts
  <2>3. \A s, m, t : Precedes(Thens(x), m, t) => InTurn(m, t, s)
    BY <1>1, PlainCallsInTurn
  <2>4. QED
    BY <1>2, <2>1, <2>2, <2>3 DEF RestartCalls
<1>5. CASE a.calls = x
  BY <1>4, <1>5
<1>6. ASSUME NEW c, c.then.op = "tripResumed", a.calls = Append(x, c)
      PROVE  RestartCalls(a.calls)
  <2>1. PICK u : u = a.calls
    OBVIOUS
  <2>2. IsSeq(x) /\ u = Append(x, c)
    BY <1>2, <1>6, <2>1
  <2>3. /\ ToSet(Thens(u)) = ToSet(Thens(x)) \cup {c.then}
        /\ \A m, k : Precedes(Thens(u), m, k) =>
             Precedes(Thens(x), m, k) \/ (m \in ToSet(Thens(x)) /\ k = c.then)
    BY <2>2, OneMoreCall
  <2>4. IsSeq(u)
    BY <2>2, SeqsGrow
  <2>5. ASSUME NEW s, NEW m, NEW t, Precedes(Thens(u), m, t)
        PROVE  InTurn(m, t, s)
    <3>1. Precedes(Thens(x), m, t) \/ t = c.then
      BY <2>3, <2>5
    <3>2. Precedes(Thens(x), m, t) => InTurn(m, t, s)
      BY <1>4 DEF RestartCalls
    <3>3. t = c.then => ~About(t, s)
      BY <1>6 DEF About, Starts, Stops
    <3>4. QED
      BY <3>1, <3>2, <3>3 DEF InTurn
  <2>6. RestartCalls(u)
    BY <1>4, <1>6, <2>3, <2>4, <2>5 DEF RestartCalls
  <2>7. QED
    BY <2>1, <2>6
<1>7. QED
  BY <1>1, <1>5, <1>6 DEF SessionsRestarted

\* What is under way when the modem is up again: the rest of the queue, then what was put
\* off, then the responses to come.
LEMMA BehindRestarted ==
  ASSUME Types, queue # <<>>, NEW calls, IsSeq(calls), toModem = <<>>,
         toModem' = toModem \o calls,
         queue' = Tail(queue) \o mPendingMsgs, NEW Q, Q = ToSet(Tail(queue)),
         NEW P, P = ToSet(mPendingMsgs), NEW N, N = ToSet(Thens(calls))
  PROVE  /\ ToSet(queue) = {Head(queue)} \cup Q /\ ToSet(queue') = Q \cup P
         /\ InFlight = {Head(queue)} \cup Q /\ InFlight' = Q \cup P \cup N
         /\ \A m, t : Behind(m, t)' => \/ m \in P \/ t \in P \/ Precedes(Tail(queue), m, t)
                                       \/ (m \in Q /\ t \in N) \/ Precedes(Thens(calls), m, t)
         /\ \A m, t : Precedes(queue', m, t) =>
              m \in P \/ t \in P \/ Precedes(Tail(queue), m, t)
<1>1. PICK q, p, q2, u, v : /\ q = Tail(queue) /\ p = mPendingMsgs /\ q2 = q \o p
                            /\ u = Thens(toModem) /\ v = Thens(calls)
  OBVIOUS
<1>2. /\ IsSeq(q) /\ IsSeq(p) /\ IsSeq(toModem) /\ IsSeq(queue)
      /\ ToSet(queue) = {Head(queue)} \cup Q
  BY <1>1, HeadIs DEF Types, QueueOK
<1>3. IsSeq(q2) /\ ToSet(q2) = Q \cup P /\ queue' = q2
  BY <1>1, <1>2, SeqsGrow, SetsGrow
<1>4. /\ u = <<>> /\ IsSeq(u) /\ IsSeq(v) /\ Thens(toModem \o calls) = u \o v
      /\ IsSeq(toModem \o calls)
  BY <1>1, <1>2, ThensIs, ThensOfNone, SeqsGrow
<1>5. IsSeq(u \o v) /\ ToSet(u \o v) = ToSet(u) \cup N /\ ToSet(u) = {}
  BY <1>1, <1>4, SeqsGrow, SetsGrow, EmptyIsSeq
<1>6. Thens(toModem') = u \o v
  BY <1>4
<1>7. ASSUME NEW m, NEW t
      PROVE  /\ Precedes(q2, m, t) => m \in P \/ t \in P \/ Precedes(q, m, t)
             /\ Precedes(u \o v, m, t) => Precedes(v, m, t)
             /\ Precedes(q2 \o (u \o v), m, t) =>
                  Precedes(q2, m, t) \/ Precedes(u \o v, m, t) \/ (m \in Q \cup P /\ t \in N)
  <2>1. Precedes(q2, m, t) => m \in P \/ t \in P \/ Precedes(q, m, t)
    BY <1>1, <1>2, PrecedesConcat, PrecedesIn
  <2>2. Precedes(u \o v, m, t) => Precedes(v, m, t)
    BY <1>4, <1>5, PrecedesConcat, PrecedesNone
  <2>3. Precedes(q2 \o (u \o v), m, t) =>
                  Precedes(q2, m, t) \/ Precedes(u \o v, m, t) \/ (m \in Q \cup P /\ t \in N)
    BY <1>3, <1>5, PrecedesConcat
  <2>4. QED
    BY <2>1, <2>2, <2>3
<1>8. ASSUME NEW m, NEW t, Behind(m, t)'
      PROVE  \/ m \in P \/ t \in P \/ Precedes(q, m, t)
             \/ (m \in Q /\ t \in N) \/ Precedes(v, m, t)
  <2>1. Precedes(q2 \o (u \o v), m, t)
    BY <1>3, <1>6, <1>8 DEF Behind
  <2>2. QED
    BY <1>7, <2>1
<1>9. InFlight = {Head(queue)} \cup Q /\ InFlight' = Q \cup P \cup N
  BY <1>1, <1>2, <1>3, <1>5, <1>6 DEF InFlight
<1>10. \A m, t : Precedes(queue', m, t) => m \in P \/ t \in P \/ Precedes(q, m, t)
  BY <1>3, <1>7
<1>11. QED
  BY <1>1, <1>2, <1>3, <1>8, <1>9, <1>10

LEMMA RestartKeepsSession ==
  ASSUME Types, SessionsAgree, HandleEngineUp, ~crossed,
         NEW calls, RestartCalls(calls), toModem' = toModem \o calls,
         UNCHANGED <<mBatchingSessions, mTripSessions>>,
         NEW s \in DOMAIN cmds \ refused
  PROVE  PlainOK(s)'
<1>1. PICK h, Q, P, N : /\ h = Head(queue) /\ Q = ToSet(Tail(queue))
                        /\ P = ToSet(mPendingMsgs) /\ N = ToSet(Thens(calls))
  OBVIOUS
<1>2. /\ queue # <<>> /\ h.op = "engineUp" /\ toModem = <<>>
      /\ queue' = Tail(queue) \o mPendingMsgs /\ mPendingMsgs' = <<>>
      /\ UNCHANGED <<modem, refused, cmds>>
  BY <1>1, HandleEngineUpIs DEF modemVars, clientVars
<1>3. /\ ToSet(queue) = {h} \cup Q /\ ToSet(queue') = Q \cup P
      /\ InFlight = {h} \cup Q /\ InFlight' = Q \cup P \cup N
      /\ \A m, t : Behind(m, t)' => \/ m \in P \/ t \in P \/ Precedes(Tail(queue), m, t)
                                    \/ (m \in Q /\ t \in N) \/ Precedes(Thens(calls), m, t)
      /\ \A m, t : Precedes(queue', m, t) => m \in P \/ t \in P \/ Precedes(Tail(queue), m, t)
  BY <1>1, <1>2, BehindRestarted DEF RestartCalls
<1>4. /\ IsSeq(queue) /\ IsSeq(Tail(queue)) /\ IsSeq(mPendingMsgs)
      /\ \A m \in P : m.op = "command"
  BY <1>1, <1>2, HeadIs DEF Types, QueueOK
<1>5. PlainOK(s)
  BY DEF SessionsAgree
<1>6. \A t \in Q : ~About(t, s)
  <2>1. \A t \in Q : Precedes(queue, h, t)
    BY <1>1, <1>2, <1>4, PrecedesTail
  <2>2. QED
    BY <1>2, <1>5, <2>1 DEF PlainOK, Ordered
<1>7. \A m \in P : ~Names(m, s) /\ ~Undoes(m, s)
  BY <1>4 DEF Names, About, Starts, Stops, Queries, OfTrip, Undoes
<1>8. \A t \in N : /\ Names(t, s) => Starts(t, s)
                   /\ Starts(t, s) => /\ s \in PlainSessions /\ t.op = "ignored"
                                      /\ t.arg.options = mBatchingSessions[s]
  BY <1>1 DEF RestartCalls, Restarts, Names, About, Starts, Stops, Queries, OfTrip
<1>9. s \in PlainSessions => \E t \in N : Starts(t, s)
  BY <1>1 DEF RestartCalls
<1>10. DOMAIN modem.batching = {}
  BY <1>2, <1>3 DEF SessionsAgree
<1>11. Ordered(s)'
  <2>1. ASSUME NEW m, NEW t, Behind(m, t)'
        PROVE  InTurn(m, t, s)
    <3>1. CASE m \in P \/ t \in P \/ m \in Q
      BY <1>6, <1>7, <3>1 DEF InTurn, Names
    <3>2. CASE Precedes(Tail(queue), m, t)
      BY <1>1, <1>6, <3>2, PrecedesIn DEF InTurn
    <3>3. CASE Precedes(Thens(calls), m, t)
      BY <3>3 DEF RestartCalls
    <3>4. QED
      BY <1>3, <2>1, <3>1, <3>2, <3>3
  <2>2. ASSUME NEW m, NEW t, Precedes(queue' \o mPendingMsgs', m, t)
        PROVE  ~Asks(m, s) \/ ~Asks(t, s)
    <3>1. PICK q, p, q2 : q = Tail(queue) /\ p = mPendingMsgs /\ q2 = q \o p
      OBVIOUS
    <3>2. IsSeq(q2) /\ q2 \o <<>> = q2
      <4>1. IsSeq(q2)
        BY <1>4, <3>1, SeqsGrow
      <4>2. QED
        BY <4>1 DEF IsSeq
    <3>3. Precedes(q2, m, t)
      BY <1>2, <2>2, <3>1, <3>2
    <3>4. Precedes(q, m, t) => Precedes(queue, m, t)
      BY <1>2, <1>4, <3>1, PrecedesTail
    <3>5. Precedes(queue \o p, m, t)
      BY <1>1, <1>3, <1>4, <3>1, <3>3, <3>4, PrecedesConcat
    <3>6. QED
      BY <1>5, <3>1, <3>5 DEF PlainOK, Ordered
  <2>3. ASSUME NEW m, NEW t, Precedes(queue', m, t)
        PROVE  ~About(t, s)
    <3>1. t \in Q \cup P
      BY <1>3, <2>3, PrecedesIn
    <3>2. QED
      BY <1>6, <1>7, <3>1 DEF Names
  <2>4. QED
    BY <2>1, <2>2, <2>3 DEF Ordered
<1>12. Asked(s)' => Unknown(InFlight', mBatchingSessions, mTripSessions, s)
  <2> SUFFICES ASSUME Asked(s)'
               PROVE  Unknown(InFlight', mBatchingSessions, mTripSessions, s)
    OBVIOUS
  <2>1. ToSet(mPendingMsgs') = {}
    BY <1>2, EmptyIsSeq
  <2>2. Asked(s)
    BY <1>1, <1>2, <1>3, <2>1 DEF Asked
  <2>3. Unknown({h} \cup Q, mBatchingSessions, mTripSessions, s)
    BY <1>3, <1>5, <2>2 DEF PlainOK
  <2>4. s \notin PlainSessions
    BY <2>3 DEF Unknown, PlainSessions
  <2>5. QED
    BY <1>3, <1>7, <1>8, <2>3, <2>4 DEF Unknown
<1>13. Tokens(Q \cup P \cup N, mBatchingSessions, mTripSessions, s)
  <2>1. Tokens({h} \cup Q, mBatchingSessions, mTripSessions, s)
    BY <1>3, <1>5 DEF PlainOK
  <2>2. PICK S, T : S = mBatchingSessions /\ T = mTripSessions
    OBVIOUS
  <2>3. \A m \in N : /\ ~Stops(m, s) /\ ~Queries(m, s) /\ ~OfTrip(m, s)
                     /\ Starts(m, s) => s \in DOMAIN S /\ S[s] = m.arg.options
    BY <1>8, <2>2 DEF PlainSessions, Names, About, Starts, Stops, Queries, OfTrip
  <2>4. \A m \in P : ~Stops(m, s) /\ ~Queries(m, s) /\ ~OfTrip(m, s) /\ ~Starts(m, s)
    BY <1>7 DEF Names, About
  <2>5. \A m \in Q : ~Stops(m, s) /\ ~Starts(m, s)
    BY <1>6 DEF About
  <2>6. Tokens({h} \cup Q, S, T, s)
    BY <2>1, <2>2
  <2>7. Tokens(Q \cup P \cup N, S, T, s)
    BY <2>3, <2>4, <2>5, <2>6 DEF Tokens
  <2>8. QED
    BY <2>2, <2>7
<1>14. Served(Q \cup P, N, mBatchingSessions, modem.batching, s)
  BY <1>3, <1>5, <1>7, <1>9, <1>10 DEF Served, PlainSessions
<1>15. ToSet(Thens(toModem')) = N
  <2>1. PICK u, v : u = Thens(toModem) /\ v = Thens(calls)
    OBVIOUS
  <2>2. /\ IsSeq(u) /\ IsSeq(v) /\ Thens(toModem \o calls) = u \o v /\ ToSet(u) = {}
    BY <1>2, <2>1, ThensIs, ThensOfNone, EmptyIsSeq DEF RestartCalls, Types, QueueOK
  <2>3. ToSet(u \o v) = ToSet(u) \cup ToSet(v)
    BY <2>2, SetsGrow
  <2>4. Thens(toModem') = u \o v
    BY <2>2
  <2>5. QED
    BY <1>1, <2>1, <2>2, <2>3, <2>4
<1>16. QED
  BY <1>2, <1>3, <1>11, <1>12, <1>13, <1>14, <1>15 DEF PlainOK

LEMMA HandleEngineUpAgrees ==
  ASSUME Types, SessionsAgree, HandleEngineUp
  PROVE  SessionsAgree'
<1>1. /\ queue # <<>> /\ Head(queue).op = "engineUp" /\ toModem = <<>>
      /\ queue' = Tail(queue) \o mPendingMsgs /\ mPendingMsgs' = <<>>
      /\ UNCHANGED <<modem, refused, cmds>>
  BY HandleEngineUpIs DEF modemVars, clientVars
<1>2. PICK a, order : /\ SessionsRestarted(a, order) /\ Becomes(a)
                      /\ IsSeq(order) /\ ToSet(order) = PlainSessions
                      /\ \A i, j \in 1..Len(order) : i < j => order[i] < order[j]
  BY HandleEngineUpIs
<1>3. PICK calls : calls = a.calls
  OBVIOUS
<1>4. /\ RestartCalls(calls) /\ toModem' = toModem \o calls
      /\ mBatchingSessions' = mBatchingSessions /\ mTripSessions' = mTripSessions
  BY <1>2, <1>3, RestartCallsAre DEF Becomes, SessionsRestarted
<1>5. PICK Q, P, N : /\ Q = ToSet(Tail(queue)) /\ P = ToSet(mPendingMsgs)
                     /\ N = ToSet(Thens(calls))
  OBVIOUS
<1>6. /\ ToSet(queue) = {Head(queue)} \cup Q /\ ToSet(queue') = Q \cup P
      /\ \A m, t : Behind(m, t)' => \/ m \in P \/ t \in P \/ Precedes(Tail(queue), m, t)
                                    \/ (m \in Q /\ t \in N) \/ Precedes(Thens(calls), m, t)
  BY <1>1, <1>4, <1>5, BehindRestarted DEF RestartCalls
<1>7. \A m \in P : m.op = "command"
  BY <1>5 DEF Types, QueueOK
<1>8. (\E m \in ToSet(queue') : m.op = "engineUp") => DOMAIN modem'.batching = {}
  BY <1>1, <1>6 DEF SessionsAgree
<1>9. \A m \in ToSet(queue') : m.op = "stopped" /\ ~m.ok => m.arg.job.session \in refused'
  BY <1>1, <1>6, <1>7 DEF SessionsAgree
<1>10. ASSUME ~crossed'
       PROVE  OneTrip' /\ \A s \in DOMAIN cmds' \ refused' : PlainOK(s)'
  <2>1. ~crossed /\ ~TripsCross(a)
    BY <1>2, <1>10 DEF Becomes, SessionsRestarted
  <2>2. ASSUME NEW m, NEW t, Behind(m, t)'
        PROVE  m.op \notin TripResponses \/ t.op \notin TripResponses
    <3>1. CASE m \in P \/ t \in P
      BY <1>7, <3>1 DEF TripResponses
    <3>2. CASE \/ Precedes(Tail(queue), m, t) \/ (m \in Q /\ t \in N)
               \/ Precedes(Thens(calls), m, t)
      <4>1. PICK q, v, w : q = Tail(queue) /\ v = Thens(calls) /\ w = Thens(toModem \o calls)
        OBVIOUS
      <4>2. IsSeq(q) /\ IsSeq(v)
        BY <1>1, <1>4, <4>1, HeadIs, ThensIs DEF RestartCalls
      <4>3. w = v
        <5>1. w = Thens(toModem) \o v /\ Thens(toModem) = <<>>
          BY <1>1, <1>4, <4>1, ThensIs, ThensOfNone DEF RestartCalls, Types, QueueOK
        <5>2. QED
          BY <4>2, <5>1 DEF IsSeq
      <4>4. Precedes(q \o v, m, t)
        BY <1>5, <3>2, <4>1, <4>2, PrecedesConcat
      <4>5. Precedes(UnderWay(a), m, t)
        BY <1>3, <4>1, <4>3, <4>4 DEF UnderWay
      <4>6. PICK i \in DOMAIN UnderWay(a), j \in DOMAIN UnderWay(a) :
              i < j /\ UnderWay(a)[i] = m /\ UnderWay(a)[j] = t
        BY <4>5 DEF Precedes
      <4>7. ~({m.op, t.op} \subseteq TripResponses)
        BY <2>1, <4>6 DEF TripsCross
      <4>8. QED
        BY <4>7
    <3>3. QED
      BY <1>6, <2>2, <3>1, <3>2
  <2>3. OneTrip'
    BY <2>2 DEF OneTrip
  <2>4. QED
    BY <1>1, <1>4, <2>1, <2>3, RestartKeepsSession
<1>11. QED
  BY <1>8, <1>9, <1>10 DEF SessionsAgree

-----------------------------------------------------------------------------
(***************************************************************************)
(* Plain sessions, the clients, the device and the modem.                  *)
(***************************************************************************)
\* A message is put into the queue.
Queued(x) ==
  queue' = Append(queue, x) /\ toModem' = toModem /\ mPendingMsgs' = mPendingMsgs

LEMMA BehindQueued ==
  ASSUME Types, NEW x, Queued(x)
  PROVE  /\ ToSet(queue') = ToSet(queue) \cup {x} /\ InFlight' = InFlight \cup {x}
         /\ \A m, t : Behind(m, t)' => Behind(m, t) \/ m = x \/ t = x
         /\ \A m, t : Precedes(queue', m, t) => Precedes(queue, m, t) \/ t = x
         /\ \A m, t : Precedes(queue' \o mPendingMsgs', m, t) =>
              Precedes(queue \o mPendingMsgs, m, t) \/ m = x \/ t = x
<1>1. PICK q, q2, p, v : q = queue /\ q2 = Append(q, x) /\ p = mPendingMsgs /\ v = Thens(toModem)
  OBVIOUS
<1>2. IsSeq(q) /\ IsSeq(p) /\ IsSeq(v) /\ IsSeq(q2) /\ ToSet(q2) = ToSet(q) \cup {x}
  <2>1. IsSeq(q) /\ IsSeq(p) /\ IsSeq(toModem)
    BY <1>1 DEF Types, QueueOK
  <2>2. QED
    BY <1>1, <2>1, SeqsGrow, SetsGrow, ThensIs
<1>3. queue' = q2 /\ mPendingMsgs' = p /\ Thens(toModem') = v
  BY <1>1 DEF Queued
<1>4. ASSUME NEW m, NEW t
      PROVE  Precedes(q2, m, t) => Precedes(q, m, t) \/ t = x
  BY <1>1, <1>2, PrecedesAppend
<1>5. ASSUME NEW m, NEW t, NEW r, IsSeq(r), Precedes(q2 \o r, m, t)
      PROVE  Precedes(q \o r, m, t) \/ m = x \/ t = x
  <2>1. Precedes(q2, m, t) \/ Precedes(r, m, t) \/ (m \in ToSet(q2) /\ t \in ToSet(r))
    BY <1>2, <1>5, PrecedesConcat
  <2>2. Precedes(q, m, t) \/ Precedes(r, m, t) \/ (m \in ToSet(q) /\ t \in ToSet(r))
          => Precedes(q \o r, m, t)
    BY <1>2, <1>5, PrecedesConcat
  <2>3. QED
    BY <1>2, <1>4, <2>1, <2>2
<1>6. \A m, t : Behind(m, t)' => Behind(m, t) \/ m = x \/ t = x
  BY <1>1, <1>2, <1>3, <1>5 DEF Behind
<1>7. \A m, t : Precedes(queue' \o mPendingMsgs', m, t) =>
        Precedes(queue \o mPendingMsgs, m, t) \/ m = x \/ t = x
  BY <1>1, <1>2, <1>3, <1>5
<1>8. InFlight' = InFlight \cup {x}
  BY <1>1, <1>2, <1>3 DEF InFlight
<1>9. QED
  BY <1>1, <1>2, <1>3, <1>4, <1>6, <1>7, <1>8

\* A message that is about other sessions.
LEMMA QueuedKeepsSession ==
  ASSUME Types, NEW s, PlainOK(s), NEW x, Queued(x), ~Names(x, s), ~Asks(x, s),
         x.op # "engineUp", UNCHANGED <<mBatchingSessions, mTripSessions, modem.batching>>,
         cmds'[s] = cmds[s]
  PROVE  PlainOK(s)'
<1>1. PICK Q, W, M, S, T, B :
        /\ Q = ToSet(queue) /\ W = InFlight /\ M = ToSet(Thens(toModem))
        /\ S = mBatchingSessions /\ T = mTripSessions /\ B = modem.batching
  OBVIOUS
<1>2. /\ ToSet(queue') = Q \cup {x} /\ InFlight' = W \cup {x}
      /\ \A m, t : Behind(m, t)' => Behind(m, t) \/ m = x \/ t = x
      /\ \A m, t : Precedes(queue', m, t) => Precedes(queue, m, t) \/ t = x
      /\ \A m, t : Precedes(queue' \o mPendingMsgs', m, t) =>
           Precedes(queue \o mPendingMsgs, m, t) \/ m = x \/ t = x
  BY <1>1, BehindQueued
<1>3. /\ ToSet(Thens(toModem')) = M /\ mPendingMsgs' = mPendingMsgs
      /\ mBatchingSessions' = S /\ mTripSessions' = T /\ modem'.batching = B
  BY <1>1 DEF Queued
<1>4. ~About(x, s) /\ ~Starts(x, s) /\ ~Stops(x, s) /\ ~Queries(x, s) /\ ~OfTrip(x, s)
      /\ ~Undoes(x, s)
  BY DEF Names, About, Starts, Undoes
<1>5. Ordered(s)'
  <2>1. \A m, t : Behind(m, t)' => InTurn(m, t, s)
    BY <1>2, <1>4 DEF PlainOK, Ordered, InTurn
  <2>2. \A m, t : Precedes(queue' \o mPendingMsgs', m, t) => ~Asks(m, s) \/ ~Asks(t, s)
    BY <1>2 DEF PlainOK, Ordered
  <2>3. \A m, t : Precedes(queue', m, t) /\ m.op = "engineUp" => ~About(t, s)
    BY <1>2, <1>4 DEF PlainOK, Ordered
  <2>4. QED
    BY <2>1, <2>2, <2>3 DEF Ordered
<1>6. Asked(s)' => Unknown(W \cup {x}, S, T, s)
  <2>1. Asked(s)' => Asked(s)
    BY <1>1, <1>2, <1>3 DEF Asked
  <2>2. QED
    BY <1>1, <2>1 DEF PlainOK, Unknown
<1>7. Tokens(W \cup {x}, S, T, s)
  <2>1. Tokens(W, S, T, s)
    BY <1>1 DEF PlainOK
  <2>2. QED
    BY <1>4, <2>1 DEF Tokens
<1>8. Served(Q \cup {x}, M, S, B, s)
  <2>1. Served(Q, M, S, B, s)
    BY <1>1 DEF PlainOK
  <2>2. QED
    BY <1>4, <2>1 DEF Served
<1>9. QED
  BY <1>2, <1>3, <1>5, <1>6, <1>7, <1>8 DEF PlainOK

LEMMA QueuedAgrees ==
  ASSUME Types, SessionsAgree, NEW x, Queued(x), x.op \in {"command", "removeClient", "completed"},
         UNCHANGED <<mBatchingSessions, mTripSessions, modem.batching, refused, crossed>>,
         \A s \in DOMAIN cmds' \ refused :
           \/ s \in DOMAIN cmds /\ cmds'[s] = cmds[s] /\ ~Asks(x, s)
           \/ ~crossed => PlainOK(s)'
  PROVE  SessionsAgree'
<1>1. /\ ToSet(queue') = ToSet(queue) \cup {x}
      /\ \A m, t : Behind(m, t)' => Behind(m, t) \/ m = x \/ t = x
  BY BehindQueued
<1>2. (\E m \in ToSet(queue') : m.op = "engineUp") => DOMAIN modem'.batching = {}
  BY <1>1 DEF SessionsAgree
<1>3. \A m \in ToSet(queue') : m.op = "stopped" /\ ~m.ok => m.arg.job.session \in refused'
  BY <1>1 DEF SessionsAgree
<1>4. ASSUME ~crossed
      PROVE  OneTrip' /\ \A s \in DOMAIN cmds' \ refused' : PlainOK(s)'
  <2>1. OneTrip'
    BY <1>1, <1>4 DEF SessionsAgree, OneTrip, TripResponses
  <2>2. ASSUME NEW s \in DOMAIN cmds' \ refused
        PROVE  PlainOK(s)'
    <3>1. CASE s \in DOMAIN cmds /\ cmds'[s] = cmds[s] /\ ~Asks(x, s)
      <4>1. PlainOK(s)
        BY <1>4, <2>2, <3>1 DEF SessionsAgree
      <4>2. ~Names(x, s) /\ x.op # "engineUp"
        BY DEF Names, About, Starts, Stops, Queries, OfTrip
      <4>3. QED
        BY <3>1, <4>1, <4>2, QueuedKeepsSession
    <3>2. QED
      BY <1>4, <2>2, <3>1
  <2>3. QED
    BY <2>1, <2>2
<1>5. QED
  BY <1>2, <1>3, <1>4 DEF SessionsAgree

LEMMA DestroyAgrees ==
  ASSUME Types, SessionsAgree, NEW c, Destroy(c)
  PROVE  SessionsAgree'
<1>1. PICK x : x = Msg("removeClient", c)
  OBVIOUS
<1>2. /\ Queued(x) /\ cmds' = cmds
      /\ UNCHANGED <<mBatchingSessions, mTripSessions, modem, refused, crossed>>
  BY <1>1 DEF Destroy, Queued, sessionVars, modemVars
<1>3. x.op = "removeClient" /\ \A s : ~Asks(x, s)
  BY <1>1 DEF Msg, Asks
<1>4. QED
  BY <1>2, <1>3, QueuedAgrees

LEMMA DeviceMovesAgrees ==
  ASSUME Types, SessionsAgree, DeviceMoves
  PROVE  SessionsAgree'
<1>1. /\ UNCHANGED <<mBatchingSessions, mTripSessions, toModem, mPendingMsgs, refused, cmds,
                     crossed>>
      /\ \E t : modem' = [modem EXCEPT !.trip = t]
      /\ queue' = queue \/ \E distance : queue' = Append(queue, Msg("completed", distance))
  BY DEF DeviceMoves, clientVars
<1>2. modem'.batching = modem.batching
  BY <1>1 DEF Types, MapsOK
<1>3. CASE queue' = queue
  <2>1. \A s : Ordered(s)' <=> Ordered(s)
    BY <1>1, <1>3 DEF Ordered, Behind
  <2>2. InFlight' = InFlight /\ \A s : Asked(s)' <=> Asked(s)
    BY <1>1, <1>3 DEF InFlight, Asked
  <2>3. \A s : PlainOK(s)' <=> PlainOK(s)
    BY <1>1, <1>2, <1>3, <2>1, <2>2 DEF PlainOK
  <2>4. OneTrip' <=> OneTrip
    BY <1>1, <1>3 DEF OneTrip, Behind
  <2>5. QED
    BY <1>1, <1>2, <1>3, <2>3, <2>4 DEF SessionsAgree
<1>4. ASSUME NEW distance, queue' = Append(queue, Msg("completed", distance))
      PROVE  SessionsAgree'
  <2>1. PICK x : x = Msg("completed", distance)
    OBVIOUS
  <2>2. Queued(x)
    BY <1>1, <1>4, <2>1 DEF Queued
  <2>3. x.op = "completed" /\ \A s : ~Asks(x, s)
    BY <2>1 DEF Msg, Asks
  <2>4. QED
    BY <1>1, <1>2, <2>2, <2>3, QueuedAgrees
<1>5. QED
  BY <1>1, <1>3, <1>4

\* A session that was not asked for yet is known to nothing.
LEMMA NewIsUnknown ==
  ASSUME Types, NEW s, s \notin DOMAIN cmds
  PROVE  /\ \A m \in InFlight \cup ToSet(mPendingMsgs) : ~Names(m, s) /\ ~Asks(m, s)
         /\ s \notin DOMAIN mBatchingSessions \cup DOMAIN mTripSessions
         /\ s \notin DOMAIN modem.batching
<1>1. PICK D : D = DOMAIN cmds
  OBVIOUS
<1>2. IsSeq(toModem) /\ ToSet(Thens(toModem)) = {c.then : c \in ToSet(toModem)}
  BY ThensIs DEF Types, QueueOK
<1>3. ASSUME NEW m \in InFlight \cup ToSet(mPendingMsgs)
      PROVE  MsgOK(m, D)
  BY <1>1, <1>2, <1>3 DEF InFlight, Types, QueueOK, CallOK
<1>4. ASSUME NEW m, MsgOK(m, D)
      PROVE  ~Names(m, s) /\ ~Asks(m, s)
  BY <1>1, <1>4 DEF MsgOK, JobOK, JobOps, Names, About, Starts, Stops, Queries, OfTrip, Asks
<1>5. QED
  BY <1>3, <1>4 DEF Types, MapsOK

LEMMA NewSessionAgrees ==
  ASSUME Types, NEW s, s \notin DOMAIN cmds, NEW x, Queued(x), x.op = "command",
         UNCHANGED <<mBatchingSessions, mTripSessions, modem.batching>>
  PROVE  PlainOK(s)'
<1>1. PICK q, p, v : q = queue /\ p = mPendingMsgs /\ v = Thens(toModem)
  OBVIOUS
<1>2. IsSeq(q) /\ IsSeq(p) /\ IsSeq(v)
  BY <1>1, ThensIs DEF Types, QueueOK
<1>3. /\ \A m \in ToSet(q) \cup ToSet(v) \cup ToSet(p) : ~Names(m, s) /\ ~Asks(m, s)
      /\ InFlight = ToSet(q) \cup ToSet(v)
  BY <1>1, NewIsUnknown DEF InFlight
<1>4. ~Names(x, s)
  BY DEF Names, About, Starts, Stops, Queries, OfTrip
<1>5. /\ ToSet(queue') = ToSet(q) \cup {x} /\ InFlight' = InFlight \cup {x}
      /\ \A m, t : Behind(m, t)' => Behind(m, t) \/ m = x \/ t = x
      /\ \A m, t : Precedes(queue', m, t) => Precedes(q, m, t) \/ t = x
  BY <1>1, BehindQueued
<1>6. \A m \in InFlight' : ~Names(m, s)
  BY <1>3, <1>4, <1>5
<1>7. Ordered(s)'
  <2>1. ASSUME NEW m, NEW t, Behind(m, t)'
        PROVE  InTurn(m, t, s)
    <3>1. Behind(m, t) => m \in InFlight
      <4>1. Precedes(q \o v, m, t) => m \in ToSet(q) \cup ToSet(v)
        BY <1>2, PrecedesIn, SetsGrow
      <4>2. QED
        BY <1>1, <1>3, <4>1 DEF Behind
    <3>2. ~Names(m, s) \/ ~Names(t, s)
      BY <1>3, <1>4, <1>5, <2>1, <3>1
    <3>3. QED
      BY <3>2 DEF InTurn, Names
  <2>2. ASSUME NEW m, NEW t, Precedes(queue' \o mPendingMsgs', m, t)
        PROVE  ~Asks(m, s) \/ ~Asks(t, s)
    <3>1. PICK q2 : q2 = Append(q, x)
      OBVIOUS
    <3>2. IsSeq(q2) /\ Precedes(q2 \o p, m, t)
      BY <1>1, <1>2, <2>2, <3>1, SeqsGrow DEF Queued
    <3>3. Precedes(q2, m, t) \/ Precedes(p, m, t) \/ (m \in ToSet(q2) /\ t \in ToSet(p))
      BY <1>2, <3>2, PrecedesConcat
    <3>4. Precedes(q2, m, t) => Precedes(q, m, t) \/ (m \in ToSet(q) /\ t = x)
      BY <1>2, <3>1, PrecedesAppend
    <3>5. QED
      BY <1>3, <3>3, <3>4, PrecedesIn
  <2>3. ASSUME NEW m, NEW t, Precedes(queue', m, t)
        PROVE  ~About(t, s)
    BY <1>3, <1>4, <1>5, <2>3, PrecedesIn DEF Names
  <2>4. QED
    BY <2>1, <2>2, <2>3 DEF Ordered
<1>8. PICK S, T, B : S = mBatchingSessions /\ T = mTripSessions /\ B = modem.batching
  OBVIOUS
<1>9. /\ s \notin DOMAIN S \cup DOMAIN T /\ s \notin DOMAIN B
      /\ mBatchingSessions' = S /\ mTripSessions' = T /\ modem'.batching = B
  BY <1>8, NewIsUnknown
<1>10. Unknown(InFlight', S, T, s)
  BY <1>6, <1>9 DEF Unknown
<1>11. Tokens(InFlight', S, T, s)
  BY <1>6, <1>9 DEF Tokens, Names, About
<1>12. Served(ToSet(queue'), ToSet(Thens(toModem')), S, B, s)
  <2>1. PICK Q, M : Q = ToSet(queue') /\ M = ToSet(Thens(toModem'))
    OBVIOUS
  <2>2. Served(Q, M, S, B, s)
    BY <1>9 DEF Served
  <2>3. QED
    BY <2>1, <2>2
<1>13. QED
  BY <1>7, <1>9, <1>10, <1>11, <1>12 DEF PlainOK

LEMMA GiveCommandAgrees ==
  ASSUME Types, SessionsAgree, NEW op, NEW c, NEW s, NEW options, GiveCommand(op, c, s, options)
  PROVE  SessionsAgree'
<1>1. PICK n, cmd, x : /\ n = Len(cmds) /\ x = Msg("command", n + 1)
                       /\ cmd = [op |-> op, client |-> c, session |-> s, options |-> options]
  OBVIOUS
<1>2. n \in Nat /\ DOMAIN cmds = 1..n /\ IsSeq(cmds)
  BY <1>1 DEF Types, CmdsOK, IsSeq
<1>3. /\ cmds' = Append(cmds, cmd) /\ Queued(x)
      /\ UNCHANGED <<mBatchingSessions, mTripSessions, modem, refused, crossed>>
  BY <1>1 DEF GiveCommand, Queued, sessionVars, modemVars
<1>4. IsSeq(cmds') /\ DOMAIN cmds' = 1..(n + 1)
  BY <1>1, <1>2, <1>3, SeqsGrow DEF IsSeq
<1>5. \A k \in DOMAIN cmds : cmds'[k] = cmds[k]
  <2>1. PICK S : cmds \in Seq(S) /\ cmd \in S
    <3>1. PICK S : S = ToSet(cmds) \cup {cmd}
      OBVIOUS
    <3>2. QED
      BY <1>2, <3>1, SeqOfMore DEF IsSeq
  <2>2. QED
    BY <1>1, <1>3, <2>1
<1>6. x.op = "command" /\ x.arg = n + 1
  BY <1>1 DEF Msg
<1>7. ASSUME NEW k \in DOMAIN cmds' \ refused
      PROVE  \/ k \in DOMAIN cmds /\ cmds'[k] = cmds[k] /\ ~Asks(x, k)
             \/ PlainOK(k)'
  <2>1. CASE k \in DOMAIN cmds
    <3>1. k # n + 1
      BY <1>2, <2>1
    <3>2. QED
      BY <1>5, <1>6, <2>1, <3>1 DEF Asks
  <2>2. CASE k \notin DOMAIN cmds
    BY <1>3, <1>6, <2>2, NewSessionAgrees
  <2>3. QED
    BY <2>1, <2>2
<1>8. QED
  BY <1>3, <1>6, <1>7, QueuedAgrees

LEMMA ClientNextAgrees ==
  ASSUME Types, SessionsAgree, ClientNext
  PROVE  SessionsAgree'
<1>1. PICK c : \/ \E op, s, options : GiveCommand(op, c, s, options)
               \/ Destroy(c)
  BY DEF ClientNext, StartBatchingCommand, UpdateBatchingOptionsCommand, StopBatchingCommand,
     GetBatchedLocationsCommand
<1>2. QED
  BY <1>1, GiveCommandAgrees, DestroyAgrees

\* The modem turns what is to come into what has come: a response is put into the queue
\* for each call, about the same.
Alike(m, r)  == r.op = m.op /\ r.arg = m.arg
Twins(W, W2) ==
  /\ \A r \in W2 : r.op = "engineUp" \/ \E m \in W : Alike(m, r)
  /\ \A m \in W : \E r \in W2 : Alike(m, r)

Turned ==
  /\ Twins(InFlight, InFlight')
  /\ \A m, t : Behind(m, t)' =>
       t.op = "engineUp" \/ \E m0, t0 : Behind(m0, t0) /\ Alike(m0, m) /\ Alike(t0, t)
  /\ \A m \in ToSet(queue') : m \in ToSet(queue) \/ m.op # "command"
  /\ \A m, t : Precedes(queue' \o mPendingMsgs', m, t) =>
       \/ m.op # "command" \/ t.op # "command" \/ Precedes(queue \o mPendingMsgs, m, t)
  /\ UNCHANGED <<mBatchingSessions, mTripSessions, mPendingMsgs, cmds, crossed>>

LEMMA AlikeAbout ==
  ASSUME NEW m, NEW r, Alike(m, r), NEW s
  PROVE  /\ Starts(m, s) <=> Starts(r, s)
         /\ Stops(m, s) <=> Stops(r, s)
         /\ About(m, s) <=> About(r, s)
         /\ Queries(m, s) <=> Queries(r, s)
         /\ OfTrip(m, s) <=> OfTrip(r, s)
         /\ Names(m, s) <=> Names(r, s)
BY DEF Alike, Starts, Stops, About, Queries, OfTrip, Names

LEMMA EngineUpIsAboutNothing ==
  ASSUME NEW m, m.op = "engineUp", NEW s
  PROVE  /\ ~Starts(m, s) /\ ~Stops(m, s) /\ ~About(m, s) /\ ~Queries(m, s) /\ ~OfTrip(m, s)
         /\ ~Names(m, s) /\ ~Undoes(m, s) /\ ~Asks(m, s)
BY DEF Starts, Stops, About, Queries, OfTrip, Names, Undoes, Asks

LEMMA TwinsAgree ==
  ASSUME NEW W, NEW W2, Twins(W, W2), NEW S, NEW T, NEW s
  PROVE  /\ Tokens(W, S, T, s) => Tokens(W2, S, T, s)
         /\ Unknown(W, S, T, s) => Unknown(W2, S, T, s)
<1>1. ASSUME NEW r \in W2
      PROVE  \/ /\ ~Starts(r, s) /\ ~Stops(r, s) /\ ~Queries(r, s) /\ ~OfTrip(r, s)
                /\ ~Names(r, s)
             \/ \E m \in W : /\ Starts(m, s) <=> Starts(r, s)
                             /\ Stops(m, s) <=> Stops(r, s)
                             /\ Queries(m, s) <=> Queries(r, s)
                             /\ OfTrip(m, s) <=> OfTrip(r, s)
                             /\ Names(m, s) <=> Names(r, s)
                             /\ r.arg = m.arg
  <2>1. CASE r.op = "engineUp"
    BY <2>1, EngineUpIsAboutNothing
  <2>2. CASE \E m \in W : Alike(m, r)
    <3>1. PICK m \in W : Alike(m, r)
      BY <2>2
    <3>2. r.arg = m.arg
      BY <3>1 DEF Alike
    <3>3. QED
      BY <3>1, <3>2, AlikeAbout
  <2>3. QED
    BY <2>1, <2>2 DEF Twins
<1>2. \A m \in W : Stops(m, s) => \E r \in W2 : Stops(r, s)
  BY AlikeAbout DEF Twins
<1>3. Tokens(W, S, T, s) => Tokens(W2, S, T, s)
  <2> SUFFICES ASSUME Tokens(W, S, T, s)
               PROVE  Tokens(W2, S, T, s)
    OBVIOUS
  <2>1. \A r \in W2 : Stops(r, s) \/ Queries(r, s) => s \notin DOMAIN S \cup DOMAIN T
    BY <1>1 DEF Tokens
  <2>2. \A r, t \in W2 : ~Stops(r, s) \/ ~Queries(t, s)
    <3>1. (\E r \in W2 : Stops(r, s)) => \E m \in W : Stops(m, s)
      BY <1>1
    <3>2. (\E r \in W2 : Queries(r, s)) => \E m \in W : Queries(m, s)
      BY <1>1
    <3>3. QED
      BY <3>1, <3>2 DEF Tokens
  <2>3. \A r \in W2 : Starts(r, s) =>
          (\E t \in W2 : Stops(t, s)) \/ (s \in DOMAIN S /\ S[s] = r.arg.options)
    <3> SUFFICES ASSUME NEW r \in W2, Starts(r, s)
                 PROVE  (\E t \in W2 : Stops(t, s)) \/ (s \in DOMAIN S /\ S[s] = r.arg.options)
      OBVIOUS
    <3>1. PICK m \in W : Starts(m, s) /\ r.arg = m.arg
      BY <1>1
    <3>2. (\E t \in W : Stops(t, s)) \/ (s \in DOMAIN S /\ S[s] = m.arg.options)
      BY <3>1 DEF Tokens
    <3>3. QED
      BY <1>2, <3>1, <3>2
  <2>4. \A r \in W2 : OfTrip(r, s) => DOMAIN T = {s} /\ s \in DOMAIN S /\ S[s].mode = "trip"
    BY <1>1 DEF Tokens
  <2>5. QED
    BY <2>1, <2>2, <2>3, <2>4 DEF Tokens
<1>4. Unknown(W, S, T, s) => Unknown(W2, S, T, s)
  BY <1>1 DEF Unknown
<1>5. QED
  BY <1>3, <1>4

LEMMA TurnedKeepsSession ==
  ASSUME Turned, NEW s, PlainOK(s),
         \A m, t : Precedes(queue', m, t) /\ m.op = "engineUp" => ~About(t, s),
         Served(ToSet(queue'), ToSet(Thens(toModem')), mBatchingSessions, modem'.batching, s)
  PROVE  PlainOK(s)'
<1>1. PICK W, W2, S, T : /\ W = InFlight /\ W2 = InFlight'
                         /\ S = mBatchingSessions /\ T = mTripSessions
  OBVIOUS
<1>2. Twins(W, W2)
  BY <1>1 DEF Turned
<1>3. Tokens(W2, S, T, s)
  <2>1. Tokens(W, S, T, s)
    BY <1>1 DEF PlainOK
  <2>2. QED
    BY <1>2, <2>1, TwinsAgree
<1>4. Ordered(s)'
  <2>1. ASSUME NEW m, NEW t, Behind(m, t)'
        PROVE  InTurn(m, t, s)
    <3>1. CASE t.op = "engineUp"
      BY <3>1, EngineUpIsAboutNothing DEF InTurn
    <3>2. ASSUME NEW m0, NEW t0, Behind(m0, t0), Alike(m0, m), Alike(t0, t)
          PROVE  InTurn(m, t, s)
      <4>1. InTurn(m0, t0, s)
        BY <3>2 DEF PlainOK, Ordered
      <4>2. (About(m0, s) <=> About(m, s)) /\ (About(t0, s) <=> About(t, s))
        BY <3>2, AlikeAbout
      <4>3. m.op = m0.op /\ t.op = t0.op
        BY <3>2 DEF Alike
      <4>4. QED
        BY <4>1, <4>2, <4>3 DEF InTurn
    <3>3. QED
      BY <2>1, <3>1, <3>2 DEF Turned
  <2>2. \A m, t : Precedes(queue' \o mPendingMsgs', m, t) => ~Asks(m, s) \/ ~Asks(t, s)
    BY DEF Turned, PlainOK, Ordered, Asks
  <2>3. QED
    BY <2>1, <2>2 DEF Ordered
<1>5. Asked(s)' => Unknown(W2, S, T, s)
  <2>1. Asked(s)' => Asked(s)
    BY DEF Turned, Asked, Asks
  <2>2. Asked(s) => Unknown(W, S, T, s)
    BY <1>1 DEF PlainOK
  <2>3. QED
    BY <1>2, <2>1, <2>2, TwinsAgree
<1>6. mBatchingSessions' = S /\ mTripSessions' = T
  BY <1>1 DEF Turned
<1>7. QED
  BY <1>1, <1>3, <1>4, <1>5, <1>6 DEF PlainOK

LEMMA TurnedKeepsOrder ==
  ASSUME Turned, OneTrip
  PROVE  OneTrip'
<1>1. ASSUME NEW m, NEW t, Behind(m, t)'
      PROVE  m.op \notin TripResponses \/ t.op \notin TripResponses
  <2>1. CASE t.op = "engineUp"
    BY <2>1 DEF TripResponses
  <2>2. ASSUME NEW m0, NEW t0, Behind(m0, t0), Alike(m0, m), Alike(t0, t)
        PROVE  m.op \notin TripResponses \/ t.op \notin TripResponses
    BY <2>2 DEF OneTrip, Alike
  <2>3. QED
    BY <1>1, <2>1, <2>2 DEF Turned
<1>2. QED
  BY <1>1 DEF OneTrip

\* One call is answered: its response m comes as r.
Answered(m, r, ok) ==
  /\ Alike(m, r) /\ r.ok = ok /\ Turned
  /\ ToSet(queue') = ToSet(queue) \cup {r}
  /\ ToSet(Thens(toModem)) = {m} \cup ToSet(Thens(toModem'))
  /\ \A x, t : Precedes(queue', x, t) =>
       Precedes(queue, x, t) \/ (x \in ToSet(queue) /\ t = r)
  /\ \A x \in ToSet(queue) : Behind(x, m)
  /\ \A x \in ToSet(Thens(toModem')) : Behind(m, x)

LEMMA AnswersTurn ==
  ASSUME Types, toModem # <<>>, NEW ok, NEW distance, Answers(ok, distance),
         NEW m, m = Head(toModem).then
  PROVE  \E r : Answered(m, r, ok)
<1>1. PICK q, p, v, w, r, q2 :
        /\ q = queue /\ p = mPendingMsgs /\ v = Thens(toModem) /\ w = Tail(v)
        /\ r = Response(m, ok, distance) /\ q2 = Append(q, r)
  OBVIOUS
<1>2. /\ queue' = q2 /\ toModem' = Tail(toModem)
      /\ UNCHANGED <<mBatchingSessions, mTripSessions, mPendingMsgs, cmds, crossed>>
  BY <1>1 DEF Answers, clientVars, sessionVars, Response
<1>3. /\ IsSeq(q) /\ IsSeq(p) /\ IsSeq(v) /\ IsSeq(w) /\ v # <<>> /\ Head(v) = m
      /\ Thens(toModem') = w
  <2>1. IsSeq(q) /\ IsSeq(p) /\ IsSeq(toModem)
    BY <1>1 DEF Types, QueueOK
  <2>2. IsSeq(v) /\ Head(v) = m /\ v # <<>> /\ w = Thens(Tail(toModem))
    BY <1>1, <2>1, ThensIs
  <2>3. IsSeq(w)
    BY <1>1, <2>2, SeqsGrow
  <2>4. QED
    BY <1>2, <2>1, <2>2, <2>3
<1>4. ToSet(v) = {m} \cup ToSet(w) /\ ToSet(q2) = ToSet(q) \cup {r} /\ IsSeq(q2)
  BY <1>1, <1>3, SetsGrow, SeqsGrow
<1>5. CallOK(Head(toModem), DOMAIN cmds)
  BY SetsGrow DEF Types, QueueOK
<1>6. Alike(m, r) /\ r.ok = ok /\ m.op # "command"
  <2>1. PICK D : D = DOMAIN cmds
    OBVIOUS
  <2>2. MsgOK(m, D) /\ m.op # "command"
    BY <1>5, <2>1 DEF CallOK
  <2>3. QED
    BY <1>1, <2>2, AnswerIs DEF Alike
<1>7. ASSUME NEW x, NEW t
      PROVE  /\ Precedes(w, x, t) => Precedes(v, x, t)
             /\ t \in ToSet(w) => Precedes(v, m, t)
             /\ Precedes(q2, x, t) => Precedes(q, x, t) \/ (x \in ToSet(q) /\ t = r)
             /\ Precedes(q2 \o w, x, t) =>
                  Precedes(q2, x, t) \/ Precedes(w, x, t) \/ (x \in ToSet(q2) /\ t \in ToSet(w))
             /\ Precedes(q, x, t) \/ Precedes(v, x, t) \/ (x \in ToSet(q) /\ t \in ToSet(v))
                  => Behind(x, t)
  <2>1. (Precedes(w, x, t) => Precedes(v, x, t)) /\ (t \in ToSet(w) => Precedes(v, m, t))
    BY <1>1, <1>3, PrecedesTail
  <2>2. Precedes(q2, x, t) => Precedes(q, x, t) \/ (x \in ToSet(q) /\ t = r)
    BY <1>1, <1>3, PrecedesAppend
  <2>3. Precedes(q2 \o w, x, t) =>
          Precedes(q2, x, t) \/ Precedes(w, x, t) \/ (x \in ToSet(q2) /\ t \in ToSet(w))
    BY <1>3, <1>4, PrecedesConcat
  <2>4. Precedes(q, x, t) \/ Precedes(v, x, t) \/ (x \in ToSet(q) /\ t \in ToSet(v))
          => Precedes(q \o v, x, t)
    BY <1>3, PrecedesConcat
  <2>5. QED
    BY <1>1, <2>1, <2>2, <2>3, <2>4 DEF Behind
<1>8. (\A x \in ToSet(q) : Behind(x, m)) /\ \A x \in ToSet(w) : Behind(m, x)
  BY <1>4, <1>7
<1>9. ASSUME NEW x, NEW t, Behind(x, t)'
      PROVE  Behind(x, t) \/ (t = r /\ Behind(x, m)) \/ (x = r /\ Behind(m, t))
  <2>1. Precedes(q2 \o w, x, t)
    BY <1>2, <1>3, <1>9 DEF Behind
  <2>2. Precedes(q2, x, t) \/ Precedes(w, x, t) \/ (x \in ToSet(q2) /\ t \in ToSet(w))
    BY <1>7, <2>1
  <2>3. CASE Precedes(q2, x, t)
    BY <1>7, <1>8, <2>3
  <2>4. CASE Precedes(w, x, t)
    BY <1>7, <2>4
  <2>5. CASE x \in ToSet(q2) /\ t \in ToSet(w)
    <3>1. x \in ToSet(q) => Behind(x, t)
      BY <1>4, <1>7, <2>5
    <3>2. QED
      BY <1>4, <1>8, <2>5, <3>1
  <2>6. QED
    BY <2>2, <2>3, <2>4, <2>5
<1>10. InFlight = ToSet(q) \cup {m} \cup ToSet(w) /\ InFlight' = ToSet(q) \cup {r} \cup ToSet(w)
  BY <1>1, <1>2, <1>3, <1>4 DEF InFlight
<1>11. Twins(InFlight, InFlight')
  BY <1>6, <1>10 DEF Twins, Alike
<1>12. \A x, t : Behind(x, t)' =>
         t.op = "engineUp" \/ \E m0, t0 : Behind(m0, t0) /\ Alike(m0, x) /\ Alike(t0, t)
  BY <1>6, <1>9 DEF Alike
<1>13. ASSUME NEW x, NEW t, Precedes(queue' \o mPendingMsgs', x, t)
       PROVE  \/ x.op # "command" \/ t.op # "command" \/ Precedes(q \o p, x, t)
  <2>1. Precedes(q2 \o p, x, t)
    BY <1>1, <1>2, <1>13
  <2>2. Precedes(q2, x, t) \/ Precedes(p, x, t) \/ (x \in ToSet(q2) /\ t \in ToSet(p))
    BY <1>3, <1>4, <2>1, PrecedesConcat
  <2>3. Precedes(q, x, t) \/ Precedes(p, x, t) \/ (x \in ToSet(q) /\ t \in ToSet(p))
          => Precedes(q \o p, x, t)
    BY <1>3, PrecedesConcat
  <2>4. r.op # "command"
    BY <1>6 DEF Alike
  <2>5. QED
    BY <1>4, <1>7, <2>2, <2>3, <2>4
<1>14. Turned
  <2>1. \A x \in ToSet(queue') : x \in ToSet(queue) \/ x.op # "command"
    BY <1>1, <1>2, <1>4, <1>6 DEF Alike
  <2>2. \A x, t : Precedes(queue' \o mPendingMsgs', x, t) =>
          \/ x.op # "command" \/ t.op # "command" \/ Precedes(queue \o mPendingMsgs, x, t)
    BY <1>1, <1>13
  <2>3. QED
    BY <1>2, <1>11, <1>12, <2>1, <2>2 DEF Turned
<1>15. Answered(m, r, ok)
  <2>1. \A x, t : Precedes(queue', x, t) =>
          Precedes(queue, x, t) \/ (x \in ToSet(queue) /\ t = r)
    BY <1>1, <1>2, <1>7
  <2>2. \A x \in ToSet(queue) : Behind(x, m)
    BY <1>1, <1>8
  <2>3. \A x \in ToSet(Thens(toModem')) : Behind(m, x)
    BY <1>3, <1>8
  <2>4. /\ ToSet(queue') = ToSet(queue) \cup {r}
        /\ ToSet(Thens(toModem)) = {m} \cup ToSet(Thens(toModem'))
    BY <1>1, <1>2, <1>3, <1>4
  <2>5. QED
    BY <1>6, <1>14, <2>1, <2>2, <2>3, <2>4 DEF Answered
<1>16. QED
  BY <1>15

LEMMA RestartingIs ==
  ASSUME Types
  PROVE  Restarting <=> \E m \in ToSet(queue) : m.op = "engineUp"
BY DEF Restarting, ToSet

\* The modem refuses a call: what is about session s serves it as before, unless it counts
\* among the refused ones.
LEMMA RefusedServes ==
  ASSUME NEW Q, NEW M, NEW M2, NEW S, NEW B, NEW s, Served(Q, M, S, B, s),
         NEW m, NEW r, M = {m} \cup M2, Alike(m, r), ~r.ok, ~Stops(m, s),
         ~(m.op = "ignored" /\ m.arg.session = s), m.op # "engineUp"
  PROVE  Served(Q \cup {r}, M2, S, B, s)
<1>1. Undoes(r, s) <=> m.op = "started" /\ m.arg.session = s
  BY DEF Undoes, Alike
<1>2. Starts(m, s) <=> m.op = "started" /\ m.arg.session = s
  BY DEF Starts
<1>3. r.op # "engineUp"
  BY DEF Alike
<1>4. QED
  BY <1>1, <1>2, <1>3 DEF Served

\* The modem starts, or changes, a plain session.
LEMMA StartedServes ==
  ASSUME NEW Q, NEW M, NEW M2, NEW S, NEW T, NEW B, NEW B2, NEW s, Served(Q, M, S, B, s),
         Tokens(Q \cup M, S, T, s), NEW m, NEW r, M = {m} \cup M2, Alike(m, r), r.ok,
         m.op \in {"started", "ignored"}, m.arg.options.mode # "trip",
         Saved(B, B2, m.arg.session, m.arg.options),
         \A x \in Q : InTurn(x, m, s), \A x \in M2 : InTurn(m, x, s)
  PROVE  Served(Q \cup {r}, M2, S, B2, s)
<1>1. ~Undoes(r, s) /\ r.op # "engineUp" /\ ~Stops(m, s)
  BY DEF Undoes, Alike, Stops
<1>2. CASE m.arg.session # s
  <2>1. ~Starts(m, s)
    BY <1>2 DEF Starts
  <2>2. (s \in DOMAIN B2 <=> s \in DOMAIN B) /\ (s \in DOMAIN B => B2[s] = B[s])
    BY <1>2 DEF Saved
  <2>3. QED
    BY <1>1, <2>1, <2>2 DEF Served
<1>3. CASE m.arg.session = s
  <2>1. About(m, s) /\ Starts(m, s)
    BY <1>3 DEF About, Starts
  <2>2. \A x \in Q : ~About(x, s)
    BY <2>1 DEF InTurn
  <2>3. \A x \in M2 : About(x, s) => x.op = "stopped"
    BY <2>1 DEF InTurn
  <2>4. s \in DOMAIN B2 /\ B2[s] = m.arg.options
    BY <1>3 DEF Saved
  <2>5. (\E x \in M2 : Stops(x, s)) \/ (s \in DOMAIN S /\ S[s] = m.arg.options)
    BY <1>1, <2>1, <2>2 DEF Tokens, About
  <2>6. \A x \in Q : ~Undoes(x, s)
    BY <2>2 DEF Undoes, About, Starts
  <2>7. \A x \in M2 : ~(x.op = "started" /\ x.arg.session = s)
    BY <2>3 DEF About, Starts
  <2>8. QED
    BY <1>1, <2>4, <2>5, <2>6, <2>7 DEF Served
<1>4. QED
  BY <1>2, <1>3

\* The modem stops a plain session.
LEMMA StoppedServes ==
  ASSUME NEW Q, NEW M, NEW M2, NEW S, NEW T, NEW B, NEW B2, NEW s, Served(Q, M, S, B, s),
         Tokens(Q \cup M, S, T, s), NEW m, NEW r, M = {m} \cup M2, Alike(m, r),
         m.op = "stopped", Lost(B, B2, m.arg.job.session)
  PROVE  Served(Q \cup {r}, M2, S, B2, s)
<1>1. ~Undoes(r, s) /\ r.op # "engineUp" /\ ~Starts(m, s)
  BY DEF Undoes, Alike, Starts
<1>2. CASE m.arg.job.session # s
  <2>1. ~Stops(m, s)
    BY <1>2 DEF Stops
  <2>2. (s \in DOMAIN B2 <=> s \in DOMAIN B) /\ (s \in DOMAIN B => B2[s] = B[s])
    BY <1>2 DEF Lost
  <2>3. QED
    BY <1>1, <2>1, <2>2 DEF Served
<1>3. CASE m.arg.job.session = s
  <2>1. Stops(m, s) /\ s \notin DOMAIN B2
    BY <1>3 DEF Stops, Lost
  <2>2. s \notin DOMAIN S
    BY <2>1 DEF Tokens
  <2>3. QED
    BY <2>1, <2>2 DEF Served
<1>4. QED
  BY <1>2, <1>3

\* The modem answers a call that is about no plain session.
LEMMA OtherwiseServes ==
  ASSUME NEW Q, NEW M, NEW M2, NEW S, NEW B, NEW s, Served(Q, M, S, B, s),
         NEW m, NEW r, M = {m} \cup M2, Alike(m, r), ~About(m, s), m.op # "engineUp"
  PROVE  Served(Q \cup {r}, M2, S, B, s)
<1>1. ~Undoes(r, s) /\ r.op # "engineUp" /\ ~Starts(m, s) /\ ~Stops(m, s)
  BY DEF Undoes, Alike, About, Starts
<1>2. QED
  BY <1>1 DEF Served

LEMMA SpoilsIs ==
  ASSUME NEW m
  PROVE  /\ m.op = "stopped" => Spoils(m) = {m.arg.job.session}
         /\ m.op = "ignored" => Spoils(m) = {m.arg.session}
         /\ m.op = "started" /\ Restarting => Spoils(m) = {m.arg.session}
<1>1. ASSUME m.op = "stopped"
      PROVE  Spoils(m) = {m.arg.job.session}
  BY <1>1 DEF Spoils, TripResponses
<1>2. ASSUME m.op = "ignored"
      PROVE  Spoils(m) = {m.arg.session}
  BY <1>2 DEF Spoils, TripResponses
<1>3. ASSUME m.op = "started", Restarting
      PROVE  Spoils(m) = {m.arg.session}
  BY <1>3 DEF Spoils, TripResponses
<1>4. QED
  BY <1>1, <1>2, <1>3

LEMMA ModemActsAgrees ==
  ASSUME Types, SessionsAgree, ModemActs
  PROVE  SessionsAgree'
<1>1. PICK c, m, ok, distance :
        /\ c = Head(toModem) /\ m = c.then /\ ok = TRUE /\ Answers(ok, distance)
  BY DEF ModemActs
<1>2. toModem # <<>> /\ refused' = refused /\ ~Restarting
  BY DEF ModemActs
<1>3. PICK r : Answered(m, r, ok)
  BY <1>1, <1>2, AnswersTurn
<1>4. CallOK(c, DOMAIN cmds)
  BY <1>1, <1>2, SetsGrow DEF Types, QueueOK
<1>5. PICK B, B2, y : B = modem.batching /\ B2 = modem'.batching
                      /\ y = IF m.op = "stopped" THEN m.arg.job.session ELSE m.arg.session
  OBVIOUS
<1>6. /\ m.op \in {"started", "ignored"} => Saved(B, B2, y, m.arg.options)
      /\ m.op = "stopped" => Lost(B, B2, y)
      /\ m.op \notin {"started", "ignored", "stopped"} => B2 = B
  <2>1. modem = [batching |-> B, trip |-> modem.trip]
    BY <1>5 DEF Types, MapsOK
  <2>2. CASE m.op \in {"started", "ignored"}
    <3>1. c.call = "startBatching" /\ c.arg = m.arg
      BY <1>1, <1>4, <2>2 DEF CallOK
    <3>2. modem' = [modem EXCEPT !.batching = With(@, c.arg.session, c.arg.options)]
      BY <1>1, <3>1 DEF ModemActs
    <3>3. PICK o : o = m.arg.options
      OBVIOUS
    <3>4. B2 = With(B, y, o)
      BY <1>5, <2>1, <2>2, <3>1, <3>2, <3>3
    <3>5. Saved(B, B2, y, o)
      BY <3>4, SavedIs
    <3>6. QED
      BY <2>2, <3>3, <3>5
  <2>3. CASE m.op = "stopped"
    <3>1. c.call = "stopBatching" /\ c.arg = m.arg.job
      BY <1>1, <1>4, <2>3 DEF CallOK
    <3>2. modem' = [modem EXCEPT !.batching = Without(@, {c.arg.session})]
      BY <1>1, <3>1 DEF ModemActs
    <3>3. B2 = Without(B, {y})
      BY <1>5, <2>1, <2>3, <3>1, <3>2
    <3>4. Lost(B, B2, y)
      BY <3>3, LostIs
    <3>5. QED
      BY <2>3, <3>4
  <2>4. CASE m.op \notin {"started", "ignored", "stopped"}
    <3>1. c.call # "startBatching" /\ c.call # "stopBatching"
      BY <1>1, <1>4, <2>4 DEF CallOK
    <3>2. modem' = modem \/ \E t : modem' = [modem EXCEPT !.trip = t]
      BY <1>1, <3>1 DEF ModemActs
    <3>3. B2 = B
      BY <1>5, <2>1, <3>2
    <3>4. QED
      BY <2>4, <3>3
  <2>5. QED
    BY <2>2, <2>3, <2>4
<1>7. \A x \in ToSet(queue') : x.op # "engineUp" /\ (x \in ToSet(queue) \/ x.ok)
  <2>1. r.op # "engineUp" /\ r.ok
    BY <1>1, <1>3, <1>4 DEF Answered, Alike, CallOK
  <2>2. QED
    BY <1>2, <1>3, <2>1, RestartingIs DEF Answered
<1>8. ASSUME ~crossed', NEW s \in DOMAIN cmds \ refused
      PROVE  PlainOK(s)'
  <2>1. PlainOK(s) /\ Turned
    BY <1>3, <1>8 DEF SessionsAgree, Answered, Turned
  <2>2. PICK Q, M, M2, S, T :
          /\ Q = ToSet(queue) /\ M = ToSet(Thens(toModem)) /\ M2 = ToSet(Thens(toModem'))
          /\ S = mBatchingSessions /\ T = mTripSessions
    OBVIOUS
  <2>3. /\ Served(Q, M, S, B, s) /\ Tokens(Q \cup M, S, T, s) /\ M = {m} \cup M2
        /\ Alike(m, r) /\ r.ok /\ ToSet(queue') = Q \cup {r}
    BY <1>1, <1>3, <1>5, <2>1, <2>2 DEF PlainOK, InFlight, Answered
  <2>4. (\A x \in Q : InTurn(x, m, s)) /\ \A x \in M2 : InTurn(m, x, s)
    BY <1>3, <2>1, <2>2 DEF PlainOK, Ordered, Answered
  <2>5. Served(Q \cup {r}, M2, S, B2, s)
    <3>1. CASE m.op \in {"started", "ignored"}
      <4>1. Saved(B, B2, m.arg.session, m.arg.options) /\ m.arg.options.mode # "trip"
        BY <1>1, <1>4, <1>5, <1>6, <3>1 DEF CallOK, MsgOK
      <4>2. QED
        BY <2>3, <2>4, <3>1, <4>1, StartedServes
    <3>2. CASE m.op = "stopped"
      <4>1. Lost(B, B2, m.arg.job.session)
        BY <1>5, <1>6, <3>2
      <4>2. QED
        BY <2>3, <3>2, <4>1, StoppedServes
    <3>3. CASE m.op \notin {"started", "ignored", "stopped"}
      <4>1. ~About(m, s) /\ m.op # "engineUp" /\ B2 = B
        BY <1>1, <1>4, <1>6, <3>3 DEF About, Starts, Stops, CallOK
      <4>2. Served(Q \cup {r}, M2, S, B, s)
        BY <2>3, <4>1, OtherwiseServes
      <4>3. QED
        BY <4>1, <4>2
    <3>4. QED
      BY <3>1, <3>2, <3>3
  <2>6. \A x, t : Precedes(queue', x, t) /\ x.op = "engineUp" => ~About(t, s)
    BY <1>7, PrecedesIn
  <2>7. Served(ToSet(queue'), ToSet(Thens(toModem')), mBatchingSessions, modem'.batching, s)
    BY <1>5, <2>2, <2>3, <2>5
  <2>8. QED
    BY <2>1, <2>6, <2>7, TurnedKeepsSession
<1>9. ASSUME ~crossed'
      PROVE  OneTrip'
  <2>1. OneTrip /\ Turned
    BY <1>3, <1>9 DEF SessionsAgree, Answered, Turned
  <2>2. QED
    BY <2>1, TurnedKeepsOrder
<1>10. cmds' = cmds
  BY <1>3 DEF Answered, Turned
<1>11. \A x \in ToSet(queue') : x.op = "stopped" /\ ~x.ok => x.arg.job.session \in refused'
  BY <1>2, <1>7 DEF SessionsAgree
<1>12. QED
  BY <1>2, <1>7, <1>8, <1>9, <1>10, <1>11 DEF SessionsAgree

LEMMA ModemRefusesAgrees ==
  ASSUME Types, SessionsAgree, ModemRefuses
  PROVE  SessionsAgree'
<1>1. PICK c, m, ok, distance :
        /\ c = Head(toModem) /\ m = c.then /\ ok = FALSE /\ Answers(ok, distance)
  BY DEF ModemRefuses
<1>2. toModem # <<>> /\ refused' = refused \cup Spoils(m) /\ modem' = modem
  BY <1>1 DEF ModemRefuses
<1>3. PICK r : Answered(m, r, ok)
  BY <1>1, <1>2, AnswersTurn
<1>4. CallOK(c, DOMAIN cmds)
  BY <1>1, <1>2, SetsGrow DEF Types, QueueOK
<1>5. ToSet(queue') = ToSet(queue) \cup {r} /\ Alike(m, r) /\ ~r.ok /\ cmds' = cmds
  BY <1>1, <1>3 DEF Answered, Turned
<1>6. m.op # "engineUp" /\ r.op # "engineUp"
  BY <1>1, <1>4, <1>5 DEF CallOK, Alike
<1>7. ASSUME ~crossed', NEW s \in DOMAIN cmds \ refused'
      PROVE  PlainOK(s)'
  <2>1. PlainOK(s) /\ Turned
    BY <1>2, <1>3, <1>7 DEF SessionsAgree, Answered, Turned
  <2>2. /\ ~Stops(m, s) /\ ~(m.op = "ignored" /\ m.arg.session = s)
        /\ Restarting => ~About(m, s)
    <3>1. s \notin Spoils(m)
      BY <1>2, <1>7
    <3>2. m.op = "stopped" => m.arg.job.session # s
      BY <3>1, SpoilsIs
    <3>3. m.op = "ignored" => m.arg.session # s
      BY <3>1, SpoilsIs
    <3>4. m.op = "started" /\ Restarting => m.arg.session # s
      BY <3>1, SpoilsIs
    <3>5. QED
      BY <3>2, <3>3, <3>4 DEF Stops, About, Starts
  <2>3. PICK Q, M, M2, S, B :
          /\ Q = ToSet(queue) /\ M = ToSet(Thens(toModem)) /\ M2 = ToSet(Thens(toModem'))
          /\ S = mBatchingSessions /\ B = modem.batching
    OBVIOUS
  <2>4. Served(Q, M, S, B, s) /\ M = {m} \cup M2
    BY <1>3, <2>1, <2>3 DEF PlainOK, Answered
  <2>5. Served(Q \cup {r}, M2, S, B, s)
    BY <1>5, <1>6, <2>2, <2>4, RefusedServes
  <2>6. Served(ToSet(queue'), ToSet(Thens(toModem')), mBatchingSessions, modem'.batching, s)
    BY <1>2, <1>5, <2>3, <2>5
  <2>7. ASSUME NEW x, NEW t, Precedes(queue', x, t), x.op = "engineUp"
        PROVE  ~About(t, s)
    <3>1. Precedes(queue, x, t) \/ (x \in ToSet(queue) /\ t = r)
      BY <1>3, <2>7 DEF Answered
    <3>2. CASE Precedes(queue, x, t)
      BY <2>1, <2>7, <3>2 DEF PlainOK, Ordered
    <3>3. CASE x \in ToSet(queue) /\ t = r
      <4>1. Restarting
        BY <2>7, <3>3, RestartingIs
      <4>2. About(m, s) <=> About(r, s)
        BY <1>5, AlikeAbout
      <4>3. QED
        BY <2>2, <3>3, <4>1, <4>2
    <3>4. QED
      BY <3>1, <3>2, <3>3
  <2>8. QED
    BY <2>1, <2>6, <2>7, TurnedKeepsSession
<1>8. ASSUME ~crossed'
      PROVE  OneTrip'
  <2>1. OneTrip /\ Turned
    BY <1>3, <1>8 DEF SessionsAgree, Answered, Turned
  <2>2. QED
    BY <2>1, TurnedKeepsOrder
<1>9. \A x \in ToSet(queue') : x.op = "stopped" /\ ~x.ok => x.arg.job.session \in refused'
  <2>1. m.op = "stopped" => m.arg.job.session \in refused'
    BY <1>2, SpoilsIs
  <2>2. QED
    BY <1>2, <1>5, <2>1 DEF SessionsAgree, Alike
<1>10. (\E x \in ToSet(queue') : x.op = "engineUp") => DOMAIN modem'.batching = {}
  BY <1>2, <1>5, <1>6 DEF SessionsAgree
<1>11. QED
  BY <1>5, <1>7, <1>8, <1>9, <1>10 DEF SessionsAgree

\* The calls under way fail, in their order, and the restart is reported after them.
LEMMA FailuresInOrder ==
  ASSUME NEW t, IsSeq(t), NEW m, NEW k, Precedes(Failures(t), m, k)
  PROVE  \E m0, k0 : Precedes(Thens(t), m0, k0) /\ m = Failed(m0) /\ k = Failed(k0)
<1>1. PICK n, f, v : n = Len(t) /\ f = Failures(t) /\ v = Thens(t)
  OBVIOUS
<1>2. n \in Nat /\ DOMAIN t = 1..n
  BY <1>1 DEF IsSeq
<1>3. DOMAIN f = 1..n /\ DOMAIN v = 1..n /\ \A i \in 1..n : f[i] = Failed(v[i])
  BY <1>1, <1>2 DEF Failures, Thens
<1>4. PICK i \in 1..n, j \in 1..n : i < j /\ f[i] = m /\ f[j] = k
  BY <1>1, <1>3 DEF Precedes
<1>5. Precedes(v, v[i], v[j]) /\ m = Failed(v[i]) /\ k = Failed(v[j])
  BY <1>3, <1>4 DEF Precedes
<1>6. QED
  BY <1>1, <1>5

\* F is what has come of the calls under way.
FailedAndUp(F) ==
  /\ ToSet(queue') = ToSet(queue) \cup F \cup {Msg("engineUp", None)} /\ toModem' = <<>>
  /\ \A r \in F : /\ r.op \notin {"command", "engineUp"} /\ ~r.ok
                  /\ \E c \in ToSet(toModem) : Alike(c.then, r)
  /\ \A x, t : Precedes(queue', x, t) =>
       \/ t.op = "engineUp" \/ x \in F
       \/ Precedes(queue, x, t) \/ (x \in ToSet(queue) /\ t \in F)
  /\ Turned /\ refused' = refused \cup UNION {Spoils(toModem[k].then) : k \in DOMAIN toModem}
  /\ DOMAIN modem'.batching = {}

LEMMA ModemStartsTurn ==
  ASSUME Types, ModemStarts
  PROVE  \E F : FailedAndUp(F)
<1>1. PICK f, u :
    /\ f = Failures(toModem) /\ u = <<Msg("engineUp", None)>>
    /\ queue' = queue \o f \o u /\ toModem' = <<>>
    /\ modem' = [batching |-> <<>>, trip |-> None]
    /\ UNCHANGED <<sessionVars, mPendingMsgs, clientVars, crossed>>
    /\ IsSeq(f) /\ IsSeq(u) /\ ToSet(u) = {Msg("engineUp", None)} /\ IsSeq(queue \o f)
    /\ IsSeq(queue') /\ ToSet(queue') = ToSet(queue) \cup ToSet(f) \cup ToSet(u)
  BY ModemStartsIs
<1>2. PICK q, p, v, e, F, qf, q2 :
        /\ q = queue /\ p = mPendingMsgs /\ v = Thens(toModem) /\ e = Msg("engineUp", None)
        /\ F = ToSet(f) /\ qf = q \o f /\ q2 = qf \o u
  OBVIOUS
<1>3. /\ IsSeq(q) /\ IsSeq(p) /\ IsSeq(v) /\ IsSeq(toModem)
      /\ ToSet(v) = {c.then : c \in ToSet(toModem)}
  BY <1>2, ThensIs DEF Types, QueueOK
<1>4. /\ IsSeq(qf) /\ IsSeq(q2) /\ queue' = q2 /\ e.op = "engineUp" /\ ToSet(u) = {e}
      /\ ToSet(qf) = ToSet(q) \cup F /\ ToSet(q2) = ToSet(qf) \cup {e}
  <2>1. IsSeq(qf) /\ ToSet(qf) = ToSet(q) \cup F
    BY <1>1, <1>2, <1>3, SetsGrow
  <2>2. ToSet(qf \o u) = ToSet(qf) \cup ToSet(u) /\ IsSeq(qf \o u)
    BY <1>1, <2>1, SetsGrow, SeqsGrow, ZenonT(30)
  <2>3. e.op = "engineUp"
    BY <1>2 DEF Msg
  <2>4. QED
    BY <1>1, <1>2, <2>1, <2>2, <2>3
<1>5. ASSUME NEW m \in ToSet(v)
      PROVE  /\ Alike(m, Failed(m)) /\ ~Failed(m).ok /\ m.op \notin {"command", "engineUp"}
             /\ Failed(m) \in F
  <2>1. PICK c \in ToSet(toModem) : m = c.then
    BY <1>3
  <2>2. PICK D, r : D = DOMAIN cmds /\ r = Failed(m)
    OBVIOUS
  <2>3. MsgOK(m, D) /\ m.op \notin {"command", "engineUp"}
    BY <2>1, <2>2 DEF Types, QueueOK, CallOK
  <2>4. r.op = m.op /\ r.arg = m.arg /\ r.ok = FALSE
    BY <2>2, <2>3, FailureIs
  <2>5. Failed(c.then) \in F
    BY <1>1, <1>2, <1>3, <2>1, FailuresAre
  <2>6. QED
    BY <2>1, <2>2, <2>3, <2>4, <2>5 DEF Alike
<1>6. ASSUME NEW r \in F
      PROVE  \E m \in ToSet(v) : r = Failed(m)
  <2>1. PICK c \in ToSet(toModem) : r = Failed(c.then)
    BY <1>1, <1>2, <1>3, <1>6, FailuresAre
  <2>2. QED
    BY <1>3, <2>1
<1>7. ASSUME NEW r \in F
      PROVE  /\ r.op \notin {"command", "engineUp"} /\ ~r.ok
             /\ \E c \in ToSet(toModem) : Alike(c.then, r)
  <2>1. PICK m \in ToSet(v) : r = Failed(m)
    BY <1>6
  <2>2. Alike(m, r) /\ ~r.ok /\ m.op \notin {"command", "engineUp"}
    BY <1>5, <2>1
  <2>3. PICK c \in ToSet(toModem) : m = c.then
    BY <1>3
  <2>4. QED
    BY <2>2, <2>3 DEF Alike
<1>8. ASSUME NEW x, NEW t, Precedes(q2, x, t)
      PROVE  t = e \/ Precedes(q, x, t) \/ Precedes(f, x, t) \/ (x \in ToSet(q) /\ t \in F)
  <2>1. Precedes(qf, x, t) \/ Precedes(u, x, t) \/ (x \in ToSet(qf) /\ t \in ToSet(u))
    BY <1>1, <1>2, <1>4, <1>8, PrecedesConcat
  <2>2. ~Precedes(u, x, t)
    BY <1>1, PrecedesNone
  <2>3. Precedes(qf, x, t) =>
          Precedes(q, x, t) \/ Precedes(f, x, t) \/ (x \in ToSet(q) /\ t \in F)
    BY <1>1, <1>2, <1>3, PrecedesConcat
  <2>4. QED
    BY <1>4, <2>1, <2>2, <2>3
<1>9. ASSUME NEW x, NEW t, Precedes(q2, x, t)
      PROVE  t.op = "engineUp" \/ \E m0, t0 : Behind(m0, t0) /\ Alike(m0, x) /\ Alike(t0, t)
  <2>1. \A a, b : Precedes(q, a, b) \/ Precedes(v, a, b) \/ (a \in ToSet(q) /\ b \in ToSet(v))
          => Behind(a, b)
    <3>1. \A a, b : Precedes(q, a, b) \/ Precedes(v, a, b) \/ (a \in ToSet(q) /\ b \in ToSet(v))
            => Precedes(q \o v, a, b)
      BY <1>3, PrecedesConcat
    <3>2. QED
      BY <1>2, <3>1 DEF Behind
  <2>2. CASE Precedes(q, x, t)
    BY <2>1, <2>2 DEF Alike
  <2>3. CASE Precedes(f, x, t)
    <3>1. PICK m0, t0 : Precedes(v, m0, t0) /\ x = Failed(m0) /\ t = Failed(t0)
      BY <1>1, <1>2, <1>3, <2>3, FailuresInOrder
    <3>2. m0 \in ToSet(v) /\ t0 \in ToSet(v)
      BY <3>1, PrecedesIn
    <3>3. QED
      BY <1>5, <2>1, <3>1, <3>2
  <2>4. CASE x \in ToSet(q) /\ t \in F
    <3>1. PICK t0 \in ToSet(v) : t = Failed(t0)
      BY <1>6, <2>4
    <3>2. Behind(x, t0) /\ Alike(t0, t) /\ Alike(x, x)
      BY <1>5, <2>1, <2>4, <3>1 DEF Alike
    <3>3. QED
      BY <3>2
  <2>5. QED
    BY <1>4, <1>8, <1>9, <2>2, <2>3, <2>4
<1>10. q2 \o <<>> = q2 /\ Thens(toModem') = <<>>
  <2>1. q2 \o <<>> = q2
    BY <1>4 DEF IsSeq
  <2>2. Thens(toModem') = <<>>
    BY <1>1, ThensOfNone
  <2>3. QED
    BY <2>1, <2>2
<1>11. \A x, t : Behind(x, t)' =>
         t.op = "engineUp" \/ \E m0, t0 : Behind(m0, t0) /\ Alike(m0, x) /\ Alike(t0, t)
  BY <1>4, <1>9, <1>10 DEF Behind
<1>12. InFlight = ToSet(q) \cup ToSet(v) /\ InFlight' = ToSet(q) \cup F \cup {e}
  BY <1>2, <1>4, <1>10, EmptyIsSeq DEF InFlight
<1>13. Twins(InFlight, InFlight')
  <2>1. ASSUME NEW r \in InFlight'
        PROVE  r.op = "engineUp" \/ \E m \in InFlight : Alike(m, r)
    <3>1. CASE r \in ToSet(q)
      BY <1>12, <3>1 DEF Alike
    <3>2. CASE r \in F
      BY <1>5, <1>6, <1>12, <3>2
    <3>3. QED
      BY <1>4, <1>12, <2>1, <3>1, <3>2
  <2>2. ASSUME NEW m \in InFlight
        PROVE  \E r \in InFlight' : Alike(m, r)
    <3>1. CASE m \in ToSet(q)
      BY <1>12, <3>1 DEF Alike
    <3>2. CASE m \in ToSet(v)
      BY <1>5, <1>12, <3>2
    <3>3. QED
      BY <1>12, <2>2, <3>1, <3>2
  <2>3. QED
    BY <2>1, <2>2 DEF Twins
<1>14. ASSUME NEW x, NEW t, Precedes(queue' \o mPendingMsgs', x, t)
       PROVE  \/ x.op # "command" \/ t.op # "command" \/ Precedes(q \o p, x, t)
  <2>1. Precedes(q2 \o p, x, t)
    BY <1>1, <1>2, <1>4, <1>14
  <2>2. Precedes(q2, x, t) \/ Precedes(p, x, t) \/ (x \in ToSet(q2) /\ t \in ToSet(p))
    BY <1>3, <1>4, <2>1, PrecedesConcat
  <2>3. Precedes(q, x, t) \/ Precedes(p, x, t) \/ (x \in ToSet(q) /\ t \in ToSet(p))
          => Precedes(q \o p, x, t)
    BY <1>3, PrecedesConcat
  <2>4. Precedes(f, x, t) => x \in F
    BY <1>2, PrecedesIn
  <2>5. \A r \in F \cup {e} : r.op # "command"
    BY <1>4, <1>7
  <2>6. CASE Precedes(q2, x, t)
    BY <1>8, <2>3, <2>4, <2>5, <2>6
  <2>7. CASE Precedes(p, x, t)
    BY <2>3, <2>7
  <2>8. CASE x \in ToSet(q2) /\ t \in ToSet(p)
    BY <1>4, <2>3, <2>5, <2>8
  <2>9. QED
    BY <2>2, <2>6, <2>7, <2>8
<1>15. Turned
  <2>1. \A x \in ToSet(queue') : x \in ToSet(queue) \/ x.op # "command"
    BY <1>2, <1>4, <1>7
  <2>2. \A x, t : Precedes(queue' \o mPendingMsgs', x, t) =>
          \/ x.op # "command" \/ t.op # "command" \/ Precedes(queue \o mPendingMsgs, x, t)
    BY <1>2, <1>14
  <2>3. QED
    BY <1>1, <1>11, <1>13, <2>1, <2>2 DEF Turned, clientVars, sessionVars
<1>16. FailedAndUp(F)
  <2>1. \A x, t : Precedes(queue', x, t) =>
          \/ t.op = "engineUp" \/ x \in F
          \/ Precedes(queue, x, t) \/ (x \in ToSet(queue) /\ t \in F)
    <3>1. \A x, t : Precedes(f, x, t) => x \in F
      BY <1>2, PrecedesIn
    <3>2. QED
      BY <1>2, <1>4, <1>8, <3>1
  <2>2. DOMAIN modem'.batching = {}
    BY <1>1
  <2>3. refused' = refused \cup UNION {Spoils(toModem[k].then) : k \in DOMAIN toModem}
    BY DEF ModemStarts
  <2>4. ToSet(queue') = ToSet(queue) \cup F \cup {Msg("engineUp", None)}
    BY <1>2, <1>4
  <2>5. QED
    BY <1>1, <1>7, <1>15, <2>1, <2>2, <2>3, <2>4 DEF FailedAndUp
<1>17. QED
  BY <1>16

LEMMA ModemStartsAgrees ==
  ASSUME Types, SessionsAgree, ModemStarts
  PROVE  SessionsAgree'
<1>1. PICK F : FailedAndUp(F)
  BY ModemStartsTurn
<1>2. PICK e : e = Msg("engineUp", None)
  OBVIOUS
<1>3. /\ ToSet(queue') = ToSet(queue) \cup F \cup {e} /\ e.op = "engineUp"
      /\ \A r \in F : /\ r.op \notin {"command", "engineUp"} /\ ~r.ok
                      /\ \E c \in ToSet(toModem) : Alike(c.then, r)
      /\ Turned /\ DOMAIN modem'.batching = {} /\ cmds' = cmds /\ (crossed' <=> crossed)
  BY <1>1, <1>2 DEF FailedAndUp, Msg, Turned
<1>4. refused \subseteq refused'
      /\ \A c \in ToSet(toModem) : Spoils(c.then) \subseteq refused'
  BY <1>1 DEF FailedAndUp, ToSet
<1>5. ASSUME NEW r \in F, NEW s \in DOMAIN cmds \ refused'
      PROVE  ~Stops(r, s) /\ (Restarting => ~About(r, s))
  <2>1. PICK c \in ToSet(toModem) : Alike(c.then, r)
    BY <1>3, <1>5
  <2>2. PICK m : m = c.then
    OBVIOUS
  <2>3. s \notin Spoils(m) /\ Alike(m, r)
    BY <1>4, <1>5, <2>1, <2>2
  <2>4. /\ m.op = "stopped" => m.arg.job.session # s
        /\ m.op = "ignored" => m.arg.session # s
        /\ m.op = "started" /\ Restarting => m.arg.session # s
    BY <2>3, SpoilsIs
  <2>5. ~Stops(m, s) /\ (Restarting => ~About(m, s))
    BY <2>4 DEF Stops, About, Starts
  <2>6. QED
    BY <2>3, <2>5, AlikeAbout
<1>6. ASSUME ~crossed', NEW s \in DOMAIN cmds \ refused'
      PROVE  PlainOK(s)'
  <2>1. PlainOK(s)
    BY <1>3, <1>4, <1>6 DEF SessionsAgree
  <2>2. ASSUME NEW x, NEW t, Precedes(queue', x, t), x.op = "engineUp"
        PROVE  ~About(t, s)
    <3>1. CASE t.op = "engineUp"
      BY <3>1, EngineUpIsAboutNothing
    <3>2. CASE Precedes(queue, x, t)
      BY <2>1, <2>2, <3>2 DEF PlainOK, Ordered
    <3>3. CASE x \in ToSet(queue) /\ t \in F
      <4>1. Restarting
        BY <2>2, <3>3, RestartingIs
      <4>2. QED
        BY <1>5, <1>6, <3>3, <4>1
    <3>4. x \notin F
      BY <1>3, <2>2
    <3>5. QED
      BY <1>1, <2>2, <3>1, <3>2, <3>3, <3>4 DEF FailedAndUp
  <2>3. PICK Q, M, S, B : /\ Q = ToSet(queue') /\ M = ToSet(Thens(toModem'))
                          /\ S = mBatchingSessions /\ B = modem'.batching
    OBVIOUS
  <2>4. Served(Q, M, S, B, s)
    <3>1. DOMAIN B = {} /\ e \in Q /\ e.op = "engineUp"
      BY <1>3, <2>3
    <3>2. QED
      BY <3>1 DEF Served
  <2>5. Served(ToSet(queue'), ToSet(Thens(toModem')), mBatchingSessions, modem'.batching, s)
    BY <2>3, <2>4
  <2>6. QED
    BY <1>3, <2>1, <2>2, <2>5, TurnedKeepsSession
<1>7. ASSUME ~crossed'
      PROVE  OneTrip'
  BY <1>3, <1>7, TurnedKeepsOrder DEF SessionsAgree
<1>8. ASSUME NEW x \in ToSet(queue'), x.op = "stopped", ~x.ok
      PROVE  x.arg.job.session \in refused'
  <2>1. CASE x \in ToSet(queue)
    BY <1>4, <1>8, <2>1 DEF SessionsAgree
  <2>2. CASE x \in F
    <3>1. PICK c \in ToSet(toModem) : Alike(c.then, x)
      BY <1>3, <2>2
    <3>2. PICK m : m = c.then
      OBVIOUS
    <3>3. m.op = "stopped" /\ m.arg = x.arg
      BY <1>8, <3>1, <3>2 DEF Alike
    <3>4. Spoils(m) = {m.arg.job.session} /\ Spoils(m) \subseteq refused'
      BY <1>4, <3>2, <3>3, SpoilsIs
    <3>5. QED
      BY <3>3, <3>4
  <2>3. QED
    BY <1>3, <1>8, <2>1, <2>2
<1>9. QED
  BY <1>3, <1>6, <1>7, <1>8 DEF SessionsAgree

-----------------------------------------------------------------------------
LEMMA InitAgrees ==
  ASSUME Init
  PROVE  SessionsAgree
<1>1. IsSeq(<<>>) /\ ToSet(<<>>) = {} /\ DOMAIN <<>> = {}
  BY EmptyIsSeq
<1>2. queue = <<>> /\ toModem = <<>> /\ cmds = <<>>
  BY DEF Init
<1>3. PICK none : none = queue \o Thens(toModem)
  OBVIOUS
<1>4. none = <<>>
  BY <1>2, <1>3, ThensOfNone
<1>5. \A m, t : ~Behind(m, t)
  BY <1>3, <1>4, PrecedesNone DEF Behind
<1>6. OneTrip
  BY <1>5 DEF OneTrip
<1>7. QED
  BY <1>1, <1>2, <1>6 DEF SessionsAgree

LEMMA AgreesStutter ==
  ASSUME SessionsAgree, UNCHANGED vars
  PROVE  SessionsAgree'
<1>1. UNCHANGED <<cmds, queue, toModem, mPendingMsgs, mBatchingSessions, mTripSessions, modem,
                  refused, crossed>>
  BY DEF vars, sessionVars, modemVars, clientVars
<1>2. \A s : Ordered(s)' <=> Ordered(s)
  BY <1>1 DEF Ordered, Behind
<1>3. InFlight' = InFlight /\ \A s : Asked(s)' <=> Asked(s)
  BY <1>1 DEF InFlight, Asked
<1>4. \A s : PlainOK(s)' <=> PlainOK(s)
  BY <1>1, <1>2, <1>3 DEF PlainOK
<1>5. OneTrip' <=> OneTrip
  BY <1>1 DEF OneTrip, Behind
<1>6. QED
  BY <1>1, <1>4, <1>5 DEF SessionsAgree

LEMMA TaskNextAgrees ==
  ASSUME Types, SessionsAgree, TaskNext
  PROVE  SessionsAgree'
BY HandleCommandAgrees, HandleStartedAgrees, HandleStoppedAgrees, HandleGotAgrees,
   HandleTripStartedAgrees, HandleTripQueriedAgrees, HandleTripStoppedAgrees,
   AboutTripsAgrees, HandleRemoveClientAgrees, HandleEngineUpAgrees DEF TaskNext

LEMMA NextAgrees ==
  ASSUME Types, SessionsAgree, [Next]_vars
  PROVE  SessionsAgree'
BY AgreesStutter, ClientNextAgrees, TaskNextAgrees, ModemActsAgrees, ModemRefusesAgrees,
   ModemStartsAgrees, DeviceMovesAgrees DEF Next, ModemAnswers

\* Unless two starts or updates of trips have crossed, what is under way about each
\* session that was not refused is in turn (a start, then a stop; at most one answer about
\* trips), and once it is done the sessions of the modem are those of the adapter.
THEOREM SessionsKept == Spec => [](Types /\ CommandsAreCarried /\ SessionsAgree)
<1>1. Init => Types /\ CommandsAreCarried /\ SessionsAgree
  BY InitTypes, InitAgrees
<1>2. Types /\ CommandsAreCarried /\ SessionsAgree /\ [Next]_vars
        => (Types /\ CommandsAreCarried /\ SessionsAgree)'
  BY NextTypes, NextAgrees
<1>3. QED
  BY <1>1, <1>2, PTL DEF Spec

\* When nothing is under way, the modem has the plain sessions of the adapter with their
\* options and no session that the adapter does not know, whatever updates, failed starts,
\* removed clients and restarts came in which order (startBatching(), stopBatching(),
\* restartSessions()).
THEOREM PlainServed == Spec => []PlainSessionsAreServed
<1>1. SessionsAgree => PlainSessionsAreServed
  <2> SUFFICES ASSUME SessionsAgree, Quiet, ~crossed, NEW s \in DOMAIN cmds \ refused
               PROVE  /\ s \in DOMAIN modem.batching => s \in DOMAIN mBatchingSessions
                      /\ s \in DOMAIN mBatchingSessions /\ mBatchingSessions[s].mode # "trip" =>
                           /\ s \in DOMAIN modem.batching
                           /\ modem.batching[s] = mBatchingSessions[s]
    BY DEF PlainSessionsAreServed
  <2>1. ToSet(queue) = {} /\ ToSet(Thens(toModem)) = {}
    BY EmptyIsSeq, ThensOfNone DEF Quiet
  <2>2. PlainOK(s)
    BY DEF SessionsAgree
  <2>3. Served({}, {}, mBatchingSessions, modem.batching, s)
    BY <2>1, <2>2 DEF PlainOK
  <2>4. QED
    BY <2>3 DEF Served
<1>2. QED
  BY <1>1, SessionsKept, PTL

-----------------------------------------------------------------------------
(***************************************************************************)
(* The batch full event is registered for.                                 *)
(***************************************************************************)
\* What autoReportBatchingSessionsCount() counts is not nothing.
ToReport(S, T) == DOMAIN T # {} \/ \E s \in DOMAIN S : S[s].mode # "noAutoReport"
Registered(x)  == ToReport(x.sessions, x.trips) => x.batchFull

\* The modem is queried for the sake of a trip only while it has others.
BatchCounted ==
  ~crossed =>
    /\ refused \subseteq {0} => (ToReport(mBatchingSessions, mTripSessions) => batchFull)
    /\ (\E m \in InFlight : m.op = "tripQueried") => DOMAIN mTripSessions # {}

LEMMA CountIs ==
  ASSUME Types, NEW a, AdapterOK(a, DOMAIN cmds)
  PROVE  /\ ReportingCount(a) = 0 <=> ~ToReport(a.sessions, a.trips)
         /\ ReportingCount(a) > 0 <=> ToReport(a.sessions, a.trips)
         /\ \A s \in DOMAIN a.sessions \cap DOMAIN a.trips :
              a.sessions[s].mode # "noAutoReport" => ReportingCount(a) # 1
<1>1. PICK A, B, S, T : /\ A = {s \in DOMAIN a.sessions : a.sessions[s].mode # "noAutoReport"}
                        /\ B = DOMAIN a.trips /\ S = a.sessions /\ T = a.trips
  OBVIOUS
<1>2. A \subseteq DOMAIN cmds /\ B \subseteq DOMAIN cmds
  BY <1>1 DEF AdapterOK
<1>3. IsFiniteSet(A) /\ IsFiniteSet(B)
  BY <1>2, SomeCommandsAreFinite
<1>4. PICK m, n : m = Cardinality(A) /\ n = Cardinality(B)
  OBVIOUS
<1>5. m \in Nat /\ n \in Nat /\ (m = 0 <=> A = {}) /\ (n = 0 <=> B = {})
  BY <1>3, <1>4, FS_CardinalityType, FS_EmptySet
<1>6. ReportingCount(a) = m + n
  BY <1>1, <1>4 DEF ReportingCount
<1>7. ToReport(S, T) <=> A # {} \/ B # {}
  BY <1>1 DEF ToReport
<1>8. (m + n = 0 <=> m = 0 /\ n = 0) /\ (m + n > 0 <=> m # 0 \/ n # 0)
      /\ (m # 0 /\ n # 0 => m + n # 1)
  BY <1>5
<1>9. \A s \in DOMAIN S \cap DOMAIN T : S[s].mode # "noAutoReport" => A # {} /\ B # {}
  BY <1>1
<1>10. QED
  BY <1>1, <1>5, <1>6, <1>7, <1>8, <1>9

LEMMA CommandsFromOne ==
  ASSUME Types
  PROVE  0 \notin DOMAIN cmds
BY DEF Types, CmdsOK, IsSeq

\* No call is about a trip that was asked for while the modem has one.
NoQuery(x)      == IsSeq(x.calls) /\ \A t \in ToSet(Thens(x.calls)) : t.op # "tripQueried"
QueriesKnown(x) ==
  \A t \in ToSet(Thens(x.calls)) : t.op = "tripQueried" => DOMAIN x.trips # {}

\* The trips are not gone while one is asked for.
TripsStay(a) ==
  \/ DOMAIN a.trips # {} \/ DOMAIN mTripSessions = {} \/ Head(queue).op \in TripResponses
  \/ \E t \in ToSet(Thens(a.calls)) : t.op \in TripResponses

\* What a handler has to do.
Counted(a) ==
  ~crossed /\ ~crossed' =>
    (refused \subseteq {0} => Registered(a)) /\ QueriesKnown(a) /\ TripsStay(a)

LEMMA HandlerCounts ==
  ASSUME Types, SessionsAgree, BatchCounted, NEW a, HandlerStep(a), Counted(a)
  PROVE  BatchCounted'
<1> SUFFICES ASSUME ~crossed'
             PROVE  /\ refused' \subseteq {0} =>
                         (ToReport(mBatchingSessions, mTripSessions)' => batchFull')
                    /\ (\E m \in InFlight' : m.op = "tripQueried") => DOMAIN mTripSessions' # {}
  BY DEF BatchCounted
<1>1. ~crossed
  BY DEF HandlerStep, Becomes
<1>2. (refused \subseteq {0} => Registered(a)) /\ QueriesKnown(a) /\ TripsStay(a)
  BY <1>1 DEF Counted
<1>3. /\ refused' = refused /\ mBatchingSessions' = a.sessions /\ mTripSessions' = a.trips
      /\ batchFull' = a.batchFull
  BY DEF HandlerStep, Becomes
<1>4. refused' \subseteq {0} => (ToReport(mBatchingSessions, mTripSessions)' => batchFull')
  BY <1>2, <1>3 DEF Registered, ToReport
<1>5. PICK Q, M, N : /\ Q = ToSet(Tail(queue)) /\ M = ToSet(Thens(toModem))
                     /\ N = ToSet(Thens(a.calls))
  OBVIOUS
<1>6. InFlight' = Others \cup N /\ Others \subseteq InFlight
  <2>1. PICK calls : calls = a.calls
    OBVIOUS
  <2>2. queue # <<>> /\ queue' = Tail(queue)
    BY DEF HandlerStep
  <2>3. IsSeq(calls) /\ toModem' = toModem \o calls /\ N = ToSet(Thens(calls))
    BY <1>5, <2>1 DEF HandlerStep, Becomes, AdapterOK
  <2>4. Q = ToSet(Tail(queue)) /\ M = ToSet(Thens(toModem))
    BY <1>5
  <2>5. /\ ToSet(queue) = {Head(queue)} \cup Q /\ ToSet(queue') = Q
        /\ ToSet(Thens(toModem')) = M \cup N
    BY <2>2, <2>3, <2>4, BehindHandled, SMTT(20)
  <2>6. QED
    BY <1>5, <2>5 DEF InFlight, Others
<1>7. ASSUME NEW m \in InFlight', m.op = "tripQueried"
      PROVE  DOMAIN a.trips # {}
  <2>1. CASE m \in N
    BY <1>2, <1>5, <1>7, <2>1 DEF QueriesKnown
  <2>2. CASE m \in Others
    <3>1. DOMAIN mTripSessions # {} /\ m.op \in TripResponses
      BY <1>1, <1>6, <1>7, <2>2 DEF BatchCounted, TripResponses
    <3>2. Head(queue).op \notin TripResponses
      BY <1>1, <2>2, <3>1, OnlyTrip DEF HandlerStep
    <3>3. \A t \in ToSet(Thens(a.calls)) : t.op \notin TripResponses
      BY <2>2, <3>1, NoCrossing
    <3>4. QED
      BY <1>2, <3>1, <3>2, <3>3 DEF TripsStay
  <2>3. QED
    BY <1>6, <1>7, <2>1, <2>2
<1>8. QED
  BY <1>3, <1>4, <1>7

\* Nobody is told of fewer sessions, or registers for fewer of them.
LEMMA FewerRegistered ==
  ASSUME NEW x, NEW b, Registered(x), x.batchFull => b.batchFull,
         DOMAIN b.trips # {} => DOMAIN x.trips # {}, DOMAIN b.sessions \subseteq DOMAIN x.sessions,
         \A s \in DOMAIN b.sessions : b.sessions[s] = x.sessions[s]
  PROVE  Registered(b)
BY DEF Registered, ToReport

LEMMA ReportsRegisters ==
  ASSUME NEW x, AdapterOK(x, DOMAIN cmds), NEW job, NEW b, b = Reports(x, job)
  PROVE  b.batchFull = x.batchFull /\ (Registered(x) => Registered(b))
<1>1. PICK D : D = DOMAIN cmds
  OBVIOUS
<1>2. b.sessions = x.sessions /\ b.trips = x.trips /\ b.batchFull = x.batchFull
  BY <1>1, ReportsIs
<1>3. QED
  BY <1>2 DEF Registered

\* Without sessions that report, the event may be given up.
LEMMA DisableRegisters ==
  ASSUME Types, NEW x, AdapterOK(x, DOMAIN cmds), Registered(x), NEW condition,
         condition => ReportingCount(x) = 0, NEW b, b = DisableIf(x, condition)
  PROVE  Registered(b)
<1>1. PICK D : D = DOMAIN cmds
  OBVIOUS
<1>2. /\ b.sessions = x.sessions /\ b.trips = x.trips
      /\ ~condition /\ x.batchFull => b.batchFull
  BY <1>1, DisableIfIs
<1>3. CASE condition
  <2>1. ~ToReport(x.sessions, x.trips)
    BY <1>3, CountIs
  <2>2. QED
    BY <1>2, <2>1 DEF Registered
<1>4. CASE ~condition
  BY <1>2, <1>4 DEF Registered
<1>5. QED
  BY <1>3, <1>4

LEMMA EraseSessionRegisters ==
  ASSUME NEW x, AdapterOK(x, DOMAIN cmds), Registered(x), NEW y, NEW b, b = EraseSession(x, y)
  PROVE  Registered(b)
<1>1. Lost(x.sessions, b.sessions, y) /\ b.trips = x.trips
  BY EraseSessionLoses
<1>2. b.batchFull = x.batchFull
  <2>1. PICK D : D = DOMAIN cmds
    OBVIOUS
  <2>2. QED
    BY <2>1, EraseSessionIs
<1>3. PICK S, R : S = x.sessions /\ R = b.sessions
  OBVIOUS
<1>4. DOMAIN R \subseteq DOMAIN S /\ \A s \in DOMAIN R : R[s] = S[s]
  BY <1>1, <1>3 DEF Lost
<1>5. QED
  BY <1>1, <1>2, <1>3, <1>4, FewerRegistered

LEMMA EraseTripRegisters ==
  ASSUME NEW x, AdapterOK(x, DOMAIN cmds), Registered(x), NEW y, NEW b, b = EraseTrip(x, y)
  PROVE  Registered(b)
<1>1. Lost(x.trips, b.trips, y) /\ b.sessions = x.sessions
  BY EraseTripLoses
<1>2. b.batchFull = x.batchFull
  <2>1. PICK D : D = DOMAIN cmds
    OBVIOUS
  <2>2. QED
    BY <2>1, EraseTripIs
<1>3. PICK S, R : S = x.trips /\ R = b.trips
  OBVIOUS
<1>4. DOMAIN R \subseteq DOMAIN S
  BY <1>1, <1>3 DEF Lost
<1>5. QED
  BY <1>1, <1>2, <1>3, <1>4, FewerRegistered

LEMMA StartTripFills ==
  ASSUME NEW x, NEW job, NEW D, AdapterOK(x, D), JobOK(job, D)
  PROVE  LET b == StartTrip(x, job)
         IN /\ x.batchFull => b.batchFull
            /\ DOMAIN x.trips = {} => (ReportingCount(x) = 0 => b.batchFull)
            /\ DOMAIN x.trips = {} =>
                 \E c : c.then = Msg("tripStarted", job) /\ b.calls = Append(x.calls, c)
            /\ DOMAIN x.trips # {} =>
                 /\ \E c : c.then = Msg("tripQueried", job) /\ b.calls = Append(x.calls, c)
                 /\ b.sessions = x.sessions /\ b.trips = x.trips
BY StartTripIs, ZenonT(20)

LEMMA StartBatchingFills ==
  ASSUME NEW x, NEW job, NEW D, AdapterOK(x, D), JobOK(job, D), job.options.mode # "trip"
  PROVE  LET b == StartBatching(x, job)
         IN /\ x.batchFull => b.batchFull
            /\ job.options.mode # "noAutoReport" /\ ReportingCount(x) = 0 => b.batchFull
            /\ \E c : c.then = Msg("started", job) /\ b.calls = Append(x.calls, c)
            /\ b.sessions = With(x.sessions, job.session, job.options) /\ b.trips = x.trips
BY StartBatchingIs, ZenonT(20)

LEMMA StartRegisters ==
  ASSUME Types, NEW x, AdapterOK(x, DOMAIN cmds), NEW job, JobOK(job, DOMAIN cmds),
         NEW b, b = Start(x, job)
  PROVE  /\ Registered(x) => Registered(b)
         /\ NoQuery(x) => QueriesKnown(b)
<1>1. PICK D : D = DOMAIN cmds
  OBVIOUS
<1>2. ReportingCount(x) # 0 /\ Registered(x) => x.batchFull
  BY CountIs DEF Registered
<1>3. ASSUME NEW c, b.calls = Append(x.calls, c),
             c.then.op # "tripQueried" \/ DOMAIN b.trips # {}
      PROVE  NoQuery(x) => QueriesKnown(b)
  <2>1. PICK t, u : t = x.calls /\ u = b.calls
    OBVIOUS
  <2>2. IsSeq(t) /\ u = Append(t, c)
    BY <1>3, <2>1 DEF AdapterOK
  <2>3. ToSet(Thens(u)) = ToSet(Thens(t)) \cup {c.then}
    BY <2>2, OneMoreCall
  <2>4. QED
    BY <1>3, <2>1, <2>3 DEF NoQuery, QueriesKnown
<1>4. CASE job.options.mode = "trip"
  <2>1. b = StartTrip(x, job)
    BY <1>4 DEF Start
  <2>2. /\ DOMAIN x.trips = {} =>
             \E c : c.then = Msg("tripStarted", job) /\ b.calls = Append(x.calls, c)
        /\ DOMAIN x.trips # {} =>
             /\ \E c : c.then = Msg("tripQueried", job) /\ b.calls = Append(x.calls, c)
             /\ b.sessions = x.sessions /\ b.trips = x.trips
        /\ x.batchFull => b.batchFull
        /\ DOMAIN x.trips = {} => (ReportingCount(x) = 0 => b.batchFull)
    BY <1>1, <2>1, StartTripFills
  <2>3. CASE DOMAIN x.trips = {}
    <3>1. PICK c : c.then = Msg("tripStarted", job) /\ b.calls = Append(x.calls, c)
      BY <2>2, <2>3
    <3>2. c.then.op # "tripQueried"
      BY <3>1 DEF Msg
    <3>3. Registered(x) => b.batchFull
      BY <1>2, <2>2, <2>3
    <3>4. QED
      BY <1>3, <3>1, <3>2, <3>3 DEF Registered
  <2>4. CASE DOMAIN x.trips # {}
    <3>1. PICK c : b.calls = Append(x.calls, c)
      BY <2>2, <2>4
    <3>2. QED
      BY <1>3, <2>2, <2>4, <3>1 DEF Registered
  <2>5. QED
    BY <2>3, <2>4
<1>5. CASE job.options.mode # "trip"
  <2>1. b = StartBatching(x, job)
    BY <1>5 DEF Start
  <2>2. /\ \E c : c.then = Msg("started", job) /\ b.calls = Append(x.calls, c)
        /\ b.sessions = With(x.sessions, job.session, job.options)
        /\ b.trips = x.trips
        /\ x.batchFull => b.batchFull
        /\ job.options.mode # "noAutoReport" /\ ReportingCount(x) = 0 => b.batchFull
    BY <1>1, <1>5, <2>1, StartBatchingFills
  <2>3. PICK c : c.then = Msg("started", job) /\ b.calls = Append(x.calls, c)
    BY <2>2
  <2>4. c.then.op # "tripQueried"
    BY <2>3 DEF Msg
  <2>5. CASE job.options.mode # "noAutoReport"
    <3>1. Registered(x) => b.batchFull
      BY <1>2, <2>2, <2>5
    <3>2. QED
      BY <1>3, <2>3, <2>4, <3>1 DEF Registered
  <2>6. CASE job.options.mode = "noAutoReport"
    <3>1. PICK S, R, s, o : /\ S = x.sessions /\ R = b.sessions
                            /\ s = job.session /\ o = job.options
      OBVIOUS
    <3>2. Saved(S, R, s, o)
      BY <2>2, <3>1, SavedIs
    <3>3. ToReport(R, b.trips) => ToReport(S, x.trips)
      BY <2>2, <2>6, <3>1, <3>2 DEF ToReport, Saved
    <3>4. QED
      BY <1>3, <2>2, <2>3, <2>4, <3>1, <3>3 DEF Registered
  <2>7. QED
    BY <2>5, <2>6
<1>6. QED
  BY <1>4, <1>5

LEMMA NothingAsked ==
  ASSUME NEW x, x.calls = <<>>
  PROVE  NoQuery(x)
BY NoCallsMade, EmptyIsSeq DEF NoQuery

LEMMA SilentAsksNothing ==
  ASSUME NEW x, \A s : Silent(x, s)
  PROVE  NoQuery(x)
BY DEF Silent, NoQuery, Names, Queries

LEMMA NoQueryKnown ==
  ASSUME NEW x, NoQuery(x)
  PROVE  QueriesKnown(x)
BY DEF NoQuery, QueriesKnown

\* stopTripBatchingMultiplexCommon() keeps the event for those that are left.
LEMMA StopTripCommonRegisters ==
  ASSUME Types, NEW d, Keeping(Adapter, d), NEW job, JobOK(job, DOMAIN cmds), NEW garbage,
         NEW a, a = StopTripCommon(d, job, garbage)
  PROVE  /\ Registered(d) => Registered(a)
         /\ QueriesKnown(a)
<1>1. PICK D : D = DOMAIN cmds
  OBVIOUS
<1>2. AdapterOK(d, D) /\ JobOK(job, D)
  BY <1>1 DEF Keeping
<1>3. PICK y : TripErased(d, y, job, D) /\ StopTripCommon(d, job, garbage) = Continued(y, job)
  BY <1>2, StopTripCommonIs
<1>4. TripGone(y, job) /\ NoQuery(y)
  BY <1>1, <1>3, TripErasedIsGone, SilentAsksNothing DEF TripGone
<1>5. AdapterOK(y, DOMAIN cmds)
  BY <1>4 DEF TripGone
<1>6. Registered(d) => Registered(y)
  <2>1. PICK T, R, S : T = d.trips /\ R = y.trips /\ S = {job.session}
    OBVIOUS
  <2>2. y.sessions = d.sessions /\ R = Without(T, S) /\ (d.batchFull => y.batchFull)
    BY <1>3, <2>1 DEF TripErased
  <2>3. DOMAIN R \subseteq DOMAIN T
    BY <2>2 DEF Without
  <2>4. QED
    BY <2>1, <2>2, <2>3, FewerRegistered
<1>7. PICK s, x, z : /\ s = job.session /\ x = EraseSession(y, s)
                     /\ z = IF job.restart THEN Start(x, job) ELSE y
  OBVIOUS
<1>8. a = Reports(z, job)
  BY <1>3, <1>7 DEF Continued
<1>9. AdapterOK(z, DOMAIN cmds) /\ (Registered(y) => Registered(z)) /\ QueriesKnown(z)
  <2>1. CASE ~job.restart
    BY <1>4, <1>5, <1>7, <2>1, NoQueryKnown
  <2>2. CASE job.restart
    <3>1. AdapterOK(x, DOMAIN cmds) /\ x.calls = y.calls /\ z = Start(x, job)
      BY <1>5, <1>7, <2>2, EraseSessionLoses
    <3>2. Registered(y) => Registered(x)
      BY <1>5, <1>7, EraseSessionRegisters
    <3>3. NoQuery(x)
      BY <1>4, <3>1 DEF NoQuery
    <3>4. (Registered(x) => Registered(z)) /\ (NoQuery(x) => QueriesKnown(z))
      BY <3>1, StartRegisters
    <3>5. AdapterOK(z, DOMAIN cmds)
      BY <3>1, StartIsStart DEF StartedFrom
    <3>6. QED
      BY <3>2, <3>3, <3>4, <3>5
  <2>3. QED
    BY <2>1, <2>2
<1>10. Keeping(z, a) /\ (Registered(z) => Registered(a))
  BY <1>8, <1>9, ReportsKeeps, ReportsRegisters
<1>11. QED
  BY <1>6, <1>9, <1>10 DEF Keeping, QueriesKnown

LEMMA AdapterRegistered ==
  ASSUME Types, BatchCounted, ~crossed, refused \subseteq {0}
  PROVE  Registered(Adapter)
BY AdapterIs DEF BatchCounted, Registered

LEMMA StaysCounted ==
  ASSUME Types, SessionsAgree, BatchCounted, NEW a, HandlerStep(a), QueriesKnown(a),
         DOMAIN mTripSessions # {} => DOMAIN a.trips # {},
         ~crossed /\ ~crossed' /\ refused \subseteq {0} => Registered(a)
  PROVE  BatchCounted'
<1>1. Counted(a)
  BY DEF Counted, TripsStay
<1>2. QED
  BY <1>1, HandlerCounts

LEMMA KeepingCounts ==
  ASSUME Types, SessionsAgree, BatchCounted, NEW a, HandlerStep(a), Keeping(Adapter, a),
         batchFull => a.batchFull
  PROVE  BatchCounted'
<1>1. a.sessions = mBatchingSessions /\ a.trips = mTripSessions /\ a.calls = <<>>
  BY AdapterIs DEF Keeping
<1>2. QueriesKnown(a)
  BY <1>1, NothingAsked, NoQueryKnown
<1>3. ASSUME ~crossed, refused \subseteq {0}
      PROVE  Registered(a)
  BY <1>1, <1>3 DEF BatchCounted, Registered
<1>4. QED
  BY <1>1, <1>2, <1>3, StaysCounted

LEMMA HandleGotCounts ==
  ASSUME Types, SessionsAgree, BatchCounted, HandleGot \/ HandleTripRestarted \/ HandleIgnored
  PROVE  BatchCounted'
<1>1. PICK a, op : /\ a = Reports(Adapter, Arg) \/ a = Adapter
                   /\ Becomes(a) /\ Continues(op) /\ op # "engineUp"
  BY DEF HandleGot, HandleTripRestarted, HandleIgnored
<1>2. Keeping(Adapter, a) /\ a.batchFull = Adapter.batchFull
  BY <1>1, AdapterIs, AdapterKeeps, ReportsKeeps, ReportsRegisters
<1>3. HandlerStep(a)
  BY <1>1, <1>2, ContinuesStep DEF Keeping
<1>4. batchFull => a.batchFull
  BY <1>2, AdapterIs
<1>5. QED
  BY <1>2, <1>3, <1>4, KeepingCounts

\* The continuations and reports that are about trips: the event is given up with the last.
LEMMA AboutTripsCounts ==
  ASSUME Types, SessionsAgree, BatchCounted,
         HandleRemaining \/ HandleMultiplexed \/ HandleTripResumed \/ HandleCompleted
  PROVE  BatchCounted'
<1>1. PICK a : AboutTrips(a) /\ Becomes(a)
  BY HandleRemainingIs, HandleMultiplexedIs, HandleTripResumedIs, HandleCompletedIs
<1>2. /\ queue # <<>> /\ queue' = Tail(queue)
      /\ Head(queue).op \in {"remaining", "multiplexed", "tripResumed", "completed"}
      /\ UNCHANGED <<mPendingMsgs, modemVars, clientVars>>
  BY DEF HandleRemaining, HandleMultiplexed, HandleTripResumed, HandleCompleted, Continues,
         Handling
<1>3. HandlerStep(a)
  BY <1>1, <1>2, HandlerStepIs DEF AboutTrips
<1>4. /\ AdapterOK(a, DOMAIN cmds) /\ a.sessions = mBatchingSessions
      /\ DOMAIN a.trips \subseteq DOMAIN mTripSessions
      /\ (DOMAIN a.trips = {} /\ ReportingCount(a) = 0) \/ (batchFull => a.batchFull)
  BY <1>1 DEF AboutTrips
<1>5. ASSUME ~crossed, refused \subseteq {0}
      PROVE  Registered(a)
  <2>1. CASE ReportingCount(a) = 0
    BY <1>4, <2>1, CountIs DEF Registered
  <2>2. CASE batchFull => a.batchFull
    <3>1. ToReport(a.sessions, a.trips) => ToReport(mBatchingSessions, mTripSessions)
      BY <1>4 DEF ToReport
    <3>2. QED
      BY <1>5, <2>2, <3>1 DEF Registered, BatchCounted
  <2>3. QED
    BY <1>4, <2>1, <2>2
<1>6. CASE a.calls = <<>> /\ DOMAIN a.trips = DOMAIN mTripSessions
  <2>1. QueriesKnown(a)
    BY <1>6, NothingAsked, NoQueryKnown
  <2>2. QED
    BY <1>3, <1>5, <1>6, <2>1, StaysCounted
<1>7. CASE \E c : c.then.op \in {"remaining", "multiplexed", "tripEnded"}
                  /\ a.calls = Append(<<>>, c)
  <2>1. PICK c : c.then.op \in {"remaining", "multiplexed", "tripEnded"}
                 /\ a.calls = Append(<<>>, c)
    BY <1>7
  <2>2. ToSet(Thens(a.calls)) = {c.then}
    BY <2>1, OnlyCall
  <2>3. QueriesKnown(a) /\ TripsStay(a)
    BY <2>1, <2>2 DEF QueriesKnown, TripsStay, TripResponses
  <2>4. Counted(a)
    BY <1>5, <2>3 DEF Counted
  <2>5. QED
    BY <1>3, <2>4, HandlerCounts
<1>8. QED
  BY <1>1, <1>6, <1>7 DEF AboutTrips

\* A start that the modem has refused.
LEMMA HandleStartedCounts ==
  ASSUME Types, SessionsAgree, BatchCounted, HandleStarted
  PROVE  BatchCounted'
<1>1. PICK job, y, e, condition, d, a :
        /\ job = Arg /\ y = job.session
        /\ e = IF Ok THEN Adapter ELSE EraseSession(Adapter, y)
        /\ condition => ReportingCount(e) = 0
        /\ d = DisableIf(e, condition) /\ a = Reports(d, job) /\ Becomes(a)
  BY DEF HandleStarted
<1>2. /\ AdapterOK(e, DOMAIN cmds) /\ Grows(Adapter, e)
      /\ e.calls = <<>> /\ e.trips = mTripSessions
      /\ Registered(Adapter) => Registered(e)
  <2>1. CASE Ok
    BY <1>1, <2>1, AdapterIs DEF Grows
  <2>2. CASE ~Ok
    BY <1>1, <2>2, AdapterIs, EraseSessionLoses, EraseSessionRegisters
  <2>3. QED
    BY <2>1, <2>2
<1>3. Keeping(e, d) /\ AdapterOK(d, DOMAIN cmds)
  BY <1>1, <1>2, DisableIfKeeps DEF Keeping
<1>4. Keeping(d, a)
  BY <1>1, <1>3, ReportsKeeps
<1>5. HandlerStep(a)
  <2>1. AdapterOK(a, DOMAIN cmds) /\ Grows(Adapter, a)
    BY <1>2, <1>3, <1>4 DEF Keeping, Grows
  <2>2. PICK op : op = "started" /\ Continues(op)
    BY DEF HandleStarted
  <2>3. QED
    BY <1>1, <2>1, <2>2, ContinuesStep
<1>6. Registered(Adapter) => Registered(a)
  <2>1. Registered(e) => Registered(d)
    BY <1>1, <1>2, DisableRegisters
  <2>2. Registered(d) => Registered(a)
    BY <1>1, <1>3, ReportsRegisters
  <2>3. QED
    BY <1>2, <2>1, <2>2
<1>7. a.calls = <<>> /\ a.trips = mTripSessions
  BY <1>2, <1>3, <1>4 DEF Keeping
<1>8. QueriesKnown(a)
  BY <1>7, NothingAsked, NoQueryKnown
<1>9. QED
  BY <1>5, <1>6, <1>7, <1>8, AdapterRegistered, StaysCounted

\* A start makes trips no fewer.
LEMMA StartStays ==
  ASSUME NEW x, NEW b, NEW job, StartedFrom(x, b, job), DOMAIN x.trips # {}
  PROVE  DOMAIN b.trips # {}
BY DEF StartedFrom, StartsPlain, StartsTrip, QueriesTrip

\* A session that is stopped: one that is updated is started again.
LEMMA HandleStoppedCounts ==
  ASSUME Types, SessionsAgree, BatchCounted, HandleStopped
  PROVE  BatchCounted'
<1>1. PICK job, y, o, condition, d, e, z, a :
        /\ job = Arg.job /\ y = job.session /\ o = job.options
        /\ condition => ReportingCount(Adapter) = 0
        /\ d = DisableIf(Adapter, condition)
        /\ e = [Adapter EXCEPT !.sessions = With(@, y, o)]
        /\ z = IF ~Ok THEN e ELSE IF job.restart THEN Start(d, job) ELSE d
        /\ a = Reports(z, job) /\ Becomes(a)
  BY DEF HandleStopped
<1>2. PICK op : op = "stopped" /\ Continues(op) /\ Head(queue).op = op /\ queue # <<>>
  BY DEF HandleStopped, Continues, Handling
<1>3. JobOK(job, DOMAIN cmds)
  BY <1>1, <1>2, HeadIs DEF MsgOK, Arg
<1>4. Keeping(Adapter, d) /\ AdapterOK(d, DOMAIN cmds)
  BY <1>1, AdapterIs, DisableIfKeeps DEF Keeping
<1>5. d.calls = <<>> /\ d.trips = mTripSessions /\ Grows(Adapter, d)
  BY <1>4, AdapterIs DEF Keeping
<1>6. Registered(Adapter) => Registered(d)
  BY <1>1, AdapterIs, DisableRegisters
<1>7. /\ AdapterOK(z, DOMAIN cmds) /\ Grows(Adapter, z) /\ QueriesKnown(z)
      /\ DOMAIN mTripSessions # {} => DOMAIN z.trips # {}
      /\ refused \subseteq {0} /\ Registered(Adapter) => Registered(z)
  <2>1. CASE ~Ok
    <3>1. y \in refused /\ y \in DOMAIN cmds
      BY <1>1, <1>2, <1>3, <2>1, HeadIs DEF SessionsAgree, Arg, Ok, JobOK
    <3>2. ~(refused \subseteq {0})
      BY <3>1, CommandsFromOne
    <3>3. PICK D : D = DOMAIN cmds
      OBVIOUS
    <3>4. AdapterOK(Adapter, D) /\ y \in D
      BY <3>1, <3>3, AdapterIs
    <3>5. /\ AdapterOK(e, D) /\ Grows(Adapter, e) /\ e.calls = Adapter.calls
          /\ e.trips = Adapter.trips
      BY <1>1, <3>4, SavesIs
    <3>6. z = e /\ e.calls = <<>> /\ e.trips = mTripSessions
      BY <1>1, <2>1, <3>5, AdapterIs
    <3>7. QueriesKnown(e)
      BY <3>6, NothingAsked, NoQueryKnown
    <3>8. QED
      BY <3>2, <3>3, <3>5, <3>6, <3>7
  <2>2. CASE Ok /\ ~job.restart
    <3>1. z = d /\ QueriesKnown(d)
      BY <1>1, <1>5, <2>2, NothingAsked, NoQueryKnown
    <3>2. QED
      BY <1>4, <1>5, <1>6, <3>1
  <2>3. CASE Ok /\ job.restart
    <3>1. z = Start(d, job)
      BY <1>1, <2>3
    <3>2. StartedFrom(d, z, job)
      BY <1>3, <1>4, <3>1, StartIsStart
    <3>3. NoQuery(d)
      BY <1>5, NothingAsked
    <3>4. (Registered(d) => Registered(z)) /\ (NoQuery(d) => QueriesKnown(z))
      BY <1>3, <1>4, <3>1, StartRegisters
    <3>5. DOMAIN mTripSessions # {} => DOMAIN z.trips # {}
      BY <1>5, <3>2, StartStays
    <3>6. AdapterOK(z, DOMAIN cmds) /\ Grows(Adapter, z)
      BY <1>5, <3>2 DEF StartedFrom, Grows
    <3>7. QED
      BY <1>6, <3>3, <3>4, <3>5, <3>6
  <2>4. QED
    BY <2>1, <2>2, <2>3
<1>8. Keeping(z, a) /\ (Registered(z) => Registered(a))
  BY <1>1, <1>7, ReportsKeeps, ReportsRegisters
<1>9. HandlerStep(a)
  <2>1. AdapterOK(a, DOMAIN cmds) /\ Grows(Adapter, a)
    BY <1>7, <1>8 DEF Keeping, Grows
  <2>2. QED
    BY <1>1, <1>2, <2>1, ContinuesStep
<1>10. QueriesKnown(a) /\ (DOMAIN mTripSessions # {} => DOMAIN a.trips # {})
  BY <1>7, <1>8 DEF Keeping, QueriesKnown
<1>11. QED
  BY <1>7, <1>8, <1>9, <1>10, AdapterRegistered, StaysCounted

\* A trip that the modem has not started is forgotten, and with it the event, perhaps.
LEMMA HandleTripStartedCounts ==
  ASSUME Types, SessionsAgree, BatchCounted, HandleTripStarted
  PROVE  BatchCounted'
<1>1. PICK ongoing, job, y, e1, e2, d, k, z, a :
        /\ job = Arg /\ y = job.session
        /\ e1 = EraseSession(Adapter, y) /\ e2 = EraseTrip(e1, y)
        /\ d = DisableIf(e2, ReportingCount(e2) = 0)
        /\ k = [Adapter EXCEPT !.ongoing = ongoing]
        /\ z = IF Ok THEN k ELSE d
        /\ a = Reports(z, job) /\ Becomes(a)
  BY DEF HandleTripStarted
<1>2. PICK op : op = "tripStarted" /\ Continues(op) /\ Head(queue).op = op /\ queue # <<>>
  BY DEF HandleTripStarted, Continues, Handling
<1>3. /\ AdapterOK(z, DOMAIN cmds) /\ Grows(Adapter, z) /\ z.calls = <<>>
      /\ Registered(Adapter) => Registered(z)
  <2>1. CASE Ok
    <3>1. Keeping(Adapter, k) /\ z = k
      BY <1>1, <2>1, AdapterIs, EndsKeeps
    <3>2. k.batchFull = Adapter.batchFull
      <4>1. PICK D : D = DOMAIN cmds
        OBVIOUS
      <4>2. AdapterOK(Adapter, D)
        BY <4>1, AdapterIs
      <4>3. QED
        BY <1>1, <4>2, EndsIs
    <3>3. QED
      BY <3>1, <3>2, AdapterIs DEF Keeping, Registered
  <2>2. CASE ~Ok
    <3>1. /\ AdapterOK(e1, DOMAIN cmds) /\ Grows(Adapter, e1) /\ e1.calls = <<>>
          /\ Registered(Adapter) => Registered(e1)
      BY <1>1, AdapterIs, EraseSessionLoses, EraseSessionRegisters
    <3>2. /\ AdapterOK(e2, DOMAIN cmds) /\ Grows(e1, e2) /\ e2.calls = <<>>
          /\ Registered(e1) => Registered(e2)
      BY <1>1, <3>1, EraseTripLoses, EraseTripRegisters
    <3>3. Keeping(e2, d) /\ (Registered(e2) => Registered(d))
      BY <1>1, <3>2, DisableIfKeeps, DisableRegisters
    <3>4. z = d
      BY <1>1, <2>2
    <3>5. QED
      BY <3>1, <3>2, <3>3, <3>4 DEF Keeping, Grows
  <2>3. QED
    BY <2>1, <2>2
<1>4. Keeping(z, a) /\ (Registered(z) => Registered(a))
  BY <1>1, <1>3, ReportsKeeps, ReportsRegisters
<1>5. HandlerStep(a)
  <2>1. AdapterOK(a, DOMAIN cmds) /\ Grows(Adapter, a)
    BY <1>3, <1>4 DEF Keeping, Grows
  <2>2. QED
    BY <1>1, <1>2, <2>1, ContinuesStep
<1>6. QueriesKnown(a)
  BY <1>3, <1>4, NothingAsked, NoQueryKnown DEF Keeping
<1>7. TripsStay(a)
  BY <1>2 DEF TripsStay, TripResponses
<1>8. Counted(a)
  BY <1>3, <1>4, <1>6, <1>7, AdapterRegistered DEF Counted
<1>9. QED
  BY <1>5, <1>8, HandlerCounts

\* A trip that was asked for while the modem had one: the event is registered for still.
LEMMA HandleTripQueriedCounts ==
  ASSUME Types, SessionsAgree, BatchCounted, HandleTripQueried
  PROVE  BatchCounted'
<1>1. PICK a : Queried(a) /\ Becomes(a)
  BY HandleTripQueriedIs
<1>2. PICK op : op = "tripQueried" /\ Continues(op) /\ Head(queue).op = op /\ queue # <<>>
  BY DEF HandleTripQueried, Continues, Handling
<1>3. PICK known :
    /\ AdapterOK(known, DOMAIN cmds) /\ Grows(Adapter, known)
    /\ known.calls = <<>> /\ known.batchFull = Adapter.batchFull
    /\ \/ a = Reports(known, Arg)
       \/ \E c : /\ c.then = Msg("tripRestarted", Arg)
                 /\ AdapterOK(a, DOMAIN cmds) /\ Grows(known, a)
                 /\ a.calls = Append(known.calls, c) /\ a.batchFull = known.batchFull
  BY <1>1 DEF Queried
<1>4. /\ AdapterOK(a, DOMAIN cmds) /\ Grows(Adapter, a) /\ a.batchFull = Adapter.batchFull
      /\ QueriesKnown(a)
  <2>1. CASE a = Reports(known, Arg)
    <3>1. Keeping(known, a) /\ a.batchFull = known.batchFull
      BY <1>3, <2>1, ReportsKeeps, ReportsRegisters
    <3>2. QueriesKnown(a)
      BY <1>3, <3>1, NothingAsked, NoQueryKnown DEF Keeping
    <3>3. QED
      BY <1>3, <3>1, <3>2 DEF Keeping, Grows
  <2>2. ASSUME NEW c, c.then = Msg("tripRestarted", Arg),
               AdapterOK(a, DOMAIN cmds), Grows(known, a), a.calls = Append(known.calls, c),
               a.batchFull = known.batchFull
        PROVE  Grows(Adapter, a) /\ a.batchFull = Adapter.batchFull /\ QueriesKnown(a)
    <3>1. a.calls = Append(<<>>, c)
      BY <1>3, <2>2
    <3>2. ToSet(Thens(a.calls)) = {c.then}
      BY <3>1, OnlyCall
    <3>3. c.then.op = "tripRestarted"
      BY <2>2 DEF Msg
    <3>4. QED
      BY <1>3, <2>2, <3>2, <3>3 DEF Grows, QueriesKnown
  <2>3. QED
    BY <1>3, <2>1, <2>2
<1>5. HandlerStep(a)
  BY <1>1, <1>2, <1>4, ContinuesStep
<1>6. ASSUME ~crossed, refused \subseteq {0}
      PROVE  Registered(a)
  <2>1. Head(queue) \in InFlight /\ Head(queue).op = "tripQueried"
    BY <1>2, HeadIs DEF InFlight
  <2>2. DOMAIN mTripSessions # {}
    BY <1>6, <2>1 DEF BatchCounted
  <2>3. batchFull
    BY <1>6, <2>2 DEF BatchCounted, ToReport
  <2>4. QED
    BY <1>4, <2>3, AdapterIs DEF Registered
<1>7. TripsStay(a)
  BY <1>2 DEF TripsStay, TripResponses
<1>8. Counted(a)
  BY <1>4, <1>6, <1>7 DEF Counted
<1>9. QED
  BY <1>5, <1>8, HandlerCounts

\* The last trip that the modem has stopped: it is still in both maps, and counted twice.
LEMMA HandleTripStoppedCounts ==
  ASSUME Types, SessionsAgree, BatchCounted, HandleTripStopped
  PROVE  BatchCounted'
<1>1. PICK garbage, condition, d, job, a :
        /\ condition => ReportingCount(Adapter) = 1
        /\ d = DisableIf(Adapter, condition) /\ job = Arg
        /\ a = StopTripCommon(d, job, garbage) /\ Becomes(a)
  BY DEF HandleTripStopped
<1>2. PICK op : op = "tripStopped" /\ Continues(op) /\ Head(queue).op = op /\ queue # <<>>
  BY DEF HandleTripStopped, Continues, Handling
<1>3. JobOK(job, DOMAIN cmds)
  BY <1>1, <1>2, HeadIs DEF MsgOK, Arg, JobOps
<1>4. Keeping(Adapter, d)
  BY <1>1, AdapterIs, DisableIfKeeps
<1>5. AdapterOK(a, DOMAIN cmds) /\ Grows(Adapter, a)
  BY <1>1, <1>3, <1>4, StopTripCommonGoes
<1>6. (Registered(d) => Registered(a)) /\ QueriesKnown(a)
  BY <1>1, <1>3, <1>4, StopTripCommonRegisters
<1>7. HandlerStep(a)
  BY <1>1, <1>2, <1>5, ContinuesStep
<1>8. ASSUME ~crossed, refused \subseteq {0}
      PROVE  Registered(d)
  <2>1. PICK s, x : s = job.session /\ x = Adapter
    OBVIOUS
  <2>2. s \in DOMAIN cmds \ refused
    BY <1>3, <1>8, <2>1, CommandsFromOne DEF JobOK
  <2>3. OfTrip(Head(queue), s) /\ Head(queue) \in InFlight
    BY <1>1, <1>2, <2>1, HeadIs DEF OfTrip, Arg, InFlight
  <2>4. /\ s \in DOMAIN mBatchingSessions /\ mBatchingSessions[s].mode = "trip"
        /\ s \in DOMAIN mTripSessions
    BY <1>8, <2>2, <2>3 DEF SessionsAgree, PlainOK, Tokens
  <2>5. AdapterOK(x, DOMAIN cmds) /\ x.sessions = mBatchingSessions /\ x.trips = mTripSessions
    BY <2>1, AdapterIs
  <2>6. ReportingCount(x) # 1
    <3>1. s \in DOMAIN x.sessions \cap DOMAIN x.trips /\ x.sessions[s].mode # "noAutoReport"
      BY <2>4, <2>5
    <3>2. QED
      BY <2>5, <3>1, CountIs
  <2>7. ~condition
    BY <1>1, <2>1, <2>6
  <2>8. Registered(x)
    BY <1>8, <2>1, AdapterRegistered
  <2>9. QED
    BY <1>1, <2>1, <2>5, <2>7, <2>8, DisableRegisters
<1>9. TripsStay(a)
  BY <1>2 DEF TripsStay, TripResponses
<1>10. Counted(a)
  BY <1>6, <1>8, <1>9 DEF Counted
<1>11. QED
  BY <1>7, <1>10, HandlerCounts

\* What is under way loses a message that is about no trip.
LEMMA PassedOverCounts ==
  ASSUME BatchCounted, InFlight' \subseteq InFlight,
         UNCHANGED <<mBatchingSessions, mTripSessions, batchFull, refused, crossed>>
  PROVE  BatchCounted'
BY DEF BatchCounted, ToReport

\* A command that is performed.
LEMMA StopTripCounted ==
  ASSUME Types, SessionsAgree, BatchCounted, NEW a, NEW garbage,
         a = StopTrip(Adapter, CommandJob, garbage), Arg \in DOMAIN cmds,
         CommandJob.session \in DOMAIN mTripSessions
  PROVE  Counted(a)
<1>1. PICK job, D, y, x, T :
        /\ job = CommandJob /\ D = DOMAIN cmds /\ y = job.session /\ x = Adapter
        /\ T = mTripSessions
  OBVIOUS
<1>2. /\ AdapterOK(x, D) /\ JobOK(job, D) /\ x.trips = T
      /\ x.calls = <<>> /\ y \in DOMAIN T /\ Keeping(Adapter, x)
  BY <1>1, AdapterIs, CommandJobIs, AdapterKeeps
<1>3. a = StopTrip(x, job, garbage)
  BY <1>1
<1>4. ~crossed /\ refused \subseteq {0} => Registered(x)
  BY <1>1, AdapterRegistered
<1>5. CASE Cardinality(DOMAIN x.trips) = 1
  <2>1. PICK then, c : then = Msg("tripStopped", job) /\ c = Call("stopTrip", None, then)
    OBVIOUS
  <2>2. /\ a.calls = Append(x.calls, c) /\ a.sessions = x.sessions /\ a.trips = x.trips
        /\ a.batchFull = x.batchFull /\ c.then = then
    <3>1. a = Calls(x, "stopTrip", None, then)
      BY <1>3, <1>5, <2>1 DEF StopTrip
    <3>2. QED
      BY <1>2, <2>1, <3>1 DEF Calls, Call, AdapterOK, Fields
  <2>3. ToSet(Thens(a.calls)) = {c.then} /\ c.then.op = "tripStopped"
    <3>1. a.calls = Append(<<>>, c)
      BY <1>2, <2>2
    <3>2. then.op = "tripStopped"
      BY <2>1 DEF Msg
    <3>3. QED
      BY <2>2, <3>1, <3>2, OnlyCall
  <2>4. QueriesKnown(a) /\ TripsStay(a)
    BY <1>1, <1>2, <2>2, <2>3 DEF QueriesKnown, TripsStay
  <2>5. Registered(x) => Registered(a)
    BY <2>2 DEF Registered
  <2>6. QED
    BY <1>4, <2>4, <2>5 DEF Counted
<1>6. CASE Cardinality(DOMAIN x.trips) # 1
  <2>1. a = StopTripCommon(x, job, garbage)
    BY <1>3, <1>6 DEF StopTrip
  <2>2. DOMAIN T \ {y} # {}
    <3>1. Cardinality({y}) = 1
      BY FS_Singleton
    <3>2. DOMAIN T # {y}
      BY <1>2, <1>6, <3>1
    <3>3. QED
      BY <1>2, <3>2
  <2>3. \E t \in ToSet(Thens(a.calls)) : t.op = "remaining"
    BY <1>1, <1>2, <2>1, <2>2, StopTripCommonGoes
  <2>4. (Registered(x) => Registered(a)) /\ QueriesKnown(a)
    BY <1>1, <1>2, <2>1, StopTripCommonRegisters
  <2>5. TripsStay(a)
    BY <2>3 DEF TripsStay, TripResponses
  <2>6. QED
    BY <1>4, <2>4, <2>5 DEF Counted
<1>7. QED
  BY <1>5, <1>6

LEMMA StartCounted ==
  ASSUME Types, BatchCounted, NEW a, a = Start(Adapter, CommandJob), Arg \in DOMAIN cmds
  PROVE  Counted(a)
<1>1. PICK job, x : job = CommandJob /\ x = Adapter
  OBVIOUS
<1>2. /\ JobOK(job, DOMAIN cmds) /\ AdapterOK(x, DOMAIN cmds) /\ x.trips = mTripSessions
      /\ NoQuery(x) /\ a = Start(x, job)
  BY <1>1, CommandJobIs, AdapterIs, NothingAsked
<1>3. /\ Registered(x) => Registered(a)
      /\ QueriesKnown(a)
  BY <1>2, StartRegisters
<1>4. DOMAIN mTripSessions # {} => DOMAIN a.trips # {}
  <2>1. StartedFrom(x, a, job)
    BY <1>2, StartIsStart
  <2>2. QED
    BY <1>2, <2>1, StartStays
<1>5. QED
  BY <1>1, <1>3, <1>4, AdapterRegistered DEF Counted, TripsStay

LEMMA StopBatchingFills ==
  ASSUME NEW x, NEW job, NEW D, AdapterOK(x, D), JobOK(job, D)
  PROVE  LET b == StopBatching(x, job) IN b.batchFull = x.batchFull
BY StopBatchingIs, ZenonT(20)

LEMMA StopCounted ==
  ASSUME Types, BatchCounted, NEW a, a = StopBatching(Adapter, CommandJob), Arg \in DOMAIN cmds,
         CommandJob.session \in DOMAIN mBatchingSessions
  PROVE  Counted(a)
<1>1. PICK job, x, y, D : job = CommandJob /\ x = Adapter /\ y = job.session /\ D = DOMAIN cmds
  OBVIOUS
<1>2. /\ JobOK(job, D) /\ AdapterOK(x, D) /\ x.trips = mTripSessions
      /\ x.calls = <<>> /\ a = StopBatching(x, job) /\ y \in DOMAIN x.sessions
  BY <1>1, CommandJobIs, AdapterIs
<1>3. /\ a.trips = x.trips /\ Lost(x.sessions, a.sessions, y)
      /\ \E c : a.calls = Append(x.calls, c) /\ c.then.op = "stopped"
  BY <1>1, <1>2, StopIsStop
<1>4. a.batchFull = x.batchFull
  <2>1. AdapterOK(x, D) /\ JobOK(job, D)
    BY <1>2
  <2>2. QED
    BY <1>2, <2>1, StopBatchingFills
<1>5. PICK c : a.calls = Append(x.calls, c) /\ c.then.op = "stopped"
  BY <1>3
<1>6. ToSet(Thens(a.calls)) = {c.then}
  BY <1>2, <1>5, OnlyCall
<1>7. QueriesKnown(a) /\ TripsStay(a)
  BY <1>2, <1>3, <1>5, <1>6 DEF QueriesKnown, TripsStay
<1>8. Registered(x) => Registered(a)
  <2>1. PICK S, R : S = x.sessions /\ R = a.sessions
    OBVIOUS
  <2>2. DOMAIN R \subseteq DOMAIN S /\ \A s \in DOMAIN R : R[s] = S[s]
    BY <1>3, <2>1 DEF Lost
  <2>3. QED
    BY <1>3, <1>4, <2>1, <2>2, FewerRegistered
<1>9. QED
  BY <1>1, <1>7, <1>8, AdapterRegistered DEF Counted

LEMMA GetCounted ==
  ASSUME Types, BatchCounted, NEW a,
         a = Calls(Adapter, "getBatchedLocations", None, Msg("got", CommandJob))
  PROVE  Counted(a)
<1>1. PICK c, x : x = Adapter /\ c = Call("getBatchedLocations", None, Msg("got", CommandJob))
  OBVIOUS
<1>2. AdapterOK(x, DOMAIN cmds) /\ x.calls = <<>> /\ x.trips = mTripSessions
  BY <1>1, AdapterIs
<1>3. /\ a.calls = Append(x.calls, c) /\ a.sessions = x.sessions /\ a.trips = x.trips
      /\ a.batchFull = x.batchFull
  BY <1>1, <1>2 DEF Calls, AdapterOK, Fields
<1>4. c.then.op = "got"
  BY <1>1 DEF Call, Msg
<1>5. ToSet(Thens(a.calls)) = {c.then}
  <2>1. a.calls = Append(<<>>, c)
    BY <1>2, <1>3
  <2>2. QED
    BY <2>1, OnlyCall
<1>6. QueriesKnown(a) /\ TripsStay(a)
  BY <1>2, <1>3, <1>4, <1>5 DEF QueriesKnown, TripsStay
<1>7. Registered(x) => Registered(a)
  BY <1>3 DEF Registered
<1>8. QED
  BY <1>1, <1>6, <1>7, AdapterRegistered DEF Counted

LEMMA HandleCommandCounts ==
  ASSUME Types, SessionsAgree, BatchCounted, HandleCommand
  PROVE  BatchCounted'
<1>1. /\ Head(queue).op = "command" /\ queue # <<>> /\ queue' = Tail(queue)
      /\ Arg \in DOMAIN cmds /\ UNCHANGED <<modemVars, clientVars, mClientData, engineKnown>>
      /\ CommandPutOff \/ CommandRejected \/ \E a : CommandPerformed(a)
  BY HandleCommandIs
<1>2. CASE CommandPutOff \/ CommandRejected
  <2>1. UNCHANGED <<sessionVars, toModem, crossed, refused>>
    BY <1>1, <1>2 DEF CommandPutOff, CommandRejected, modemVars
  <2>2. InFlight' \subseteq InFlight
    BY <1>1, <2>1, HeadIs DEF InFlight
  <2>3. QED
    BY <2>1, <2>2, PassedOverCounts DEF sessionVars
<1>3. CASE \E a : CommandPerformed(a)
  <2>1. PICK a : CommandPerformed(a)
    BY <1>3
  <2>2. AdapterOK(a, DOMAIN cmds) /\ Grows(Adapter, a)
    BY <1>1, <2>1, PerformedTypes DEF CommandPerformed
  <2>3. HandlerStep(a)
    BY <1>1, <2>1, <2>2, HandlerStepIs DEF CommandPerformed
  <2>4. CommandJob.session = cmds[Arg].session
    BY <1>1, CommandJobIs
  <2>5. Counted(a)
    <3>1. CASE a = Start(Adapter, CommandJob)
      BY <1>1, <3>1, StartCounted
    <3>2. CASE /\ cmds[Arg].session \in DOMAIN mTripSessions
               /\ \E garbage : a = StopTrip(Adapter, CommandJob, garbage)
      BY <1>1, <2>4, <3>2, StopTripCounted
    <3>3. CASE /\ cmds[Arg].session \in DOMAIN mBatchingSessions
               /\ a = StopBatching(Adapter, CommandJob)
      BY <1>1, <2>4, <3>3, StopCounted
    <3>4. CASE a = Calls(Adapter, "getBatchedLocations", None, Msg("got", CommandJob))
      BY <3>4, GetCounted
    <3>5. QED
      BY <2>1, <3>1, <3>2, <3>3, <3>4 DEF CommandPerformed, Performed
  <2>6. QED
    BY <2>3, <2>5, HandlerCounts
<1>4. QED
  BY <1>1, <1>2, <1>3

\* The event mask is made anew when a client is removed.
LEMMA HandleRemoveClientCounts ==
  ASSUME Types, SessionsAgree, BatchCounted, HandleRemoveClient
  PROVE  BatchCounted'
<1>1. PICK own, order, n, f, garbage, a : RemovedInSteps(own, order, n, f, garbage, a)
  BY HandleRemoveClientIs
<1>2. /\ queue # <<>> /\ Head(queue).op = "removeClient" /\ queue' = Tail(queue)
      /\ UNCHANGED <<mPendingMsgs, modemVars, clientVars>>
  BY DEF HandleRemoveClient, Handling
<1>3. PICK x : x = f[n]
  OBVIOUS
<1>4. AdapterOK(x, DOMAIN cmds) /\ Grows(Adapter, x) /\ a = Masked(x, own) /\ Becomes(a)
  <2>1. a = Masked(x, own) /\ Becomes(a) /\ n \in 0..n
    BY <1>1, <1>3 DEF RemovedInSteps
  <2>2. AdapterOK(x, DOMAIN cmds) /\ Grows(Adapter, x)
    BY <1>1, <1>3, <2>1, EachStopIs
  <2>3. QED
    BY <2>1, <2>2
<1>5. /\ AdapterOK(a, DOMAIN cmds) /\ a.sessions = x.sessions /\ a.trips = x.trips
      /\ a.batchFull <=> ReportingCount(x) > 0
      /\ a.crossed <=> x.crossed \/ \E s \in own : mBatchingSessions[s].mode = "trip"
  BY <1>4, MaskIs
<1>6. crossed => a.crossed
  BY <1>4, <1>5, AdapterIs DEF Grows
<1>7. HandlerStep(a)
  BY <1>2, <1>4, <1>5, <1>6 DEF HandlerStep, modemVars, clientVars
<1>8. Registered(a)
  BY <1>4, <1>5, CountIs DEF Registered
<1>9. ASSUME ~crossed'
      PROVE  QueriesKnown(a) /\ TripsStay(a)
  <2>1. ~a.crossed
    BY <1>4, <1>9 DEF Becomes
  <2>2. \A z \in own : mBatchingSessions[z].mode # "trip"
    BY <1>5, <2>1
  <2>3. AllStopped(a, own)
    BY <1>1, <2>2, ClientsAllStopped
  <2>4. ASSUME NEW t \in ToSet(Thens(a.calls)), t.op = "tripQueried"
        PROVE  FALSE
    <3>1. PICK s : s = t.arg.session
      OBVIOUS
    <3>2. Names(t, s) /\ ~Stops(t, s)
      BY <2>4, <3>1 DEF Names, Queries, Stops
    <3>3. QED
      BY <2>3, <3>2 DEF AllStopped, Silent
  <2>5. a.trips = mTripSessions
    BY <2>3 DEF AllStopped
  <2>6. QED
    BY <2>4, <2>5 DEF QueriesKnown, TripsStay
<1>10. Counted(a)
  BY <1>8, <1>9 DEF Counted
<1>11. QED
  BY <1>7, <1>10, HandlerCounts

\* restartSessions() registers for the event if anybody wants it.
LEMMA HandleEngineUpCounts ==
  ASSUME Types, SessionsAgree, BatchCounted, HandleEngineUp
  PROVE  BatchCounted'
<1>1. /\ queue # <<>> /\ Head(queue).op = "engineUp" /\ toModem = <<>>
      /\ queue' = Tail(queue) \o mPendingMsgs /\ refused' = refused
  BY HandleEngineUpIs DEF modemVars
<1>2. PICK a, order : /\ SessionsRestarted(a, order) /\ Becomes(a)
                      /\ IsSeq(order) /\ ToSet(order) = PlainSessions
                      /\ \A i, j \in 1..Len(order) : i < j => order[i] < order[j]
  BY HandleEngineUpIs
<1>3. PICK calls : calls = a.calls
  OBVIOUS
<1>4. /\ RestartCalls(calls) /\ toModem' = toModem \o calls
      /\ mBatchingSessions' = mBatchingSessions /\ mTripSessions' = mTripSessions
  BY <1>2, <1>3, RestartCallsAre DEF Becomes, SessionsRestarted
<1>5. PICK Q, P, N : /\ Q = ToSet(Tail(queue)) /\ P = ToSet(mPendingMsgs)
                     /\ N = ToSet(Thens(calls))
  OBVIOUS
<1>6. InFlight = {Head(queue)} \cup Q /\ InFlight' = Q \cup P \cup N
  BY <1>1, <1>4, <1>5, BehindRestarted DEF RestartCalls
<1>7. /\ \A m \in P : m.op # "tripQueried"
      /\ \A m \in N : m.op # "tripQueried"
  BY <1>4, <1>5 DEF Types, QueueOK, RestartCalls, Restarts
<1>8. ASSUME ~crossed'
      PROVE  ~crossed
  BY <1>2, <1>8 DEF Becomes, SessionsRestarted
<1>9. ToReport(mBatchingSessions, mTripSessions) => batchFull'
  <2>1. PICK x : x = Adapter
    OBVIOUS
  <2>2. AdapterOK(x, DOMAIN cmds) /\ x.sessions = mBatchingSessions /\ x.trips = mTripSessions
    BY <2>1, AdapterIs
  <2>3. ToReport(mBatchingSessions, mTripSessions) => ReportingCount(x) > 0
    BY <2>2, CountIs
  <2>4. QED
    BY <1>2, <2>1, <2>3 DEF Becomes, SessionsRestarted
<1>10. (\E m \in InFlight' : m.op = "tripQueried") => \E m \in InFlight : m.op = "tripQueried"
  BY <1>6, <1>7
<1>11. QED
  BY <1>4, <1>8, <1>9, <1>10 DEF BatchCounted, ToReport

\* What a client puts into the queue leaves the sessions and the registration alone.
LEMMA QueuedCounts ==
  ASSUME Types, BatchCounted, NEW x, Queued(x), x.op # "tripQueried",
         UNCHANGED <<mBatchingSessions, mTripSessions, batchFull, refused, crossed>>
  PROVE  BatchCounted'
<1>1. InFlight' = InFlight \cup {x}
  BY BehindQueued
<1>2. (\E m \in InFlight' : m.op = "tripQueried") => \E m \in InFlight : m.op = "tripQueried"
  BY <1>1
<1>3. QED
  BY <1>2 DEF BatchCounted, ToReport

LEMMA GiveCommandCounts ==
  ASSUME Types, BatchCounted, NEW op, NEW c, NEW s, NEW options, GiveCommand(op, c, s, options)
  PROVE  BatchCounted'
<1>1. PICK x : x = Msg("command", Len(cmds) + 1)
  OBVIOUS
<1>2. Queued(x)
  BY <1>1 DEF GiveCommand, Queued
<1>3. UNCHANGED <<mBatchingSessions, mTripSessions, batchFull, refused, crossed>>
  BY DEF GiveCommand, sessionVars, modemVars
<1>4. x.op # "tripQueried"
  BY <1>1 DEF Msg
<1>5. QED
  BY <1>2, <1>3, <1>4, QueuedCounts

LEMMA DestroyCounts ==
  ASSUME Types, BatchCounted, NEW c, Destroy(c)
  PROVE  BatchCounted'
<1>1. PICK x : x = Msg("removeClient", c)
  OBVIOUS
<1>2. Queued(x)
  BY <1>1 DEF Destroy, Queued
<1>3. UNCHANGED <<mBatchingSessions, mTripSessions, batchFull, refused, crossed>>
  BY DEF Destroy, sessionVars, modemVars
<1>4. x.op # "tripQueried"
  BY <1>1 DEF Msg
<1>5. QED
  BY <1>2, <1>3, <1>4, QueuedCounts

LEMMA ClientNextCounts ==
  ASSUME Types, BatchCounted, ClientNext
  PROVE  BatchCounted'
<1>1. PICK c : \/ \E op, s, options : GiveCommand(op, c, s, options)
               \/ Destroy(c)
  BY DEF ClientNext, StartBatchingCommand, UpdateBatchingOptionsCommand, StopBatchingCommand,
     GetBatchedLocationsCommand
<1>2. QED
  BY <1>1, GiveCommandCounts, DestroyCounts

LEMMA DeviceMovesCounts ==
  ASSUME Types, BatchCounted, DeviceMoves
  PROVE  BatchCounted'
<1>1. /\ UNCHANGED <<mBatchingSessions, mTripSessions, batchFull, toModem, mPendingMsgs,
                     refused, crossed>>
      /\ queue' = queue \/ \E distance : queue' = Append(queue, Msg("completed", distance))
  BY DEF DeviceMoves
<1>2. CASE queue' = queue
  BY <1>1, <1>2 DEF BatchCounted, ToReport, InFlight
<1>3. ASSUME NEW distance, queue' = Append(queue, Msg("completed", distance))
      PROVE  BatchCounted'
  <2>1. PICK x : x = Msg("completed", distance)
    OBVIOUS
  <2>2. Queued(x)
    BY <1>1, <1>3, <2>1 DEF Queued
  <2>3. x.op # "tripQueried"
    BY <2>1 DEF Msg
  <2>4. QED
    BY <1>1, <2>2, <2>3, QueuedCounts
<1>4. QED
  BY <1>1, <1>2, <1>3

\* An answer of the modem keeps the operation of the call, and a refusal is remembered.
LEMMA TurnedCounts ==
  ASSUME BatchCounted, Turned, refused \subseteq refused', UNCHANGED batchFull
  PROVE  BatchCounted'
<1>1. ASSUME NEW r \in InFlight', r.op = "tripQueried"
      PROVE  \E m \in InFlight : m.op = "tripQueried"
  BY <1>1 DEF Turned, Twins, Alike
<1>2. UNCHANGED <<mBatchingSessions, mTripSessions, crossed>>
  BY DEF Turned
<1>3. refused' \subseteq {0} => refused \subseteq {0}
  OBVIOUS
<1>4. QED
  BY <1>1, <1>2, <1>3 DEF BatchCounted, ToReport

LEMMA ModemActsCounts ==
  ASSUME Types, BatchCounted, ModemActs
  PROVE  BatchCounted'
<1>1. PICK m, distance : m = Head(toModem).then /\ Answers(TRUE, distance)
  BY DEF ModemActs
<1>2. toModem # <<>> /\ refused' = refused
  BY DEF ModemActs
<1>3. Turned
  BY <1>1, <1>2, AnswersTurn DEF Answered
<1>4. UNCHANGED batchFull
  BY <1>1 DEF Answers, sessionVars
<1>5. QED
  BY <1>2, <1>3, <1>4, TurnedCounts

LEMMA ModemRefusesCounts ==
  ASSUME Types, BatchCounted, ModemRefuses
  PROVE  BatchCounted'
<1>1. PICK m : m = Head(toModem).then /\ Answers(FALSE, 0)
  BY DEF ModemRefuses
<1>2. toModem # <<>> /\ refused \subseteq refused'
  BY DEF ModemRefuses
<1>3. Turned
  BY <1>1, <1>2, AnswersTurn DEF Answered
<1>4. UNCHANGED batchFull
  BY <1>1 DEF Answers, sessionVars
<1>5. QED
  BY <1>2, <1>3, <1>4, TurnedCounts

LEMMA ModemStartsCounts ==
  ASSUME Types, BatchCounted, ModemStarts
  PROVE  BatchCounted'
<1>1. PICK F : FailedAndUp(F)
  BY ModemStartsTurn
<1>2. Turned /\ refused \subseteq refused'
  BY <1>1 DEF FailedAndUp
<1>3. UNCHANGED batchFull
  BY DEF ModemStarts, sessionVars
<1>4. QED
  BY <1>2, <1>3, TurnedCounts

LEMMA InitCounts ==
  ASSUME Init
  PROVE  BatchCounted
<1>1. PICK none : none = queue \o Thens(toModem)
  OBVIOUS
<1>2. none = <<>>
  BY <1>1, ThensOfNone DEF Init
<1>3. InFlight = {}
  BY EmptyIsSeq, ThensOfNone DEF Init, InFlight
<1>4. DOMAIN mBatchingSessions = {} /\ DOMAIN mTripSessions = {}
  BY EmptyIsSeq DEF Init
<1>5. QED
  BY <1>3, <1>4 DEF BatchCounted, ToReport

LEMMA CountsStutter ==
  ASSUME BatchCounted, UNCHANGED vars
  PROVE  BatchCounted'
BY DEF BatchCounted, ToReport, InFlight, vars, sessionVars, modemVars

LEMMA TaskNextCounts ==
  ASSUME Types, SessionsAgree, BatchCounted, TaskNext
  PROVE  BatchCounted'
BY HandleCommandCounts, HandleStartedCounts, HandleStoppedCounts, HandleGotCounts,
   HandleTripStartedCounts, HandleTripQueriedCounts, HandleTripStoppedCounts,
   AboutTripsCounts, HandleRemoveClientCounts, HandleEngineUpCounts DEF TaskNext

LEMMA NextCounts ==
  ASSUME Types, SessionsAgree, BatchCounted, [Next]_vars
  PROVE  BatchCounted'
BY CountsStutter, ClientNextCounts, TaskNextCounts, ModemActsCounts, ModemRefusesCounts,
   ModemStartsCounts, DeviceMovesCounts DEF Next, ModemAnswers

\* The batch full event stays registered for as long as autoReportBatchingSessionsCount()
\* counts a session, and a trip is asked about by the other trips only: the inductive
\* invariant behind the registrations of startBatching(), startTripBatchingMultiplex(),
\* stopBatching(), stopTripBatchingMultiplex(), eraseBatchingSession() and updateEvtMask().
THEOREM BatchFullKept ==
  Spec => [](Types /\ CommandsAreCarried /\ SessionsAgree /\ BatchCounted)
<1>1. Init => BatchCounted
  BY InitCounts
<1>2. Types /\ SessionsAgree /\ BatchCounted /\ [Next]_vars => BatchCounted'
  BY NextCounts
<1>3. QED
  BY <1>1, <1>2, SessionsKept, PTL DEF Spec

\* While a routine session or a trip exists, the adapter is registered for the batch full event,
\* provided that nothing about trips crossed a call about trips and that the modem refused no
\* stop or update of a plain session (a refused start is undone): the callers of
\* autoReportBatchingSessionsCount() that disable the event never take it from the sessions
\* of another client, in whatever order the answers and the restarts of the modem come.
THEOREM BatchFullReported == Spec => []BatchFullIsReported
<1>1. Types /\ BatchCounted => BatchFullIsReported
  <2> SUFFICES ASSUME Types, BatchCounted, ~crossed, refused \subseteq {0}, Reporting
               PROVE  batchFull
    BY DEF BatchFullIsReported
  <2>1. CASE mTripSessions # <<>>
    <3>1. IsMap(mTripSessions)
      BY DEF Types, MapsOK
    <3>2. DOMAIN mTripSessions # {}
      BY <2>1, <3>1 DEF IsMap
    <3>3. QED
      BY <3>2 DEF BatchCounted, ToReport
  <2>2. CASE \E s \in DOMAIN mBatchingSessions : mBatchingSessions[s].mode = "routine"
    BY <2>2 DEF BatchCounted, ToReport
  <2>3. QED
    BY <2>1, <2>2 DEF Reporting
<1>2. QED
  BY <1>1, BatchFullKept, PTL
=============================================================================
