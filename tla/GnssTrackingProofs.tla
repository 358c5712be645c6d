------------------------- MODULE GnssTrackingProofs -------------------------
(***************************************************************************)
(* The tracking sessions, for any number of sessions, clients, commands    *)
(* and restarts.                                                           *)
(*                                                                         *)
(* The time-based fix.  The modem acts upon calls in the order they are    *)
(* made, so what counts is the last call about the fix that is under way:  *)
(* the inductive invariant says that its options serve every session in    *)
(* the map, or, without such a call, that those of the fix do.  A handler  *)
(* that changes the map makes a call if and only if that is no longer so.  *)
(* Between a restart of the modem and the handling of engineUp nothing is  *)
(* said.                                                                   *)
(*                                                                         *)
(* The answers.  The messages that will answer a session's client are      *)
(* counted (Count), in the queue, in mPendingMsgs and in the calls of the  *)
(* modem.  Every handler of a message about a session has one of a dozen   *)
(* outcomes (Outcome), and each keeps the count and the debt equal.        *)
(*                                                                         *)
(* The maps.  A client that waits has at most one command under way, and   *)
(* how far it has come says in which map the session may be (Placed).      *)
(* From that follow that the fix is stopped with the last session (Idle)   *)
(* and that the modem tracks the distance-based sessions (Tracked).        *)
(***************************************************************************)
EXTENDS GnssTracking, FiniteSetTheorems, SequenceTheorems, TLAPS

\* The intervals 1..n with n in S have a smallest one, since finite sets are
\* well founded.
LEMMA MinOfNaturals ==
  ASSUME NEW S \in SUBSET Nat, S # {}
  PROVE  Min(S) \in S /\ \A n \in S : Min(S) <= n
<1> DEFINE T == {1..n : n \in S}
<1>1. T \subseteq FiniteSubsetsOf(Nat)
  <2>1. \A n \in S : IsFiniteSet(1..n)
    BY FS_Interval
  <2>2. QED
    BY <2>1 DEF FiniteSubsetsOf
<1>2. PICK U \in T : \A V \in T : <<V, U>> \notin StrictSubsetOrdering(Nat)
  <2> HIDE DEF T
  <2>1. T # {}
    BY DEF T
  <2>2. QED
    BY <1>1, <2>1, FS_StrictSubsetOrderingWellFounded, WFMin
<1>3. PICK m \in S : U = 1..m
  OBVIOUS
<1>4. \A n \in S : m <= n
  <2> SUFFICES ASSUME NEW n \in S, n < m
               PROVE  FALSE
    OBVIOUS
  <2>1. 1..n \subseteq 1..m /\ m \in 1..m /\ m \notin 1..n
    OBVIOUS
  <2>2. <<1..n, U>> \in StrictSubsetOrdering(Nat)
    BY <1>3, <2>1 DEF StrictSubsetOrdering
  <2>3. QED
    BY <1>2, <2>2
<1>5. QED
  BY <1>4 DEF Min
-----------------------------------------------------------------------------
(***************************************************************************)
(* What the modem will do: calls are those under way, fix the options of   *)
(* the modem's fix, and m a map of time-based sessions.                    *)
(***************************************************************************)
TimeMap == [Sessions -> TimeOptions \cup {None}]

Serves(o, m) ==
  /\ o \in FixOptions
  /\ \A s \in Sessions : m[s] # None => o.minInterval <= m[s].minInterval

AboutFix(call) == call.call \in {"startTime", "stopFix"}

\* The last call about the fix serves the sessions.
LastCallServes(calls, m) ==
  \E i \in 1..Len(calls) :
    /\ calls[i].call = "startTime"
    /\ Serves(calls[i].o, m)
    /\ \A j \in 1..Len(calls) : j > i => ~AboutFix(calls[j])

WillServe(calls, fix, m) ==
  \/ LastCallServes(calls, m)
  \/ Serves(fix, m) /\ \A j \in 1..Len(calls) : ~AboutFix(calls[j])

LEMMA WillServeOther ==
  ASSUME NEW calls, NEW fix, NEW m, NEW n, WillServe(calls, fix, m),
         \A o \in FixOptions : Serves(o, m) => Serves(o, n)
  PROVE  WillServe(calls, fix, n)
<1>1. \A o : Serves(o, m) => Serves(o, n)
  BY DEF Serves
<1>2. QED
  BY <1>1 DEF WillServe, LastCallServes

LEMMA WillServeMore ==
  ASSUME NEW calls \in Seq(ModemCall), NEW more \in Seq(ModemCall), NEW fix, NEW m,
         WillServe(calls, fix, m), \A j \in 1..Len(more) : ~AboutFix(more[j])
  PROVE  WillServe(calls \o more, fix, m)
<1>1. /\ Len(calls \o more) = Len(calls) + Len(more)
      /\ Len(calls) \in Nat /\ Len(more) \in Nat
      /\ \A i \in 1..Len(calls) : (calls \o more)[i] = calls[i]
      /\ \A i \in 1..Len(calls \o more) :
           i > Len(calls) => i - Len(calls) \in 1..Len(more) /\ (calls \o more)[i] = more[i - Len(calls)]
  OBVIOUS
<1> DEFINE both == calls \o more
<1> HIDE DEF both
<1>2. \A i \in 1..Len(both) : i > Len(calls) => ~AboutFix(both[i])
  BY <1>1 DEF both
<1>3. CASE LastCallServes(calls, m)
  <2>1. PICK i \in 1..Len(calls) :
          /\ calls[i].call = "startTime"
          /\ Serves(calls[i].o, m)
          /\ \A j \in 1..Len(calls) : j > i => ~AboutFix(calls[j])
    BY <1>3 DEF LastCallServes
  <2>2. i \in 1..Len(both) /\ both[i] = calls[i]
    BY <1>1 DEF both
  <2>3. \A j \in 1..Len(both) : j > i => ~AboutFix(both[j])
    <3> TAKE j \in 1..Len(both)
    <3>1. CASE j > Len(calls)
      BY <3>1, <1>2
    <3>2. CASE j <= Len(calls)
      BY <3>2, <2>1, <1>1 DEF both
    <3>3. QED
      BY <3>1, <3>2, <1>1
  <2>4. QED
    BY <2>1, <2>2, <2>3 DEF WillServe, LastCallServes, both
<1>4. CASE Serves(fix, m) /\ \A j \in 1..Len(calls) : ~AboutFix(calls[j])
  <2>1. \A j \in 1..Len(both) : ~AboutFix(both[j])
    <3> TAKE j \in 1..Len(both)
    <3>1. CASE j > Len(calls)
      BY <3>1, <1>2
    <3>2. CASE j <= Len(calls)
      BY <3>2, <1>4, <1>1 DEF both
    <3>3. QED
      BY <3>1, <3>2, <1>1
  <2>2. QED
    BY <1>4, <2>1 DEF WillServe, both
<1>5. QED
  BY <1>3, <1>4 DEF WillServe

LEMMA WillServeStart ==
  ASSUME NEW calls \in Seq(ModemCall), NEW call \in ModemCall, NEW fix, NEW m,
         call.call = "startTime", Serves(call.o, m)
  PROVE  WillServe(calls \o <<call>>, fix, m)
<1>1. /\ Len(calls \o <<call>>) = Len(calls) + 1
      /\ Len(calls) \in Nat
      /\ (calls \o <<call>>)[Len(calls) + 1] = call
  OBVIOUS
<1> DEFINE both == calls \o <<call>>
           i == Len(calls) + 1
<1>2. /\ i \in 1..Len(both)
      /\ \A j \in 1..Len(both) : ~(j > i)
  BY <1>1
<1>3. both[i] = call
  BY <1>1
<1> HIDE DEF both, i
<1>4. LastCallServes(both, m)
  BY <1>2, <1>3 DEF LastCallServes
<1>5. QED
  BY <1>4 DEF WillServe, both

\* What ModemAccepts does to the fix.
FixAfter(call, fix) == CASE call.call = "startTime" -> call.o
                         [] call.call = "stopFix"   -> None
                         [] OTHER                   -> fix

LEMMA WillServeTail ==
  ASSUME NEW calls \in Seq(ModemCall), NEW fix, NEW m, calls # <<>>,
         WillServe(calls, fix, m)
  PROVE  WillServe(Tail(calls), FixAfter(Head(calls), fix), m)
<1>1. /\ Len(calls) \in Nat \ {0}
      /\ Len(Tail(calls)) = Len(calls) - 1
      /\ \A i \in 1..Len(calls) - 1 : Tail(calls)[i] = calls[i + 1]
      /\ Head(calls) = calls[1]
  OBVIOUS
<1> DEFINE rest == Tail(calls)
<1> HIDE DEF rest
<1>2. \A k \in 1..Len(calls) :
        (\A j \in 1..Len(calls) : j > k => ~AboutFix(calls[j]))
          => \A j \in 1..Len(rest) : j > k - 1 => ~AboutFix(rest[j])
  BY <1>1 DEF rest
<1>3. CASE LastCallServes(calls, m)
  <2>1. PICK i \in 1..Len(calls) :
          /\ calls[i].call = "startTime"
          /\ Serves(calls[i].o, m)
          /\ \A j \in 1..Len(calls) : j > i => ~AboutFix(calls[j])
    BY <1>3 DEF LastCallServes
  <2>2. \A j \in 1..Len(rest) : j > i - 1 => ~AboutFix(rest[j])
    BY <1>2, <2>1
  <2>3. CASE i = 1
    <3>1. FixAfter(Head(calls), fix) = calls[1].o
      BY <2>1, <2>3, <1>1 DEF FixAfter
    <3>2. \A j \in 1..Len(rest) : ~AboutFix(rest[j])
      BY <2>2, <2>3
    <3>3. QED
      BY <3>1, <3>2, <2>1, <2>3 DEF WillServe, rest
  <2>4. CASE i > 1
    <3>1. i - 1 \in 1..Len(rest) /\ rest[i - 1] = calls[i]
      BY <2>4, <1>1 DEF rest
    <3>2. LastCallServes(rest, m)
      BY <3>1, <2>1, <2>2 DEF LastCallServes
    <3>3. QED
      BY <3>2 DEF WillServe, rest
  <2>5. QED
    BY <2>3, <2>4, <1>1
<1>4. CASE Serves(fix, m) /\ \A j \in 1..Len(calls) : ~AboutFix(calls[j])
  <2>1. ~AboutFix(Head(calls))
    BY <1>1, <1>4
  <2>2. FixAfter(Head(calls), fix) = fix
    BY <2>1 DEF FixAfter, AboutFix
  <2>3. \A j \in 1..Len(rest) : ~AboutFix(rest[j])
    BY <1>1, <1>4 DEF rest
  <2>4. QED
    BY <2>2, <2>3, <1>4 DEF WillServe, rest
<1>5. QED
  BY <1>3, <1>4 DEF WillServe

-----------------------------------------------------------------------------
(***************************************************************************)
(* The multiplexing operators.                                             *)
(***************************************************************************)
LEMMA MapTypes ==
  ASSUME mTimeBased \in TimeMap
  PROVE  /\ TimeBased \subseteq Sessions
         /\ Sessions \subseteq Nat
         /\ TimeOptions \subseteq FixOptions
         /\ None \notin FixOptions
         /\ \A s \in TimeBased : /\ mTimeBased[s] \in TimeOptions
                                 /\ mTimeBased[s] \in FixOptions
                                 /\ mTimeBased[s].minInterval \in Nat
                                 /\ mTimeBased[s].powerMode \in Nat
<1>1. Sessions \subseteq Nat
  BY BoundsAssumption DEF Sessions
<1>2. TimeOptions \subseteq FixOptions /\ None \notin FixOptions
  BY OptionsAssumption
<1>3. TimeBased \subseteq Sessions /\ \A s \in TimeBased : mTimeBased[s] \in TimeOptions
  BY DEF TimeBased, TimeMap
<1>4. \A o \in FixOptions : o.minInterval \in Nat /\ o.powerMode \in Nat
  BY DEF FixOptions
<1>5. QED
  BY <1>1, <1>2, <1>3, <1>4

LEMMA SmallestIsLeast ==
  ASSUME mTimeBased \in TimeMap, NEW S \in SUBSET TimeBased, S # {}
  PROVE  /\ SmallestOptions(S) \in FixOptions
         /\ SmallestOptions(S).minInterval \in Nat
         /\ \A t \in S : SmallestOptions(S).minInterval <= mTimeBased[t].minInterval
         /\ \E t \in S : SmallestOptions(S) = mTimeBased[t]
<1> DEFINE intervals == {mTimeBased[t].minInterval : t \in S}
           least == {s \in S : \A t \in S :
                       mTimeBased[s].minInterval <= mTimeBased[t].minInterval}
<1>1. intervals \in SUBSET Nat /\ intervals # {}
  BY MapTypes
<1>2. Min(intervals) \in intervals /\ \A n \in intervals : Min(intervals) <= n
  <2> HIDE DEF intervals
  <2>1. QED
    BY <1>1, MinOfNaturals
<1>3. PICK s \in S : mTimeBased[s].minInterval = Min(intervals)
  BY <1>2
<1>4. s \in least
  BY <1>2, <1>3
<1>5. least \in SUBSET Nat /\ least # {}
  BY <1>4, MapTypes
<1>6. Min(least) \in least
  <2> HIDE DEF least
  <2>1. QED
    BY <1>5, MinOfNaturals
<1>7. SmallestOptions(S) = mTimeBased[Min(least)]
  BY DEF SmallestOptions
<1>8. PICK m \in least : SmallestOptions(S) = mTimeBased[m]
  BY <1>6, <1>7
<1>9. QED
  BY <1>8, MapTypes

LEMMA MultiplexedPowerType ==
  ASSUME mTimeBased \in TimeMap, NEW S \in SUBSET TimeBased
  PROVE  MultiplexedPower(S) \in Nat
<1> DEFINE last == {s \in S : \A t \in S : s <= t => mTimeBased[t].powerMode # INVALID}
           powers == {mTimeBased[s].powerMode : s \in last}
<1>1. CASE last = {}
  BY <1>1 DEF MultiplexedPower, INVALID
<1>2. CASE last # {}
  <2>1. powers \in SUBSET Nat /\ powers # {}
    BY <1>2, MapTypes
  <2>2. Min(powers) \in Nat
    <3> HIDE DEF powers
    <3>1. QED
      BY <2>1, MinOfNaturals
  <2>3. QED
    BY <1>2, <2>2 DEF MultiplexedPower
<1>3. QED
  BY <1>1, <1>2

LEMMA CombinedServes ==
  ASSUME mTimeBased \in TimeMap, NEW S \in SUBSET TimeBased, S # {},
         NEW o \in TimeOptions
  PROVE  /\ Combined(o, S) \in FixOptions
         /\ Combined(o, S).minInterval <= o.minInterval
         /\ \A t \in S : Combined(o, S).minInterval <= mTimeBased[t].minInterval
<1> DEFINE least == SmallestOptions(S)
<1>1. /\ least \in FixOptions /\ least.minInterval \in Nat /\ least.powerMode \in Nat
      /\ \A t \in S : least.minInterval <= mTimeBased[t].minInterval
  BY SmallestIsLeast DEF FixOptions
<1>2. o \in FixOptions /\ o.minInterval \in Nat /\ o.powerMode \in Nat
  BY OptionsAssumption DEF FixOptions
<1> HIDE DEF least
<1> DEFINE both == {o.minInterval, least.minInterval}
<1>3. both \in SUBSET Nat /\ both # {}
  BY <1>1, <1>2
<1>4. Min(both) \in both /\ \A n \in both : Min(both) <= n
  <2> HIDE DEF both
  <2>1. QED
    BY <1>3, MinOfNaturals
<1>5. /\ Min(both) \in Nat
      /\ Min(both) <= o.minInterval
      /\ Min(both) <= least.minInterval
  BY <1>1, <1>2, <1>4
<1>6. Combined(o, S) = [minInterval |-> Min(both),
                        powerMode |-> IF o.powerMode < MultiplexedPower(S)
                                      THEN o.powerMode ELSE least.powerMode]
  BY DEF Combined, least
<1>7. Combined(o, S) \in FixOptions /\ Combined(o, S).minInterval = Min(both)
  <2> HIDE DEF both
  <2>1. QED
    BY <1>1, <1>2, <1>5, <1>6 DEF FixOptions
<1>8. \A t \in S : Min(both) <= mTimeBased[t].minInterval
  <2> TAKE t \in S
  <2>1. mTimeBased[t].minInterval \in Nat
    BY MapTypes
  <2> HIDE DEF both
  <2>2. QED
    BY <1>1, <1>5, <2>1
<1>9. QED
  <2> HIDE DEF both
  <2>1. QED
    BY <1>5, <1>7, <1>8

\* The options with which a stop restarts the fix.
LEMMA RestServes ==
  ASSUME mTimeBased \in TimeMap, NEW S \in SUBSET TimeBased, S # {}, NEW p \in Nat
  PROVE  LET o == [SmallestOptions(S) EXCEPT !.powerMode = p]
         IN  /\ o \in FixOptions
             /\ \A t \in S : o.minInterval <= mTimeBased[t].minInterval
<1> DEFINE least == SmallestOptions(S)
           o == [least EXCEPT !.powerMode = p]
<1>1. /\ least \in FixOptions
      /\ \A t \in S : least.minInterval <= mTimeBased[t].minInterval
  BY SmallestIsLeast
<1> HIDE DEF least
<1>2. o \in FixOptions /\ o.minInterval = least.minInterval
  BY <1>1 DEF FixOptions
<1>3. QED
  BY <1>1, <1>2 DEF least

LEMMA RestartPowerType ==
  ASSUME mTimeBased \in TimeMap, TimeBased # {}
  PROVE  RestartPower \in Nat
<1> DEFINE first == Min(TimeBased)
           powers == {mTimeBased[s].powerMode : s \in TimeBased} \ {INVALID}
<1>1. CASE mTimeBased[first].powerMode = INVALID
  BY <1>1 DEF RestartPower, INVALID
<1>2. CASE mTimeBased[first].powerMode # INVALID
  <2>1. TimeBased \in SUBSET Nat
    BY MapTypes
  <2>2. first \in TimeBased
    BY <2>1, MinOfNaturals
  <2>3. powers \in SUBSET Nat /\ powers # {}
    BY <1>2, <2>2, MapTypes
  <2>4. Min(powers) \in Nat
    <3> HIDE DEF powers
    <3>1. QED
      BY <2>3, MinOfNaturals
  <2>5. RestartPower = Min(powers)
    BY <1>2 DEF RestartPower
  <2>6. QED
    BY <2>4, <2>5
<1>3. QED
  BY <1>1, <1>2

\* Options that do not outrank a set of sessions are served with them.
LEMMA NotOutranking ==
  ASSUME mTimeBased \in TimeMap, NEW S \in SUBSET TimeBased, S # {},
         NEW o \in TimeOptions, ~Outranks(o, S)
  PROVE  \E t \in S : mTimeBased[t].minInterval <= o.minInterval
<1>1. PICK t \in S : SmallestOptions(S) = mTimeBased[t]
  BY SmallestIsLeast
<1>2. mTimeBased[t].minInterval \in Nat /\ o.minInterval \in Nat
  BY MapTypes, OptionsAssumption DEF FixOptions
<1>3. ~(o.minInterval < mTimeBased[t].minInterval)
  BY <1>1 DEF Outranks
<1>4. QED
  BY <1>2, <1>3

-----------------------------------------------------------------------------
(***************************************************************************)
(* Types of calls.                                                         *)
(***************************************************************************)
Reports == ResponseOps \ {"thenStartTime"}

LEMMA CallTypes ==
  ASSUME NEW s \in Sessions, NEW then \in Reports
  PROVE  /\ Call("stopFix", s, None, then) \in ModemCall
         /\ Call("stopDistance", s, None, then) \in ModemCall
         /\ Call("startDistance", s, Distance, then) \in ModemCall
<1>1. Msg(then, s, None) \in Then
  BY DEF Msg, Then, Response, Reports
<1>2. QED
  BY <1>1 DEF Call, ModemCall

LEMMA StartTimeType ==
  ASSUME NEW s \in Sessions, NEW o \in FixOptions, NEW then \in Reports,
         NEW old \in TimeOptions \cup {None}
  PROVE  StartTime(s, o, then, old) \in ModemCall
<1>1. Msg(then, s, old) \in Then
  BY DEF Msg, Then, Response, Reports
<1>2. QED
  BY <1>1 DEF StartTime, ModemCall

LEMMA RestartType ==
  ASSUME NEW s \in Sessions, NEW o \in FixOptions
  PROVE  StartTime(s, o, "none", None) \in ModemCall
<1>1. Msg("none", s, None) \in Then
  BY DEF Msg, Then
<1>2. QED
  BY <1>1 DEF StartTime, ModemCall

LEMMA SwitchType ==
  ASSUME NEW s \in Sessions, NEW o \in TimeOptions
  PROVE  SwitchToTime(s, o) \in ModemCall
<1>1. Msg("thenStartTime", s, o) \in Then
  BY DEF Msg, Then, Response
<1>2. QED
  BY <1>1 DEF SwitchToTime, ModemCall

-----------------------------------------------------------------------------
(***************************************************************************)
(* The multiplexing functions keep the fix serving the sessions.           *)
(***************************************************************************)
LEMMA OneMore ==
  ASSUME NEW calls \in Seq(ModemCall), NEW call \in ModemCall, NEW fix, NEW m,
         WillServe(calls, fix, m), ~AboutFix(call)
  PROVE  WillServe(calls \o <<call>>, fix, m)
<1>1. <<call>> \in Seq(ModemCall) /\ Len(<<call>>) = 1 /\ <<call>>[1] = call
  OBVIOUS
<1>2. \A j \in 1..Len(<<call>>) : ~AboutFix(<<call>>[j])
  BY <1>1
<1>3. QED
  BY <1>1, <1>2, WillServeMore

LEMMA NoMore ==
  ASSUME NEW calls \in Seq(ModemCall)
  PROVE  calls \o <<>> = calls
OBVIOUS

LEMMA StartMultiplexServes ==
  ASSUME mTimeBased \in TimeMap, NEW s \in Sessions, NEW o \in TimeOptions
  PROVE  /\ StartMultiplex(s, o) \in Seq(ModemCall)
         /\ \A calls \in Seq(ModemCall) : \A fix :
              TimeBased = {} \/ WillServe(calls, fix, mTimeBased)
                => WillServe(calls \o StartMultiplex(s, o), fix, [mTimeBased EXCEPT ![s] = o])
<1> DEFINE after == [mTimeBased EXCEPT ![s] = o]
<1>1. /\ \A t \in Sessions : after[t] # None => t = s \/ t \in TimeBased
      /\ after[s] = o
      /\ \A t \in Sessions : t # s => after[t] = mTimeBased[t]
      /\ o \in FixOptions /\ o.minInterval \in Nat
      /\ \A t \in TimeBased : mTimeBased[t].minInterval \in Nat
  BY MapTypes, OptionsAssumption DEF TimeMap, TimeBased, FixOptions
<1> HIDE DEF after
<1>2. CASE TimeBased = {}
  <2> DEFINE call == StartTime(s, o, "started", None)
  <2>1. call \in ModemCall
    BY <1>1, StartTimeType DEF Reports, ResponseOps
  <2>2. call.call = "startTime" /\ call.o = o
    BY DEF StartTime
  <2>3. Serves(o, after)
    BY <1>1, <1>2 DEF Serves
  <2>4. StartMultiplex(s, o) = <<call>>
    BY <1>2 DEF StartMultiplex
  <2> HIDE DEF call
  <2>5. QED
    BY <2>1, <2>2, <2>3, <2>4, WillServeStart DEF after
<1>3. CASE TimeBased # {} /\ Outranks(o, TimeBased)
  <2> DEFINE call == StartTime(s, Combined(o, TimeBased), "started", None)
  <2>1. /\ Combined(o, TimeBased) \in FixOptions
        /\ Combined(o, TimeBased).minInterval <= o.minInterval
        /\ \A t \in TimeBased : Combined(o, TimeBased).minInterval <= mTimeBased[t].minInterval
    BY <1>3, CombinedServes
  <2>2. call \in ModemCall
    BY <2>1, StartTimeType DEF Reports, ResponseOps
  <2>3. call.call = "startTime" /\ call.o = Combined(o, TimeBased)
    BY DEF StartTime
  <2>4. Serves(Combined(o, TimeBased), after)
    BY <1>1, <2>1 DEF Serves
  <2>5. StartMultiplex(s, o) = <<call>>
    BY <1>3 DEF StartMultiplex
  <2> HIDE DEF call
  <2>6. QED
    BY <2>2, <2>3, <2>4, <2>5, WillServeStart DEF after
<1>4. CASE TimeBased # {} /\ ~Outranks(o, TimeBased)
  <2>1. StartMultiplex(s, o) = <<>>
    BY <1>4 DEF StartMultiplex
  <2>2. PICK t \in TimeBased : mTimeBased[t].minInterval <= o.minInterval
    BY <1>4, NotOutranking
  <2>3. t \in Sessions /\ mTimeBased[t] # None
    BY MapTypes DEF TimeBased
  <2>4. ASSUME NEW p \in FixOptions, Serves(p, mTimeBased)
        PROVE  Serves(p, after)
    <3>1. p.minInterval \in Nat
      BY DEF FixOptions
    <3>2. p.minInterval <= o.minInterval
      BY <2>2, <2>3, <2>4, <1>1, <3>1 DEF Serves
    <3>3. QED
      BY <1>1, <2>4, <3>2 DEF Serves
  <2>5. ASSUME NEW calls \in Seq(ModemCall), NEW fix, WillServe(calls, fix, mTimeBased)
        PROVE  WillServe(calls, fix, after)
    BY <2>4, <2>5, WillServeOther
  <2>6. QED
    <3>1. StartMultiplex(s, o) \in Seq(ModemCall)
      BY <2>1
    <3>2. \A calls \in Seq(ModemCall) : calls \o StartMultiplex(s, o) = calls
      BY <2>1, NoMore
    <3>3. QED
      BY <1>4, <2>5, <3>1, <3>2 DEF after
<1>5. QED
  BY <1>2, <1>3, <1>4

LEMMA UpdateMultiplexServes ==
  ASSUME mTimeBased \in TimeMap, NEW s \in TimeBased, NEW o \in TimeOptions
  PROVE  /\ UpdateMultiplex(s, o) \in Seq(ModemCall)
         /\ \A calls \in Seq(ModemCall) : \A fix :
              WillServe(calls, fix, mTimeBased)
                => WillServe(calls \o UpdateMultiplex(s, o), fix, [mTimeBased EXCEPT ![s] = o])
<1> DEFINE after == [mTimeBased EXCEPT ![s] = o]
           others == TimeBased \ {s}
<1>1. /\ \A t \in Sessions : after[t] # None => t = s \/ t \in others
      /\ s \in Sessions /\ after[s] = o
      /\ \A t \in Sessions : t # s => after[t] = mTimeBased[t]
      /\ o \in FixOptions /\ o.minInterval \in Nat
      /\ \A t \in TimeBased : mTimeBased[t].minInterval \in Nat
      /\ mTimeBased[s] \in TimeOptions
      /\ others \in SUBSET TimeBased
  BY MapTypes, OptionsAssumption DEF TimeMap, TimeBased, FixOptions
<1>2. CASE o = mTimeBased[s]
  <2>1. UpdateMultiplex(s, o) = <<>>
    BY <1>2 DEF UpdateMultiplex
  <2>2. after = mTimeBased
    BY <1>2 DEF TimeMap
  <2>3. QED
    BY <2>1, <2>2, NoMore
<1> HIDE DEF after
<1>3. CASE o # mTimeBased[s] /\ others = {}
  <2> DEFINE call == StartTime(s, o, "updated", mTimeBased[s])
  <2>1. call \in ModemCall
    BY <1>1, StartTimeType DEF Reports, ResponseOps
  <2>2. call.call = "startTime" /\ call.o = o
    BY DEF StartTime
  <2>3. Serves(o, after)
    BY <1>1, <1>3 DEF Serves
  <2>4. UpdateMultiplex(s, o) = <<call>>
    BY <1>3 DEF UpdateMultiplex
  <2> HIDE DEF call
  <2>5. QED
    BY <2>1, <2>2, <2>3, <2>4, WillServeStart DEF after
<1>4. CASE o # mTimeBased[s] /\ others # {} /\ Outranks(o, others)
  <2> DEFINE call == StartTime(s, Combined(o, others), "updated", mTimeBased[s])
  <2>1. /\ Combined(o, others) \in FixOptions
        /\ Combined(o, others).minInterval <= o.minInterval
        /\ \A t \in others : Combined(o, others).minInterval <= mTimeBased[t].minInterval
    <3> HIDE DEF others
    <3>1. QED
      BY <1>1, <1>4, CombinedServes
  <2>2. call \in ModemCall
    BY <1>1, <2>1, StartTimeType DEF Reports, ResponseOps
  <2>3. call.call = "startTime" /\ call.o = Combined(o, others)
    BY DEF StartTime
  <2>4. Serves(Combined(o, others), after)
    BY <1>1, <2>1 DEF Serves
  <2>5. UpdateMultiplex(s, o) = <<call>>
    BY <1>4 DEF UpdateMultiplex
  <2> HIDE DEF call
  <2>6. QED
    BY <2>2, <2>3, <2>4, <2>5, WillServeStart DEF after
<1>5. CASE o # mTimeBased[s] /\ others # {} /\ ~Outranks(o, others)
  <2>1. UpdateMultiplex(s, o) = <<>>
    BY <1>5 DEF UpdateMultiplex
  <2>2. PICK t \in others : mTimeBased[t].minInterval <= o.minInterval
    <3> HIDE DEF others
    <3>1. QED
      BY <1>1, <1>5, NotOutranking
  <2>3. t \in Sessions /\ t \in TimeBased /\ mTimeBased[t] # None
    BY MapTypes DEF TimeBased
  <2>4. ASSUME NEW p \in FixOptions, Serves(p, mTimeBased)
        PROVE  Serves(p, after)
    <3>1. p.minInterval \in Nat
      BY DEF FixOptions
    <3>2. p.minInterval <= o.minInterval
      BY <2>2, <2>3, <2>4, <1>1, <3>1 DEF Serves
    <3>3. \A u \in others : mTimeBased[u] # None
      BY DEF TimeBased
    <3>4. QED
      BY <1>1, <2>4, <3>2, <3>3 DEF Serves
  <2>5. ASSUME NEW calls \in Seq(ModemCall), NEW fix, WillServe(calls, fix, mTimeBased)
        PROVE  WillServe(calls, fix, after)
    BY <2>4, <2>5, WillServeOther
  <2>6. QED
    <3>1. UpdateMultiplex(s, o) \in Seq(ModemCall)
      BY <2>1
    <3>2. \A calls \in Seq(ModemCall) : calls \o UpdateMultiplex(s, o) = calls
      BY <2>1, NoMore
    <3>3. QED
      BY <2>5, <3>1, <3>2 DEF after
<1>6. QED
  BY <1>2, <1>3, <1>4, <1>5 DEF after

LEMMA StopMultiplexServes ==
  ASSUME mTimeBased \in TimeMap, NEW s \in TimeBased
  PROVE  /\ StopMultiplex(s) \in Seq(ModemCall)
         /\ \A calls \in Seq(ModemCall) : \A fix :
              WillServe(calls, fix, mTimeBased) /\ TimeBased \ {s} # {}
                => WillServe(calls \o StopMultiplex(s), fix, [mTimeBased EXCEPT ![s] = None])
<1> DEFINE after == [mTimeBased EXCEPT ![s] = None]
           others == TimeBased \ {s}
<1>1. /\ \A t \in Sessions : after[t] # None => t \in others /\ after[t] = mTimeBased[t]
      /\ s \in Sessions
      /\ others \in SUBSET TimeBased
      /\ mTimeBased[s] \in TimeOptions
  BY MapTypes DEF TimeMap, TimeBased
<1> HIDE DEF after
<1>2. CASE others = {}
  <2>1. StopMultiplex(s) = <<Call("stopFix", s, None, "fixStopped")>>
    BY <1>2 DEF StopMultiplex
  <2>2. QED
    BY <1>1, <1>2, <2>1, CallTypes DEF Reports, ResponseOps
<1>3. CASE others # {} /\ Outranks(mTimeBased[s], others)
  <2> DEFINE o == [SmallestOptions(others) EXCEPT !.powerMode = MultiplexedPower(others)]
             call == StartTime(s, o, "started", None)
  <2>1. o \in FixOptions /\ \A t \in others : o.minInterval <= mTimeBased[t].minInterval
    <3> HIDE DEF others
    <3>1. QED
      BY <1>1, <1>3, RestServes, MultiplexedPowerType
  <2> HIDE DEF o
  <2>2. call \in ModemCall
    BY <1>1, <2>1, StartTimeType DEF Reports, ResponseOps
  <2>3. call.call = "startTime" /\ call.o = o
    BY DEF StartTime
  <2>4. Serves(o, after)
    BY <1>1, <2>1 DEF Serves
  <2>5. StopMultiplex(s) = <<call>>
    BY <1>3 DEF StopMultiplex, o
  <2> HIDE DEF call
  <2>6. QED
    BY <2>2, <2>3, <2>4, <2>5, WillServeStart DEF after
<1>4. CASE others # {} /\ ~Outranks(mTimeBased[s], others)
  <2>1. StopMultiplex(s) = <<>>
    BY <1>4 DEF StopMultiplex
  <2>2. \A o \in FixOptions : Serves(o, mTimeBased) => Serves(o, after)
    BY <1>1 DEF Serves
  <2>3. ASSUME NEW calls \in Seq(ModemCall), NEW fix, WillServe(calls, fix, mTimeBased)
        PROVE  WillServe(calls, fix, after)
    BY <2>2, <2>3, WillServeOther
  <2>4. QED
    <3>1. StopMultiplex(s) \in Seq(ModemCall)
      BY <2>1
    <3>2. \A calls \in Seq(ModemCall) : calls \o StopMultiplex(s) = calls
      BY <2>1, NoMore
    <3>3. QED
      BY <2>3, <3>1, <3>2 DEF after
<1>5. QED
  BY <1>2, <1>3, <1>4 DEF after

-----------------------------------------------------------------------------
(***************************************************************************)
(* The invariant: unless an engineUp message is still to be handled, the   *)
(* modem will serve the time-based sessions once it has acted upon the     *)
(* calls under way.  It needs that no response tells of a refusal.         *)
(***************************************************************************)
EngineUpQueued(q) == \E i \in 1..Len(q) : q[i].op = "engineUp"

ResponsesSucceed(q) == \A i \in 1..Len(q) : q[i].op \in ResponseOps => q[i].ok = TRUE

Prepared == TimeBased = {} \/ WillServe(toModem, engine, mTimeBased)

Inv == /\ TypeOK
       /\ ~disturbed => /\ ResponsesSucceed(queue)
                        /\ EngineUpQueued(queue) \/ Prepared

LEMMA QueueTail ==
  ASSUME NEW q \in Seq(Message), q # <<>>
  PROVE  /\ Head(q) \in Message
         /\ Tail(q) \in Seq(Message)
         /\ ResponsesSucceed(q) => ResponsesSucceed(Tail(q))
         /\ ResponsesSucceed(q) /\ Head(q).op \in ResponseOps => Head(q).ok = TRUE
         /\ EngineUpQueued(q) /\ Head(q).op # "engineUp" => EngineUpQueued(Tail(q))
<1>1. /\ Len(q) \in Nat \ {0}
      /\ Len(Tail(q)) = Len(q) - 1
      /\ \A i \in 1..Len(q) - 1 : Tail(q)[i] = q[i + 1]
      /\ Head(q) = q[1]
  OBVIOUS
<1>2. Head(q) \in Message /\ Tail(q) \in Seq(Message)
  OBVIOUS
<1>3. ResponsesSucceed(q) => ResponsesSucceed(Tail(q))
  BY <1>1 DEF ResponsesSucceed
<1>4. ResponsesSucceed(q) /\ Head(q).op \in ResponseOps => Head(q).ok = TRUE
  BY <1>1 DEF ResponsesSucceed
<1>5. ASSUME EngineUpQueued(q), Head(q).op # "engineUp"
      PROVE  EngineUpQueued(Tail(q))
  <2>1. PICK i \in 1..Len(q) : q[i].op = "engineUp"
    BY <1>5 DEF EngineUpQueued
  <2>2. i # 1
    BY <1>1, <1>5, <2>1
  <2>3. i - 1 \in 1..Len(Tail(q)) /\ Tail(q)[i - 1] = q[i]
    BY <1>1, <2>2
  <2>4. QED
    BY <2>1, <2>3 DEF EngineUpQueued
<1>6. QED
  BY <1>2, <1>3, <1>4, <1>5

LEMMA QueueAppend ==
  ASSUME NEW q \in Seq(Message), NEW m \in Message
  PROVE  /\ Append(q, m) \in Seq(Message)
         /\ ResponsesSucceed(q) /\ (m.op \in ResponseOps => m.ok = TRUE)
              => ResponsesSucceed(Append(q, m))
         /\ EngineUpQueued(q) \/ m.op = "engineUp" => EngineUpQueued(Append(q, m))
<1>1. /\ Len(q) \in Nat
      /\ Len(Append(q, m)) = Len(q) + 1
      /\ \A i \in 1..Len(q) : Append(q, m)[i] = q[i]
      /\ Append(q, m)[Len(q) + 1] = m
  OBVIOUS
<1>2. Append(q, m) \in Seq(Message)
  OBVIOUS
<1>3. ResponsesSucceed(q) /\ (m.op \in ResponseOps => m.ok = TRUE)
        => ResponsesSucceed(Append(q, m))
  BY <1>1 DEF ResponsesSucceed
<1>4. EngineUpQueued(q) => EngineUpQueued(Append(q, m))
  BY <1>1 DEF EngineUpQueued
<1>5. m.op = "engineUp" => EngineUpQueued(Append(q, m))
  <2>1. Len(q) + 1 \in 1..Len(Append(q, m))
    BY <1>1
  <2>2. QED
    BY <1>1, <2>1 DEF EngineUpQueued
<1>6. QED
  BY <1>2, <1>3, <1>4, <1>5

LEMMA MessageFields ==
  ASSUME NEW m \in Message
  PROVE  /\ m.op \in {"start", "update"} => m.s \in Sessions /\ m.o \in Options /\ m \in Command
         /\ m.op = "stop" => m.s \in Sessions
         /\ m.op \in ResponseOps => m.s \in Sessions /\ m.o \in TimeOptions \cup {None}
         /\ m.op = "thenStartTime" => m.o \in TimeOptions
         /\ m.op = "removeClient" => m.c \in Clients
BY DEF Message, Command, Response, ResponseOps

LEMMA Received ==
  ASSUME TypeOK, NEW op, Receive(op)
  PROVE  /\ queue \in Seq(Message) /\ queue # <<>>
         /\ Head(queue) \in Message /\ Head(queue).op = op
         /\ queue' = Tail(queue)
BY QueueTail DEF TypeOK, Receive

-----------------------------------------------------------------------------
(***************************************************************************)
(* The maps.                                                               *)
(***************************************************************************)
Shrinks(m, n) == \A s \in Sessions : n[s] # None => n[s] = m[s]

LEMMA ShrinkServes ==
  ASSUME NEW m, NEW n, Shrinks(m, n), NEW calls, NEW fix, WillServe(calls, fix, m)
  PROVE  WillServe(calls, fix, n)
<1>1. \A o \in FixOptions : Serves(o, m) => Serves(o, n)
  BY DEF Shrinks, Serves
<1>2. QED
  BY <1>1, WillServeOther

LEMMA ShrinkPrepared ==
  ASSUME Prepared, Shrinks(mTimeBased, mTimeBased'), UNCHANGED engine,
         NEW more \in Seq(ModemCall), \A j \in 1..Len(more) : ~AboutFix(more[j]),
         toModem \in Seq(ModemCall), toModem' = toModem \o more
  PROVE  Prepared'
<1>1. TimeBased = {} => TimeBased' = {}
  BY DEF Shrinks, TimeBased
<1>2. CASE WillServe(toModem, engine, mTimeBased)
  <2>1. WillServe(toModem \o more, engine, mTimeBased)
    BY <1>2, WillServeMore
  <2>2. WillServe(toModem', engine', mTimeBased)
    BY <2>1
  <2>3. PICK m : m = mTimeBased'
    OBVIOUS
  <2>4. WillServe(toModem', engine', m)
    BY <2>2, <2>3, ShrinkServes
  <2>5. QED
    BY <2>3, <2>4 DEF Prepared
<1>3. QED
  BY <1>1, <1>2 DEF Prepared

LEMMA SameCalls ==
  ASSUME Prepared, Shrinks(mTimeBased, mTimeBased'), UNCHANGED <<engine, toModem>>,
         toModem \in Seq(ModemCall)
  PROVE  Prepared'
<1>1. PICK more \in Seq(ModemCall) : more = <<>>
  <2>1. <<>> \in Seq(ModemCall)
    OBVIOUS
  <2>2. QED
    BY <2>1, Zenon
<1>2. toModem' = toModem \o more
  BY <1>1, NoMore
<1>3. \A j \in 1..Len(more) : ~AboutFix(more[j])
  BY <1>1
<1>4. UNCHANGED engine
  OBVIOUS
<1>5. QED
  BY <1>2, <1>3, <1>4, ShrinkPrepared

LEMMA EraseShrinks ==
  ASSUME TypeOK, NEW s \in Sessions, Erase(s)
  PROVE  /\ mTimeBased' \in TimeMap /\ mDistanceBased' \subseteq Sessions
         /\ Shrinks(mTimeBased, mTimeBased')
BY DEF TypeOK, TimeMap, Erase, Shrinks, TimeBased

LEMMA SaveTypes ==
  ASSUME TypeOK, NEW s \in Sessions, NEW o \in Options \cup {None}, Save(s, o)
  PROVE  /\ mTimeBased' \in TimeMap /\ mDistanceBased' \subseteq Sessions
         /\ o = Distance => mTimeBased' = mTimeBased
         /\ o # Distance => mTimeBased' = [mTimeBased EXCEPT ![s] = o]
BY DEF TypeOK, TimeMap, Save, Options

LEMMA SameMaps ==
  ASSUME TypeOK, UNCHANGED maps
  PROVE  /\ mTimeBased' \in TimeMap /\ mDistanceBased' \subseteq Sessions
         /\ Shrinks(mTimeBased, mTimeBased')
BY DEF TypeOK, TimeMap, maps, Shrinks

LEMMA OwedTypes ==
  ASSUME TypeOK, NEW s \in Sessions, NEW calls,
         Report(s) \/ ReportIfNone(calls, s) \/ UNCHANGED owed
  PROVE  owed' \in [Sessions -> Int]
BY DEF TypeOK, Report, ReportIfNone

\* A handler, when it has been shown what becomes of maps, calls and answers.
LEMMA HandlerStep ==
  ASSUME Inv, NEW op, Receive(op), op # "engineUp", HandlerUnchanged,
         UNCHANGED <<capabilitiesKnown, mPendingMsgs, mClientData, disturbed>>,
         mTimeBased' \in TimeMap, mDistanceBased' \subseteq Sessions,
         toModem' \in Seq(ModemCall), owed' \in [Sessions -> Int],
         ~disturbed /\ Prepared => Prepared'
  PROVE  Inv'
<1>1. TypeOK
  BY DEF Inv
<1>2. /\ queue \in Seq(Message) /\ queue # <<>>
      /\ Head(queue).op # "engineUp"
      /\ queue' = Tail(queue)
  BY <1>1, Received
<1>3. queue' \in Seq(Message)
  BY <1>2, QueueTail
<1>4. TypeOK'
  BY <1>1, <1>3 DEF TypeOK, TimeMap, HandlerUnchanged, modemVars, clientVars
<1>5. ASSUME ~disturbed'
      PROVE  ResponsesSucceed(queue') /\ (EngineUpQueued(queue') \/ Prepared')
  <2>1. ~disturbed /\ ResponsesSucceed(queue) /\ (EngineUpQueued(queue) \/ Prepared)
    BY <1>5 DEF Inv
  <2>2. ResponsesSucceed(Tail(queue)) /\ (EngineUpQueued(queue) => EngineUpQueued(Tail(queue)))
    BY <1>2, <2>1, QueueTail
  <2>3. QED
    BY <1>2, <2>1, <2>2
<1>6. QED
  BY <1>4, <1>5 DEF Inv

-----------------------------------------------------------------------------
(***************************************************************************)
(* The handlers of commands.                                               *)
(***************************************************************************)
LEMMA InvType ==
  ASSUME Inv
  PROVE  /\ TypeOK /\ mTimeBased \in TimeMap
         /\ toModem \in Seq(ModemCall)
         /\ mDistanceBased \subseteq Sessions
BY DEF Inv, TypeOK, TimeMap

\* A call about a distance leaves the fix alone.
LEMMA DistanceCall ==
  ASSUME Inv, NEW call \in ModemCall, ~AboutFix(call), Ask(<<call>>)
  PROVE  /\ toModem' \in Seq(ModemCall)
         /\ UNCHANGED engine /\ Shrinks(mTimeBased, mTimeBased') /\ Prepared => Prepared'
<1>1. toModem \in Seq(ModemCall)
  BY InvType
<1>2. PICK more \in Seq(ModemCall) : more = <<call>>
  <2>1. <<call>> \in Seq(ModemCall)
    OBVIOUS
  <2>2. QED
    BY <2>1, Zenon
<1>3. toModem' = toModem \o more
  BY <1>2 DEF Ask
<1>4. \A j \in 1..Len(more) : ~AboutFix(more[j])
  BY <1>2
<1>5. toModem' \in Seq(ModemCall)
  BY <1>1, <1>3
<1>6. ASSUME UNCHANGED engine, Shrinks(mTimeBased, mTimeBased'), Prepared
      PROVE  Prepared'
  BY <1>1, <1>3, <1>4, <1>6, ShrinkPrepared
<1>7. QED
  BY <1>5, <1>6

\* A call that starts the fix, or none, with the options it is to have.
LEMMA StartedServes ==
  ASSUME Inv, NEW s \in Sessions, NEW o \in TimeOptions,
         Ask(StartMultiplex(s, o)), mTimeBased' = [mTimeBased EXCEPT ![s] = o]
  PROVE  /\ toModem' \in Seq(ModemCall)
         /\ UNCHANGED engine /\ Prepared => Prepared'
<1>1. toModem \in Seq(ModemCall) /\ mTimeBased \in TimeMap
  BY InvType
<1>2. StartMultiplex(s, o) \in Seq(ModemCall) /\ toModem' = toModem \o StartMultiplex(s, o)
  BY <1>1, StartMultiplexServes DEF Ask
<1>3. toModem' \in Seq(ModemCall)
  BY <1>1, <1>2
<1>4. ASSUME UNCHANGED engine, Prepared
      PROVE  Prepared'
  <2>1. WillServe(toModem \o StartMultiplex(s, o), engine, [mTimeBased EXCEPT ![s] = o])
    BY <1>1, <1>4, StartMultiplexServes DEF Prepared
  <2>2. WillServe(toModem', engine', mTimeBased')
    BY <1>2, <1>4, <2>1
  <2>3. QED
    BY <2>2 DEF Prepared
<1>5. QED
  BY <1>3, <1>4

LEMMA UpdatedServes ==
  ASSUME Inv, NEW s \in TimeBased, NEW o \in TimeOptions,
         Ask(UpdateMultiplex(s, o)), mTimeBased' = [mTimeBased EXCEPT ![s] = o]
  PROVE  /\ toModem' \in Seq(ModemCall)
         /\ UNCHANGED engine /\ Prepared => Prepared'
<1>1. toModem \in Seq(ModemCall) /\ mTimeBased \in TimeMap
  BY InvType
<1>2. UpdateMultiplex(s, o) \in Seq(ModemCall) /\ toModem' = toModem \o UpdateMultiplex(s, o)
  BY <1>1, UpdateMultiplexServes DEF Ask
<1>3. toModem' \in Seq(ModemCall)
  BY <1>1, <1>2
<1>4. ASSUME UNCHANGED engine, Prepared
      PROVE  Prepared'
  <2>1. WillServe(toModem \o UpdateMultiplex(s, o), engine, [mTimeBased EXCEPT ![s] = o])
    BY <1>1, <1>4, UpdateMultiplexServes DEF Prepared
  <2>2. WillServe(toModem', engine', mTimeBased')
    BY <1>2, <1>4, <2>1
  <2>3. QED
    BY <2>2 DEF Prepared
<1>5. QED
  BY <1>3, <1>4

\* more is what is asked for after the fix goes on without session s.
LEMMA StoppedServes ==
  ASSUME Inv, NEW s \in TimeBased, NEW more \in Seq(ModemCall),
         \A j \in 1..Len(more) : ~AboutFix(more[j]),
         Ask(StopMultiplex(s) \o more), mTimeBased' = [mTimeBased EXCEPT ![s] = None]
  PROVE  /\ toModem' \in Seq(ModemCall)
         /\ UNCHANGED engine /\ Prepared => Prepared'
<1>1. toModem \in Seq(ModemCall) /\ mTimeBased \in TimeMap
  BY InvType
<1>2. StopMultiplex(s) \in Seq(ModemCall)
  BY <1>1, StopMultiplexServes
<1>3. toModem' = toModem \o (StopMultiplex(s) \o more)
  BY DEF Ask
<1>4. toModem' \in Seq(ModemCall)
  BY <1>1, <1>2, <1>3
<1>5. ASSUME UNCHANGED engine, Prepared
      PROVE  Prepared'
  <2>1. CASE TimeBased \ {s} = {}
    <3>1. TimeBased' = {}
      BY <1>1, <2>1 DEF TimeBased, TimeMap
    <3>2. QED
      BY <3>1 DEF Prepared
  <2>2. CASE TimeBased \ {s} # {}
    <3>1. WillServe(toModem \o StopMultiplex(s), engine, [mTimeBased EXCEPT ![s] = None])
      BY <1>1, <1>5, <2>2, StopMultiplexServes DEF Prepared
    <3>2. toModem \o StopMultiplex(s) \in Seq(ModemCall)
      BY <1>1, <1>2
    <3>3. WillServe((toModem \o StopMultiplex(s)) \o more, engine,
                    [mTimeBased EXCEPT ![s] = None])
      BY <3>1, <3>2, WillServeMore
    <3>4. (toModem \o StopMultiplex(s)) \o more = toModem \o (StopMultiplex(s) \o more)
      BY <1>1, <1>2, ConcatAssociative
    <3>5. WillServe(toModem', engine', mTimeBased')
      BY <1>3, <1>5, <3>3, <3>4
    <3>6. QED
      BY <3>5 DEF Prepared
  <2>3. QED
    BY <2>1, <2>2
<1>6. QED
  BY <1>4, <1>5

LEMMA DeferCommandStep ==
  ASSUME Inv, DeferCommand
  PROVE  Inv'
<1>1. TypeOK
  BY InvType
<1>2. PICK op \in {"start", "update"} : Receive(op)
  BY DEF DeferCommand
<1>3. /\ queue \in Seq(Message) /\ queue # <<>>
      /\ Head(queue) \in Message /\ Head(queue).op = op
      /\ queue' = Tail(queue)
  BY <1>1, <1>2, Received
<1>4. Head(queue) \in Command
  BY <1>3, MessageFields
<1>5. mPendingMsgs' \in Seq(Command)
  BY <1>1, <1>4 DEF TypeOK, DeferCommand
<1>6. /\ queue' \in Seq(Message)
      /\ ResponsesSucceed(queue) => ResponsesSucceed(queue')
      /\ EngineUpQueued(queue) => EngineUpQueued(queue')
  BY <1>3, QueueTail
<1>7. TypeOK'
  BY <1>1, <1>5, <1>6
     DEF TypeOK, DeferCommand, HandlerUnchanged, modemVars, clientVars, maps
<1>8. UNCHANGED <<mTimeBased, toModem, engine, disturbed>>
  BY DEF DeferCommand, HandlerUnchanged, modemVars, maps
<1>9. Prepared' <=> Prepared
  BY <1>8 DEF Prepared, TimeBased
<1>10. QED
  BY <1>6, <1>7, <1>8, <1>9 DEF Inv

LEMMA HandleStartStep ==
  ASSUME Inv, HandleStart
  PROVE  Inv'
<1>1. TypeOK /\ Receive("start") /\ UNCHANGED engine
  BY InvType DEF HandleStart, HandlerUnchanged, modemVars
<1>2. Session \in Sessions /\ NewOptions \in Options
  BY <1>1, Received, MessageFields DEF Session, NewOptions
<1> DEFINE Kept == /\ mTimeBased' \in TimeMap /\ mDistanceBased' \subseteq Sessions
                   /\ toModem' \in Seq(ModemCall) /\ owed' \in [Sessions -> Int]
                   /\ Prepared => Prepared'
<1> SUFFICES Kept
  BY <1>1, HandlerStep DEF HandleStart
<1>3. CASE Owner[Session] \notin mClientData \cap Listeners
  <2>1. UNCHANGED <<maps, toModem, owed>>
    BY <1>3 DEF HandleStart
  <2>2. UNCHANGED <<engine, toModem>> /\ UNCHANGED maps
    BY <1>1, <2>1
  <2>3. QED
    BY <1>1, <1>2, <2>1, <2>2, InvType, SameMaps, SameCalls, OwedTypes
<1>4. CASE Owner[Session] \in mClientData \cap Listeners /\ NewOptions = Distance
  <2> DEFINE call == Call("startDistance", Session, Distance, "started")
  <2>1. Save(Session, NewOptions) /\ Ask(<<call>>) /\ UNCHANGED owed
    BY <1>4 DEF HandleStart
  <2>2. call \in ModemCall /\ ~AboutFix(call)
    BY <1>2, CallTypes DEF Reports, ResponseOps, AboutFix, Call
  <2>3. mTimeBased' \in TimeMap /\ mDistanceBased' \subseteq Sessions
        /\ mTimeBased' = mTimeBased
    BY <1>1, <1>2, <1>4, <2>1, SaveTypes
  <2>4. Shrinks(mTimeBased, mTimeBased')
    BY <2>3 DEF Shrinks
  <2> HIDE DEF call
  <2>5. QED
    BY <1>1, <1>2, <2>1, <2>2, <2>3, <2>4, DistanceCall, OwedTypes
<1>5. CASE Owner[Session] \in mClientData \cap Listeners /\ NewOptions # Distance
  <2>1. /\ Save(Session, NewOptions)
        /\ Ask(StartMultiplex(Session, NewOptions))
        /\ ReportIfNone(StartMultiplex(Session, NewOptions), Session)
    BY <1>5 DEF HandleStart
  <2>2. NewOptions \in TimeOptions
    BY <1>2, <1>5 DEF Options
  <2>3. /\ mTimeBased' \in TimeMap /\ mDistanceBased' \subseteq Sessions
        /\ mTimeBased' = [mTimeBased EXCEPT ![Session] = NewOptions]
    BY <1>1, <1>2, <1>5, <2>1, SaveTypes
  <2>4. toModem' \in Seq(ModemCall) /\ (Prepared => Prepared')
    BY <1>1, <1>2, <2>1, <2>2, <2>3, StartedServes
  <2>5. QED
    BY <1>1, <1>2, <2>1, <2>3, <2>4, OwedTypes
<1>6. QED
  BY <1>3, <1>4, <1>5

LEMMA HandleUpdateStep ==
  ASSUME Inv, HandleUpdate
  PROVE  Inv'
<1>1. TypeOK /\ Receive("update") /\ UNCHANGED engine
  BY InvType DEF HandleUpdate, HandlerUnchanged, modemVars
<1>2. Session \in Sessions /\ NewOptions \in Options
  BY <1>1, Received, MessageFields DEF Session, NewOptions
<1>3. PICK s \in Sessions, o \in Options : s = Session /\ o = NewOptions
  BY <1>2
<1> DEFINE Kept == /\ mTimeBased' \in TimeMap /\ mDistanceBased' \subseteq Sessions
                   /\ toModem' \in Seq(ModemCall) /\ owed' \in [Sessions -> Int]
                   /\ Prepared => Prepared'
<1> SUFFICES Kept
  BY <1>1, HandlerStep DEF HandleUpdate
<1>4. CASE /\ s \notin TimeBased \cup mDistanceBased
           /\ Report(s)
           /\ UNCHANGED <<maps, toModem>>
  <2>1. UNCHANGED <<engine, toModem>> /\ UNCHANGED maps
    BY <1>1, <1>4
  <2>2. QED
    BY <1>1, <1>4, <2>1, InvType, SameMaps, SameCalls, OwedTypes
<1>5. CASE /\ s \in TimeBased /\ o = Distance
           /\ Ask(StopMultiplex(s) \o <<Call("startDistance", s, Distance, "ignored")>>)
           /\ ReportIfNone(StopMultiplex(s), s)
           /\ mTimeBased' = [mTimeBased EXCEPT ![s] = None]
           /\ mDistanceBased' = mDistanceBased \cup {s}
  <2> DEFINE call == Call("startDistance", s, Distance, "ignored")
  <2>1. call \in ModemCall /\ ~AboutFix(call)
    BY CallTypes DEF Reports, ResponseOps, AboutFix, Call
  <2> HIDE DEF call
  <2>2. PICK more \in Seq(ModemCall) : more = <<call>>
    <3>1. <<call>> \in Seq(ModemCall)
      BY <2>1
    <3>2. QED
      BY <3>1, Zenon
  <2>3. \A j \in 1..Len(more) : ~AboutFix(more[j])
    BY <2>1, <2>2
  <2>4. toModem' \in Seq(ModemCall) /\ (Prepared => Prepared')
    BY <1>1, <1>5, <2>2, <2>3, StoppedServes DEF call
  <2>5. mTimeBased' \in TimeMap /\ mDistanceBased' \subseteq Sessions
    BY <1>5, InvType DEF TimeMap
  <2>6. QED
    BY <1>1, <1>5, <2>4, <2>5, OwedTypes
<1>6. CASE /\ s \in mDistanceBased /\ o # Distance
           /\ Erase(s)
           /\ Ask(<<SwitchToTime(s, o)>>)
           /\ UNCHANGED owed
  <2>1. SwitchToTime(s, o) \in ModemCall /\ ~AboutFix(SwitchToTime(s, o))
    BY <1>6, SwitchType DEF Options, AboutFix, SwitchToTime
  <2>2. QED
    BY <1>1, <1>6, <2>1, EraseShrinks, DistanceCall, OwedTypes
<1>7. CASE /\ s \in TimeBased /\ s \notin mDistanceBased /\ o # Distance
           /\ Ask(UpdateMultiplex(s, o))
           /\ ReportIfNone(UpdateMultiplex(s, o), s)
           /\ Save(s, o)
  <2>1. o \in TimeOptions
    BY <1>7 DEF Options
  <2>2. /\ mTimeBased' \in TimeMap /\ mDistanceBased' \subseteq Sessions
        /\ mTimeBased' = [mTimeBased EXCEPT ![s] = o]
    BY <1>1, <1>7, SaveTypes
  <2>3. toModem' \in Seq(ModemCall) /\ (Prepared => Prepared')
    BY <1>1, <1>7, <2>1, <2>2, UpdatedServes
  <2>4. QED
    BY <1>1, <1>7, <2>2, <2>3, OwedTypes
<1>8. CASE /\ s \in mDistanceBased \ TimeBased /\ o = Distance
           /\ Ask(<<Call("stopDistance", s, None, "thenStartDistance")>>)
           /\ UNCHANGED <<maps, owed>>
  <2> DEFINE call == Call("stopDistance", s, None, "thenStartDistance")
  <2>1. call \in ModemCall /\ ~AboutFix(call)
    BY CallTypes DEF Reports, ResponseOps, AboutFix, Call
  <2> HIDE DEF call
  <2>2. UNCHANGED maps /\ UNCHANGED owed /\ Ask(<<call>>)
    BY <1>8 DEF call
  <2>3. QED
    BY <1>1, <2>1, <2>2, SameMaps, DistanceCall, OwedTypes
<1>9. QED
  BY <1>3, <1>4, <1>5, <1>6, <1>7, <1>8 DEF HandleUpdate

LEMMA HandleStopStep ==
  ASSUME Inv, HandleStop
  PROVE  Inv'
<1>1. TypeOK /\ Receive("stop") /\ UNCHANGED engine
  BY InvType DEF HandleStop, HandlerUnchanged, modemVars
<1>2. Session \in Sessions
  BY <1>1, Received, MessageFields DEF Session
<1>3. PICK s \in Sessions : s = Session
  BY <1>2
<1> DEFINE Kept == /\ mTimeBased' \in TimeMap /\ mDistanceBased' \subseteq Sessions
                   /\ toModem' \in Seq(ModemCall) /\ owed' \in [Sessions -> Int]
                   /\ Prepared => Prepared'
<1> SUFFICES Kept
  BY <1>1, HandlerStep DEF HandleStop
<1>4. CASE /\ s \notin TimeBased \cup mDistanceBased
           /\ Report(s)
           /\ UNCHANGED <<maps, toModem>>
  <2>1. UNCHANGED <<engine, toModem>> /\ UNCHANGED maps
    BY <1>1, <1>4
  <2>2. QED
    BY <1>1, <1>4, <2>1, InvType, SameMaps, SameCalls, OwedTypes
<1>5. CASE /\ s \in TimeBased
           /\ Ask(StopMultiplex(s))
           /\ ReportIfNone(StopMultiplex(s), s)
           /\ Erase(s)
  <2>1. PICK more \in Seq(ModemCall) : more = <<>>
    <3>1. <<>> \in Seq(ModemCall)
      OBVIOUS
    <3>2. QED
      BY <3>1, Zenon
  <2>2. StopMultiplex(s) \in Seq(ModemCall)
    BY <1>5, InvType, StopMultiplexServes
  <2>3. Ask(StopMultiplex(s) \o more)
    BY <1>5, <2>1, <2>2, NoMore
  <2>4. \A j \in 1..Len(more) : ~AboutFix(more[j])
    BY <2>1
  <2>5. mTimeBased' = [mTimeBased EXCEPT ![s] = None]
    BY <1>5 DEF Erase
  <2>6. toModem' \in Seq(ModemCall) /\ (Prepared => Prepared')
    BY <1>1, <1>5, <2>3, <2>4, <2>5, StoppedServes
  <2>7. QED
    BY <1>1, <1>5, <2>6, EraseShrinks, OwedTypes
<1>6. CASE /\ s \in mDistanceBased \ TimeBased
           /\ Ask(<<Call("stopDistance", s, None, "stopped")>>)
           /\ UNCHANGED <<maps, owed>>
  <2> DEFINE call == Call("stopDistance", s, None, "stopped")
  <2>1. call \in ModemCall /\ ~AboutFix(call)
    BY CallTypes DEF Reports, ResponseOps, AboutFix, Call
  <2> HIDE DEF call
  <2>2. UNCHANGED maps /\ UNCHANGED owed /\ Ask(<<call>>)
    BY <1>6 DEF call
  <2>3. QED
    BY <1>1, <2>1, <2>2, SameMaps, DistanceCall, OwedTypes
<1>7. QED
  BY <1>3, <1>4, <1>5, <1>6 DEF HandleStop

-----------------------------------------------------------------------------
(***************************************************************************)
(* The loops over the map of distance-based sessions.                      *)
(***************************************************************************)
LEMMA KeyOrderTypes ==
  ASSUME NEW S \in SUBSET Sessions, NEW order \in KeyOrders(S)
  PROVE  DOMAIN order = 1..Cardinality(S) /\ Cardinality(S) \in Nat
         /\ \A i \in DOMAIN order : order[i] \in S
<1>1. IsFiniteSet(Sessions)
  BY FS_Interval, BoundsAssumption DEF Sessions
<1>2. Cardinality(S) \in Nat
  BY <1>1, FS_Subset, FS_CardinalityType
<1>3. QED
  BY <1>2 DEF KeyOrders

LEMMA DistanceCalls ==
  ASSUME NEW S \in SUBSET Sessions, NEW order \in KeyOrders(S),
         NEW calls, calls \in [DOMAIN order -> ModemCall],
         \A i \in DOMAIN order : ~AboutFix(calls[i])
  PROVE  calls \in Seq(ModemCall) /\ \A j \in 1..Len(calls) : ~AboutFix(calls[j])
<1>1. PICK n \in Nat : DOMAIN order = 1..n
  BY KeyOrderTypes
<1>2. calls \in [1..n -> ModemCall]
  BY <1>1
<1>3. calls \in Seq(ModemCall) /\ Len(calls) = n
  BY <1>2
<1>4. QED
  BY <1>1, <1>3

LEMMA HandleEngineUpStep ==
  ASSUME Inv, HandleEngineUp
  PROVE  Inv'
<1>1. TypeOK /\ mTimeBased \in TimeMap /\ toModem \in Seq(ModemCall)
  BY InvType
<1>2. queue \in Seq(Message) /\ queue # <<>> /\ mPendingMsgs \in Seq(Command)
  BY <1>1 DEF TypeOK, HandleEngineUp
<1>3. Tail(queue) \in Seq(Message) /\ (ResponsesSucceed(queue) => ResponsesSucceed(Tail(queue)))
  BY <1>2, QueueTail
<1>4. queue' = Tail(queue) \o mPendingMsgs
  BY DEF HandleEngineUp
<1>5. mPendingMsgs \in Seq(Message)
  <2>1. \A i \in 1..Len(mPendingMsgs) : mPendingMsgs[i] \in Message
    BY <1>2 DEF Message
  <2>2. QED
    BY <1>2, <2>1
<1>6. queue' \in Seq(Message)
  BY <1>3, <1>4, <1>5
<1>7. ResponsesSucceed(queue) => ResponsesSucceed(queue')
  <2> SUFFICES ASSUME ResponsesSucceed(Tail(queue)), NEW i \in 1..Len(queue'),
                      queue'[i].op \in ResponseOps
               PROVE  queue'[i].ok = TRUE
    BY <1>3 DEF ResponsesSucceed
  <2>1. /\ i <= Len(Tail(queue)) => i \in 1..Len(Tail(queue)) /\ queue'[i] = Tail(queue)[i]
        /\ i > Len(Tail(queue)) => /\ i - Len(Tail(queue)) \in 1..Len(mPendingMsgs)
                                   /\ queue'[i] = mPendingMsgs[i - Len(Tail(queue))]
    BY <1>3, <1>4, <1>5
  <2>2. \A j \in 1..Len(mPendingMsgs) : mPendingMsgs[j].op \notin ResponseOps
    <3>1. \A m \in Command : m.op \notin ResponseOps
      BY DEF Command, ResponseOps
    <3>2. QED
      BY <1>2, <3>1
  <2>3. i <= Len(Tail(queue))
    BY <2>1, <2>2, <1>3, <1>6
  <2>4. QED
    BY <2>1, <2>3 DEF ResponsesSucceed
<1> DEFINE first == Min(TimeBased)
           o == [SmallestOptions(TimeBased) EXCEPT !.powerMode = RestartPower]
           restart == IF TimeBased = {} THEN <<>>
                      ELSE <<StartTime(first, o, "none", None)>>
<1>8. PICK order \in KeyOrders(mDistanceBased) :
        toModem' = toModem \o (restart \o
          [i \in DOMAIN order |-> Call("startDistance", order[i], Distance, "ignored")])
  BY DEF HandleEngineUp, Ask
<1> DEFINE calls == [i \in DOMAIN order |-> Call("startDistance", order[i], Distance, "ignored")]
<1>9. calls \in Seq(ModemCall) /\ \A j \in 1..Len(calls) : ~AboutFix(calls[j])
  <2>1. mDistanceBased \in SUBSET Sessions
    BY <1>1 DEF TypeOK
  <2>2. \A i \in DOMAIN order : order[i] \in Sessions
    BY <2>1, KeyOrderTypes
  <2>3. \A i \in DOMAIN order : /\ Call("startDistance", order[i], Distance, "ignored") \in ModemCall
                                /\ ~AboutFix(Call("startDistance", order[i], Distance, "ignored"))
    BY <2>2, CallTypes DEF Reports, ResponseOps, AboutFix, Call
  <2>4. calls \in [DOMAIN order -> ModemCall] /\ \A i \in DOMAIN order : ~AboutFix(calls[i])
    BY <2>3
  <2> HIDE DEF calls
  <2>5. QED
    BY <2>1, <2>4, DistanceCalls
<1> HIDE DEF calls
<1>10. restart \in Seq(ModemCall) /\ (TimeBased # {} => WillServe(toModem \o restart, engine, mTimeBased))
  <2>1. CASE TimeBased = {}
    <3>1. restart = <<>>
      BY <2>1
    <3> HIDE DEF restart
    <3>2. QED
      BY <2>1, <3>1
  <2>2. CASE TimeBased # {}
    <3> DEFINE call == StartTime(first, o, "none", None)
    <3>1. first \in Sessions
      <4>1. TimeBased \in SUBSET Nat /\ TimeBased \subseteq Sessions
        BY <1>1, MapTypes
      <4>2. QED
        BY <2>2, <4>1, MinOfNaturals
    <3>2. o \in FixOptions /\ \A t \in TimeBased : o.minInterval <= mTimeBased[t].minInterval
      BY <1>1, <2>2, RestServes, RestartPowerType
    <3>3. Serves(o, mTimeBased)
      BY <3>2 DEF Serves, TimeBased
    <3> HIDE DEF o, first
    <3>4. call \in ModemCall /\ call.call = "startTime" /\ call.o = o
      BY <3>1, <3>2, RestartType DEF StartTime
    <3>5. restart = <<call>>
      BY <2>2
    <3> HIDE DEF call, restart
    <3>6. WillServe(toModem \o <<call>>, engine, mTimeBased)
      BY <1>1, <3>3, <3>4, WillServeStart
    <3>7. QED
      BY <3>4, <3>5, <3>6
  <2>3. QED
    BY <2>1, <2>2
<1> HIDE DEF restart
<1>11. toModem' = toModem \o (restart \o calls) /\ toModem' \in Seq(ModemCall)
  BY <1>1, <1>8, <1>9, <1>10 DEF calls
<1>12. UNCHANGED <<mTimeBased, engine, disturbed>>
  BY DEF HandleEngineUp, HandlerUnchanged, modemVars, maps
<1>13. Prepared'
  <2>1. CASE TimeBased = {}
    BY <1>12, <2>1 DEF Prepared, TimeBased
  <2>2. CASE TimeBased # {}
    <3>1. toModem \o restart \in Seq(ModemCall)
      BY <1>1, <1>10
    <3>2. WillServe((toModem \o restart) \o calls, engine, mTimeBased)
      BY <1>9, <1>10, <2>2, <3>1, WillServeMore
    <3>3. (toModem \o restart) \o calls = toModem \o (restart \o calls)
      BY <1>1, <1>9, <1>10, ConcatAssociative
    <3>4. WillServe(toModem', engine', mTimeBased')
      BY <1>11, <1>12, <3>2, <3>3
    <3>5. QED
      BY <3>4 DEF Prepared
  <2>3. QED
    BY <2>1, <2>2
<1>14. TypeOK'
  <2>1. mPendingMsgs' = <<>> /\ mPendingMsgs' \in Seq(Command)
    BY DEF HandleEngineUp
  <2>2. QED
    BY <1>1, <1>6, <1>11, <2>1
       DEF TypeOK, HandleEngineUp, HandlerUnchanged, modemVars, clientVars, maps
<1>15. QED
  BY <1>7, <1>12, <1>13, <1>14 DEF Inv

\* A client without time-based sessions leaves the fix alone; with some, the
\* behaviour counts as disturbed.
LEMMA HandleRemoveClientStep ==
  ASSUME Inv, HandleRemoveClient
  PROVE  Inv'
<1>1. TypeOK /\ mTimeBased \in TimeMap /\ toModem \in Seq(ModemCall) /\ Receive("removeClient")
  BY InvType DEF HandleRemoveClient
<1>2. /\ queue \in Seq(Message) /\ queue # <<>>
      /\ Head(queue).op = "removeClient"
      /\ queue' = Tail(queue)
  BY <1>1, Received
<1>3. /\ queue' \in Seq(Message)
      /\ ResponsesSucceed(queue) => ResponsesSucceed(queue')
      /\ EngineUpQueued(queue) => EngineUpQueued(queue')
  BY <1>2, QueueTail
<1> DEFINE owned == {s \in Sessions : Owner[s] = Head(queue).c}
           stopped == {s \in TimeBased \cap owned : StopMultiplex(s) # <<>>}
<1>4. PICK time \in KeyOrders(stopped), distance \in KeyOrders(mDistanceBased \cap owned) :
        toModem' = toModem \o ([i \in DOMAIN time |-> StopMultiplex(time[i])[1]] \o
          [i \in DOMAIN distance |-> Call("stopDistance", distance[i], None, "forget")])
  BY DEF HandleRemoveClient, Ask
<1> DEFINE first == [i \in DOMAIN time |-> StopMultiplex(time[i])[1]]
           rest == [i \in DOMAIN distance |-> Call("stopDistance", distance[i], None, "forget")]
<1>5. rest \in Seq(ModemCall) /\ \A j \in 1..Len(rest) : ~AboutFix(rest[j])
  <2> DEFINE S == mDistanceBased \cap owned
  <2>1. S \in SUBSET Sessions
    OBVIOUS
  <2>2. \A i \in DOMAIN distance : distance[i] \in Sessions
    <3> HIDE DEF S
    <3>1. QED
      BY <2>1, KeyOrderTypes DEF S
  <2>3. \A i \in DOMAIN distance : /\ Call("stopDistance", distance[i], None, "forget") \in ModemCall
                                   /\ ~AboutFix(Call("stopDistance", distance[i], None, "forget"))
    BY <2>2, CallTypes DEF Reports, ResponseOps, AboutFix, Call
  <2>4. rest \in [DOMAIN distance -> ModemCall] /\ \A i \in DOMAIN distance : ~AboutFix(rest[i])
    BY <2>3
  <2>5. distance \in KeyOrders(S)
    OBVIOUS
  <2> HIDE DEF rest, S
  <2>6. QED
    BY <2>1, <2>4, <2>5, DistanceCalls
<1>6. first \in Seq(ModemCall) /\ (TimeBased \cap owned = {} => first = <<>>)
  <2>1. stopped \in SUBSET Sessions /\ stopped \subseteq TimeBased
    BY <1>1, MapTypes
  <2>2. PICK n \in Nat : DOMAIN time = 1..n /\ n = Cardinality(stopped)
    <3> HIDE DEF stopped
    <3>1. QED
      BY <2>1, KeyOrderTypes
  <2>3. \A i \in DOMAIN time : time[i] \in stopped
    <3> HIDE DEF stopped
    <3>1. QED
      BY <2>1, KeyOrderTypes
  <2>4. \A i \in DOMAIN time : StopMultiplex(time[i])[1] \in ModemCall
    <3> TAKE i \in DOMAIN time
    <3>1. time[i] \in TimeBased /\ StopMultiplex(time[i]) # <<>>
      BY <2>1, <2>3
    <3>2. PICK more \in Seq(ModemCall) : more = StopMultiplex(time[i])
      BY <1>1, <3>1, StopMultiplexServes
    <3>3. QED
      BY <3>1, <3>2
  <2>5. first \in [1..n -> ModemCall]
    BY <2>2, <2>4
  <2>6. first \in Seq(ModemCall)
    <3> HIDE DEF first
    <3>1. QED
      BY <2>5
  <2>7. TimeBased \cap owned = {} => n = 0
    BY <2>2, FS_EmptySet
  <2>8. n = 0 => first = <<>>
    <3> HIDE DEF first
    <3>1. QED
      BY <2>5, <2>6
  <2>9. QED
    BY <2>6, <2>7, <2>8
<1> HIDE DEF first, rest
<1>7. toModem' = toModem \o (first \o rest) /\ toModem' \in Seq(ModemCall)
  BY <1>1, <1>4, <1>5, <1>6 DEF first, rest
<1>8. /\ UNCHANGED <<mTimeBased, mDistanceBased, engine>>
      /\ disturbed' = (disturbed \/ TimeBased \cap owned # {})
      /\ owed' \in [Sessions -> Int]
  BY <1>1 DEF TypeOK, HandleRemoveClient, HandlerUnchanged, modemVars, maps
<1>9. disturbed' \in BOOLEAN
  BY <1>8, Zenon
<1>10. TypeOK'
  BY <1>1, <1>3, <1>7, <1>8, <1>9
     DEF TypeOK, HandleRemoveClient, HandlerUnchanged, modemVars, clientVars, maps
<1>11. ASSUME ~disturbed', Prepared
       PROVE  Prepared'
  <2>1. first = <<>>
    BY <1>6, <1>8, <1>11
  <2>2. toModem' = toModem \o rest
    BY <1>5, <1>7, <2>1
  <2>3. Shrinks(mTimeBased, mTimeBased')
    BY <1>8 DEF Shrinks
  <2>4. QED
    BY <1>1, <1>5, <1>8, <1>11, <2>2, <2>3, ShrinkPrepared
<1>12. QED
  BY <1>3, <1>8, <1>10, <1>11 DEF Inv

-----------------------------------------------------------------------------
(***************************************************************************)
(* The handlers of responses.                                              *)
(***************************************************************************)
LEMMA ResponseFacts ==
  ASSUME Inv, NEW op \in ResponseOps, Receive(op), ResponseUnchanged
  PROVE  /\ TypeOK /\ op # "engineUp" /\ HandlerUnchanged
         /\ UNCHANGED engine
         /\ UNCHANGED <<capabilitiesKnown, mPendingMsgs, mClientData, disturbed>>
         /\ Session \in Sessions /\ NewOptions \in TimeOptions \cup {None}
         /\ op = "thenStartTime" => NewOptions \in TimeOptions
         /\ ~disturbed => Succeeded = TRUE
<1>1. TypeOK /\ op # "engineUp"
  BY InvType DEF ResponseOps
<1>2. /\ queue \in Seq(Message) /\ queue # <<>>
      /\ Head(queue) \in Message /\ Head(queue).op = op
  BY <1>1, Received
<1>3. /\ Session \in Sessions /\ NewOptions \in TimeOptions \cup {None}
      /\ op = "thenStartTime" => NewOptions \in TimeOptions
  BY <1>2, MessageFields DEF Session, NewOptions
<1>4. ~disturbed => Succeeded = TRUE
  BY <1>2, QueueTail DEF Inv, Succeeded
<1>5. QED
  BY <1>1, <1>3, <1>4 DEF ResponseUnchanged, HandlerUnchanged, modemVars

\* A response after which nothing is asked for, and that, if nothing was
\* refused, at most erases sessions.
LEMMA ResponseStep ==
  ASSUME Inv, NEW op \in ResponseOps, Receive(op), ResponseUnchanged, UNCHANGED toModem,
         mTimeBased' \in TimeMap, mDistanceBased' \subseteq Sessions,
         ~disturbed => Shrinks(mTimeBased, mTimeBased'),
         Report(Session) \/ UNCHANGED owed
  PROVE  Inv'
<1>1. /\ TypeOK /\ op # "engineUp" /\ HandlerUnchanged
      /\ UNCHANGED <<capabilitiesKnown, mPendingMsgs, mClientData, disturbed>>
      /\ UNCHANGED engine
      /\ Session \in Sessions
  BY ResponseFacts
<1>2. toModem' \in Seq(ModemCall) /\ toModem \in Seq(ModemCall)
  BY InvType
<1>3. owed' \in [Sessions -> Int]
  BY <1>1, OwedTypes
<1>4. UNCHANGED <<engine, toModem>>
  BY <1>1
<1>5. ~disturbed /\ Prepared => Prepared'
  BY <1>2, <1>4, SameCalls
<1>6. QED
  BY <1>1, <1>2, <1>3, <1>5, HandlerStep

LEMMA HandleStartedStep ==
  ASSUME Inv, HandleStarted
  PROVE  Inv'
<1>1. /\ Receive("started") /\ "started" \in ResponseOps /\ ResponseUnchanged
      /\ UNCHANGED toModem /\ Report(Session)
  BY DEF HandleStarted, ResponseOps
<1>2. TypeOK /\ Session \in Sessions
  BY <1>1, ResponseFacts
<1>3. /\ mTimeBased' \in TimeMap /\ mDistanceBased' \subseteq Sessions
      /\ Shrinks(mTimeBased, mTimeBased')
  <2>1. UNCHANGED maps \/ Erase(Session)
    BY DEF HandleStarted
  <2>2. QED
    BY <1>2, <2>1, SameMaps, EraseShrinks
<1>4. QED
  BY <1>1, <1>3, ResponseStep

LEMMA HandleUpdatedStep ==
  ASSUME Inv, HandleUpdated
  PROVE  Inv'
<1>1. /\ Receive("updated") /\ "updated" \in ResponseOps /\ ResponseUnchanged
      /\ UNCHANGED toModem /\ Report(Session)
  BY DEF HandleUpdated, ResponseOps
<1>2. /\ TypeOK /\ Session \in Sessions /\ NewOptions \in Options \cup {None}
      /\ ~disturbed => Succeeded = TRUE
  BY <1>1, ResponseFacts DEF Options
<1>3. IF Succeeded THEN UNCHANGED maps ELSE Save(Session, NewOptions)
  BY DEF HandleUpdated
<1>4. mTimeBased' \in TimeMap /\ mDistanceBased' \subseteq Sessions
  BY <1>2, <1>3, SameMaps, SaveTypes
<1>5. ~disturbed => Shrinks(mTimeBased, mTimeBased')
  BY <1>2, <1>3, SameMaps
<1>6. QED
  BY <1>1, <1>4, <1>5, ResponseStep

LEMMA HandleFixStoppedStep ==
  ASSUME Inv, HandleFixStopped
  PROVE  Inv'
<1>1. /\ Receive("fixStopped") /\ "fixStopped" \in ResponseOps /\ ResponseUnchanged
      /\ UNCHANGED toModem /\ UNCHANGED maps /\ Report(Session)
  BY DEF HandleFixStopped, ResponseOps
<1>2. /\ mTimeBased' \in TimeMap /\ mDistanceBased' \subseteq Sessions
      /\ Shrinks(mTimeBased, mTimeBased')
  BY <1>1, InvType, SameMaps
<1>3. QED
  BY <1>1, <1>2, ResponseStep

LEMMA HandleStoppedStep ==
  ASSUME Inv, HandleStopped
  PROVE  Inv'
<1>1. /\ Receive("stopped") /\ "stopped" \in ResponseOps /\ ResponseUnchanged
      /\ UNCHANGED toModem /\ Report(Session)
  BY DEF HandleStopped, ResponseOps
<1>2. TypeOK /\ Session \in Sessions
  BY <1>1, ResponseFacts
<1>3. /\ mTimeBased' \in TimeMap /\ mDistanceBased' \subseteq Sessions
      /\ Shrinks(mTimeBased, mTimeBased')
  <2>1. UNCHANGED maps \/ Erase(Session)
    BY DEF HandleStopped
  <2>2. QED
    BY <1>2, <2>1, SameMaps, EraseShrinks
<1>4. QED
  BY <1>1, <1>3, ResponseStep

LEMMA HandleForgetStep ==
  ASSUME Inv, HandleForget
  PROVE  Inv'
<1>1. /\ Receive("forget") /\ "forget" \in ResponseOps /\ ResponseUnchanged
      /\ UNCHANGED toModem /\ UNCHANGED owed
  BY DEF HandleForget, ResponseOps
<1>2. TypeOK /\ Session \in Sessions
  BY <1>1, ResponseFacts
<1>3. /\ mTimeBased' \in TimeMap /\ mDistanceBased' \subseteq Sessions
      /\ Shrinks(mTimeBased, mTimeBased')
  <2>1. UNCHANGED maps \/ Erase(Session)
    BY DEF HandleForget
  <2>2. QED
    BY <1>2, <2>1, SameMaps, EraseShrinks
<1>4. QED
  BY <1>1, <1>3, ResponseStep

LEMMA HandleThenStartTimeStep ==
  ASSUME Inv, HandleThenStartTime
  PROVE  Inv'
<1>1. /\ Receive("thenStartTime") /\ "thenStartTime" \in ResponseOps /\ ResponseUnchanged
      /\ Ask(StartMultiplex(Session, NewOptions))
      /\ ReportIfNone(StartMultiplex(Session, NewOptions), Session)
      /\ Save(Session, NewOptions)
  BY DEF HandleThenStartTime, ResponseOps
<1>2. /\ TypeOK /\ HandlerUnchanged /\ UNCHANGED engine
      /\ UNCHANGED <<capabilitiesKnown, mPendingMsgs, mClientData, disturbed>>
      /\ Session \in Sessions /\ NewOptions \in TimeOptions
  BY <1>1, ResponseFacts
<1>3. NewOptions \in Options /\ NewOptions # Distance
  BY <1>2, OptionsAssumption DEF Options
<1>4. /\ mTimeBased' \in TimeMap /\ mDistanceBased' \subseteq Sessions
      /\ mTimeBased' = [mTimeBased EXCEPT ![Session] = NewOptions]
  BY <1>1, <1>2, <1>3, SaveTypes
<1>5. toModem' \in Seq(ModemCall) /\ (Prepared => Prepared')
  BY <1>1, <1>2, <1>4, StartedServes
<1>6. owed' \in [Sessions -> Int]
  BY <1>1, <1>2, OwedTypes
<1>7. QED
  BY <1>1, <1>2, <1>4, <1>5, <1>6, HandlerStep

LEMMA HandleThenStartDistanceStep ==
  ASSUME Inv, HandleThenStartDistance
  PROVE  Inv'
<1>1. /\ Receive("thenStartDistance") /\ "thenStartDistance" \in ResponseOps
      /\ ResponseUnchanged /\ UNCHANGED maps /\ UNCHANGED owed
  BY DEF HandleThenStartDistance, ResponseOps
<1>2. /\ TypeOK /\ HandlerUnchanged /\ UNCHANGED engine
      /\ UNCHANGED <<capabilitiesKnown, mPendingMsgs, mClientData, disturbed>>
      /\ Session \in Sessions
  BY <1>1, ResponseFacts
<1>3. /\ mTimeBased' \in TimeMap /\ mDistanceBased' \subseteq Sessions
      /\ Shrinks(mTimeBased, mTimeBased')
  BY <1>1, <1>2, SameMaps
<1>4. CASE Succeeded
  <2> DEFINE call == Call("startDistance", Session, Distance, "restarted")
  <2>1. call \in ModemCall /\ ~AboutFix(call)
    BY <1>2, CallTypes DEF Reports, ResponseOps, AboutFix, Call
  <2>2. Ask(<<call>>)
    BY <1>4 DEF HandleThenStartDistance
  <2> HIDE DEF call
  <2>3. toModem' \in Seq(ModemCall) /\ (Prepared => Prepared')
    BY <1>2, <1>3, <2>1, <2>2, DistanceCall
  <2>4. owed' \in [Sessions -> Int]
    BY <1>1, <1>2, OwedTypes
  <2>5. QED
    BY <1>1, <1>2, <1>3, <2>3, <2>4, HandlerStep
<1>5. CASE ~Succeeded
  <2>1. toModem' = toModem \o <<>>
    BY <1>5 DEF HandleThenStartDistance, Ask
  <2>2. UNCHANGED toModem
    BY <2>1, InvType, NoMore
  <2>3. QED
    BY <1>1, <1>3, <2>2, ResponseStep
<1>6. QED
  BY <1>4, <1>5

LEMMA HandleRestartedStep ==
  ASSUME Inv, HandleRestarted
  PROVE  Inv'
<1>1. /\ Receive("restarted") /\ "restarted" \in ResponseOps /\ ResponseUnchanged
      /\ UNCHANGED toModem /\ Report(Session)
  BY DEF HandleRestarted, ResponseOps
<1>2. TypeOK /\ Session \in Sessions
  BY <1>1, ResponseFacts
<1>3. /\ mTimeBased' \in TimeMap /\ mDistanceBased' \subseteq Sessions
      /\ Shrinks(mTimeBased, mTimeBased')
  <2>1. CASE UNCHANGED maps
    BY <1>2, <2>1, SameMaps
  <2>2. CASE Save(Session, Distance)
    <3>1. Distance \in Options
      BY DEF Options
    <3>2. /\ mTimeBased' \in TimeMap /\ mDistanceBased' \subseteq Sessions
          /\ mTimeBased' = mTimeBased
      BY <1>2, <2>2, <3>1, SaveTypes
    <3>3. QED
      BY <3>2 DEF Shrinks
  <2>3. QED
    BY <2>1, <2>2 DEF HandleRestarted
<1>4. QED
  BY <1>1, <1>3, ResponseStep

LEMMA HandleIgnoredStep ==
  ASSUME Inv, HandleIgnored
  PROVE  Inv'
<1>1. /\ Receive("ignored") /\ "ignored" \in ResponseOps /\ ResponseUnchanged
      /\ UNCHANGED toModem /\ UNCHANGED maps /\ UNCHANGED owed
  BY DEF HandleIgnored, ResponseOps
<1>2. /\ mTimeBased' \in TimeMap /\ mDistanceBased' \subseteq Sessions
      /\ Shrinks(mTimeBased, mTimeBased')
  BY <1>1, InvType, SameMaps
<1>3. QED
  BY <1>1, <1>2, ResponseStep

-----------------------------------------------------------------------------
(***************************************************************************)
(* Clients and the modem.                                                  *)
(***************************************************************************)

\* A message of the environment is appended, and nothing else changes that the
\* invariant is about.
LEMMA PostStep ==
  ASSUME Inv, NEW m \in Message, m.op \notin ResponseOps, Post(m), TypeOK',
         UNCHANGED <<mTimeBased, toModem, disturbed>>, UNCHANGED engine \/ m.op = "engineUp"
  PROVE  Inv'
<1>1. queue \in Seq(Message) /\ queue' = Append(queue, m)
  BY DEF Inv, TypeOK, Post
<1>2. /\ ResponsesSucceed(queue) => ResponsesSucceed(queue')
      /\ EngineUpQueued(queue) \/ m.op = "engineUp" => EngineUpQueued(queue')
  BY <1>1, QueueAppend
<1>3. UNCHANGED engine => (Prepared' <=> Prepared)
  BY DEF Prepared, TimeBased
<1>4. QED
  BY <1>2, <1>3 DEF Inv

LEMMA CommandStep ==
  ASSUME Inv, NEW s \in Sessions, ClientCalls(s), commands < MaxCommands,
         NEW m \in Command, Post(m),
         mSessionIdCounter' \in 0..MaxSessions, ended' \subseteq Sessions
  PROVE  Inv'
<1>1. TypeOK
  BY InvType
<1>2. m \in Message /\ m.op \notin ResponseOps
  BY DEF Message, Command, ResponseOps
<1>3. queue' \in Seq(Message)
  BY <1>1, <1>2 DEF TypeOK, Post
<1>4. owed' \in [Sessions -> Int] /\ hasty' \subseteq Sessions
  BY <1>1 DEF TypeOK, ClientCalls
<1>5. commands' \in 0..MaxCommands
  BY <1>1, BoundsAssumption DEF TypeOK, ClientCalls
<1>6. TypeOK'
  BY <1>1, <1>3, <1>4, <1>5 DEF TypeOK, ClientCalls, maps, modemVars
<1>7. UNCHANGED <<mTimeBased, toModem, disturbed>> /\ UNCHANGED engine
  BY DEF ClientCalls, maps, modemVars
<1>8. QED
  BY <1>2, <1>6, <1>7, PostStep

LEMMA ClientStepStep ==
  ASSUME Inv, ClientStep
  PROVE  Inv'
<1>1. TypeOK /\ commands < MaxCommands /\ mSessionIdCounter \in 0..MaxSessions
  BY InvType DEF ClientStep, TypeOK
<1>2. ASSUME NEW o \in Options, StartTracking(mSessionIdCounter + 1, o)
      PROVE  Inv'
  <2>1. PICK s \in Sessions : s = mSessionIdCounter + 1
    BY <1>2 DEF StartTracking
  <2>2. Msg("start", s, o) \in Command
    BY DEF Msg, Command
  <2>3. /\ ClientCalls(s) /\ Post(Msg("start", s, o))
        /\ mSessionIdCounter' = s /\ ended' = ended
    BY <1>2, <2>1 DEF StartTracking
  <2>4. mSessionIdCounter' \in 0..MaxSessions
    BY <2>1, <2>3, BoundsAssumption DEF Sessions
  <2>5. ended' \subseteq Sessions
    BY <1>1, <2>3 DEF TypeOK
  <2>6. QED
    BY <1>1, <2>2, <2>3, <2>4, <2>5, CommandStep
<1>3. ASSUME NEW s \in 1..mSessionIdCounter, NEW o \in Options, UpdateTracking(s, o)
      PROVE  Inv'
  <2>1. s \in Sessions
    BY <1>1, BoundsAssumption DEF Sessions
  <2>2. Msg("update", s, o) \in Command
    BY <2>1 DEF Msg, Command
  <2>3. /\ ClientCalls(s) /\ Post(Msg("update", s, o))
        /\ mSessionIdCounter' = mSessionIdCounter /\ ended' = ended
    BY <1>3 DEF UpdateTracking
  <2>4. mSessionIdCounter' \in 0..MaxSessions /\ ended' \subseteq Sessions
    BY <1>1, <2>3 DEF TypeOK
  <2>5. QED
    BY <1>1, <2>1, <2>2, <2>3, <2>4, CommandStep
<1>4. ASSUME NEW s \in 1..mSessionIdCounter, StopTracking(s)
      PROVE  Inv'
  <2>1. s \in Sessions
    BY <1>1, BoundsAssumption DEF Sessions
  <2>2. Msg("stop", s, None) \in Command
    BY <2>1 DEF Msg, Command
  <2>3. /\ ClientCalls(s) /\ Post(Msg("stop", s, None))
        /\ mSessionIdCounter' = mSessionIdCounter /\ ended' = ended \cup {s}
    BY <1>4 DEF StopTracking
  <2>4. mSessionIdCounter' \in 0..MaxSessions /\ ended' \subseteq Sessions
    BY <1>1, <2>1, <2>3 DEF TypeOK
  <2>5. QED
    BY <1>1, <2>1, <2>2, <2>3, <2>4, CommandStep
<1>5. ASSUME NEW c \in Clients, RemoveClient(c)
      PROVE  Inv'
  <2> DEFINE m == [op |-> "removeClient", c |-> c]
  <2>1. m \in Message /\ m.op \notin ResponseOps
    BY DEF Message, ResponseOps
  <2>2. Post(m)
    BY <1>5 DEF RemoveClient
  <2> HIDE DEF m
  <2>3. queue' \in Seq(Message)
    BY <1>1, <2>1, <2>2 DEF TypeOK, Post
  <2>4. commands' \in 0..MaxCommands
    BY <1>1, <1>5, BoundsAssumption DEF TypeOK, RemoveClient
  <2>5. TypeOK'
    BY <1>1, <1>5, <2>3, <2>4 DEF TypeOK, RemoveClient, maps, modemVars
  <2>6. UNCHANGED <<mTimeBased, toModem, disturbed>> /\ UNCHANGED engine
    BY <1>5 DEF RemoveClient, maps, modemVars
  <2>7. QED
    BY <2>1, <2>2, <2>5, <2>6, PostStep
<1>6. QED
  BY <1>2, <1>3, <1>4, <1>5 DEF ClientStep

LEMMA ModemUpStep ==
  ASSUME Inv, ModemUp
  PROVE  Inv'
<1>1. TypeOK
  BY InvType
<1> DEFINE m == [op |-> "engineUp"]
<1>2. m \in Message /\ m.op \notin ResponseOps /\ m.op = "engineUp"
  BY DEF Message, ResponseOps
<1>3. Post(m)
  BY DEF ModemUp
<1> HIDE DEF m
<1>4. queue' \in Seq(Message)
  BY <1>1, <1>2, <1>3 DEF TypeOK, Post
<1>5. restarts' \in 0..MaxRestarts
  BY <1>1, BoundsAssumption DEF TypeOK, ModemUp
<1>6. TypeOK'
  BY <1>1, <1>4, <1>5 DEF TypeOK, ModemUp, maps, clientVars
<1>7. UNCHANGED <<mTimeBased, toModem, disturbed>>
  BY DEF ModemUp, maps
<1>8. QED
  BY <1>2, <1>3, <1>6, <1>7, PostStep

LEMMA RespondFacts ==
  ASSUME Inv, NEW ok \in BOOLEAN, Respond(ok)
  PROVE  /\ toModem \in Seq(ModemCall) /\ toModem # <<>>
         /\ Head(toModem) \in ModemCall /\ Head(toModem).then.s \in Sessions
         /\ toModem' = Tail(toModem) /\ toModem' \in Seq(ModemCall)
         /\ queue' \in Seq(Message)
         /\ EngineUpQueued(queue) => EngineUpQueued(queue')
         /\ ok = TRUE /\ ResponsesSucceed(queue) => ResponsesSucceed(queue')
<1>1. /\ toModem \in Seq(ModemCall) /\ toModem # <<>> /\ toModem' = Tail(toModem)
      /\ queue \in Seq(Message)
  BY InvType DEF Respond, TypeOK
<1>2. Head(toModem) \in ModemCall /\ toModem' \in Seq(ModemCall)
  BY <1>1
<1> DEFINE then == Head(toModem).then
           m == [then EXCEPT !.ok = ok]
<1>3. then \in Then
  BY <1>2 DEF ModemCall
<1>4. then.s \in Sessions
  BY <1>3 DEF Then, Response
<1>5. CASE then.op = "none"
  <2>1. queue' = queue
    BY <1>5 DEF Respond
  <2>2. QED
    BY <1>1, <1>2, <1>4, <2>1
<1>6. CASE then.op # "none"
  <2>1. queue' = Append(queue, m)
    BY <1>6 DEF Respond
  <2>2. then \in Response({TRUE})
    BY <1>3, <1>6 DEF Then
  <2> HIDE DEF then
  <2>3. m \in Response(BOOLEAN) /\ m.ok = ok
    BY <2>2 DEF Response
  <2>4. m \in Message
    BY <2>3 DEF Message
  <2> HIDE DEF m
  <2>5. /\ queue' \in Seq(Message)
        /\ EngineUpQueued(queue) => EngineUpQueued(queue')
        /\ ok = TRUE /\ ResponsesSucceed(queue) => ResponsesSucceed(queue')
    BY <1>1, <2>1, <2>3, <2>4, QueueAppend
  <2>6. QED
    BY <1>1, <1>2, <1>4, <2>5 DEF then
<1>7. QED
  BY <1>5, <1>6

LEMMA ModemAcceptsStep ==
  ASSUME Inv, ModemAccepts
  PROVE  Inv'
<1>1. TypeOK
  BY InvType
<1>2. Respond(TRUE) /\ UNCHANGED disturbed
  BY DEF ModemAccepts
<1>3. /\ toModem \in Seq(ModemCall) /\ toModem # <<>>
      /\ Head(toModem) \in ModemCall /\ Head(toModem).then.s \in Sessions
      /\ toModem' = Tail(toModem) /\ toModem' \in Seq(ModemCall)
      /\ queue' \in Seq(Message)
      /\ EngineUpQueued(queue) => EngineUpQueued(queue')
      /\ ResponsesSucceed(queue) => ResponsesSucceed(queue')
  BY <1>2, RespondFacts
<1>4. PICK call \in ModemCall : call = Head(toModem)
  BY <1>3
<1>5. engine' = FixAfter(call, engine)
  BY <1>4 DEF ModemAccepts, FixAfter
<1>6. engine' \in FixOptions \cup {None} /\ engineDistance' \subseteq Sessions
  <2>1. engine' \in FixOptions \cup {None}
    <3>1. call.call = "startTime" => call.o \in FixOptions
      BY DEF ModemCall
    <3>2. engine \in FixOptions \cup {None}
      BY <1>1 DEF TypeOK
    <3>3. QED
      BY <1>5, <3>1, <3>2 DEF FixAfter
  <2>2. engineDistance' \subseteq Sessions
    BY <1>1, <1>3 DEF TypeOK, ModemAccepts
  <2>3. QED
    BY <2>1, <2>2
<1>7. TypeOK'
  BY <1>1, <1>2, <1>3, <1>6 DEF TypeOK, Respond, maps, clientVars
<1>8. UNCHANGED mTimeBased
  BY <1>2 DEF Respond, maps
<1>9. Prepared => Prepared'
  <2>1. TimeBased = {} => TimeBased' = {}
    BY <1>8 DEF TimeBased
  <2>2. ASSUME WillServe(toModem, engine, mTimeBased)
        PROVE  WillServe(toModem', engine', mTimeBased')
    <3>1. WillServe(Tail(toModem), FixAfter(Head(toModem), engine), mTimeBased)
      BY <1>3, <2>2, WillServeTail
    <3>2. QED
      BY <1>3, <1>4, <1>5, <1>8, <3>1
  <2>3. QED
    BY <2>1, <2>2 DEF Prepared
<1>10. QED
  BY <1>2, <1>3, <1>7, <1>9 DEF Inv

LEMMA ModemRefusesStep ==
  ASSUME Inv, ModemRefuses
  PROVE  Inv'
<1>1. TypeOK /\ Respond(FALSE) /\ disturbed' = TRUE /\ UNCHANGED <<engine, engineDistance>>
  BY InvType DEF ModemRefuses
<1>2. toModem' \in Seq(ModemCall) /\ queue' \in Seq(Message)
  BY <1>1, RespondFacts
<1>3. TypeOK'
  BY <1>1, <1>2 DEF TypeOK, Respond, maps, clientVars
<1>4. QED
  BY <1>1, <1>3 DEF Inv

-----------------------------------------------------------------------------
(***************************************************************************)
(* The theorems.                                                           *)
(***************************************************************************)
LEMMA Initially == Init => Inv
<1> SUFFICES ASSUME Init
             PROVE  Inv
  OBVIOUS
<1>1. TypeOK
  <2>1. queue \in Seq(Message) /\ mPendingMsgs \in Seq(Command) /\ toModem \in Seq(ModemCall)
    BY DEF Init
  <2>2. capabilitiesKnown \in BOOLEAN /\ disturbed \in BOOLEAN
    BY Zenon DEF Init
  <2>3. QED
    BY <2>1, <2>2, BoundsAssumption DEF Init, TypeOK
<1>2. ResponsesSucceed(queue)
  BY DEF Init, ResponsesSucceed
<1>3. TimeBased = {}
  BY DEF Init, TimeBased
<1>4. QED
  BY <1>1, <1>2, <1>3 DEF Inv, Prepared

LEMMA Inductive == Inv /\ [Next]_vars => Inv'
<1> SUFFICES ASSUME Inv, [Next]_vars
             PROVE  Inv'
  OBVIOUS
<1>1. CASE ClientStep
  BY <1>1, ClientStepStep
<1>2. CASE DeferCommand
  BY <1>2, DeferCommandStep
<1>3. CASE HandleStart
  BY <1>3, HandleStartStep
<1>4. CASE HandleUpdate
  BY <1>4, HandleUpdateStep
<1>5. CASE HandleStop
  BY <1>5, HandleStopStep
<1>6. CASE HandleRemoveClient
  BY <1>6, HandleRemoveClientStep
<1>7. CASE HandleEngineUp
  BY <1>7, HandleEngineUpStep
<1>8. CASE HandleStarted
  BY <1>8, HandleStartedStep
<1>9. CASE HandleUpdated
  BY <1>9, HandleUpdatedStep
<1>10. CASE HandleFixStopped
  BY <1>10, HandleFixStoppedStep
<1>11. CASE HandleStopped
  BY <1>11, HandleStoppedStep
<1>12. CASE HandleForget
  BY <1>12, HandleForgetStep
<1>13. CASE HandleThenStartTime
  BY <1>13, HandleThenStartTimeStep
<1>14. CASE HandleThenStartDistance
  BY <1>14, HandleThenStartDistanceStep
<1>15. CASE HandleRestarted
  BY <1>15, HandleRestartedStep
<1>16. CASE HandleIgnored
  BY <1>16, HandleIgnoredStep
<1>17. CASE ModemAccepts
  BY <1>17, ModemAcceptsStep
<1>18. CASE ModemRefuses
  BY <1>18, ModemRefusesStep
<1>19. CASE ModemUp
  BY <1>19, ModemUpStep
<1>20. CASE UNCHANGED vars
  <2>1. TypeOK'
    BY <1>20 DEF Inv, TypeOK, vars, maps, modemVars, clientVars
  <2>2. UNCHANGED <<mTimeBased, toModem, engine, queue, disturbed>>
    BY <1>20 DEF vars, maps, modemVars
  <2>3. Prepared' <=> Prepared
    BY <2>2 DEF Prepared, TimeBased
  <2>4. QED
    BY <2>1, <2>2, <2>3 DEF Inv
<1>21. QED
  BY <1>1, <1>2, <1>3, <1>4, <1>5, <1>6, <1>7, <1>8, <1>9, <1>10, <1>11, <1>12,
     <1>13, <1>14, <1>15, <1>16, <1>17, <1>18, <1>19, <1>20
     DEF Next, Handle, Modem

LEMMA Invariant == Spec => []Inv
<1>1. QED
  BY Initially, Inductive, PTL DEF Spec

\* Every variable keeps its type; in particular a message never carries options of
\* the other kind than its handler expects.
THEOREM TypeCorrect == Spec => []TypeOK
<1>1. Inv => TypeOK
  BY DEF Inv
<1>2. QED
  BY Invariant, <1>1, PTL

\* When nothing is under way, the fix of the modem is as frequent as every
\* time-based session asks for: for any number of sessions and clients, hasty
\* ones included, any options and any number of restarts, up to the first
\* refused call or removed client with time-based sessions.
THEOREM TimeServed == Spec => []TimeSessionsAreServed
<1>1. Inv => TimeSessionsAreServed
  <2> SUFFICES ASSUME Inv, Quiet, ~disturbed, NEW s \in TimeBased
               PROVE  engine # None /\ engine.minInterval <= mTimeBased[s].minInterval
    BY DEF TimeSessionsAreServed
  <2>1. ~EngineUpQueued(queue)
    BY DEF Quiet, EngineUpQueued
  <2>2. WillServe(toModem, engine, mTimeBased)
    BY <2>1 DEF Inv, Prepared
  <2>3. Serves(engine, mTimeBased)
    BY <2>2 DEF WillServe, LastCallServes, Quiet
  <2>4. QED
    BY <2>3, OptionsAssumption DEF Serves, TimeBased
<1>2. QED
  BY Invariant, <1>1, PTL

-----------------------------------------------------------------------------
(***************************************************************************)
(* Counting the messages under way that report to the client of a session. *)
(***************************************************************************)
Places(q, s) == {i \in DOMAIN q : Reporting(q[i], s)}

Num(q, s) == Cardinality(Places(q, s))

\* The messages that calls of the modem will cause.
Thens(calls) == [i \in DOMAIN calls |-> calls[i].then]

Flying == Message \cup Then

LEMMA NumType ==
  ASSUME NEW q \in Seq(Flying), NEW s
  PROVE  /\ IsFiniteSet(Places(q, s)) /\ Num(q, s) \in Nat
         /\ Num(q, s) = 0 <=> \A i \in 1..Len(q) : ~Reporting(q[i], s)
<1>1. Len(q) \in Nat /\ DOMAIN q = 1..Len(q)
  OBVIOUS
<1>2. IsFiniteSet(1..Len(q))
  BY <1>1, FS_Interval
<1>3. IsFiniteSet(Places(q, s))
  BY <1>1, <1>2, FS_Subset DEF Places
<1>4. Places(q, s) = {} <=> \A i \in 1..Len(q) : ~Reporting(q[i], s)
  BY <1>1 DEF Places
<1>5. QED
  BY <1>3, <1>4, FS_CardinalityType, FS_EmptySet DEF Num

LEMMA NumConcat ==
  ASSUME NEW p \in Seq(Flying), NEW q \in Seq(Flying), NEW s
  PROVE  p \o q \in Seq(Flying) /\ Num(p \o q, s) = Num(p, s) + Num(q, s)
<1> DEFINE A == Places(p, s)
           B == Places(q, s)
           n == Len(p)
           C == {n + i : i \in B}
           f == [i \in B |-> n + i]
<1>1. /\ n \in Nat /\ Len(q) \in Nat /\ Len(p \o q) = n + Len(q)
      /\ DOMAIN p = 1..n /\ DOMAIN q = 1..Len(q) /\ DOMAIN (p \o q) = 1..n + Len(q)
      /\ \A i \in 1..n : (p \o q)[i] = p[i]
      /\ \A i \in 1..Len(q) : (p \o q)[n + i] = q[i]
  OBVIOUS
<1>2. IsFiniteSet(A) /\ IsFiniteSet(B) /\ A \subseteq 1..n /\ B \subseteq 1..Len(q)
  BY <1>1, NumType DEF Places
<1>3. f \in Bijection(B, C)
  <2>1. f \in [B -> C] /\ \A c \in C : \E b \in B : f[b] = c
    OBVIOUS
  <2>2. \A a, b \in B : f[a] = f[b] => a = b
    BY <1>1, <1>2
  <2>3. QED
    BY <2>1, <2>2 DEF Bijection, Injection, Surjection, IsInjective
<1>4. IsFiniteSet(C) /\ Cardinality(C) = Cardinality(B)
  BY <1>2, <1>3, FS_Bijection DEF ExistsBijection
<1>5. A \cap C = {}
  BY <1>1, <1>2
<1>6. Places(p \o q, s) = A \cup C
  <2>1. ASSUME NEW i \in Places(p \o q, s)
        PROVE  i \in A \cup C
    <3>1. i \in 1..n + Len(q) /\ Reporting((p \o q)[i], s)
      BY <1>1 DEF Places
    <3>2. CASE i <= n
      BY <1>1, <3>1, <3>2 DEF Places
    <3>3. CASE i > n
      <4>1. i - n \in 1..Len(q) /\ i = n + (i - n) /\ (p \o q)[i] = q[i - n]
        BY <1>1, <3>1, <3>3
      <4>2. i - n \in B
        BY <1>1, <3>1, <4>1 DEF Places
      <4>3. QED
        BY <4>1, <4>2
    <3>4. QED
      BY <1>1, <3>1, <3>2, <3>3
  <2>2. A \subseteq Places(p \o q, s)
    BY <1>1 DEF Places
  <2>3. ASSUME NEW b \in B
        PROVE  n + b \in Places(p \o q, s)
    <3>1. b \in 1..Len(q) /\ Reporting(q[b], s)
      BY <1>1 DEF Places
    <3>2. n + b \in 1..n + Len(q) /\ (p \o q)[n + b] = q[b]
      BY <1>1, <3>1
    <3>3. QED
      BY <1>1, <3>1, <3>2 DEF Places
  <2>4. QED
    BY <2>1, <2>2, <2>3
<1>7. Num(p \o q, s) = Cardinality(A) + Cardinality(C) - Cardinality({})
  <2> HIDE DEF A, B, C, f, n
  <2>1. Cardinality(A \cup C) = Cardinality(A) + Cardinality(C) - Cardinality(A \cap C)
    BY <1>2, <1>4, FS_Union
  <2>2. Num(p \o q, s) = Cardinality(A \cup C)
    BY <1>6 DEF Num
  <2>3. QED
    BY <1>5, <2>1, <2>2
<1>8. Cardinality(A) \in Nat /\ Cardinality(C) \in Nat
  BY <1>2, <1>4, FS_CardinalityType
<1>9. QED
  BY <1>4, <1>7, <1>8, FS_EmptySet DEF Num

LEMMA NumOne ==
  ASSUME NEW m \in Flying, NEW s
  PROVE  /\ <<m>> \in Seq(Flying)
         /\ Num(<<m>>, s) = IF Reporting(m, s) THEN 1 ELSE 0
<1> DEFINE q == <<m>>
<1>1. q \in Seq(Flying) /\ Len(q) = 1 /\ DOMAIN q = 1..1 /\ q[1] = m
  OBVIOUS
<1> HIDE DEF q
<1>2. ASSUME Reporting(m, s)
      PROVE  Num(q, s) = 1
  <2>1. Places(q, s) = {1}
    BY <1>1, <1>2 DEF Places
  <2>2. QED
    BY <2>1, FS_Singleton DEF Num
<1>3. ASSUME ~Reporting(m, s)
      PROVE  Num(q, s) = 0
  BY <1>1, <1>3, NumType
<1>4. q \in Seq(Flying) /\ Num(q, s) = IF Reporting(m, s) THEN 1 ELSE 0
  BY <1>1, <1>2, <1>3
<1>5. QED
  BY <1>4 DEF q

\* The first message of a queue, and the others.
LEMMA NumTail ==
  ASSUME NEW q \in Seq(Flying), q # <<>>, NEW s
  PROVE  /\ Head(q) \in Flying /\ Tail(q) \in Seq(Flying)
         /\ Num(q, s) = Num(<<Head(q)>>, s) + Num(Tail(q), s)
<1> DEFINE first == <<Head(q)>>
           rest == Tail(q)
<1>1. Head(q) \in Flying /\ first \in Seq(Flying) /\ rest \in Seq(Flying)
  OBVIOUS
<1>2. q = first \o rest
  OBVIOUS
<1> HIDE DEF first, rest
<1>3. Num(q, s) = Num(first, s) + Num(rest, s)
  BY <1>1, <1>2, NumConcat
<1>4. QED
  BY <1>1, <1>3 DEF first, rest

LEMMA NumAppend ==
  ASSUME NEW q \in Seq(Flying), NEW m \in Flying, NEW s
  PROVE  /\ Append(q, m) \in Seq(Flying)
         /\ Num(Append(q, m), s) = Num(q, s) + Num(<<m>>, s)
<1> DEFINE last == <<m>>
<1>1. last \in Seq(Flying) /\ Append(q, m) = q \o last
  OBVIOUS
<1> HIDE DEF last
<1>2. Append(q, m) \in Seq(Flying) /\ Num(Append(q, m), s) = Num(q, s) + Num(last, s)
  BY <1>1, NumConcat
<1>3. QED
  BY <1>2 DEF last

LEMMA ThensOf ==
  ASSUME NEW calls \in Seq(ModemCall)
  PROVE  /\ Thens(calls) \in Seq(Flying) /\ Len(Thens(calls)) = Len(calls)
         /\ \A i \in 1..Len(calls) : Thens(calls)[i] = calls[i].then
<1>1. Len(calls) \in Nat /\ DOMAIN calls = 1..Len(calls)
      /\ \A i \in 1..Len(calls) : calls[i] \in ModemCall
  OBVIOUS
<1>2. \A call \in ModemCall : call.then \in Flying
  BY DEF ModemCall, Flying
<1>3. Thens(calls) \in [1..Len(calls) -> Flying]
  BY <1>1, <1>2 DEF Thens
<1>4. QED
  BY <1>1, <1>3 DEF Thens

LEMMA ThensConcat ==
  ASSUME NEW calls \in Seq(ModemCall), NEW more \in Seq(ModemCall)
  PROVE  Thens(calls \o more) = Thens(calls) \o Thens(more)
<1>1. /\ Len(calls) \in Nat /\ Len(more) \in Nat
      /\ calls \o more \in Seq(ModemCall) /\ Len(calls \o more) = Len(calls) + Len(more)
      /\ \A i \in 1..Len(calls) : (calls \o more)[i] = calls[i]
      /\ \A i \in Len(calls) + 1..Len(calls) + Len(more) :
           (calls \o more)[i] = more[i - Len(calls)] /\ i - Len(calls) \in 1..Len(more)
  OBVIOUS
<1> DEFINE p == Thens(calls)
           q == Thens(more)
           both == Thens(calls \o more)
<1>2. /\ p \in Seq(Flying) /\ Len(p) = Len(calls)
      /\ \A i \in 1..Len(calls) : p[i] = calls[i].then
      /\ q \in Seq(Flying) /\ Len(q) = Len(more)
      /\ \A i \in 1..Len(more) : q[i] = more[i].then
  BY ThensOf
<1>3. /\ both \in Seq(Flying) /\ Len(both) = Len(calls) + Len(more)
      /\ \A i \in 1..Len(calls) + Len(more) : both[i] = (calls \o more)[i].then
  BY <1>1, ThensOf
<1> HIDE DEF p, q, both
<1>4. /\ p \o q \in Seq(Flying) /\ Len(p \o q) = Len(calls) + Len(more)
      /\ \A i \in 1..Len(calls) : (p \o q)[i] = p[i]
      /\ \A i \in Len(calls) + 1..Len(calls) + Len(more) : (p \o q)[i] = q[i - Len(calls)]
  <2>1. p \in Seq(Flying) /\ q \in Seq(Flying)
    BY <1>2
  <2>2. /\ p \o q \in Seq(Flying) /\ Len(p \o q) = Len(p) + Len(q)
        /\ \A i \in 1..Len(p) : (p \o q)[i] = p[i]
        /\ \A i \in Len(p) + 1..Len(p) + Len(q) : (p \o q)[i] = q[i - Len(p)]
    BY <2>1
  <2>3. QED
    BY <1>2, <2>2
<1>5. ASSUME NEW i \in 1..Len(calls) + Len(more)
      PROVE  both[i] = (p \o q)[i]
  <2>1. CASE i \in 1..Len(calls)
    BY <1>1, <1>2, <1>3, <1>4, <2>1
  <2>2. CASE i \in Len(calls) + 1..Len(calls) + Len(more)
    <3>1. /\ both[i] = more[i - Len(calls)].then
          /\ (p \o q)[i] = q[i - Len(calls)] /\ i - Len(calls) \in 1..Len(more)
      BY <1>1, <1>3, <1>4, <2>2
    <3>2. QED
      BY <1>2, <3>1
  <2>3. i \in 1..Len(calls) \/ i \in Len(calls) + 1..Len(calls) + Len(more)
    <3>1. Len(calls) \in Nat /\ Len(more) \in Nat
      BY <1>1
    <3>2. QED
      BY <3>1
  <2>4. QED
    BY <2>1, <2>2, <2>3
<1>6. both = p \o q
  <2>1. PICK r \in Seq(Flying) : r = p \o q
    BY <1>4, Zenon
  <2>2. PICK n \in Nat : n = Len(calls) + Len(more)
    BY <1>1
  <2>3. /\ Len(both) = n /\ Len(r) = n /\ \A i \in 1..n : both[i] = r[i]
    BY <1>3, <1>4, <1>5, <2>1, <2>2
  <2>4. both = r
    BY <1>3, <2>3
  <2>5. QED
    BY <2>1, <2>4
<1>7. QED
  BY <1>6 DEF p, q, both

LEMMA ThensTail ==
  ASSUME NEW calls \in Seq(ModemCall), calls # <<>>
  PROVE  Thens(Tail(calls)) = Tail(Thens(calls)) /\ Head(Thens(calls)) = Head(calls).then
         /\ Thens(calls) # <<>>
<1>1. /\ Len(calls) \in Nat \ {0}
      /\ Tail(calls) \in Seq(ModemCall) /\ Len(Tail(calls)) = Len(calls) - 1
      /\ \A i \in 1..Len(calls) - 1 : Tail(calls)[i] = calls[i + 1]
      /\ Head(calls) = calls[1]
  OBVIOUS
<1>2. /\ Thens(calls) \in Seq(Flying) /\ Len(Thens(calls)) = Len(calls)
      /\ \A i \in 1..Len(calls) : Thens(calls)[i] = calls[i].then
  BY ThensOf
<1> DEFINE whole == Thens(calls)
           part == Thens(Tail(calls))
<1>3. /\ part \in Seq(Flying) /\ Len(part) = Len(calls) - 1
      /\ \A i \in 1..Len(calls) - 1 : part[i] = calls[i + 1].then
  <2>1. PICK rest \in Seq(ModemCall) : rest = Tail(calls)
    BY <1>1, Zenon
  <2>2. /\ Thens(rest) \in Seq(Flying) /\ Len(Thens(rest)) = Len(rest)
        /\ \A i \in 1..Len(rest) : Thens(rest)[i] = rest[i].then
    BY ThensOf
  <2>3. QED
    BY <1>1, <2>1, <2>2
<1> HIDE DEF whole, part
<1>4. /\ Tail(whole) \in Seq(Flying) /\ Len(Tail(whole)) = Len(calls) - 1
      /\ \A i \in 1..Len(calls) - 1 : Tail(whole)[i] = calls[i + 1].then
      /\ Head(whole) = calls[1].then /\ whole # <<>>
  BY <1>1, <1>2 DEF whole
<1>5. part = Tail(whole)
  <2>1. PICK t \in Seq(Flying) : t = Tail(whole)
    BY <1>4, Zenon
  <2>2. PICK n \in Nat : n = Len(calls) - 1
    <3>1. Len(calls) \in Nat \ {0}
      BY <1>1, Zenon
    <3>2. QED
      BY <3>1
  <2>3. /\ Len(part) = n /\ Len(t) = n /\ \A i \in 1..n : part[i] = t[i]
    BY <1>3, <1>4, <2>1, <2>2
  <2>4. part = t
    BY <1>3, <2>3
  <2>5. QED
    BY <2>1, <2>4
<1>6. QED
  BY <1>1, <1>4, <1>5 DEF whole, part

-----------------------------------------------------------------------------
(***************************************************************************)
(* What the handlers do to the session of the message they handle: which   *)
(* map it is in, which calls are made, and whether its client is answered. *)
(***************************************************************************)

\* The calls of a multiplexing function: one about the fix, or none.
Multiplexed(calls, s) ==
  \/ calls = <<>>
  \/ \E call \in ModemCall :
       /\ calls = <<call>> /\ AboutFix(call)
       /\ call.then.s = s /\ call.then.op \in {"started", "updated", "fixStopped"}

Erased(s) ==
  IF s \in TimeBased
  THEN TimeBased' = TimeBased \ {s} /\ mDistanceBased' = mDistanceBased
  ELSE TimeBased' = TimeBased /\ mDistanceBased' = mDistanceBased \ {s}

Nothing(s, op, calls) ==
  /\ calls = <<>> /\ TimeBased' = TimeBased /\ mDistanceBased' = mDistanceBased
  /\ \/ op \in {"update", "stop"} /\ s \notin TimeBased \cup mDistanceBased /\ Report(s)
     \/ op \in {"started", "updated", "fixStopped"} /\ Report(s)
     \/ op = "start" /\ Owner[s] \notin mClientData \cap Listeners /\ UNCHANGED owed
     \/ op = "ignored" /\ UNCHANGED owed

Failed(s, op, calls) ==
  /\ op \in ResponseOps \ {"thenStartTime", "ignored"} /\ ~Succeeded /\ calls = <<>>
  /\ IF op \in {"forget", "thenStartDistance"} THEN UNCHANGED owed ELSE Report(s)

TimeSaved(s, op, calls) ==
  /\ op \in {"start", "update", "thenStartTime"} /\ NewOptions \in TimeOptions
  /\ op = "start" => Owner[s] \in mClientData
  /\ op = "update" => s \in TimeBased \ mDistanceBased
  /\ TimeBased' = TimeBased \cup {s} /\ mDistanceBased' = mDistanceBased
  /\ Multiplexed(calls, s) /\ ReportIfNone(calls, s)

DistanceSaved(s, op, calls) ==
  /\ op = "start"
  /\ TimeBased' = TimeBased /\ mDistanceBased' = mDistanceBased \cup {s}
  /\ calls = <<Call("startDistance", s, Distance, "started")>> /\ UNCHANGED owed

TimeToDistance(s, op, calls) ==
  /\ op = "update" /\ s \in TimeBased
  /\ TimeBased' = TimeBased \ {s} /\ mDistanceBased' = mDistanceBased \cup {s}
  /\ calls = StopMultiplex(s) \o <<Call("startDistance", s, Distance, "ignored")>>
  /\ ReportIfNone(StopMultiplex(s), s)

DistanceToTime(s, op, calls) ==
  /\ op = "update" /\ s \in mDistanceBased /\ NewOptions \in TimeOptions
  /\ Erased(s)
  /\ calls = <<SwitchToTime(s, NewOptions)>> /\ UNCHANGED owed

DistanceAgain(s, op, calls) ==
  /\ op = "update" /\ s \in mDistanceBased \ TimeBased
  /\ TimeBased' = TimeBased /\ mDistanceBased' = mDistanceBased
  /\ calls = <<Call("stopDistance", s, None, "thenStartDistance")>> /\ UNCHANGED owed

TimeStopped(s, op, calls) ==
  /\ op = "stop" /\ s \in TimeBased
  /\ TimeBased' = TimeBased \ {s} /\ mDistanceBased' = mDistanceBased
  /\ calls = StopMultiplex(s) /\ ReportIfNone(calls, s)

DistanceStopping(s, op, calls) ==
  /\ op = "stop" /\ s \in mDistanceBased \ TimeBased
  /\ TimeBased' = TimeBased /\ mDistanceBased' = mDistanceBased
  /\ calls = <<Call("stopDistance", s, None, "stopped")>> /\ UNCHANGED owed

DistanceStopped(s, op, calls) ==
  /\ op \in {"stopped", "forget"} /\ Erased(s) /\ calls = <<>>
  /\ IF op = "forget" THEN UNCHANGED owed ELSE Report(s)

DistanceRestarting(s, op, calls) ==
  /\ op = "thenStartDistance"
  /\ TimeBased' = TimeBased /\ mDistanceBased' = mDistanceBased
  /\ calls = <<Call("startDistance", s, Distance, "restarted")>> /\ UNCHANGED owed

DistanceRestarted(s, op, calls) ==
  /\ op = "restarted"
  /\ TimeBased' = TimeBased /\ mDistanceBased' = mDistanceBased \cup {s}
  /\ calls = <<>> /\ Report(s)

Outcome(s, op, calls) ==
  \/ Nothing(s, op, calls) \/ Failed(s, op, calls) \/ TimeSaved(s, op, calls)
  \/ DistanceSaved(s, op, calls) \/ TimeToDistance(s, op, calls)
  \/ DistanceToTime(s, op, calls) \/ DistanceAgain(s, op, calls)
  \/ TimeStopped(s, op, calls) \/ DistanceStopping(s, op, calls)
  \/ DistanceStopped(s, op, calls) \/ DistanceRestarting(s, op, calls)
  \/ DistanceRestarted(s, op, calls)

\* A message about a session is handled with these calls.
Handling(s, op, calls) ==
  /\ s \in Sessions /\ s = Session /\ op \in CommandOps \cup ResponseOps /\ Receive(op)
  /\ calls \in Seq(ModemCall) /\ Ask(calls)
  /\ HandlerUnchanged
  /\ UNCHANGED <<capabilitiesKnown, mPendingMsgs, mClientData, disturbed>>
  /\ \A t \in Sessions \ {s} : /\ t \in TimeBased' <=> t \in TimeBased
                               /\ t \in mDistanceBased' <=> t \in mDistanceBased
  /\ Outcome(s, op, calls)

Handled == \E s, op, calls : Handling(s, op, calls)

HandleSession ==
  \/ HandleStart \/ HandleUpdate \/ HandleStop
  \/ HandleStarted \/ HandleUpdated \/ HandleFixStopped \/ HandleStopped
  \/ HandleForget \/ HandleThenStartTime \/ HandleThenStartDistance
  \/ HandleRestarted \/ HandleIgnored

LEMMA StartMultiplexed ==
  ASSUME mTimeBased \in TimeMap, NEW s \in Sessions, NEW o \in TimeOptions
  PROVE  Multiplexed(StartMultiplex(s, o), s)
<1> DEFINE calls == StartMultiplex(s, o)
<1>1. calls \in Seq(ModemCall)
  BY StartMultiplexServes
<1>2. CASE calls = <<>>
  BY <1>2 DEF Multiplexed
<1>3. CASE calls # <<>>
  <2>1. PICK p \in {o, Combined(o, TimeBased)} : calls = <<StartTime(s, p, "started", None)>>
    BY <1>3 DEF StartMultiplex
  <2> DEFINE call == StartTime(s, p, "started", None)
  <2>2. call \in ModemCall
    <3>1. calls[1] = call /\ Len(calls) = 1
      BY <2>1
    <3> HIDE DEF calls, call
    <3>2. QED
      BY <1>1, <3>1
  <2>3. AboutFix(call) /\ call.then.s = s /\ call.then.op = "started"
    BY DEF StartTime, AboutFix, Msg
  <2>4. QED
    BY <2>1, <2>2, <2>3 DEF Multiplexed
<1>4. QED
  BY <1>2, <1>3

LEMMA UpdateMultiplexed ==
  ASSUME mTimeBased \in TimeMap, NEW s \in TimeBased, NEW o \in TimeOptions
  PROVE  Multiplexed(UpdateMultiplex(s, o), s)
<1> DEFINE calls == UpdateMultiplex(s, o)
<1>1. calls \in Seq(ModemCall)
  BY UpdateMultiplexServes
<1>2. CASE calls = <<>>
  BY <1>2 DEF Multiplexed
<1>3. CASE calls # <<>>
  <2>1. PICK p \in {o, Combined(o, TimeBased \ {s})} :
          calls = <<StartTime(s, p, "updated", mTimeBased[s])>>
    BY <1>3 DEF UpdateMultiplex
  <2> DEFINE call == StartTime(s, p, "updated", mTimeBased[s])
  <2>2. call \in ModemCall
    <3>1. calls[1] = call /\ Len(calls) = 1
      BY <2>1
    <3> HIDE DEF calls, call
    <3>2. QED
      BY <1>1, <3>1
  <2>3. AboutFix(call) /\ call.then.s = s /\ call.then.op = "updated"
    BY DEF StartTime, AboutFix, Msg
  <2>4. QED
    BY <2>1, <2>2, <2>3 DEF Multiplexed
<1>4. QED
  BY <1>2, <1>3

\* The last session goes with stopFix().
LEMMA StopMultiplexed ==
  ASSUME mTimeBased \in TimeMap, NEW s \in TimeBased
  PROVE  /\ Multiplexed(StopMultiplex(s), s)
         /\ TimeBased \ {s} = {}
              => /\ StopMultiplex(s) = <<Call("stopFix", s, None, "fixStopped")>>
                 /\ Call("stopFix", s, None, "fixStopped") \in ModemCall
<1> DEFINE calls == StopMultiplex(s)
           stop == Call("stopFix", s, None, "fixStopped")
<1>1. calls \in Seq(ModemCall)
  BY StopMultiplexServes
<1>2. CASE calls = <<>>
  BY <1>2 DEF Multiplexed, StopMultiplex
<1>3. CASE calls # <<>>
  <2> DEFINE p == [SmallestOptions(TimeBased \ {s}) EXCEPT
                     !.powerMode = MultiplexedPower(TimeBased \ {s})]
  <2>1. PICK call \in {stop, StartTime(s, p, "started", None)} :
          calls = <<call>> /\ (TimeBased \ {s} = {} => call = stop)
    BY <1>3 DEF StopMultiplex
  <2>2. call \in ModemCall
    <3>1. calls[1] = call /\ Len(calls) = 1
      BY <2>1
    <3> HIDE DEF calls, stop, p
    <3>2. \A i \in 1..Len(calls) : calls[i] \in ModemCall
      BY <1>1
    <3>3. 1 \in 1..Len(calls)
      BY <3>1
    <3>4. QED
      BY <3>1, <3>2, <3>3
  <2>3. AboutFix(call) /\ call.then.s = s /\ call.then.op \in {"started", "fixStopped"}
    BY DEF StartTime, Call, AboutFix, Msg
  <2>4. QED
    BY <2>1, <2>2, <2>3 DEF Multiplexed
<1>4. QED
  BY <1>2, <1>3

LEMMA SetsSaved ==
  ASSUME TypeOK, NEW s \in Sessions, NEW o \in Options, Save(s, o)
  PROVE  /\ o = Distance => TimeBased' = TimeBased /\ mDistanceBased' = mDistanceBased \cup {s}
         /\ o # Distance => TimeBased' = TimeBased \cup {s} /\ mDistanceBased' = mDistanceBased
<1>1. o # Distance => o # None
  BY OptionsAssumption DEF Options
<1>2. QED
  BY <1>1 DEF Save, TimeBased, TypeOK

LEMMA SetsErased ==
  ASSUME TypeOK, NEW s \in Sessions, Erase(s)
  PROVE  Erased(s)
BY DEF Erase, Erased, TimeBased, TypeOK

LEMMA SetsSame ==
  ASSUME UNCHANGED maps
  PROVE  TimeBased' = TimeBased /\ mDistanceBased' = mDistanceBased
BY DEF maps, TimeBased

\* Whatever becomes of a session, the others are left alone.
LEMMA OthersSame ==
  ASSUME TypeOK, NEW s \in Sessions, NEW o, Save(s, o) \/ Erase(s) \/ UNCHANGED maps
  PROVE  \A t \in Sessions \ {s} : /\ t \in TimeBased' <=> t \in TimeBased
                                   /\ t \in mDistanceBased' <=> t \in mDistanceBased
BY DEF Save, Erase, maps, TimeBased, TypeOK

LEMMA OneCall ==
  ASSUME NEW call \in ModemCall
  PROVE  <<call>> \in Seq(ModemCall) /\ Len(<<call>>) = 1 /\ <<call>>[1] = call
OBVIOUS

\* The session and the options of a message of a client.
LEMMA SessionOf ==
  ASSUME TypeOK, NEW op \in CommandOps \cup ResponseOps, Receive(op)
  PROVE  /\ Session \in Sessions /\ mTimeBased \in TimeMap /\ toModem \in Seq(ModemCall)
         /\ op \in {"start", "update"} => NewOptions \in Options
         /\ op \in ResponseOps => NewOptions \in TimeOptions \cup {None}
         /\ op = "thenStartTime" => NewOptions \in TimeOptions
<1>1. Head(queue) \in Message /\ Head(queue).op = op
  BY Received
<1>2. mTimeBased \in TimeMap /\ toModem \in Seq(ModemCall)
  BY DEF TypeOK, TimeMap
<1>3. QED
  BY <1>1, <1>2, MessageFields DEF Session, NewOptions, CommandOps

\* No call is made.
LEMMA AskNothing ==
  ASSUME TypeOK, UNCHANGED toModem
  PROVE  Ask(<<>>) /\ <<>> \in Seq(ModemCall)
<1>1. toModem \in Seq(ModemCall)
  BY DEF TypeOK
<1>2. QED
  BY <1>1, NoMore DEF Ask

\* What is left to show of a handler.
LEMMA HandledBy ==
  ASSUME TypeOK, NEW op \in CommandOps \cup ResponseOps, Receive(op), HandlerUnchanged,
         UNCHANGED <<capabilitiesKnown, mPendingMsgs, mClientData, disturbed>>,
         NEW calls \in Seq(ModemCall), Ask(calls), Outcome(Session, op, calls),
         \A t \in Sessions \ {Session} : /\ t \in TimeBased' <=> t \in TimeBased
                                         /\ t \in mDistanceBased' <=> t \in mDistanceBased
  PROVE  Handled
<1>1. Session \in Sessions
  BY SessionOf
<1>2. Handling(Session, op, calls)
  BY <1>1 DEF Handling
<1>3. QED
  BY <1>2 DEF Handled

\* What is left to show of a response after which no call is made.
LEMMA ResponseHandled ==
  ASSUME TypeOK, NEW op \in ResponseOps, Receive(op), ResponseUnchanged, UNCHANGED toModem,
         NEW o, Save(Session, o) \/ Erase(Session) \/ UNCHANGED maps,
         Outcome(Session, op, <<>>)
  PROVE  Handled
<1>1. Session \in Sessions
  BY SessionOf
<1>2. Ask(<<>>) /\ <<>> \in Seq(ModemCall)
  BY AskNothing
<1>3. \A t \in Sessions \ {Session} : /\ t \in TimeBased' <=> t \in TimeBased
                                      /\ t \in mDistanceBased' <=> t \in mDistanceBased
  BY <1>1, OthersSame
<1>4. QED
  BY <1>2, <1>3, HandledBy DEF ResponseUnchanged

LEMMA HandleStartHandled ==
  ASSUME TypeOK, HandleStart
  PROVE  Handled
<1>1. /\ Receive("start") /\ "start" \in CommandOps /\ HandlerUnchanged
      /\ UNCHANGED <<capabilitiesKnown, mPendingMsgs, mClientData, disturbed>>
  BY DEF HandleStart, CommandOps
<1>2. Session \in Sessions /\ NewOptions \in Options /\ mTimeBased \in TimeMap
  BY <1>1, SessionOf
<1>3. CASE Owner[Session] \notin mClientData \cap Listeners
  <2>1. UNCHANGED maps /\ UNCHANGED <<toModem, owed>>
    BY <1>3 DEF HandleStart
  <2>2. Outcome(Session, "start", <<>>)
    BY <1>3, <2>1, SetsSame DEF Outcome, Nothing
  <2>3. QED
    BY <1>1, <1>2, <2>1, <2>2, OthersSame, AskNothing, HandledBy
<1>4. CASE Owner[Session] \in mClientData \cap Listeners /\ NewOptions = Distance
  <2> DEFINE call == Call("startDistance", Session, Distance, "started")
             calls == <<call>>
  <2>1. Save(Session, Distance) /\ Ask(calls) /\ UNCHANGED owed
    BY <1>4 DEF HandleStart
  <2>2. calls \in Seq(ModemCall)
    <3>1. call \in ModemCall
      BY <1>2, CallTypes DEF Reports, ResponseOps
    <3> HIDE DEF call
    <3>2. QED
      BY <3>1, OneCall
  <2>3. Outcome(Session, "start", calls)
    BY <1>2, <1>4, <2>1, SetsSaved DEF Outcome, DistanceSaved
  <2> HIDE DEF calls
  <2>4. QED
    BY <1>1, <1>2, <2>1, <2>2, <2>3, OthersSame, HandledBy
<1>5. CASE Owner[Session] \in mClientData \cap Listeners /\ NewOptions # Distance
  <2> DEFINE calls == StartMultiplex(Session, NewOptions)
  <2>1. Save(Session, NewOptions) /\ Ask(calls) /\ ReportIfNone(calls, Session)
    BY <1>5 DEF HandleStart
  <2>2. NewOptions \in TimeOptions
    BY <1>2, <1>5 DEF Options
  <2>3. calls \in Seq(ModemCall) /\ Multiplexed(calls, Session)
    BY <1>2, <2>2, StartMultiplexServes, StartMultiplexed
  <2> HIDE DEF calls
  <2>4. Outcome(Session, "start", calls)
    BY <1>2, <1>5, <2>1, <2>2, <2>3, SetsSaved DEF Outcome, TimeSaved
  <2>5. QED
    BY <1>1, <1>2, <2>1, <2>3, <2>4, OthersSame, HandledBy
<1>6. QED
  BY <1>3, <1>4, <1>5

LEMMA HandleUpdateHandled ==
  ASSUME TypeOK, HandleUpdate
  PROVE  Handled
<1>1. /\ Receive("update") /\ "update" \in CommandOps /\ HandlerUnchanged
      /\ UNCHANGED <<capabilitiesKnown, mPendingMsgs, mClientData, disturbed>>
  BY DEF HandleUpdate, CommandOps
<1>2. Session \in Sessions /\ NewOptions \in Options /\ mTimeBased \in TimeMap
  BY <1>1, SessionOf
<1>3. PICK s \in Sessions, o \in Options : s = Session /\ o = NewOptions
  BY <1>2
<1>4. CASE /\ s \notin TimeBased \cup mDistanceBased
           /\ Report(s)
           /\ UNCHANGED <<maps, toModem>>
  <2>1. UNCHANGED maps /\ UNCHANGED toModem
    BY <1>4
  <2>2. Outcome(Session, "update", <<>>)
    BY <1>3, <1>4, <2>1, SetsSame DEF Outcome, Nothing
  <2>3. QED
    BY <1>1, <1>2, <2>1, <2>2, OthersSame, AskNothing, HandledBy
<1>5. CASE /\ s \in TimeBased /\ o = Distance
           /\ Ask(StopMultiplex(s) \o <<Call("startDistance", s, Distance, "ignored")>>)
           /\ ReportIfNone(StopMultiplex(s), s)
           /\ mTimeBased' = [mTimeBased EXCEPT ![s] = None]
           /\ mDistanceBased' = mDistanceBased \cup {s}
  <2> DEFINE call == Call("startDistance", s, Distance, "ignored")
             calls == StopMultiplex(s) \o <<call>>
  <2>1. calls \in Seq(ModemCall)
    <3>1. call \in ModemCall
      BY CallTypes DEF Reports, ResponseOps
    <3>2. StopMultiplex(s) \in Seq(ModemCall)
      BY <1>2, <1>5, StopMultiplexServes
    <3> HIDE DEF call
    <3>3. QED
      BY <3>1, <3>2, OneCall
  <2>2. /\ TimeBased' = TimeBased \ {s}
        /\ \A t \in Sessions \ {s} : /\ t \in TimeBased' <=> t \in TimeBased
                                     /\ t \in mDistanceBased' <=> t \in mDistanceBased
    BY <1>2, <1>5 DEF TimeBased, TimeMap
  <2>3. Outcome(Session, "update", calls)
    BY <1>3, <1>5, <2>2 DEF Outcome, TimeToDistance
  <2>4. Ask(calls)
    BY <1>5
  <2> HIDE DEF calls
  <2>5. QED
    BY <1>1, <1>3, <2>1, <2>2, <2>3, <2>4, HandledBy
<1>6. CASE /\ s \in mDistanceBased /\ o # Distance
           /\ Erase(s)
           /\ Ask(<<SwitchToTime(s, o)>>)
           /\ UNCHANGED owed
  <2> DEFINE calls == <<SwitchToTime(s, o)>>
  <2>1. o \in TimeOptions
    BY <1>6 DEF Options
  <2>2. calls \in Seq(ModemCall)
    BY <2>1, SwitchType, OneCall
  <2>3. Outcome(Session, "update", calls)
    BY <1>1, <1>3, <1>6, <2>1, SetsErased DEF Outcome, DistanceToTime
  <2>4. Ask(calls) /\ Erase(s)
    BY <1>6
  <2> HIDE DEF calls
  <2>5. QED
    BY <1>1, <1>3, <2>2, <2>3, <2>4, OthersSame, HandledBy
<1>7. CASE /\ s \in TimeBased /\ s \notin mDistanceBased /\ o # Distance
           /\ Ask(UpdateMultiplex(s, o))
           /\ ReportIfNone(UpdateMultiplex(s, o), s)
           /\ Save(s, o)
  <2> DEFINE calls == UpdateMultiplex(s, o)
  <2>1. o \in TimeOptions
    BY <1>7 DEF Options
  <2>2. calls \in Seq(ModemCall) /\ Multiplexed(calls, s)
    BY <1>2, <1>7, <2>1, UpdateMultiplexServes, UpdateMultiplexed
  <2>3. Ask(calls) /\ Save(s, o) /\ ReportIfNone(calls, s)
    BY <1>7
  <2> HIDE DEF calls
  <2>4. Outcome(Session, "update", calls)
    BY <1>3, <1>7, <2>1, <2>2, <2>3, SetsSaved DEF Outcome, TimeSaved
  <2>5. QED
    BY <1>1, <1>3, <2>2, <2>3, <2>4, OthersSame, HandledBy
<1>8. CASE /\ s \in mDistanceBased \ TimeBased /\ o = Distance
           /\ Ask(<<Call("stopDistance", s, None, "thenStartDistance")>>)
           /\ UNCHANGED <<maps, owed>>
  <2> DEFINE call == Call("stopDistance", s, None, "thenStartDistance")
             calls == <<call>>
  <2>1. calls \in Seq(ModemCall)
    <3>1. call \in ModemCall
      BY CallTypes DEF Reports, ResponseOps
    <3> HIDE DEF call
    <3>2. QED
      BY <3>1, OneCall
  <2>2. UNCHANGED maps /\ UNCHANGED owed /\ Ask(calls)
    BY <1>8
  <2>3. Outcome(Session, "update", calls)
    BY <1>3, <1>8, <2>2, SetsSame DEF Outcome, DistanceAgain
  <2> HIDE DEF calls
  <2>4. QED
    BY <1>1, <1>3, <2>1, <2>2, <2>3, OthersSame, HandledBy
<1>9. QED
  BY <1>3, <1>4, <1>5, <1>6, <1>7, <1>8 DEF HandleUpdate

LEMMA HandleStopHandled ==
  ASSUME TypeOK, HandleStop
  PROVE  Handled
<1>1. /\ Receive("stop") /\ "stop" \in CommandOps /\ HandlerUnchanged
      /\ UNCHANGED <<capabilitiesKnown, mPendingMsgs, mClientData, disturbed>>
  BY DEF HandleStop, CommandOps
<1>2. Session \in Sessions /\ mTimeBased \in TimeMap
  BY <1>1, SessionOf
<1>3. PICK s \in Sessions : s = Session
  BY <1>2
<1>4. CASE /\ s \notin TimeBased \cup mDistanceBased
           /\ Report(s)
           /\ UNCHANGED <<maps, toModem>>
  <2>1. UNCHANGED maps /\ UNCHANGED toModem
    BY <1>4
  <2>2. Outcome(Session, "stop", <<>>)
    BY <1>3, <1>4, <2>1, SetsSame DEF Outcome, Nothing
  <2>3. QED
    BY <1>1, <1>2, <2>1, <2>2, OthersSame, AskNothing, HandledBy
<1>5. CASE /\ s \in TimeBased
           /\ Ask(StopMultiplex(s))
           /\ ReportIfNone(StopMultiplex(s), s)
           /\ Erase(s)
  <2> DEFINE calls == StopMultiplex(s)
  <2>1. calls \in Seq(ModemCall)
    BY <1>2, <1>5, StopMultiplexServes
  <2>2. TimeBased' = TimeBased \ {s} /\ mDistanceBased' = mDistanceBased
    BY <1>1, <1>5, SetsErased DEF Erased
  <2>3. Outcome(Session, "stop", calls)
    BY <1>3, <1>5, <2>2 DEF Outcome, TimeStopped
  <2>4. Ask(calls) /\ Erase(s)
    BY <1>5
  <2> HIDE DEF calls
  <2>5. QED
    BY <1>1, <1>3, <2>1, <2>3, <2>4, OthersSame, HandledBy
<1>6. CASE /\ s \in mDistanceBased \ TimeBased
           /\ Ask(<<Call("stopDistance", s, None, "stopped")>>)
           /\ UNCHANGED <<maps, owed>>
  <2> DEFINE call == Call("stopDistance", s, None, "stopped")
             calls == <<call>>
  <2>1. calls \in Seq(ModemCall)
    <3>1. call \in ModemCall
      BY CallTypes DEF Reports, ResponseOps
    <3> HIDE DEF call
    <3>2. QED
      BY <3>1, OneCall
  <2>2. UNCHANGED maps /\ UNCHANGED owed /\ Ask(calls)
    BY <1>6
  <2>3. Outcome(Session, "stop", calls)
    BY <1>3, <1>6, <2>2, SetsSame DEF Outcome, DistanceStopping
  <2> HIDE DEF calls
  <2>4. QED
    BY <1>1, <1>3, <2>1, <2>2, <2>3, OthersSame, HandledBy
<1>7. QED
  BY <1>3, <1>4, <1>5, <1>6 DEF HandleStop

LEMMA HandleResponsesHandled ==
  ASSUME TypeOK,
         \/ HandleStarted \/ HandleUpdated \/ HandleFixStopped \/ HandleStopped
         \/ HandleForget \/ HandleRestarted \/ HandleIgnored
  PROVE  Handled
<1>1. CASE HandleStarted
  <2>1. /\ Receive("started") /\ "started" \in ResponseOps /\ ResponseUnchanged
        /\ UNCHANGED toModem /\ Report(Session)
    BY <1>1 DEF HandleStarted, ResponseOps
  <2>2. CASE Succeeded
    <3>1. UNCHANGED maps
      BY <1>1, <2>2 DEF HandleStarted
    <3>2. Outcome(Session, "started", <<>>)
      BY <2>1, <3>1, SetsSame DEF Outcome, Nothing
    <3>3. QED
      BY <2>1, <3>1, <3>2, ResponseHandled
  <2>3. CASE ~Succeeded
    <3>1. Erase(Session)
      BY <1>1, <2>3 DEF HandleStarted
    <3>2. Outcome(Session, "started", <<>>)
      BY <2>1, <2>3 DEF Outcome, Failed
    <3>3. QED
      BY <2>1, <3>1, <3>2, ResponseHandled
  <2>4. QED
    BY <2>2, <2>3
<1>2. CASE HandleUpdated
  <2>1. /\ Receive("updated") /\ "updated" \in ResponseOps /\ ResponseUnchanged
        /\ UNCHANGED toModem /\ Report(Session)
    BY <1>2 DEF HandleUpdated, ResponseOps
  <2>2. CASE Succeeded
    <3>1. UNCHANGED maps
      BY <1>2, <2>2 DEF HandleUpdated
    <3>2. Outcome(Session, "updated", <<>>)
      BY <2>1, <3>1, SetsSame DEF Outcome, Nothing
    <3>3. QED
      BY <2>1, <3>1, <3>2, ResponseHandled
  <2>3. CASE ~Succeeded
    <3>1. Save(Session, NewOptions)
      BY <1>2, <2>3 DEF HandleUpdated
    <3>2. Outcome(Session, "updated", <<>>)
      BY <2>1, <2>3 DEF Outcome, Failed
    <3>3. QED
      BY <2>1, <3>1, <3>2, ResponseHandled
  <2>4. QED
    BY <2>2, <2>3
<1>3. CASE HandleFixStopped
  <2>1. /\ Receive("fixStopped") /\ "fixStopped" \in ResponseOps /\ ResponseUnchanged
        /\ UNCHANGED toModem /\ UNCHANGED maps /\ Report(Session)
    BY <1>3 DEF HandleFixStopped, ResponseOps
  <2>2. Outcome(Session, "fixStopped", <<>>)
    BY <2>1, SetsSame DEF Outcome, Nothing
  <2>3. QED
    BY <2>1, <2>2, ResponseHandled
<1>4. CASE HandleStopped
  <2>1. /\ Receive("stopped") /\ "stopped" \in ResponseOps /\ ResponseUnchanged
        /\ UNCHANGED toModem /\ Report(Session)
        /\ IF Succeeded THEN Erase(Session) ELSE UNCHANGED maps
    BY <1>4 DEF HandleStopped, ResponseOps
  <2>2. Session \in Sessions
    BY <2>1, SessionOf
  <2>3. Outcome(Session, "stopped", <<>>)
    BY <2>1, <2>2, SetsErased DEF Outcome, DistanceStopped, Failed
  <2>4. QED
    BY <2>1, <2>3, ResponseHandled
<1>5. CASE HandleForget
  <2>1. /\ Receive("forget") /\ "forget" \in ResponseOps /\ ResponseUnchanged
        /\ UNCHANGED toModem /\ UNCHANGED owed
        /\ IF Succeeded THEN Erase(Session) ELSE UNCHANGED maps
    BY <1>5 DEF HandleForget, ResponseOps
  <2>2. Session \in Sessions
    BY <2>1, SessionOf
  <2>3. Outcome(Session, "forget", <<>>)
    BY <2>1, <2>2, SetsErased DEF Outcome, DistanceStopped, Failed
  <2>4. QED
    BY <2>1, <2>3, ResponseHandled
<1>6. CASE HandleRestarted
  <2>1. /\ Receive("restarted") /\ "restarted" \in ResponseOps /\ ResponseUnchanged
        /\ UNCHANGED toModem /\ Report(Session)
        /\ IF Succeeded THEN Save(Session, Distance) ELSE UNCHANGED maps
    BY <1>6 DEF HandleRestarted, ResponseOps
  <2>2. Session \in Sessions /\ Distance \in Options
    BY <2>1, SessionOf DEF Options
  <2>3. Outcome(Session, "restarted", <<>>)
    <3>1. CASE Succeeded
      BY <2>1, <2>2, <3>1, SetsSaved DEF Outcome, DistanceRestarted
    <3>2. CASE ~Succeeded
      BY <2>1, <3>2 DEF Outcome, Failed
    <3>3. QED
      BY <3>1, <3>2
  <2>4. QED
    BY <2>1, <2>3, ResponseHandled
<1>7. CASE HandleIgnored
  <2>1. /\ Receive("ignored") /\ "ignored" \in ResponseOps /\ ResponseUnchanged
        /\ UNCHANGED toModem /\ UNCHANGED maps /\ UNCHANGED owed
    BY <1>7 DEF HandleIgnored, ResponseOps
  <2>2. Outcome(Session, "ignored", <<>>)
    BY <2>1, SetsSame DEF Outcome, Nothing
  <2>3. QED
    BY <2>1, <2>2, ResponseHandled
<1>8. QED
  BY <1>1, <1>2, <1>3, <1>4, <1>5, <1>6, <1>7

LEMMA HandleThensHandled ==
  ASSUME TypeOK, HandleThenStartTime \/ HandleThenStartDistance
  PROVE  Handled
<1>1. CASE HandleThenStartTime
  <2> DEFINE calls == StartMultiplex(Session, NewOptions)
  <2>1. /\ Receive("thenStartTime") /\ "thenStartTime" \in ResponseOps
        /\ HandlerUnchanged
        /\ UNCHANGED <<capabilitiesKnown, mPendingMsgs, mClientData, disturbed>>
        /\ Ask(calls) /\ ReportIfNone(calls, Session) /\ Save(Session, NewOptions)
    BY <1>1 DEF HandleThenStartTime, ResponseOps, ResponseUnchanged
  <2>2. Session \in Sessions /\ NewOptions \in TimeOptions /\ mTimeBased \in TimeMap
    BY <2>1, SessionOf
  <2>3. calls \in Seq(ModemCall) /\ Multiplexed(calls, Session)
    BY <2>2, StartMultiplexServes, StartMultiplexed
  <2> HIDE DEF calls
  <2>4. NewOptions \in Options /\ NewOptions # Distance
    BY <2>2, OptionsAssumption DEF Options
  <2>5. Outcome(Session, "thenStartTime", calls)
    BY <2>1, <2>2, <2>3, <2>4, SetsSaved DEF Outcome, TimeSaved
  <2>6. QED
    BY <2>1, <2>2, <2>3, <2>5, OthersSame, HandledBy
<1>2. CASE HandleThenStartDistance
  <2>1. /\ Receive("thenStartDistance") /\ "thenStartDistance" \in ResponseOps
        /\ ResponseUnchanged /\ UNCHANGED maps /\ UNCHANGED owed
    BY <1>2 DEF HandleThenStartDistance, ResponseOps
  <2>2. Session \in Sessions
    BY <2>1, SessionOf
  <2>3. CASE Succeeded
    <3> DEFINE call == Call("startDistance", Session, Distance, "restarted")
               calls == <<call>>
    <3>1. calls \in Seq(ModemCall)
      <4>1. call \in ModemCall
        BY <2>2, CallTypes DEF Reports, ResponseOps
      <4> HIDE DEF call
      <4>2. QED
        BY <4>1, OneCall
    <3>2. Ask(calls)
      BY <1>2, <2>3 DEF HandleThenStartDistance
    <3>3. Outcome(Session, "thenStartDistance", calls)
      BY <2>1, SetsSame DEF Outcome, DistanceRestarting
    <3> HIDE DEF calls
    <3>4. QED
      BY <2>1, <2>2, <3>1, <3>2, <3>3, OthersSame, HandledBy DEF ResponseUnchanged
  <2>4. CASE ~Succeeded
    <3>1. toModem' = toModem \o <<>> /\ toModem \in Seq(ModemCall)
      BY <1>2, <2>4 DEF HandleThenStartDistance, Ask, TypeOK
    <3>2. UNCHANGED toModem
      BY <3>1, NoMore
    <3>3. Outcome(Session, "thenStartDistance", <<>>)
      BY <2>1, <2>4 DEF Outcome, Failed
    <3>4. QED
      BY <2>1, <3>2, <3>3, ResponseHandled
  <2>5. QED
    BY <2>3, <2>4
<1>3. QED
  BY <1>1, <1>2

LEMMA SessionHandled ==
  ASSUME TypeOK, HandleSession
  PROVE  Handled
BY HandleStartHandled, HandleUpdateHandled, HandleStopHandled, HandleResponsesHandled,
   HandleThensHandled DEF HandleSession

-----------------------------------------------------------------------------
(***************************************************************************)
(* Every command is answered once.  A handler answers the message it       *)
(* handles, or makes one call whose response will.                         *)
(***************************************************************************)
Count(s) == Num(queue, s) + Num(mPendingMsgs, s) + Num(Thens(toModem), s)

\* Without these, the code leaves clients without an answer: a start of a client
\* without callback, and an update of which the modem refuses the first half.
AllAnswered == (\A s \in Sessions : Owner[s] \in Listeners) /\ "stopRefused" \notin Faults

Counted ==
  \A s \in Sessions :
    /\ Owner[s] \in mClientData => /\ Count(s) <= owed[s]
                                   /\ AllAnswered => Count(s) = owed[s]
    /\ ~disturbed /\ s \notin hasty => Count(s) <= 1

SwitchesSucceed ==
  "stopRefused" \notin Faults =>
    \A i \in 1..Len(queue) : queue[i].op = "thenStartDistance" => queue[i].ok = TRUE

\* The calls that updates and stops of distance-based sessions make.
CallShapes(calls) ==
  \A i \in 1..Len(calls) :
    /\ calls[i].then.op = "restarted" => calls[i].call = "startDistance"
    /\ calls[i].then.op = "thenStartDistance" => calls[i].call = "stopDistance"
    /\ calls[i].call = "stopDistance" =>
         calls[i].then.op \in {"thenStartTime", "thenStartDistance", "stopped", "forget"}

AnswerInv == Inv /\ Counted /\ SwitchesSucceed /\ CallShapes(toModem)

LEMMA NumOfCalls ==
  ASSUME NEW s
  PROVE  /\ Num(Thens(<<>>), s) = 0
         /\ \A call \in ModemCall : Num(Thens(<<call>>), s) = IF Reporting(call.then, s) THEN 1 ELSE 0
         /\ \A a, b \in Seq(ModemCall) : /\ a \o b \in Seq(ModemCall)
                                         /\ Num(Thens(a \o b), s) = Num(Thens(a), s) + Num(Thens(b), s)
         /\ \A a \in Seq(ModemCall) : Num(Thens(a), s) \in Nat
<1>1. Num(Thens(<<>>), s) = 0
  <2>1. PICK none \in Seq(ModemCall) : none = <<>> /\ Len(none) = 0
    <3>1. <<>> \in Seq(ModemCall) /\ Len(<<>>) = 0
      OBVIOUS
    <3>2. QED
      BY <3>1, Zenon
  <2>2. Thens(none) \in Seq(Flying) /\ Len(Thens(none)) = 0
    BY <2>1, ThensOf
  <2>3. \A i \in 1..Len(Thens(none)) : ~Reporting(Thens(none)[i], s)
    BY <2>2
  <2>4. Num(Thens(none), s) = 0
    BY <2>2, <2>3, NumType
  <2>5. QED
    BY <2>1, <2>4
<1>2. ASSUME NEW call \in ModemCall
      PROVE  Num(Thens(<<call>>), s) = IF Reporting(call.then, s) THEN 1 ELSE 0
  <2>1. PICK calls \in Seq(ModemCall) : calls = <<call>> /\ Len(calls) = 1 /\ calls[1] = call
    <3>1. <<call>> \in Seq(ModemCall) /\ Len(<<call>>) = 1 /\ <<call>>[1] = call
      BY OneCall
    <3>2. QED
      BY <3>1, Zenon
  <2>2. PICK m \in Flying : m = call.then
    BY DEF ModemCall, Flying
  <2>3. Thens(calls) \in Seq(Flying) /\ Len(Thens(calls)) = 1 /\ Thens(calls)[1] = m
    <3>1. 1 \in 1..Len(calls) /\ calls[1].then = m
      BY <2>1, <2>2
    <3>2. Thens(calls) \in Seq(Flying) /\ Len(Thens(calls)) = Len(calls)
          /\ \A i \in 1..Len(calls) : Thens(calls)[i] = calls[i].then
      BY ThensOf
    <3>3. QED
      BY <2>1, <3>1, <3>2
  <2>4. Thens(calls) = <<m>>
    BY <2>3
  <2>5. QED
    BY <2>1, <2>2, <2>4, NumOne
<1>3. ASSUME NEW a \in Seq(ModemCall), NEW b \in Seq(ModemCall)
      PROVE  /\ a \o b \in Seq(ModemCall)
             /\ Num(Thens(a \o b), s) = Num(Thens(a), s) + Num(Thens(b), s)
  <2>1. a \o b \in Seq(ModemCall)
    OBVIOUS
  <2>2. Thens(a) \in Seq(Flying) /\ Thens(b) \in Seq(Flying)
    BY ThensOf
  <2>3. Num(Thens(a) \o Thens(b), s) = Num(Thens(a), s) + Num(Thens(b), s)
    BY <2>2, NumConcat
  <2>4. QED
    BY <2>1, <2>3, ThensConcat
<1>4. \A a \in Seq(ModemCall) : Num(Thens(a), s) \in Nat
  BY ThensOf, NumType
<1>5. QED
  BY <1>1, <1>2, <1>3, <1>4

LEMMA TypesOfFlying ==
  ASSUME TypeOK
  PROVE  /\ queue \in Seq(Flying) /\ mPendingMsgs \in Seq(Flying) /\ toModem \in Seq(ModemCall)
         /\ mPendingMsgs \in Seq(Message)
         /\ \A s : Num(queue, s) \in Nat /\ Num(mPendingMsgs, s) \in Nat
                   /\ Num(Thens(toModem), s) \in Nat /\ Count(s) \in Nat
<1>1. Message \subseteq Flying /\ Command \subseteq Message
  BY DEF Flying, Message
<1>2. /\ queue \in Seq(Flying) /\ mPendingMsgs \in Seq(Flying) /\ toModem \in Seq(ModemCall)
      /\ mPendingMsgs \in Seq(Message)
  BY <1>1 DEF TypeOK
<1>3. ASSUME NEW s
      PROVE  Num(queue, s) \in Nat /\ Num(mPendingMsgs, s) \in Nat /\ Num(Thens(toModem), s) \in Nat
  BY <1>2, NumType, NumOfCalls
<1>4. QED
  BY <1>2, <1>3 DEF Count

\* A step that takes the first message of the queue and makes calls.
LEMMA CountHandled ==
  ASSUME TypeOK, NEW op, Receive(op), NEW calls \in Seq(ModemCall), Ask(calls),
         UNCHANGED mPendingMsgs, NEW s
  PROVE  /\ Count(s)' = Count(s) + Num(Thens(calls), s)
                          - (IF Reporting(Head(queue), s) THEN 1 ELSE 0)
         /\ Count(s) \in Nat /\ Num(Thens(calls), s) \in Nat
<1>1. /\ queue \in Seq(Flying) /\ toModem \in Seq(ModemCall)
      /\ Num(queue, s) \in Nat /\ Num(mPendingMsgs, s) \in Nat /\ Num(Thens(toModem), s) \in Nat
      /\ Count(s) \in Nat
  BY TypesOfFlying
<1>2. queue # <<>> /\ queue' = Tail(queue) /\ toModem' = toModem \o calls
  BY DEF Receive, Ask
<1>3. /\ Head(queue) \in Flying /\ Tail(queue) \in Seq(Flying)
      /\ Num(queue, s) = Num(<<Head(queue)>>, s) + Num(Tail(queue), s)
      /\ Num(<<Head(queue)>>, s) = IF Reporting(Head(queue), s) THEN 1 ELSE 0
  BY <1>1, <1>2, NumTail, NumOne
<1>4. Num(Thens(toModem \o calls), s) = Num(Thens(toModem), s) + Num(Thens(calls), s)
  BY <1>1, NumOfCalls
<1>5. Num(Tail(queue), s) \in Nat /\ Num(Thens(calls), s) \in Nat
  BY <1>3, NumType, NumOfCalls
<1>6. Count(s)' = Num(Tail(queue), s) + Num(mPendingMsgs, s) + Num(Thens(toModem \o calls), s)
  BY <1>2 DEF Count
<1>7. PICK h, t, p, m, c \in Nat :
        /\ h = Num(<<Head(queue)>>, s) /\ t = Num(Tail(queue), s) /\ p = Num(mPendingMsgs, s)
        /\ m = Num(Thens(toModem), s) /\ c = Num(Thens(calls), s)
  <2>1. Num(<<Head(queue)>>, s) \in Nat
    BY <1>3
  <2>2. QED
    BY <1>1, <1>5, <2>1
<1>8. Count(s) = (h + t) + p + m /\ Count(s)' = t + p + (m + c)
  BY <1>3, <1>4, <1>6, <1>7 DEF Count
<1>9. Count(s)' = Count(s) + c - h
  BY <1>8
<1>10. QED
  BY <1>1, <1>3, <1>5, <1>7, <1>9

\* The calls of each outcome, and what becomes of the answer.
AnsweredBy(s, op, calls) ==
  /\ \A t \in Sessions \ {s} : Num(Thens(calls), t) = 0 /\ owed'[t] = owed[t]
  /\ \/ /\ Num(Thens(calls), s) = IF op \in {"forget", "ignored"} THEN 0 ELSE 1
        /\ owed' = owed
     \/ /\ op \notin {"forget", "ignored"}
        /\ Num(Thens(calls), s) = 0
        /\ Owner[s] \in mClientData => owed'[s] = owed[s] - 1
     \/ /\ op \notin {"forget", "ignored"} /\ Num(Thens(calls), s) = 0
        /\ owed' = owed
        /\ \/ op = "start" /\ Owner[s] \notin mClientData \cap Listeners
           \/ op = "thenStartDistance" /\ ~Succeeded

LEMMA NoCallAnswers ==
  ASSUME TypeOK, NEW s \in Sessions, NEW op, op \notin {"forget", "ignored"}, Report(s)
  PROVE  AnsweredBy(s, op, <<>>)
<1>1. \A t : Num(Thens(<<>>), t) = 0
  BY NumOfCalls
<1>2. owed \in [Sessions -> Int]
  BY DEF TypeOK
<1>3. QED
  BY <1>1, <1>2 DEF Report, AnsweredBy

LEMMA OneCallAnswers ==
  ASSUME TypeOK, NEW s \in Sessions, NEW op, op \notin {"forget", "ignored"}, NEW call \in ModemCall,
         call.then.s = s, call.then.op \in ResponseOps \ {"forget", "ignored"}, UNCHANGED owed
  PROVE  AnsweredBy(s, op, <<call>>)
<1>1. \A t : Reporting(call.then, t) <=> t = s
  BY DEF Reporting
<1>2. \A t : Num(Thens(<<call>>), t) = IF t = s THEN 1 ELSE 0
  BY <1>1, NumOfCalls
<1>3. QED
  BY <1>2 DEF AnsweredBy

LEMMA MultiplexAnswers ==
  ASSUME TypeOK, NEW s \in Sessions, NEW op, op \notin {"forget", "ignored"}, NEW calls,
         Multiplexed(calls, s), ReportIfNone(calls, s)
  PROVE  AnsweredBy(s, op, calls)
<1>1. CASE calls = <<>>
  BY <1>1, NoCallAnswers DEF ReportIfNone
<1>2. CASE calls # <<>>
  <2>1. PICK call \in ModemCall :
          /\ calls = <<call>>
          /\ call.then.s = s /\ call.then.op \in {"started", "updated", "fixStopped"}
    BY <1>2 DEF Multiplexed
  <2>2. UNCHANGED owed
    BY <1>2 DEF ReportIfNone
  <2>3. QED
    BY <2>1, <2>2, OneCallAnswers DEF ResponseOps
<1>3. QED
  BY <1>1, <1>2

LEMMA OutcomeAnswers ==
  ASSUME TypeOK, NEW s, NEW op, NEW calls, Handling(s, op, calls)
  PROVE  AnsweredBy(s, op, calls)
<1>1. /\ s \in Sessions /\ mTimeBased \in TimeMap
      /\ op \in {"start", "update"} => NewOptions \in Options
  BY SessionOf DEF Handling
<1>2. CASE Nothing(s, op, calls)
  <2>1. \A t : Num(Thens(<<>>), t) = 0
    BY NumOfCalls
  <2>2. CASE op \in {"update", "stop", "started", "updated", "fixStopped"}
    <3>1. Report(s) /\ calls = <<>> /\ op \notin {"forget", "ignored"}
      BY <1>2, <2>2 DEF Nothing
    <3>2. QED
      BY <1>1, <3>1, NoCallAnswers
  <2>3. CASE op \in {"start", "ignored"}
    <3>1. /\ UNCHANGED owed /\ calls = <<>>
          /\ op = "start" => Owner[s] \notin mClientData \cap Listeners
      BY <1>2, <2>3 DEF Nothing
    <3>2. QED
      BY <2>1, <2>3, <3>1 DEF AnsweredBy
  <2>4. QED
    BY <1>2, <2>2, <2>3 DEF Nothing
<1>3. CASE Failed(s, op, calls)
  <2>1. \A t : Num(Thens(<<>>), t) = 0
    BY NumOfCalls
  <2>2. CASE Report(s) /\ op # "forget"
    BY <1>1, <1>3, <2>2, NoCallAnswers DEF Failed
  <2>3. CASE UNCHANGED owed /\ op \in {"forget", "thenStartDistance"}
    BY <1>3, <2>1, <2>3 DEF Failed, AnsweredBy
  <2>4. QED
    BY <1>3, <2>2, <2>3 DEF Failed
<1>4. CASE TimeSaved(s, op, calls)
  BY <1>1, <1>4, MultiplexAnswers DEF TimeSaved
<1>5. CASE DistanceSaved(s, op, calls)
  <2> DEFINE call == Call("startDistance", s, Distance, "started")
  <2>1. call \in ModemCall /\ call.then.s = s /\ call.then.op = "started"
    BY <1>1, CallTypes DEF Reports, ResponseOps, Call, Msg
  <2> HIDE DEF call
  <2>2. QED
    BY <1>1, <1>5, <2>1, OneCallAnswers DEF DistanceSaved, ResponseOps, call
<1>6. CASE TimeToDistance(s, op, calls)
  <2> DEFINE call == Call("startDistance", s, Distance, "ignored")
             first == StopMultiplex(s)
  <2>1. call \in ModemCall /\ call.then.op = "ignored"
    BY <1>1, CallTypes DEF Reports, ResponseOps, Call, Msg
  <2>2. first \in Seq(ModemCall) /\ Multiplexed(first, s) /\ ReportIfNone(first, s)
    BY <1>1, <1>6, StopMultiplexServes, StopMultiplexed DEF TimeToDistance
  <2>3. calls = first \o <<call>>
    BY <1>6 DEF TimeToDistance
  <2> HIDE DEF call, first
  <2>4. \A t : Num(Thens(<<call>>), t) = 0
    BY <2>1, NumOfCalls DEF Reporting
  <2>5. \A t : Num(Thens(calls), t) = Num(Thens(first), t)
    <3>1. <<call>> \in Seq(ModemCall)
      BY <2>1, OneCall
    <3>2. ASSUME NEW t
          PROVE  Num(Thens(calls), t) = Num(Thens(first), t)
      <4>1. /\ Num(Thens(first \o <<call>>), t) = Num(Thens(first), t) + Num(Thens(<<call>>), t)
            /\ Num(Thens(first), t) \in Nat
        BY <2>2, <3>1, NumOfCalls
      <4>2. QED
        BY <2>3, <2>4, <4>1
    <3>3. QED
      BY <3>2
  <2>6. AnsweredBy(s, op, first)
    BY <1>1, <1>6, <2>2, MultiplexAnswers DEF TimeToDistance
  <2>7. QED
    BY <2>5, <2>6 DEF AnsweredBy
<1>7. CASE DistanceToTime(s, op, calls)
  <2> DEFINE call == SwitchToTime(s, NewOptions)
  <2>1. call \in ModemCall /\ call.then.s = s /\ call.then.op = "thenStartTime"
    BY <1>1, <1>7, SwitchType DEF DistanceToTime, SwitchToTime, Msg
  <2> HIDE DEF call
  <2>2. QED
    BY <1>1, <1>7, <2>1, OneCallAnswers DEF DistanceToTime, ResponseOps, call
<1>8. CASE DistanceAgain(s, op, calls)
  <2> DEFINE call == Call("stopDistance", s, None, "thenStartDistance")
  <2>1. call \in ModemCall /\ call.then.s = s /\ call.then.op = "thenStartDistance"
    BY <1>1, CallTypes DEF Reports, ResponseOps, Call, Msg
  <2> HIDE DEF call
  <2>2. QED
    BY <1>1, <1>8, <2>1, OneCallAnswers DEF DistanceAgain, ResponseOps, call
<1>9. CASE TimeStopped(s, op, calls)
  <2>1. Multiplexed(calls, s) /\ ReportIfNone(calls, s)
    BY <1>1, <1>9, StopMultiplexed DEF TimeStopped
  <2>2. QED
    BY <1>1, <1>9, <2>1, MultiplexAnswers DEF TimeStopped
<1>10. CASE DistanceStopping(s, op, calls)
  <2> DEFINE call == Call("stopDistance", s, None, "stopped")
  <2>1. call \in ModemCall /\ call.then.s = s /\ call.then.op = "stopped"
    BY <1>1, CallTypes DEF Reports, ResponseOps, Call, Msg
  <2> HIDE DEF call
  <2>2. QED
    BY <1>1, <1>10, <2>1, OneCallAnswers DEF DistanceStopping, ResponseOps, call
<1>11. CASE DistanceStopped(s, op, calls)
  <2>1. \A t : Num(Thens(<<>>), t) = 0
    BY NumOfCalls
  <2>2. CASE op = "forget"
    BY <1>11, <2>1, <2>2 DEF DistanceStopped, AnsweredBy
  <2>3. CASE op = "stopped"
    BY <1>1, <1>11, <2>3, NoCallAnswers DEF DistanceStopped
  <2>4. QED
    BY <1>11, <2>2, <2>3 DEF DistanceStopped
<1>12. CASE DistanceRestarting(s, op, calls)
  <2> DEFINE call == Call("startDistance", s, Distance, "restarted")
  <2>1. call \in ModemCall /\ call.then.s = s /\ call.then.op = "restarted"
    BY <1>1, CallTypes DEF Reports, ResponseOps, Call, Msg
  <2> HIDE DEF call
  <2>2. QED
    BY <1>1, <1>12, <2>1, OneCallAnswers DEF DistanceRestarting, ResponseOps, call
<1>13. CASE DistanceRestarted(s, op, calls)
  BY <1>1, <1>13, NoCallAnswers DEF DistanceRestarted
<1>14. QED
  BY <1>2, <1>3, <1>4, <1>5, <1>6, <1>7, <1>8, <1>9, <1>10, <1>11, <1>12, <1>13
     DEF Handling, Outcome

\* A call that a handler makes about the session s of its message.
CallOf(call, s) ==
  /\ call.then.s = s
  /\ \/ AboutFix(call) /\ call.then.op \in {"started", "updated", "fixStopped"}
     \/ call.call = "startDistance" /\ call.then.op \in {"started", "ignored", "restarted"}
     \/ /\ call.call = "stopDistance"
        /\ call.then.op \in {"thenStartTime", "thenStartDistance", "stopped"}

LEMMA OneCallOf ==
  ASSUME NEW s, NEW call, CallOf(call, s)
  PROVE  \A i \in 1..Len(<<call>>) : CallOf(<<call>>[i], s)
<1>1. Len(<<call>>) = 1 /\ <<call>>[1] = call
  OBVIOUS
<1>2. QED
  BY <1>1

LEMMA MultiplexCalls ==
  ASSUME NEW s, NEW calls, Multiplexed(calls, s)
  PROVE  \A i \in 1..Len(calls) : CallOf(calls[i], s)
<1>1. CASE calls = <<>>
  BY <1>1
<1>2. CASE calls # <<>>
  <2>1. PICK call \in ModemCall :
          /\ calls = <<call>> /\ AboutFix(call)
          /\ call.then.s = s /\ call.then.op \in {"started", "updated", "fixStopped"}
    BY <1>2 DEF Multiplexed
  <2>2. CallOf(call, s)
    BY <2>1 DEF CallOf
  <2>3. QED
    BY <2>1, <2>2, OneCallOf
<1>3. QED
  BY <1>1, <1>2

LEMMA OutcomeCalls ==
  ASSUME TypeOK, NEW s, NEW op, NEW calls, Handling(s, op, calls)
  PROVE  \A i \in 1..Len(calls) : CallOf(calls[i], s)
<1>1. s \in Sessions /\ mTimeBased \in TimeMap
  BY SessionOf DEF Handling
<1>2. CASE calls = <<>>
  BY <1>2
<1>3. CASE TimeSaved(s, op, calls) \/ TimeStopped(s, op, calls)
  BY <1>1, <1>3, MultiplexCalls, StopMultiplexed DEF TimeSaved, TimeStopped
<1>4. CASE TimeToDistance(s, op, calls)
  <2> DEFINE call == Call("startDistance", s, Distance, "ignored")
             first == StopMultiplex(s)
             last == <<call>>
  <2>1. call \in ModemCall /\ CallOf(call, s)
    BY <1>1, CallTypes DEF Reports, ResponseOps, Call, Msg, CallOf
  <2>2. first \in Seq(ModemCall) /\ \A i \in 1..Len(first) : CallOf(first[i], s)
    BY <1>1, <1>4, StopMultiplexServes, StopMultiplexed, MultiplexCalls DEF TimeToDistance
  <2>3. calls = first \o last
    BY <1>4 DEF TimeToDistance
  <2> HIDE DEF call, first
  <2>4. last \in Seq(ModemCall) /\ \A i \in 1..Len(last) : CallOf(last[i], s)
    BY <2>1, OneCall, OneCallOf
  <2> HIDE DEF last
  <2>5. \A i \in 1..Len(first \o last) :
          \/ i \in 1..Len(first) /\ (first \o last)[i] = first[i]
          \/ i - Len(first) \in 1..Len(last) /\ (first \o last)[i] = last[i - Len(first)]
    <3>1. PICK a \in Seq(ModemCall), b \in Seq(ModemCall) : a = first /\ b = last
      BY <2>2, <2>4
    <3>2. \A i \in 1..Len(a \o b) : \/ i \in 1..Len(a) /\ (a \o b)[i] = a[i]
                                    \/ i - Len(a) \in 1..Len(b) /\ (a \o b)[i] = b[i - Len(a)]
      OBVIOUS
    <3>3. QED
      BY <3>1, <3>2
  <2>6. QED
    BY <2>2, <2>3, <2>4, <2>5
<1>5. CASE \/ DistanceSaved(s, op, calls) \/ DistanceToTime(s, op, calls)
           \/ DistanceAgain(s, op, calls) \/ DistanceStopping(s, op, calls)
           \/ DistanceRestarting(s, op, calls)
  <2>1. PICK call \in {Call("startDistance", s, Distance, "started"),
                       SwitchToTime(s, NewOptions),
                       Call("stopDistance", s, None, "thenStartDistance"),
                       Call("stopDistance", s, None, "stopped"),
                       Call("startDistance", s, Distance, "restarted")} : calls = <<call>>
    BY <1>5 DEF DistanceSaved, DistanceToTime, DistanceAgain, DistanceStopping, DistanceRestarting
  <2>2. CallOf(call, s)
    BY DEF Call, SwitchToTime, Msg, CallOf
  <2>3. QED
    BY <2>1, <2>2, OneCallOf
<1>6. QED
  BY <1>2, <1>3, <1>4, <1>5
     DEF Handling, Outcome, Nothing, Failed, DistanceStopped, DistanceRestarted

\* What a concatenation consists of.
LEMMA InConcat ==
  ASSUME NEW S, NEW p \in Seq(S), NEW q \in Seq(S), NEW i \in 1..Len(p \o q)
  PROVE  \/ \E j \in 1..Len(p) : (p \o q)[i] = p[j]
         \/ \E j \in 1..Len(q) : (p \o q)[i] = q[j]
<1>1. /\ Len(p) \in Nat /\ Len(q) \in Nat /\ Len(p \o q) = Len(p) + Len(q)
      /\ i \in 1..Len(p) => (p \o q)[i] = p[i]
      /\ i \in Len(p) + 1..Len(p) + Len(q) => (p \o q)[i] = q[i - Len(p)]
  OBVIOUS
<1>2. \/ i \in 1..Len(p)
      \/ i \in Len(p) + 1..Len(p) + Len(q) /\ i - Len(p) \in 1..Len(q)
  <2>1. Len(p) \in Nat /\ Len(q) \in Nat /\ i \in 1..Len(p) + Len(q)
    BY <1>1
  <2>2. QED
    BY <2>1
<1>3. QED
  BY <1>1, <1>2

LEMMA MoreShapes ==
  ASSUME NEW a \in Seq(ModemCall), NEW b \in Seq(ModemCall), CallShapes(a), CallShapes(b)
  PROVE  CallShapes(a \o b)
<1> DEFINE both == a \o b
<1>1. ASSUME NEW i \in 1..Len(both)
      PROVE  \/ \E j \in 1..Len(a) : both[i] = a[j]
             \/ \E j \in 1..Len(b) : both[i] = b[j]
  BY InConcat
<1> HIDE DEF both
<1>2. CallShapes(both)
  BY <1>1 DEF CallShapes
<1>3. QED
  BY <1>2 DEF both

LEMMA TailOf ==
  ASSUME NEW S, NEW q \in Seq(S), q # <<>>
  PROVE  /\ Head(q) = q[1] /\ 1 \in 1..Len(q) /\ Len(q) \in Nat \ {0}
         /\ Len(Tail(q)) = Len(q) - 1 /\ Tail(q) \in Seq(S) /\ Head(q) \in S
         /\ \A i \in 1..Len(Tail(q)) : i + 1 \in 1..Len(q) /\ Tail(q)[i] = q[i + 1]
OBVIOUS

LEMMA SwitchesTail ==
  ASSUME TypeOK, queue # <<>>, queue' = Tail(queue), SwitchesSucceed
  PROVE  SwitchesSucceed'
<1>1. queue \in Seq(Message)
  BY DEF TypeOK
<1>2. \A i \in 1..Len(queue') : i + 1 \in 1..Len(queue) /\ queue'[i] = queue[i + 1]
  BY <1>1, TailOf
<1>3. QED
  BY <1>2 DEF SwitchesSucceed

LEMMA SessionAnswers ==
  ASSUME AnswerInv, Inv', Handled
  PROVE  AnswerInv'
<1>1. PICK s, op, calls : Handling(s, op, calls)
  BY DEF Handled
<1>2. TypeOK /\ Receive(op) /\ calls \in Seq(ModemCall) /\ Ask(calls)
      /\ s \in Sessions /\ s = Head(queue).s /\ op = Head(queue).op
      /\ op \in CommandOps \cup ResponseOps
      /\ UNCHANGED mPendingMsgs /\ UNCHANGED mClientData /\ UNCHANGED disturbed
      /\ UNCHANGED hasty
  BY <1>1 DEF AnswerInv, Inv, Handling, Session, Receive, HandlerUnchanged, clientVars
<1>3. AnsweredBy(s, op, calls)
  BY <1>1, <1>2, OutcomeAnswers
<1>4. Counted'
  <2>1. ASSUME NEW t \in Sessions
        PROVE  /\ Owner[t] \in mClientData => /\ Count(t)' <= owed'[t]
                                              /\ AllAnswered => Count(t)' = owed'[t]
               /\ ~disturbed /\ t \notin hasty => Count(t)' <= 1
    <3>1. /\ Count(t)' = Count(t) + Num(Thens(calls), t)
                           - (IF Reporting(Head(queue), t) THEN 1 ELSE 0)
          /\ Count(t) \in Nat /\ Num(Thens(calls), t) \in Nat
      BY <1>2, CountHandled
    <3>2. /\ Owner[t] \in mClientData => /\ Count(t) <= owed[t]
                                         /\ AllAnswered => Count(t) = owed[t]
          /\ ~disturbed /\ t \notin hasty => Count(t) <= 1
      BY DEF AnswerInv, Counted
    <3>3. Reporting(Head(queue), t) <=> op \notin {"forget", "ignored"} /\ t = s
      BY <1>2 DEF Reporting
    <3>4. owed[t] \in Int
      BY <1>2 DEF TypeOK
    <3>5. CASE t # s
      <4>1. Num(Thens(calls), t) = 0 /\ owed'[t] = owed[t]
        BY <1>3, <3>5 DEF AnsweredBy
      <4>2. QED
        BY <3>1, <3>2, <3>3, <3>5, <4>1
    <3>6. CASE /\ t = s
               /\ Num(Thens(calls), s) = IF op \in {"forget", "ignored"} THEN 0 ELSE 1
               /\ owed' = owed
      BY <3>1, <3>2, <3>3, <3>6
    <3>7. CASE /\ t = s /\ op \notin {"forget", "ignored"}
               /\ Num(Thens(calls), s) = 0
               /\ Owner[s] \in mClientData => owed'[s] = owed[s] - 1
      BY <3>1, <3>2, <3>3, <3>4, <3>7
    <3>8. CASE /\ t = s /\ op \notin {"forget", "ignored"} /\ Num(Thens(calls), s) = 0
               /\ owed' = owed
               /\ \/ op = "start" /\ Owner[s] \notin mClientData \cap Listeners
                  \/ op = "thenStartDistance" /\ ~Succeeded
      <4>1. AllAnswered /\ Owner[t] \in mClientData => FALSE
        <5>1. queue \in Seq(Message) /\ queue # <<>>
          BY <1>2 DEF TypeOK, Receive
        <5>2. queue[1] = Head(queue) /\ 1 \in 1..Len(queue)
          BY <5>1, TailOf
        <5>3. "stopRefused" \notin Faults /\ op = "thenStartDistance" => Head(queue).ok = TRUE
          BY <1>2, <5>2 DEF AnswerInv, SwitchesSucceed
        <5>4. QED
          BY <3>8, <5>3 DEF AllAnswered, Succeeded
      <4>2. QED
        BY <3>1, <3>2, <3>3, <3>4, <3>8, <4>1
    <3>9. QED
      BY <1>3, <3>5, <3>6, <3>7, <3>8 DEF AnsweredBy
  <2>2. QED
    BY <1>2, <2>1 DEF Counted
<1>5. SwitchesSucceed'
  BY <1>2, SwitchesTail DEF AnswerInv, Receive
<1>6. CallShapes(toModem')
  <2>1. toModem \in Seq(ModemCall) /\ toModem' = toModem \o calls
    BY <1>2 DEF TypeOK, Ask
  <2>2. \A i \in 1..Len(calls) : CallOf(calls[i], s)
    BY <1>1, <1>2, OutcomeCalls
  <2>3. CallShapes(calls)
    BY <2>2 DEF CallShapes, CallOf, AboutFix
  <2>4. QED
    BY <1>2, <2>1, <2>3, MoreShapes DEF AnswerInv
<1>7. QED
  BY <1>4, <1>5, <1>6 DEF AnswerInv

\* A step in which no command is given and messages only come from messages.
LEMMA CountedKept ==
  ASSUME AnswerInv, \A s \in Sessions : Count(s)' <= Count(s),
         \A s \in Sessions : Owner[s] \in mClientData' =>
           Owner[s] \in mClientData /\ Count(s)' = Count(s) /\ owed'[s] = owed[s],
         UNCHANGED hasty, ~disturbed' => ~disturbed, TypeOK'
  PROVE  Counted'
<1>1. TypeOK
  BY DEF AnswerInv, Inv
<1>2. ASSUME NEW s \in Sessions
      PROVE  Count(s) \in Nat /\ Count(s)' \in Nat
  <2>1. Count(s) \in Nat
    BY <1>1, TypesOfFlying
  <2>2. Count(s)' \in Nat
    <3>1. queue' \in Seq(Flying) /\ mPendingMsgs' \in Seq(Flying) /\ toModem' \in Seq(ModemCall)
      BY DEF TypeOK, Flying, Message
    <3>2. Num(queue', s) \in Nat /\ Num(mPendingMsgs', s) \in Nat /\ Num(Thens(toModem'), s) \in Nat
      BY <3>1, NumType, NumOfCalls
    <3>3. QED
      BY <3>2 DEF Count
  <2>3. QED
    BY <2>1, <2>2
<1>3. QED
  BY <1>2 DEF AnswerInv, Counted

LEMMA DeferAnswers ==
  ASSUME AnswerInv, Inv', DeferCommand
  PROVE  AnswerInv'
<1>1. TypeOK /\ TypeOK'
  BY DEF AnswerInv, Inv
<1>2. PICK op \in {"start", "update"} : Receive(op)
  BY DEF DeferCommand
<1>3. /\ queue # <<>> /\ queue' = Tail(queue)
      /\ mPendingMsgs' = Append(mPendingMsgs, Head(queue))
      /\ UNCHANGED toModem /\ UNCHANGED mClientData /\ UNCHANGED owed
      /\ UNCHANGED disturbed /\ UNCHANGED hasty
  BY <1>2 DEF Receive, DeferCommand, HandlerUnchanged, clientVars
<1>4. ASSUME NEW s \in Sessions
      PROVE  Count(s)' = Count(s) /\ Count(s) \in Nat
  <2>1. /\ queue \in Seq(Flying) /\ mPendingMsgs \in Seq(Flying)
        /\ Num(queue, s) \in Nat /\ Num(mPendingMsgs, s) \in Nat /\ Num(Thens(toModem), s) \in Nat
        /\ Count(s) \in Nat
    BY <1>1, TypesOfFlying
  <2>2. /\ Head(queue) \in Flying /\ Tail(queue) \in Seq(Flying)
        /\ Num(queue, s) = Num(<<Head(queue)>>, s) + Num(Tail(queue), s)
        /\ Num(<<Head(queue)>>, s) = IF Reporting(Head(queue), s) THEN 1 ELSE 0
    BY <1>3, <2>1, NumTail, NumOne
  <2>3. Num(Append(mPendingMsgs, Head(queue)), s) = Num(mPendingMsgs, s) + Num(<<Head(queue)>>, s)
    BY <2>1, <2>2, NumAppend
  <2>4. Count(s)' = Num(Tail(queue), s) + Num(Append(mPendingMsgs, Head(queue)), s)
                      + Num(Thens(toModem), s)
    BY <1>3 DEF Count
  <2>5. Num(Tail(queue), s) \in Nat
    BY <2>2, NumType
  <2>6. QED
    BY <2>1, <2>2, <2>3, <2>4, <2>5 DEF Count
<1>5. Counted'
  BY <1>1, <1>3, <1>4, CountedKept
<1>6. SwitchesSucceed' /\ CallShapes(toModem')
  BY <1>1, <1>3, SwitchesTail DEF AnswerInv
<1>7. QED
  BY <1>5, <1>6 DEF AnswerInv

\* No message of the sequence is about s.
LEMMA NoneOf ==
  ASSUME NEW calls \in Seq(ModemCall), NEW s,
         \A i \in 1..Len(calls) : ~Reporting(calls[i].then, s)
  PROVE  Num(Thens(calls), s) = 0
<1>1. Thens(calls) \in Seq(Flying) /\ \A i \in 1..Len(Thens(calls)) : ~Reporting(Thens(calls)[i], s)
  BY ThensOf
<1>2. QED
  BY <1>1, NumType

\* The loops over the map meet every session.
LEMMA KeyOrderMeets ==
  ASSUME NEW S \in SUBSET Sessions, NEW order \in KeyOrders(S)
  PROVE  \A s \in S : \E i \in DOMAIN order : order[i] = s
<1>1. IsFiniteSet(Sessions)
  BY FS_Interval, BoundsAssumption DEF Sessions
<1>2. IsFiniteSet(S) /\ Cardinality(S) \in Nat
  BY <1>1, FS_Subset, FS_CardinalityType
<1> DEFINE n == Cardinality(S)
<1>3. IsFiniteSet(1..n) /\ Cardinality(1..n) = n
  BY <1>2, FS_Interval
<1>4. order \in [1..n -> S] /\ \A i, j \in 1..n : i < j => order[i] < order[j]
  BY DEF KeyOrders
<1>5. \A i \in 1..n : order[i] \in Nat
  <2>1. Sessions \subseteq Nat
    BY BoundsAssumption DEF Sessions
  <2>2. QED
    BY <1>4, <2>1
<1>6. \A i, j \in 1..n : order[i] = order[j] => i = j
  <2>1. ASSUME NEW i \in 1..n, NEW j \in 1..n, i < j
        PROVE  order[i] # order[j]
    BY <1>4, <1>5, <2>1
  <2>2. QED
    BY <1>2, <2>1
<1>7. order \in Injection(1..n, S)
  BY <1>4, <1>6 DEF Injection, IsInjective
<1>8. order \in Surjection(1..n, S)
  BY <1>2, <1>3, <1>7, FS_Injection
<1>9. QED
  BY <1>4, <1>8 DEF Surjection

\* The calls of restartSessions() and of stopClientSessions().
RestartCall(call) ==
  \/ /\ call.call = "startTime" /\ call.then.op = "none"
     /\ TimeBased # {}
  \/ /\ call.call = "startDistance" /\ call.then.op = "ignored"
     /\ call.then.s \in mDistanceBased

RemovalCall(call, c) ==
  /\ Owner[call.then.s] = c
  /\ \/ /\ AboutFix(call) /\ call.then.op \in {"started", "updated", "fixStopped"}
        /\ call.then.s \in TimeBased
     \/ /\ call.call = "stopDistance" /\ call.then.op = "forget"
        /\ call.then.s \in mDistanceBased

LEMMA RestartCalls ==
  ASSUME TypeOK, HandleEngineUp
  PROVE  \E calls \in Seq(ModemCall) :
           /\ Ask(calls) /\ \A i \in 1..Len(calls) : RestartCall(calls[i])
           /\ \A s \in mDistanceBased : \E i \in 1..Len(calls) :
                calls[i].call = "startDistance" /\ calls[i].then.s = s
<1>1. mTimeBased \in TimeMap /\ mDistanceBased \in SUBSET Sessions
  BY DEF TypeOK, TimeMap
<1>2. PICK distance \in KeyOrders(mDistanceBased) :
        Ask((IF TimeBased = {} THEN <<>>
             ELSE <<StartTime(Min(TimeBased),
                              [SmallestOptions(TimeBased) EXCEPT !.powerMode = RestartPower],
                              "none", None)>>) \o
            [i \in DOMAIN distance |-> Call("startDistance", distance[i], Distance, "ignored")])
  BY DEF HandleEngineUp
<1> DEFINE o == [SmallestOptions(TimeBased) EXCEPT !.powerMode = RestartPower]
           start == StartTime(Min(TimeBased), o, "none", None)
           first == IF TimeBased = {} THEN <<>> ELSE <<start>>
           rest == [i \in DOMAIN distance |-> Call("startDistance", distance[i], Distance, "ignored")]
<1>3. first \in Seq(ModemCall) /\ \A i \in 1..Len(first) : RestartCall(first[i])
  <2>1. CASE TimeBased = {}
    BY <2>1
  <2>2. CASE TimeBased # {}
    <3>1. Min(TimeBased) \in Sessions /\ TimeBased \subseteq TimeBased
      <4>1. TimeBased \in SUBSET Nat /\ TimeBased \subseteq Sessions
        BY <1>1, MapTypes
      <4>2. QED
        BY <2>2, <4>1, MinOfNaturals
    <3>2. o \in FixOptions
      BY <1>1, <2>2, <3>1, RestServes, RestartPowerType
    <3>3. start \in ModemCall
      <4> HIDE DEF o
      <4>1. QED
        BY <3>1, <3>2, RestartType
    <3>4. RestartCall(start)
      BY <2>2 DEF StartTime, Msg, RestartCall
    <3> HIDE DEF start
    <3>5. <<start>> \in Seq(ModemCall) /\ Len(<<start>>) = 1 /\ <<start>>[1] = start
      BY <3>3, OneCall
    <3>6. QED
      BY <2>2, <3>4, <3>5
  <2>3. QED
    BY <2>1, <2>2
<1>4. PICK n \in Nat : DOMAIN distance = 1..n /\ \A i \in 1..n : distance[i] \in mDistanceBased
  BY <1>1, KeyOrderTypes
<1>5. /\ rest \in Seq(ModemCall) /\ Len(rest) = n
      /\ \A i \in 1..n : /\ RestartCall(rest[i]) /\ rest[i].call = "startDistance"
                         /\ rest[i].then.s = distance[i]
  <2>1. \A i \in 1..n : /\ Call("startDistance", distance[i], Distance, "ignored") \in ModemCall
                        /\ RestartCall(Call("startDistance", distance[i], Distance, "ignored"))
    BY <1>1, <1>4, CallTypes DEF Reports, ResponseOps, Call, Msg, RestartCall
  <2>2. /\ rest \in [1..n -> ModemCall]
        /\ \A i \in 1..n : /\ RestartCall(rest[i]) /\ rest[i].call = "startDistance"
                           /\ rest[i].then.s = distance[i]
    BY <1>4, <2>1 DEF Call, Msg
  <2> HIDE DEF rest
  <2>3. QED
    BY <2>2
<1> HIDE DEF first, rest
<1> DEFINE calls == first \o rest
<1>6. /\ calls \in Seq(ModemCall) /\ \A i \in 1..Len(calls) : RestartCall(calls[i])
      /\ Len(first) \in Nat /\ Len(calls) = Len(first) + n
      /\ \A i \in 1..n : Len(first) + i \in 1..Len(calls) /\ calls[Len(first) + i] = rest[i]
  BY <1>3, <1>5
<1>7. Ask(calls)
  BY <1>2 DEF first, rest
<1> HIDE DEF calls
<1>8. ASSUME NEW s \in mDistanceBased
      PROVE  \E i \in 1..Len(calls) : calls[i].call = "startDistance" /\ calls[i].then.s = s
  <2>1. PICK i \in 1..n : distance[i] = s
    BY <1>1, <1>4, KeyOrderMeets
  <2>2. QED
    BY <1>5, <1>6, <2>1
<1>9. QED
  BY <1>6, <1>7, <1>8

LEMMA RemovalCalls ==
  ASSUME TypeOK, HandleRemoveClient
  PROVE  \E calls \in Seq(ModemCall) :
           Ask(calls) /\ \A i \in 1..Len(calls) : RemovalCall(calls[i], Head(queue).c)
<1>1. mTimeBased \in TimeMap /\ mDistanceBased \in SUBSET Sessions
  BY DEF TypeOK, TimeMap
<1> DEFINE c == Head(queue).c
           owned == {s \in Sessions : Owner[s] = c}
           stopped == {s \in TimeBased \cap owned : StopMultiplex(s) # <<>>}
           dropped == mDistanceBased \cap owned
<1>2. PICK time \in KeyOrders(stopped), distance \in KeyOrders(dropped) :
        Ask([i \in DOMAIN time |-> StopMultiplex(time[i])[1]] \o
            [i \in DOMAIN distance |-> Call("stopDistance", distance[i], None, "forget")])
  BY DEF HandleRemoveClient
<1> DEFINE first == [i \in DOMAIN time |-> StopMultiplex(time[i])[1]]
           rest == [i \in DOMAIN distance |-> Call("stopDistance", distance[i], None, "forget")]
<1>3. first \in Seq(ModemCall) /\ \A i \in 1..Len(first) : RemovalCall(first[i], c)
  <2>1. stopped \in SUBSET Sessions /\ stopped \subseteq TimeBased
        /\ \A s \in stopped : StopMultiplex(s) # <<>> /\ Owner[s] = c
    BY <1>1, MapTypes
  <2>2. PICK n \in Nat : DOMAIN time = 1..n /\ \A i \in 1..n : time[i] \in stopped
    <3> HIDE DEF stopped
    <3>1. QED
      BY <2>1, KeyOrderTypes
  <2>3. ASSUME NEW i \in 1..n
        PROVE  first[i] \in ModemCall /\ RemovalCall(first[i], c)
    <3>1. time[i] \in TimeBased /\ StopMultiplex(time[i]) # <<>> /\ Owner[time[i]] = c
      BY <2>1, <2>2
    <3>2. PICK call \in ModemCall :
            /\ StopMultiplex(time[i]) = <<call>> /\ AboutFix(call)
            /\ call.then.s = time[i] /\ call.then.op \in {"started", "updated", "fixStopped"}
      BY <1>1, <3>1, StopMultiplexed DEF Multiplexed
    <3>3. StopMultiplex(time[i])[1] = call
      BY <3>2
    <3>4. first[i] = call
      BY <2>2, <3>3
    <3>5. QED
      BY <3>1, <3>2, <3>4 DEF RemovalCall
  <2>4. first \in [1..n -> ModemCall]
    BY <2>2, <2>3
  <2> HIDE DEF first
  <2>5. QED
    BY <2>3, <2>4
<1>4. rest \in Seq(ModemCall) /\ \A i \in 1..Len(rest) : RemovalCall(rest[i], c)
  <2>1. dropped \in SUBSET Sessions /\ \A s \in dropped : s \in mDistanceBased /\ Owner[s] = c
    BY <1>1
  <2>2. PICK n \in Nat : DOMAIN distance = 1..n /\ \A i \in 1..n : distance[i] \in dropped
    <3> HIDE DEF dropped
    <3>1. QED
      BY <2>1, KeyOrderTypes
  <2>3. \A i \in 1..n : /\ Call("stopDistance", distance[i], None, "forget") \in ModemCall
                        /\ RemovalCall(Call("stopDistance", distance[i], None, "forget"), c)
    BY <1>1, <2>1, <2>2, CallTypes DEF Reports, ResponseOps, Call, Msg, RemovalCall
  <2>4. rest \in [1..n -> ModemCall] /\ \A i \in 1..n : RemovalCall(rest[i], c)
    BY <2>2, <2>3
  <2> HIDE DEF rest
  <2>5. QED
    BY <2>4
<1> DEFINE calls == first \o rest
<1>5. Ask(calls)
  BY <1>2
<1> HIDE DEF first, rest, c
<1>6. calls \in Seq(ModemCall) /\ \A i \in 1..Len(calls) : RemovalCall(calls[i], c)
  BY <1>3, <1>4
<1> HIDE DEF calls
<1>7. QED
  BY <1>5, <1>6 DEF c

LEMMA EngineUpAnswers ==
  ASSUME AnswerInv, Inv', HandleEngineUp
  PROVE  AnswerInv'
<1>1. TypeOK /\ TypeOK' /\ toModem \in Seq(ModemCall)
  BY DEF AnswerInv, Inv, TypeOK
<1>2. PICK calls \in Seq(ModemCall) :
        Ask(calls) /\ \A i \in 1..Len(calls) : RestartCall(calls[i])
  BY <1>1, RestartCalls
<1>3. /\ queue # <<>> /\ Head(queue).op = "engineUp" /\ toModem' = toModem \o calls
      /\ queue' = Tail(queue) \o mPendingMsgs /\ mPendingMsgs' = <<>>
      /\ UNCHANGED mClientData /\ UNCHANGED owed /\ UNCHANGED disturbed /\ UNCHANGED hasty
  BY <1>2 DEF HandleEngineUp, HandlerUnchanged, clientVars, Ask
<1>4. ASSUME NEW s \in Sessions
      PROVE  Count(s)' = Count(s) /\ Count(s) \in Nat
  <2>1. /\ queue \in Seq(Flying) /\ mPendingMsgs \in Seq(Flying)
        /\ Num(queue, s) \in Nat /\ Num(mPendingMsgs, s) \in Nat /\ Num(Thens(toModem), s) \in Nat
        /\ Count(s) \in Nat
    BY <1>1, TypesOfFlying
  <2>2. ~Reporting(Head(queue), s)
    BY <1>3 DEF Reporting, CommandOps, ResponseOps
  <2>3. /\ Head(queue) \in Flying /\ Tail(queue) \in Seq(Flying)
        /\ Num(queue, s) = Num(<<Head(queue)>>, s) + Num(Tail(queue), s)
        /\ Num(<<Head(queue)>>, s) = 0
    BY <1>3, <2>1, <2>2, NumTail, NumOne
  <2>4. Num(Tail(queue) \o mPendingMsgs, s) = Num(Tail(queue), s) + Num(mPendingMsgs, s)
    <3>1. PICK rest \in Seq(Flying) : rest = Tail(queue)
      BY <2>3
    <3>2. Num(rest \o mPendingMsgs, s) = Num(rest, s) + Num(mPendingMsgs, s)
      BY <2>1, NumConcat
    <3>3. QED
      BY <3>1, <3>2
  <2>5. Num(Thens(toModem \o calls), s) = Num(Thens(toModem), s) + Num(Thens(calls), s)
    BY <1>1, NumOfCalls
  <2>6. Num(Thens(calls), s) = 0
    BY <1>2, NoneOf DEF Reporting, CommandOps, ResponseOps, RestartCall
  <2>7. Num(<<>>, s) = 0
    <3>1. Places(<<>>, s) = {}
      BY DEF Places
    <3>2. QED
      BY <3>1, FS_EmptySet DEF Num
  <2>8. Count(s)' = Num(Tail(queue) \o mPendingMsgs, s) + Num(<<>>, s)
                      + Num(Thens(toModem \o calls), s)
    BY <1>3 DEF Count
  <2>9. Num(Tail(queue), s) \in Nat
    BY <2>3, NumType
  <2>10. QED
    BY <2>1, <2>3, <2>4, <2>5, <2>6, <2>7, <2>8, <2>9 DEF Count
<1>5. Counted'
  BY <1>1, <1>3, <1>4, CountedKept
<1>6. SwitchesSucceed'
  <2> DEFINE a == Tail(queue)
  <2>1. /\ a \in Seq(Message) /\ mPendingMsgs \in Seq(Message) /\ mPendingMsgs \in Seq(Command)
        /\ \A j \in 1..Len(a) : j + 1 \in 1..Len(queue) /\ a[j] = queue[j + 1]
    BY <1>1, <1>3, TypesOfFlying, TailOf DEF TypeOK
  <2> HIDE DEF a
  <2>2. ASSUME NEW i \in 1..Len(queue')
        PROVE  \/ \E j \in 1..Len(a) : queue'[i] = a[j]
               \/ \E j \in 1..Len(mPendingMsgs) : queue'[i] = mPendingMsgs[j]
    <3>1. queue' = a \o mPendingMsgs
      BY <1>3 DEF a
    <3>2. \A k \in 1..Len(a \o mPendingMsgs) :
            \/ \E j \in 1..Len(a) : (a \o mPendingMsgs)[k] = a[j]
            \/ \E j \in 1..Len(mPendingMsgs) : (a \o mPendingMsgs)[k] = mPendingMsgs[j]
      <4>1. a \in Seq(Message) /\ mPendingMsgs \in Seq(Message)
        BY <2>1
      <4>2. QED
        BY <4>1, InConcat
    <3>3. QED
      BY <3>1, <3>2, Zenon
  <2>3. ASSUME NEW j \in 1..Len(mPendingMsgs)
        PROVE  mPendingMsgs[j].op # "thenStartDistance"
    <3>1. mPendingMsgs[j] \in Command
      BY <2>1
    <3>2. QED
      BY <3>1 DEF Command
  <2>4. QED
    BY <2>1, <2>2, <2>3 DEF AnswerInv, SwitchesSucceed
<1>7. CallShapes(toModem')
  <2>1. CallShapes(calls)
    BY <1>2 DEF CallShapes, RestartCall
  <2>2. QED
    BY <1>1, <1>3, <2>1, MoreShapes DEF AnswerInv
<1>8. QED
  BY <1>5, <1>6, <1>7 DEF AnswerInv

LEMMA RemoveAnswers ==
  ASSUME AnswerInv, Inv', HandleRemoveClient
  PROVE  AnswerInv'
<1>1. TypeOK /\ TypeOK' /\ toModem \in Seq(ModemCall) /\ Receive("removeClient")
  BY DEF AnswerInv, Inv, TypeOK, HandleRemoveClient
<1> DEFINE c == Head(queue).c
           owned == {s \in Sessions : Owner[s] = c}
<1>2. PICK calls \in Seq(ModemCall) :
        Ask(calls) /\ \A i \in 1..Len(calls) : RemovalCall(calls[i], c)
  BY <1>1, RemovalCalls
<1>3. /\ mClientData' = mClientData \ {c} /\ UNCHANGED mPendingMsgs /\ UNCHANGED hasty
      /\ owed' = [s \in Sessions |-> IF s \in owned THEN 0 ELSE owed[s]]
      /\ disturbed' = (disturbed \/ TimeBased \cap owned # {})
      /\ Head(queue).op = "removeClient" /\ queue # <<>> /\ queue' = Tail(queue)
  BY DEF HandleRemoveClient, HandlerUnchanged, clientVars, Receive
<1> HIDE DEF c
<1>4. ASSUME NEW s \in Sessions
      PROVE  /\ Owner[s] # c => Count(s)' = Count(s) /\ owed'[s] = owed[s]
             /\ ~disturbed' => Count(s)' <= Count(s)
  <2>1. /\ Count(s)' = Count(s) + Num(Thens(calls), s)
                         - (IF Reporting(Head(queue), s) THEN 1 ELSE 0)
        /\ Count(s) \in Nat /\ Num(Thens(calls), s) \in Nat
    BY <1>1, <1>2, <1>3, CountHandled
  <2>2. ~Reporting(Head(queue), s)
    BY <1>3 DEF Reporting, CommandOps, ResponseOps
  <2>3. Owner[s] # c => Num(Thens(calls), s) = 0
    BY <1>2, NoneOf DEF Reporting, RemovalCall
  <2>4. ~disturbed' => Num(Thens(calls), s) = 0
    <3>1. SUFFICES ASSUME ~disturbed', NEW i \in 1..Len(calls), Reporting(calls[i].then, s)
                   PROVE  FALSE
      BY NoneOf
    <3>2. s \in TimeBased /\ Owner[s] = c
      BY <1>2, <3>1 DEF Reporting, RemovalCall
    <3>3. QED
      BY <1>3, <3>1, <3>2
  <2>5. QED
    BY <1>3, <2>1, <2>2, <2>3, <2>4
<1>5. Counted'
  <2>1. \A s \in Sessions : Owner[s] \in mClientData' => Owner[s] \in mClientData /\ Owner[s] # c
    BY <1>3
  <2>2. \A s \in Sessions : ~disturbed' /\ s \notin hasty' => ~disturbed /\ s \notin hasty
    BY <1>3
  <2>3. ASSUME NEW s \in Sessions
        PROVE  Count(s) \in Nat /\ Count(s)' \in Nat
    <3>1. /\ Count(s)' = Count(s) + Num(Thens(calls), s)
                         - (IF Reporting(Head(queue), s) THEN 1 ELSE 0)
          /\ Count(s) \in Nat /\ Num(Thens(calls), s) \in Nat
      BY <1>1, <1>2, <1>3, CountHandled
    <3>2. ~Reporting(Head(queue), s)
      BY <1>3 DEF Reporting, CommandOps, ResponseOps
    <3>3. QED
      BY <3>1, <3>2
  <2>4. QED
    BY <1>4, <2>1, <2>2, <2>3 DEF AnswerInv, Counted
<1>6. SwitchesSucceed'
  BY <1>1, <1>3, SwitchesTail DEF AnswerInv
<1>7. CallShapes(toModem')
  <2>1. CallShapes(calls)
    BY <1>2 DEF CallShapes, RemovalCall, AboutFix
  <2>2. QED
    BY <1>1, <1>2, <2>1, MoreShapes DEF AnswerInv, Ask
<1>8. QED
  BY <1>5, <1>6, <1>7 DEF AnswerInv

\* The modem answers a call: the message the call was to cause comes into the queue.
LEMMA RespondShape ==
  ASSUME TypeOK, NEW ok \in BOOLEAN, Respond(ok)
  PROVE  /\ toModem \in Seq(ModemCall) /\ toModem # <<>> /\ toModem' = Tail(toModem)
         /\ \E then \in Then, m \in Flying :
              /\ then = Head(toModem).then
              /\ \/ then.op = "none" /\ queue' = queue
                 \/ /\ then.op # "none" /\ queue' = Append(queue, m) /\ m \in Message
                    /\ m.op = then.op /\ m.s = then.s /\ m.o = then.o /\ m.ok = ok
                    /\ m.op \in ResponseOps
<1>1. toModem \in Seq(ModemCall) /\ toModem # <<>> /\ toModem' = Tail(toModem)
  BY DEF TypeOK, Respond
<1>2. Head(toModem).then \in Then
  BY <1>1, TailOf DEF ModemCall
<1>3. PICK then \in Then : then = Head(toModem).then
  BY <1>2
<1>4. CASE then.op = "none"
  BY <1>1, <1>3, <1>4 DEF Respond, Flying
<1>5. CASE then.op # "none"
  <2> DEFINE m == [then EXCEPT !.ok = ok]
  <2>1. then \in Response({TRUE})
    BY <1>3, <1>5 DEF Then
  <2>2. /\ m \in Response(BOOLEAN) /\ m.op = then.op /\ m.s = then.s /\ m.o = then.o /\ m.ok = ok
        /\ m.op \in ResponseOps
    BY <2>1 DEF Response, ResponseOps
  <2>3. m \in Message /\ m \in Flying
    BY <2>2 DEF Message, Flying
  <2>4. queue' = Append(queue, m)
    BY <1>3, <1>5 DEF Respond
  <2> HIDE DEF m
  <2>5. QED
    BY <1>1, <1>3, <1>5, <2>2, <2>3, <2>4
<1>6. QED
  BY <1>4, <1>5

LEMMA RespondAnswers ==
  ASSUME AnswerInv, Inv', NEW ok \in BOOLEAN, Respond(ok), ~disturbed' => ~disturbed,
         ok = FALSE => Refusal(Head(toModem).call) \in Faults
  PROVE  AnswerInv'
<1>1. TypeOK /\ TypeOK' /\ queue \in Seq(Flying)
  BY TypesOfFlying DEF AnswerInv, Inv
<1>2. /\ toModem \in Seq(ModemCall) /\ toModem # <<>> /\ toModem' = Tail(toModem)
      /\ \E then \in Then, m \in Flying :
           /\ then = Head(toModem).then
           /\ \/ then.op = "none" /\ queue' = queue
              \/ /\ then.op # "none" /\ queue' = Append(queue, m) /\ m \in Message
                 /\ m.op = then.op /\ m.s = then.s /\ m.o = then.o /\ m.ok = ok
                 /\ m.op \in ResponseOps
  BY <1>1, RespondShape
<1>3. PICK then \in Then, m \in Flying :
           /\ then = Head(toModem).then
           /\ \/ then.op = "none" /\ queue' = queue
              \/ /\ then.op # "none" /\ queue' = Append(queue, m) /\ m \in Message
                 /\ m.op = then.op /\ m.s = then.s /\ m.o = then.o /\ m.ok = ok
                 /\ m.op \in ResponseOps
  BY <1>2
<1>4. UNCHANGED mPendingMsgs /\ UNCHANGED mClientData /\ UNCHANGED owed /\ UNCHANGED hasty
  BY DEF Respond, clientVars
<1>5. ASSUME NEW s \in Sessions
      PROVE  Count(s)' = Count(s) /\ Count(s) \in Nat
  <2>1. /\ Num(queue, s) \in Nat /\ Num(mPendingMsgs, s) \in Nat /\ Num(Thens(toModem), s) \in Nat
        /\ Count(s) \in Nat
    BY <1>1, TypesOfFlying
  <2>2. /\ Thens(Tail(toModem)) = Tail(Thens(toModem)) /\ Head(Thens(toModem)) = then
        /\ Thens(toModem) # <<>> /\ Thens(toModem) \in Seq(Flying)
    BY <1>2, <1>3, ThensTail, ThensOf
  <2>3. /\ then \in Flying /\ Tail(Thens(toModem)) \in Seq(Flying)
        /\ Num(Thens(toModem), s) = Num(<<then>>, s) + Num(Tail(Thens(toModem)), s)
    BY <2>2, NumTail
  <2>4. Num(<<then>>, s) = IF Reporting(then, s) THEN 1 ELSE 0
    BY <2>3, NumOne
  <2>5. Num(queue', s) = Num(queue, s) + Num(<<then>>, s)
    <3>1. CASE then.op = "none" /\ queue' = queue
      <4>1. ~Reporting(then, s)
        BY <3>1 DEF Reporting, CommandOps, ResponseOps
      <4>2. QED
        BY <2>1, <2>4, <3>1, <4>1
    <3>2. CASE then.op # "none" /\ queue' = Append(queue, m) /\ m.op = then.op /\ m.s = then.s
      <4>1. Reporting(m, s) <=> Reporting(then, s)
        BY <3>2 DEF Reporting
      <4>2. Num(<<m>>, s) = Num(<<then>>, s)
        BY <2>4, <4>1, NumOne
      <4>3. QED
        BY <1>1, <3>2, <4>2, NumAppend
    <3>3. QED
      BY <1>3, <3>1, <3>2
  <2>6. Count(s)' = Num(queue', s) + Num(mPendingMsgs, s) + Num(Tail(Thens(toModem)), s)
    BY <1>2, <1>4, <2>2 DEF Count
  <2>7. Num(Tail(Thens(toModem)), s) \in Nat /\ Num(<<then>>, s) \in Nat
    <3>1. Num(Tail(Thens(toModem)), s) \in Nat
      BY <2>3, NumType
    <3>2. Num(<<then>>, s) \in {0, 1}
      BY <2>4, Zenon
    <3>3. QED
      BY <3>1, <3>2
  <2>8. QED
    BY <2>1, <2>3, <2>5, <2>6, <2>7 DEF Count
<1>6. Counted'
  BY <1>1, <1>4, <1>5, CountedKept
<1>7. SwitchesSucceed'
  <2>1. SUFFICES ASSUME "stopRefused" \notin Faults, NEW i \in 1..Len(queue'),
                        queue'[i].op = "thenStartDistance"
                 PROVE  queue'[i].ok = TRUE
    BY DEF SwitchesSucceed
  <2>2. CASE i \in 1..Len(queue) /\ queue'[i] = queue[i]
    BY <2>1, <2>2 DEF AnswerInv, SwitchesSucceed
  <2>3. CASE queue'[i] = m /\ m.op = then.op /\ m.ok = ok
    <3>1. Head(toModem) = toModem[1] /\ 1 \in 1..Len(toModem)
      BY <1>2, TailOf
    <3>2. Head(toModem).call = "stopDistance"
      BY <1>3, <2>1, <2>3, <3>1 DEF AnswerInv, CallShapes
    <3>3. ok # FALSE
      BY <2>1, <3>2 DEF Refusal
    <3>4. QED
      BY <2>3, <3>3
  <2>4. QED
    <3>1. \/ i \in 1..Len(queue) /\ queue'[i] = queue[i]
          \/ queue' = Append(queue, m) /\ queue'[i] = m
      BY <1>1, <1>3, <2>1
    <3>2. QED
      BY <1>3, <2>2, <2>3, <3>1
<1>8. CallShapes(toModem')
  <2>1. \A i \in 1..Len(toModem') : i + 1 \in 1..Len(toModem) /\ toModem'[i] = toModem[i + 1]
    BY <1>2, TailOf
  <2>2. QED
    BY <2>1 DEF AnswerInv, CallShapes
<1>9. QED
  BY <1>6, <1>7, <1>8 DEF AnswerInv

\* A message of the environment.
LEMMA CountPosted ==
  ASSUME TypeOK, NEW m \in Message, Post(m), UNCHANGED mPendingMsgs, UNCHANGED toModem, NEW s
  PROVE  /\ Count(s)' = Count(s) + (IF Reporting(m, s) THEN 1 ELSE 0)
         /\ Count(s) \in Nat
<1>1. /\ queue \in Seq(Flying) /\ m \in Flying
      /\ Num(queue, s) \in Nat /\ Num(mPendingMsgs, s) \in Nat /\ Num(Thens(toModem), s) \in Nat
      /\ Count(s) \in Nat
  BY TypesOfFlying DEF Flying
<1>2. Num(Append(queue, m), s) = Num(queue, s) + (IF Reporting(m, s) THEN 1 ELSE 0)
  <2>1. Num(Append(queue, m), s) = Num(queue, s) + Num(<<m>>, s)
    BY <1>1, NumAppend
  <2>2. Num(<<m>>, s) = IF Reporting(m, s) THEN 1 ELSE 0
    BY <1>1, NumOne
  <2>3. QED
    BY <2>1, <2>2
<1>3. Count(s)' = Num(Append(queue, m), s) + Num(mPendingMsgs, s) + Num(Thens(toModem), s)
  BY DEF Post, Count
<1>4. QED
  BY <1>1, <1>2, <1>3 DEF Count

LEMMA SwitchesPosted ==
  ASSUME TypeOK, SwitchesSucceed, NEW m \in Message, Post(m), m.op # "thenStartDistance"
  PROVE  SwitchesSucceed'
<1>1. queue \in Seq(Message) /\ queue' = Append(queue, m)
  BY DEF TypeOK, Post
<1>2. \A i \in 1..Len(queue') : (i \in 1..Len(queue) /\ queue'[i] = queue[i]) \/ queue'[i] = m
  BY <1>1
<1>3. QED
  BY <1>2 DEF SwitchesSucceed

LEMMA CommandAnswers ==
  ASSUME AnswerInv, Inv', NEW s \in Sessions, NEW m \in Command, m.s = s, Post(m), ClientCalls(s)
  PROVE  AnswerInv'
<1>1. TypeOK /\ owed \in [Sessions -> Int] /\ m \in Message /\ m.op \in CommandOps
  BY DEF AnswerInv, Inv, TypeOK, Message, Command, CommandOps
<1>2. /\ UNCHANGED mPendingMsgs /\ UNCHANGED toModem /\ UNCHANGED mClientData
      /\ UNCHANGED disturbed /\ owed' = [owed EXCEPT ![s] = @ + 1]
      /\ hasty' = IF owed[s] > 0 THEN hasty \cup {s} ELSE hasty
      /\ Owner[s] \in mClientData
  BY DEF ClientCalls, Leaving
<1>3. \A t : Reporting(m, t) <=> t = s
  BY <1>1 DEF Reporting, ResponseOps, CommandOps
<1>4. ASSUME NEW t \in Sessions
      PROVE  /\ Owner[t] \in mClientData' => /\ Count(t)' <= owed'[t]
                                             /\ AllAnswered => Count(t)' = owed'[t]
             /\ ~disturbed' /\ t \notin hasty' => Count(t)' <= 1
  <2>1. Count(t)' = Count(t) + (IF t = s THEN 1 ELSE 0) /\ Count(t) \in Nat
    BY <1>1, <1>2, <1>3, CountPosted
  <2>2. /\ Owner[t] \in mClientData => /\ Count(t) <= owed[t]
                                       /\ AllAnswered => Count(t) = owed[t]
        /\ ~disturbed /\ t \notin hasty => Count(t) <= 1
    BY DEF AnswerInv, Counted
  <2>3. owed[t] \in Int /\ owed'[t] = IF t = s THEN owed[t] + 1 ELSE owed[t]
    BY <1>1, <1>2
  <2>4. CASE t # s
    BY <1>2, <2>1, <2>2, <2>3, <2>4
  <2>5. CASE t = s
    <3>1. t \notin hasty' => ~(owed[t] > 0)
      BY <1>2, <2>5
    <3>2. Count(t)' = Count(t) + 1 /\ owed'[t] = owed[t] + 1 /\ Count(t) <= owed[t]
      BY <1>2, <2>1, <2>2, <2>3, <2>5
    <3>3. QED
      BY <1>2, <2>1, <2>2, <2>3, <2>5, <3>1, <3>2
  <2>6. QED
    BY <2>4, <2>5
<1>5. Counted'
  BY <1>4 DEF Counted
<1>6. SwitchesSucceed'
  BY <1>1, SwitchesPosted DEF AnswerInv, CommandOps
<1>7. QED
  BY <1>2, <1>5, <1>6 DEF AnswerInv

\* The removal of a client is asked for, or the modem comes up.
LEMMA PostAnswers ==
  ASSUME AnswerInv, Inv', NEW m \in Message, m.op \in {"removeClient", "engineUp"}, Post(m),
         UNCHANGED <<mPendingMsgs, toModem, mClientData, owed, hasty, disturbed>>
  PROVE  AnswerInv'
<1>1. TypeOK /\ TypeOK'
  BY DEF AnswerInv, Inv
<1>2. \A s : ~Reporting(m, s)
  BY DEF Reporting, CommandOps, ResponseOps
<1>3. \A s \in Sessions : Count(s)' = Count(s) /\ Count(s) \in Nat
  BY <1>1, <1>2, CountPosted
<1>4. Counted'
  BY <1>1, <1>3, CountedKept
<1>5. SwitchesSucceed'
  BY <1>1, SwitchesPosted DEF AnswerInv
<1>6. QED
  BY <1>4, <1>5 DEF AnswerInv

\* Every step but a handler's is one of these.
Commanded(s, m) ==
  /\ s \in Sessions /\ m \in Command /\ m.s = s /\ Post(m) /\ ClientCalls(s)
  /\ commands < MaxCommands
  /\ \/ m.op = "start" /\ s = mSessionIdCounter + 1 /\ mSessionIdCounter' = s /\ ended' = ended
     \/ /\ m.op = "update" /\ s \in 1..mSessionIdCounter /\ s \notin ended
        /\ mSessionIdCounter' = mSessionIdCounter /\ ended' = ended
     \/ /\ m.op = "stop" /\ s \in 1..mSessionIdCounter /\ s \notin ended
        /\ mSessionIdCounter' = mSessionIdCounter /\ ended' = ended \cup {s}

LEMMA Steps ==
  ASSUME Inv, [Next]_vars
  PROVE  \/ \E s, m : Commanded(s, m)
         \/ \E c \in Clients : RemoveClient(c)
         \/ DeferCommand \/ Handled \/ HandleRemoveClient \/ HandleEngineUp
         \/ ModemAccepts \/ ModemRefuses \/ ModemUp \/ UNCHANGED vars
<1>1. TypeOK /\ mSessionIdCounter \in 0..MaxSessions
  BY DEF Inv, TypeOK
<1>2. CASE ClientStep
  <2>1. ASSUME NEW o \in Options, StartTracking(mSessionIdCounter + 1, o), commands < MaxCommands
        PROVE  \E s, m : Commanded(s, m)
    <3>1. PICK s \in Sessions : s = mSessionIdCounter + 1
      BY <2>1 DEF StartTracking
    <3>2. Commanded(s, Msg("start", s, o))
      BY <2>1, <3>1 DEF StartTracking, Commanded, Msg, Command
    <3>3. QED
      BY <3>2
  <2>2. ASSUME NEW s \in 1..mSessionIdCounter, NEW o \in Options, UpdateTracking(s, o),
               commands < MaxCommands
        PROVE  \E t, m : Commanded(t, m)
    <3>1. s \in Sessions
      BY <1>1, BoundsAssumption DEF Sessions
    <3>2. Commanded(s, Msg("update", s, o))
      BY <2>2, <3>1 DEF UpdateTracking, Commanded, Msg, Command
    <3>3. QED
      BY <3>2
  <2>3. ASSUME NEW s \in 1..mSessionIdCounter, StopTracking(s), commands < MaxCommands
        PROVE  \E t, m : Commanded(t, m)
    <3>1. s \in Sessions
      BY <1>1, BoundsAssumption DEF Sessions
    <3>2. Commanded(s, Msg("stop", s, None))
      BY <2>3, <3>1 DEF StopTracking, Commanded, Msg, Command
    <3>3. QED
      BY <3>2
  <2>4. QED
    BY <1>2, <2>1, <2>2, <2>3 DEF ClientStep
<1>3. HandleSession => Handled
  BY <1>1, SessionHandled
<1>4. QED
  BY <1>2, <1>3 DEF Next, Handle, Modem, HandleSession

LEMMA AnswersInitially == Init => AnswerInv
<1> SUFFICES ASSUME Init
             PROVE  AnswerInv
  OBVIOUS
<1>1. Inv
  BY Initially
<1>2. PICK q \in Seq(Flying) : q = <<>> /\ Len(q) = 0
  <2>1. <<>> \in Seq(Flying) /\ Len(<<>>) = 0
    OBVIOUS
  <2>2. QED
    BY <2>1, Zenon
<1>3. ASSUME NEW s
      PROVE  Num(q, s) = 0
  <2>1. \A i \in 1..Len(q) : ~Reporting(q[i], s)
    BY <1>2
  <2>2. QED
    BY <2>1, NumType
<1>4. \A s : Count(s) = 0
  BY <1>2, <1>3, NumOfCalls DEF Init, Count
<1>5. \A s \in Sessions : owed[s] = 0
  BY DEF Init
<1>6. QED
  BY <1>1, <1>4, <1>5 DEF Init, AnswerInv, Counted, SwitchesSucceed, CallShapes

LEMMA AnswersInductive == AnswerInv /\ [Next]_vars => AnswerInv'
<1> SUFFICES ASSUME AnswerInv, [Next]_vars
             PROVE  AnswerInv'
  OBVIOUS
<1>1. Inv /\ Inv' /\ TypeOK
  BY Inductive DEF AnswerInv, Inv
<1>2. CASE \E s, m : Commanded(s, m)
  BY <1>1, <1>2, CommandAnswers DEF Commanded
<1>3. ASSUME NEW c \in Clients, RemoveClient(c)
      PROVE  AnswerInv'
  <2>1. PICK m \in Message : m.op = "removeClient" /\ Post(m)
    BY <1>3 DEF RemoveClient, Message
  <2>2. UNCHANGED <<mPendingMsgs, toModem, mClientData, owed, hasty, disturbed>>
    BY <1>3 DEF RemoveClient
  <2>3. QED
    BY <1>1, <2>1, <2>2, PostAnswers
<1>4. CASE DeferCommand
  BY <1>1, <1>4, DeferAnswers
<1>5. CASE Handled
  BY <1>1, <1>5, SessionAnswers
<1>6. CASE HandleRemoveClient
  BY <1>1, <1>6, RemoveAnswers
<1>7. CASE HandleEngineUp
  BY <1>1, <1>7, EngineUpAnswers
<1>8. CASE ModemAccepts
  <2>1. Respond(TRUE) /\ UNCHANGED disturbed
    BY <1>8 DEF ModemAccepts
  <2>2. QED
    BY <1>1, <2>1, RespondAnswers
<1>9. CASE ModemRefuses
  <2>1. Respond(FALSE) /\ disturbed' = TRUE /\ Refusal(Head(toModem).call) \in Faults
    BY <1>9 DEF ModemRefuses
  <2>2. QED
    BY <1>1, <2>1, RespondAnswers
<1>10. CASE ModemUp
  <2>1. PICK m \in Message : m.op = "engineUp" /\ Post(m)
    BY <1>10 DEF ModemUp, Message
  <2>2. UNCHANGED <<mPendingMsgs, toModem, mClientData, owed, hasty, disturbed>>
    BY <1>10 DEF ModemUp, clientVars
  <2>3. QED
    BY <1>1, <2>1, <2>2, PostAnswers
<1>11. CASE UNCHANGED vars
  <2>1. UNCHANGED <<queue, mPendingMsgs, toModem, mClientData, owed, hasty, disturbed>>
    BY <1>11 DEF vars, clientVars
  <2>2. \A s : Count(s)' = Count(s)
    BY <2>1 DEF Count
  <2>3. QED
    BY <1>1, <2>1, <2>2 DEF AnswerInv, Counted, SwitchesSucceed
<1>12. QED
  BY <1>1, <1>2, <1>3, <1>4, <1>5, <1>6, <1>7, <1>8, <1>9, <1>10, <1>11, Steps

LEMMA AnswersInvariant == Spec => []AnswerInv
<1>1. QED
  BY AnswersInitially, AnswersInductive, PTL DEF Spec

LEMMA UnderWayCounted ==
  ASSUME TypeOK, NEW s
  PROVE  LET messages == UnderWay
         IN Cardinality({i \in DOMAIN messages : Reporting(messages[i], s)}) = Count(s)
<1>1. queue \in Seq(Flying) /\ mPendingMsgs \in Seq(Flying) /\ toModem \in Seq(ModemCall)
  BY TypesOfFlying
<1>2. Thens(toModem) \in Seq(Flying)
  BY <1>1, ThensOf
<1>3. /\ queue \o mPendingMsgs \in Seq(Flying)
      /\ Num(queue \o mPendingMsgs, s) = Num(queue, s) + Num(mPendingMsgs, s)
  BY <1>1, NumConcat
<1>4. Num((queue \o mPendingMsgs) \o Thens(toModem), s)
        = Num(queue \o mPendingMsgs, s) + Num(Thens(toModem), s)
  BY <1>2, <1>3, NumConcat
<1>5. UnderWay = (queue \o mPendingMsgs) \o Thens(toModem)
  BY DEF UnderWay, Thens
<1>6. QED
  BY <1>3, <1>4, <1>5 DEF Num, Places, Count

\* However a command is deferred, split into several calls of the modem, refused
\* or overtaken by a restart or a removed client, it is never answered twice: no
\* more answers are under way than the client waits for, whatever the modem
\* refuses.
THEOREM NoAnswerTwice ==
  Spec => []\A s \in Sessions : Owner[s] \in mClientData =>
              LET messages == UnderWay
              IN Cardinality({i \in DOMAIN messages : Reporting(messages[i], s)}) <= owed[s]
<1> DEFINE NotMore ==
      \A s \in Sessions : Owner[s] \in mClientData =>
        LET messages == UnderWay
        IN Cardinality({i \in DOMAIN messages : Reporting(messages[i], s)}) <= owed[s]
<1>1. AnswerInv => NotMore
  BY UnderWayCounted DEF AnswerInv, Inv, Counted
<1>2. QED
  BY AnswersInvariant, <1>1, PTL

\* As many answers are under way as the client waits for, provided that every
\* client that starts a session has a tracking or a measurements callback and that
\* the modem refuses no stopDistanceBasedTracking(): in these two cases
\* (GnssAdapter.cpp:2408 and 2656) the code answers nothing.
THEOREM CommandsAreAnswered ==
  ASSUME \A s \in Sessions : Owner[s] \in Listeners, "stopRefused" \notin Faults
  PROVE  Spec => []AnswersMatchCommands
<1>1. AllAnswered
  BY DEF AllAnswered
<1>2. AnswerInv => AnswersMatchCommands
  BY <1>1, UnderWayCounted DEF AnswerInv, Inv, Counted, AnswersMatchCommands
<1>3. QED
  BY AnswersInvariant, <1>2, PTL

-----------------------------------------------------------------------------
(***************************************************************************)
(* What is under way about a session.                                      *)
(***************************************************************************)
SessionOps == CommandOps \cup ResponseOps

Ops(q, s) == {op \in SessionOps : \E i \in 1..Len(q) : q[i].op = op /\ q[i].s = s}

Coming(s) == Ops(queue, s) \cup Ops(mPendingMsgs, s) \cup Ops(Thens(toModem), s)

\* The same without the message that is being handled.
Left(s) == Ops(Tail(queue), s) \cup Ops(mPendingMsgs, s) \cup Ops(Thens(toModem), s)

LEMMA OpsConcat ==
  ASSUME NEW p \in Seq(Flying), NEW q \in Seq(Flying), NEW s
  PROVE  Ops(p \o q, s) = Ops(p, s) \cup Ops(q, s)
<1> DEFINE both == p \o q
<1>1. ASSUME NEW i \in 1..Len(both)
      PROVE  \/ \E j \in 1..Len(p) : both[i] = p[j]
             \/ \E j \in 1..Len(q) : both[i] = q[j]
  BY InConcat
<1>2. /\ Len(p) \in Nat /\ Len(q) \in Nat /\ Len(both) = Len(p) + Len(q)
      /\ \A j \in 1..Len(p) : j \in 1..Len(both) /\ both[j] = p[j]
      /\ \A j \in 1..Len(q) : Len(p) + j \in 1..Len(both) /\ both[Len(p) + j] = q[j]
  OBVIOUS
<1> HIDE DEF both
<1>3. Ops(both, s) \subseteq Ops(p, s) \cup Ops(q, s)
  BY <1>1 DEF Ops
<1>4. Ops(p, s) \subseteq Ops(both, s) /\ Ops(q, s) \subseteq Ops(both, s)
  BY <1>2 DEF Ops
<1>5. QED
  BY <1>3, <1>4 DEF both

LEMMA OpsOne ==
  ASSUME NEW m, NEW s
  PROVE  Ops(<<m>>, s) = IF m.op \in SessionOps /\ m.s = s THEN {m.op} ELSE {}
<1> DEFINE q == <<m>>
<1>1. Len(q) = 1 /\ q[1] = m /\ 1..1 = {1}
  OBVIOUS
<1> HIDE DEF q
<1>2. Ops(q, s) = IF m.op \in SessionOps /\ m.s = s THEN {m.op} ELSE {}
  BY <1>1 DEF Ops
<1>3. QED
  BY <1>2 DEF q

LEMMA OpsTail ==
  ASSUME NEW q \in Seq(Flying), q # <<>>, NEW s
  PROVE  Ops(q, s) = Ops(<<Head(q)>>, s) \cup Ops(Tail(q), s)
<1> DEFINE first == <<Head(q)>>
           rest == Tail(q)
<1>1. first \in Seq(Flying) /\ rest \in Seq(Flying) /\ q = first \o rest
  OBVIOUS
<1> HIDE DEF first, rest
<1>2. Ops(q, s) = Ops(first, s) \cup Ops(rest, s)
  BY <1>1, OpsConcat
<1>3. QED
  BY <1>2 DEF first, rest

LEMMA OpsAppend ==
  ASSUME NEW q \in Seq(Flying), NEW m \in Flying, NEW s
  PROVE  Ops(Append(q, m), s) = Ops(q, s) \cup Ops(<<m>>, s)
<1> DEFINE last == <<m>>
<1>1. last \in Seq(Flying) /\ Append(q, m) = q \o last
  OBVIOUS
<1> HIDE DEF last
<1>2. Ops(Append(q, m), s) = Ops(q, s) \cup Ops(last, s)
  BY <1>1, OpsConcat
<1>3. QED
  BY <1>2 DEF last

LEMMA OpsZero ==
  ASSUME NEW q \in Seq(Flying), NEW s, Num(q, s) = 0
  PROVE  Ops(q, s) \subseteq {"forget", "ignored"}
<1>1. \A i \in 1..Len(q) : ~Reporting(q[i], s)
  BY NumType
<1>2. QED
  BY <1>1 DEF Ops, Reporting, SessionOps

LEMMA OpsOfCalls ==
  ASSUME NEW calls \in Seq(ModemCall), NEW s
  PROVE  /\ \A op \in Ops(Thens(calls), s) :
              \E i \in 1..Len(calls) : calls[i].then.op = op /\ calls[i].then.s = s
         /\ \A i \in 1..Len(calls) :
              calls[i].then.s = s /\ calls[i].then.op \in SessionOps
                => calls[i].then.op \in Ops(Thens(calls), s)
<1>1. Len(Thens(calls)) = Len(calls) /\ \A i \in 1..Len(calls) : Thens(calls)[i] = calls[i].then
  BY ThensOf
<1>2. QED
  BY <1>1 DEF Ops

LEMMA NoOps ==
  ASSUME NEW s
  PROVE  Ops(<<>>, s) = {} /\ Ops(Thens(<<>>), s) = {}
<1>1. PICK calls \in Seq(ModemCall) : calls = <<>> /\ Len(calls) = 0
  <2>1. <<>> \in Seq(ModemCall) /\ Len(<<>>) = 0
    OBVIOUS
  <2>2. QED
    BY <2>1, Zenon
<1>2. Ops(calls, s) = {}
  BY <1>1 DEF Ops
<1>3. Ops(Thens(calls), s) = {}
  <2>1. \A op \in Ops(Thens(calls), s) : \E i \in 1..Len(calls) : calls[i].then.op = op
    BY OpsOfCalls
  <2>2. QED
    BY <1>1, <2>1
<1>4. QED
  BY <1>1, <1>2, <1>3

\* A step that takes the first message of the queue and makes calls.
LEMMA ComingHandled ==
  ASSUME TypeOK, queue # <<>>, queue' = Tail(queue), NEW calls \in Seq(ModemCall), Ask(calls),
         UNCHANGED mPendingMsgs, NEW s
  PROVE  /\ Coming(s) = Ops(<<Head(queue)>>, s) \cup Left(s)
         /\ Coming(s)' = Left(s) \cup Ops(Thens(calls), s)
         /\ Count(s) <= 1 /\ Reporting(Head(queue), s) => Left(s) \subseteq {"forget", "ignored"}
<1>1. /\ queue \in Seq(Flying) /\ mPendingMsgs \in Seq(Flying) /\ toModem \in Seq(ModemCall)
      /\ Num(queue, s) \in Nat /\ Num(mPendingMsgs, s) \in Nat /\ Num(Thens(toModem), s) \in Nat
  BY TypesOfFlying
<1>2. Ops(queue, s) = Ops(<<Head(queue)>>, s) \cup Ops(Tail(queue), s)
  BY <1>1, OpsTail
<1>3. /\ Thens(toModem) \in Seq(Flying) /\ Thens(calls) \in Seq(Flying)
      /\ Thens(toModem \o calls) = Thens(toModem) \o Thens(calls)
  BY <1>1, ThensOf, ThensConcat
<1>4. Ops(Thens(toModem \o calls), s) = Ops(Thens(toModem), s) \cup Ops(Thens(calls), s)
  BY <1>3, OpsConcat
<1>5. Coming(s)' = Ops(Tail(queue), s) \cup Ops(mPendingMsgs, s) \cup Ops(Thens(toModem \o calls), s)
  BY DEF Coming, Ask
<1>6. ASSUME Count(s) <= 1, Reporting(Head(queue), s)
      PROVE  Left(s) \subseteq {"forget", "ignored"}
  <2>1. /\ Head(queue) \in Flying /\ Tail(queue) \in Seq(Flying)
        /\ Num(queue, s) = Num(<<Head(queue)>>, s) + Num(Tail(queue), s)
        /\ Num(<<Head(queue)>>, s) = 1
    BY <1>1, <1>6, NumTail, NumOne
  <2>2. Num(Tail(queue), s) \in Nat
    BY <2>1, NumType
  <2>3. Num(Tail(queue), s) = 0 /\ Num(mPendingMsgs, s) = 0 /\ Num(Thens(toModem), s) = 0
    BY <1>1, <1>6, <2>1, <2>2 DEF Count
  <2>4. QED
    BY <1>1, <1>3, <2>1, <2>3, OpsZero DEF Left
<1>7. QED
  BY <1>2, <1>4, <1>5, <1>6 DEF Coming, Left

LEMMA ComingPosted ==
  ASSUME TypeOK, NEW m \in Message, Post(m), UNCHANGED mPendingMsgs, UNCHANGED toModem, NEW s
  PROVE  Coming(s)' = Coming(s) \cup Ops(<<m>>, s)
<1>1. queue \in Seq(Flying) /\ m \in Flying
  BY TypesOfFlying DEF Flying
<1>2. Ops(Append(queue, m), s) = Ops(queue, s) \cup Ops(<<m>>, s)
  BY <1>1, OpsAppend
<1>3. Coming(s)' = Ops(Append(queue, m), s) \cup Ops(mPendingMsgs, s) \cup Ops(Thens(toModem), s)
  BY DEF Post, Coming
<1>4. QED
  BY <1>2, <1>3 DEF Coming

LEMMA ComingDeferred ==
  ASSUME TypeOK, queue # <<>>, queue' = Tail(queue), UNCHANGED toModem,
         mPendingMsgs' = Append(mPendingMsgs, Head(queue)), NEW s
  PROVE  Coming(s)' = Coming(s)
<1>1. queue \in Seq(Flying) /\ mPendingMsgs \in Seq(Flying) /\ Head(queue) \in Flying
  BY TypesOfFlying, TailOf
<1>2. Ops(queue, s) = Ops(<<Head(queue)>>, s) \cup Ops(Tail(queue), s)
  BY <1>1, OpsTail
<1>3. Ops(Append(mPendingMsgs, Head(queue)), s) = Ops(mPendingMsgs, s) \cup Ops(<<Head(queue)>>, s)
  BY <1>1, OpsAppend
<1>4. Coming(s)' = Ops(Tail(queue), s) \cup Ops(Append(mPendingMsgs, Head(queue)), s)
                     \cup Ops(Thens(toModem), s)
  BY DEF Coming
<1>5. QED
  BY <1>2, <1>3, <1>4 DEF Coming

LEMMA ComingRestarted ==
  ASSUME TypeOK, queue # <<>>, Head(queue).op = "engineUp", queue' = Tail(queue) \o mPendingMsgs,
         mPendingMsgs' = <<>>, NEW calls \in Seq(ModemCall), Ask(calls), NEW s
  PROVE  Coming(s)' = Coming(s) \cup Ops(Thens(calls), s)
<1>1. /\ queue \in Seq(Flying) /\ mPendingMsgs \in Seq(Flying) /\ Tail(queue) \in Seq(Flying)
      /\ toModem \in Seq(ModemCall)
  BY TypesOfFlying, TailOf
<1>2. Ops(queue, s) = Ops(<<Head(queue)>>, s) \cup Ops(Tail(queue), s)
  BY <1>1, OpsTail
<1>3. Ops(<<Head(queue)>>, s) = {}
  <2>1. Head(queue).op \notin SessionOps
    BY DEF SessionOps, CommandOps, ResponseOps
  <2>2. QED
    BY <2>1, OpsOne
<1>4. Ops(Tail(queue) \o mPendingMsgs, s) = Ops(Tail(queue), s) \cup Ops(mPendingMsgs, s)
  <2>1. PICK rest \in Seq(Flying) : rest = Tail(queue)
    BY <1>1, Zenon
  <2>2. Ops(rest \o mPendingMsgs, s) = Ops(rest, s) \cup Ops(mPendingMsgs, s)
    BY <1>1, OpsConcat
  <2>3. QED
    BY <2>1, <2>2
<1>5. /\ Thens(toModem) \in Seq(Flying) /\ Thens(calls) \in Seq(Flying)
      /\ Thens(toModem \o calls) = Thens(toModem) \o Thens(calls)
  BY <1>1, ThensOf, ThensConcat
<1>6. Ops(Thens(toModem \o calls), s) = Ops(Thens(toModem), s) \cup Ops(Thens(calls), s)
  BY <1>5, OpsConcat
<1>7. Coming(s)' = Ops(Tail(queue) \o mPendingMsgs, s) \cup Ops(<<>>, s)
                     \cup Ops(Thens(toModem \o calls), s)
  BY DEF Coming, Ask
<1>8. QED
  BY <1>2, <1>3, <1>4, <1>6, <1>7, NoOps DEF Coming

LEMMA ComingAnswered ==
  ASSUME TypeOK, NEW ok \in BOOLEAN, Respond(ok), NEW s
  PROVE  Coming(s)' = Coming(s)
<1>1. /\ queue \in Seq(Flying) /\ toModem \in Seq(ModemCall) /\ toModem # <<>>
      /\ toModem' = Tail(toModem) /\ mPendingMsgs' = mPendingMsgs
  BY TypesOfFlying DEF Respond
<1>2. PICK then \in Then, m \in Flying :
           /\ then = Head(toModem).then
           /\ \/ then.op = "none" /\ queue' = queue
              \/ /\ then.op # "none" /\ queue' = Append(queue, m) /\ m \in Message
                 /\ m.op = then.op /\ m.s = then.s /\ m.o = then.o /\ m.ok = ok
                 /\ m.op \in ResponseOps
  BY RespondShape
<1>3. /\ Thens(Tail(toModem)) = Tail(Thens(toModem)) /\ Head(Thens(toModem)) = then
      /\ Thens(toModem) # <<>> /\ Thens(toModem) \in Seq(Flying)
  BY <1>1, <1>2, ThensTail, ThensOf
<1>4. Ops(Thens(toModem), s) = Ops(<<then>>, s) \cup Ops(Tail(Thens(toModem)), s)
  BY <1>3, OpsTail
<1>5. Ops(queue', s) = Ops(queue, s) \cup Ops(<<then>>, s)
  <2>1. CASE then.op = "none" /\ queue' = queue
    <3>1. Ops(<<then>>, s) = {}
      <4>1. then.op \notin SessionOps
        BY <2>1 DEF SessionOps, CommandOps, ResponseOps
      <4>2. QED
        BY <4>1, OpsOne
    <3>2. QED
      BY <2>1, <3>1
  <2>2. CASE queue' = Append(queue, m) /\ m.op = then.op /\ m.s = then.s
    <3>1. Ops(<<m>>, s) = Ops(<<then>>, s)
      <4>1. /\ Ops(<<m>>, s) = IF m.op \in SessionOps /\ m.s = s THEN {m.op} ELSE {}
            /\ Ops(<<then>>, s) = IF then.op \in SessionOps /\ then.s = s THEN {then.op} ELSE {}
        BY OpsOne, Zenon
      <4>2. QED
        BY <2>2, <4>1
    <3>2. QED
      BY <1>1, <2>2, <3>1, OpsAppend
  <2>3. QED
    BY <1>2, <2>1, <2>2
<1>6. Coming(s)' = Ops(queue', s) \cup Ops(mPendingMsgs, s) \cup Ops(Tail(Thens(toModem)), s)
  BY <1>1, <1>3 DEF Coming
<1>7. QED
  BY <1>4, <1>5, <1>6 DEF Coming

-----------------------------------------------------------------------------
(***************************************************************************)
(* Where a session is.  A client that waits for its answers has at most    *)
(* one command under way, and how far that command has come says in which  *)
(* of the two maps the session may be.                                     *)
(***************************************************************************)
Known ==
  /\ TimeBased \cup mDistanceBased \cup ended \subseteq 1..mSessionIdCounter
  /\ \A s \in Sessions : Coming(s) # {} => s <= mSessionIdCounter

Quitting(q, clients, j, c) ==
  c \notin clients \/ \E i \in 1..j : q[i].op = "removeClient" /\ q[i].c = c

\* Nothing but a deferred update comes from a client after it was removed.
OnlyDistances ==
  /\ \A j \in 1..Len(mPendingMsgs) : mPendingMsgs[j].o = Distance
  /\ \A j \in 1..Len(queue) :
       queue[j].op = "update" /\ Quitting(queue, mClientData, j, Owner[queue[j].s])
         => queue[j].o = Distance

Placed(s) ==
  /\ s \notin TimeBased \cap mDistanceBased
  /\ Coming(s) \cap {"start", "thenStartTime"} # {}
       => s \notin TimeBased \cup mDistanceBased \cup ended
  /\ "update" \in Coming(s) => s \notin ended
  /\ "stop" \in Coming(s) => s \in ended
  /\ "stopped" \in Coming(s) => s \in ended \ TimeBased
  /\ Coming(s) \cap {"thenStartDistance", "restarted"} # {} => s \notin TimeBased \cup ended
  /\ "forget" \in Coming(s) => /\ s \notin TimeBased /\ Owner[s] \notin mClientData
                               /\ "thenStartTime" \notin Coming(s)
  /\ s \in ended \cap (TimeBased \cup mDistanceBased) => Coming(s) \cap {"stop", "stopped"} # {}

AllPlaced == ~disturbed => \A s \in Sessions \ hasty : Placed(s)

PlaceInv == AnswerInv /\ Known /\ OnlyDistances /\ AllPlaced

\* What the calls of each outcome bring about.
LEMMA MultiplexOps ==
  ASSUME NEW calls \in Seq(ModemCall), NEW s, Multiplexed(calls, s)
  PROVE  Ops(Thens(calls), s) \subseteq {"started", "updated", "fixStopped"}
<1>1. \A i \in 1..Len(calls) :
        calls[i].then.op \in SessionOps => calls[i].then.op \in {"started", "updated", "fixStopped"}
  <2>1. CASE calls = <<>>
    BY <2>1
  <2>2. CASE calls # <<>>
    <3>1. PICK call \in ModemCall :
            calls = <<call>> /\ call.then.op \in {"started", "updated", "fixStopped"}
      BY <2>2 DEF Multiplexed
    <3>2. Len(<<call>>) = 1 /\ <<call>>[1] = call
      OBVIOUS
    <3>3. QED
      BY <3>1, <3>2
  <2>3. QED
    BY <2>1, <2>2
<1>2. ASSUME NEW o \in Ops(Thens(calls), s)
      PROVE  o \in {"started", "updated", "fixStopped"}
  <2>1. o \in SessionOps
    BY DEF Ops
  <2>2. PICK i \in 1..Len(calls) : calls[i].then.op = o
    BY OpsOfCalls
  <2>3. QED
    BY <1>1, <2>1, <2>2
<1>3. QED
  BY <1>2

LEMMA OneCallOps ==
  ASSUME NEW call \in ModemCall, NEW s, call.then.s = s, call.then.op \in SessionOps
  PROVE  Ops(Thens(<<call>>), s) = {call.then.op}
<1>1. PICK calls \in Seq(ModemCall) : calls = <<call>> /\ Len(calls) = 1 /\ calls[1] = call
  <2>1. <<call>> \in Seq(ModemCall) /\ Len(<<call>>) = 1 /\ <<call>>[1] = call
    BY OneCall
  <2>2. QED
    BY <2>1, Zenon
<1>2. 1 \in 1..Len(calls) /\ \A i \in 1..Len(calls) : calls[i] = call
  BY <1>1
<1>3. Ops(Thens(calls), s) = {call.then.op}
  BY <1>2, OpsOfCalls
<1>4. QED
  BY <1>1, <1>3

LEMMA OutcomeOps ==
  ASSUME TypeOK, NEW s, NEW op, NEW calls, Handling(s, op, calls)
  PROVE  LET more == Ops(Thens(calls), s) IN
         /\ \A t \in Sessions \ {s} : Ops(Thens(calls), t) = {}
         /\ \/ Nothing(s, op, calls) /\ more = {}
            \/ Failed(s, op, calls) /\ more = {}
            \/ TimeSaved(s, op, calls) /\ more \subseteq {"started", "updated", "fixStopped"}
            \/ DistanceSaved(s, op, calls) /\ more = {"started"}
            \/ TimeToDistance(s, op, calls)
                 /\ more \subseteq {"started", "updated", "fixStopped", "ignored"}
            \/ DistanceToTime(s, op, calls) /\ more = {"thenStartTime"}
            \/ DistanceAgain(s, op, calls) /\ more = {"thenStartDistance"}
            \/ TimeStopped(s, op, calls) /\ more \subseteq {"started", "updated", "fixStopped"}
            \/ DistanceStopping(s, op, calls) /\ more = {"stopped"}
            \/ DistanceStopped(s, op, calls) /\ more = {}
            \/ DistanceRestarting(s, op, calls) /\ more = {"restarted"}
            \/ DistanceRestarted(s, op, calls) /\ more = {}
<1> DEFINE more == Ops(Thens(calls), s)
<1>1. /\ s \in Sessions /\ mTimeBased \in TimeMap /\ calls \in Seq(ModemCall)
      /\ op \in {"start", "update"} => NewOptions \in Options
  BY SessionOf DEF Handling
<1>2. ASSUME NEW t \in Sessions \ {s}
      PROVE  Ops(Thens(calls), t) = {}
  <2>1. \A i \in 1..Len(calls) : calls[i].then.s = s
    BY OutcomeCalls DEF CallOf
  <2>2. \A o \in Ops(Thens(calls), t) : \E i \in 1..Len(calls) : calls[i].then.s = t
    BY <1>1, OpsOfCalls
  <2>3. QED
    BY <2>1, <2>2
<1>3. calls = <<>> => more = {}
  BY NoOps
<1>4. Multiplexed(calls, s) => more \subseteq {"started", "updated", "fixStopped"}
  BY <1>1, MultiplexOps
<1>5. ASSUME NEW call \in ModemCall, call.then.s = s, call.then.op \in ResponseOps, calls = <<call>>
      PROVE  more = {call.then.op}
  BY <1>5, OneCallOps DEF SessionOps
<1>6. /\ Call("startDistance", s, Distance, "started") \in ModemCall
      /\ Call("startDistance", s, Distance, "ignored") \in ModemCall
      /\ Call("startDistance", s, Distance, "restarted") \in ModemCall
      /\ Call("stopDistance", s, None, "thenStartDistance") \in ModemCall
      /\ Call("stopDistance", s, None, "stopped") \in ModemCall
      /\ NewOptions \in TimeOptions => SwitchToTime(s, NewOptions) \in ModemCall
  BY <1>1, CallTypes, SwitchType DEF Reports, ResponseOps
<1>7. \A call, o, then : /\ Call(call, s, o, then).then.s = s /\ Call(call, s, o, then).then.op = then
                         /\ SwitchToTime(s, o).then.s = s
                         /\ SwitchToTime(s, o).then.op = "thenStartTime"
  BY DEF Call, SwitchToTime, Msg
<1>8. DistanceSaved(s, op, calls) => more = {"started"}
  BY <1>5, <1>6, <1>7 DEF DistanceSaved, ResponseOps
<1>9. DistanceToTime(s, op, calls) => more = {"thenStartTime"}
  BY <1>5, <1>6, <1>7 DEF DistanceToTime, ResponseOps
<1>10. DistanceAgain(s, op, calls) => more = {"thenStartDistance"}
  BY <1>5, <1>6, <1>7 DEF DistanceAgain, ResponseOps
<1>11. DistanceStopping(s, op, calls) => more = {"stopped"}
  BY <1>5, <1>6, <1>7 DEF DistanceStopping, ResponseOps
<1>12. DistanceRestarting(s, op, calls) => more = {"restarted"}
  BY <1>5, <1>6, <1>7 DEF DistanceRestarting, ResponseOps
<1>13. TimeStopped(s, op, calls) => Multiplexed(calls, s)
  BY <1>1, StopMultiplexed DEF TimeStopped
<1>14. ASSUME TimeToDistance(s, op, calls)
       PROVE  more \subseteq {"started", "updated", "fixStopped", "ignored"}
  <2> DEFINE call == Call("startDistance", s, Distance, "ignored")
             first == StopMultiplex(s)
             last == <<call>>
  <2>1. first \in Seq(ModemCall) /\ Multiplexed(first, s)
    BY <1>1, <1>14, StopMultiplexServes, StopMultiplexed DEF TimeToDistance
  <2>2. Ops(Thens(first), s) \subseteq {"started", "updated", "fixStopped"}
    BY <2>1, MultiplexOps
  <2>3. last \in Seq(ModemCall) /\ Ops(Thens(last), s) = {"ignored"}
    BY <1>6, <1>7, OneCall, OneCallOps DEF SessionOps, ResponseOps
  <2>4. calls = first \o last
    BY <1>14 DEF TimeToDistance
  <2> HIDE DEF first, last
  <2>5. /\ Thens(first) \in Seq(Flying) /\ Thens(last) \in Seq(Flying)
        /\ Thens(calls) = Thens(first) \o Thens(last)
    BY <2>1, <2>3, <2>4, ThensOf, ThensConcat
  <2>6. more = Ops(Thens(first), s) \cup Ops(Thens(last), s)
    BY <2>5, OpsConcat
  <2>7. QED
    BY <2>2, <2>3, <2>6
<1>15. Outcome(s, op, calls)
  BY DEF Handling
<1> HIDE DEF more
<1>16. /\ Nothing(s, op, calls) \/ Failed(s, op, calls) \/ DistanceStopped(s, op, calls)
            \/ DistanceRestarted(s, op, calls) => calls = <<>>
       /\ TimeSaved(s, op, calls) => Multiplexed(calls, s)
  BY DEF Nothing, Failed, DistanceStopped, DistanceRestarted, TimeSaved
<1>17. QED
  BY <1>2, <1>3, <1>4, <1>8, <1>9, <1>10, <1>11, <1>12, <1>13, <1>14, <1>15, <1>16 DEF Outcome, more

\* The session of the message that is handled.
LEMMA SessionPlaced ==
  ASSUME PlaceInv, NEW s, NEW op, NEW calls, Handling(s, op, calls), ~disturbed, s \notin hasty
  PROVE  Placed(s)'
<1> DEFINE more == Ops(Thens(calls), s)
<1>1. /\ TypeOK /\ s \in Sessions /\ Receive(op) /\ calls \in Seq(ModemCall) /\ Ask(calls)
      /\ s = Head(queue).s /\ op = Head(queue).op /\ op \in SessionOps
      /\ UNCHANGED mPendingMsgs /\ mClientData' = mClientData /\ ended' = ended
      /\ queue # <<>> /\ queue' = Tail(queue)
  BY DEF PlaceInv, AnswerInv, Inv, Handling, Session, Receive, HandlerUnchanged, clientVars, SessionOps
<1>2. Placed(s)
  BY <1>1 DEF PlaceInv, AllPlaced
<1>3. Count(s) <= 1
  BY <1>1 DEF PlaceInv, AnswerInv, Counted
<1>4. /\ Coming(s) = {op} \cup Left(s) /\ Coming(s)' = Left(s) \cup more
      /\ op \notin {"forget", "ignored"} => Left(s) \subseteq {"forget", "ignored"}
  <2>1. Ops(<<Head(queue)>>, s) = {op}
    BY <1>1, OpsOne
  <2>2. op \notin {"forget", "ignored"} => Reporting(Head(queue), s)
    BY <1>1 DEF Reporting, SessionOps
  <2>3. QED
    BY <1>1, <1>3, <2>1, <2>2, ComingHandled
<1>5. queue \in Seq(Message) /\ 1 \in 1..Len(queue) /\ queue[1] = Head(queue)
  BY <1>1, TailOf DEF TypeOK
<1>6. op \in ResponseOps => Succeeded
  BY <1>1, <1>5 DEF PlaceInv, AnswerInv, Inv, ResponsesSucceed, Succeeded
<1>7. op = "update" /\ Owner[s] \notin mClientData => NewOptions = Distance
  BY <1>1, <1>5 DEF PlaceInv, OnlyDistances, Quitting, NewOptions
<1>8. Distance \notin TimeOptions
  BY OptionsAssumption
<1>9. \/ Nothing(s, op, calls) /\ more = {}
      \/ Failed(s, op, calls) /\ more = {}
      \/ TimeSaved(s, op, calls) /\ more \subseteq {"started", "updated", "fixStopped"}
      \/ DistanceSaved(s, op, calls) /\ more = {"started"}
      \/ TimeToDistance(s, op, calls)
           /\ more \subseteq {"started", "updated", "fixStopped", "ignored"}
      \/ DistanceToTime(s, op, calls) /\ more = {"thenStartTime"}
      \/ DistanceAgain(s, op, calls) /\ more = {"thenStartDistance"}
      \/ TimeStopped(s, op, calls) /\ more \subseteq {"started", "updated", "fixStopped"}
      \/ DistanceStopping(s, op, calls) /\ more = {"stopped"}
      \/ DistanceStopped(s, op, calls) /\ more = {}
      \/ DistanceRestarting(s, op, calls) /\ more = {"restarted"}
      \/ DistanceRestarted(s, op, calls) /\ more = {}
  BY <1>1, OutcomeOps
<1> HIDE DEF more
<1>10. CASE Nothing(s, op, calls) /\ more = {}
  BY <1>1, <1>2, <1>4, <1>10 DEF Nothing, Placed
<1>11. CASE Failed(s, op, calls)
  BY <1>6, <1>11 DEF Failed
<1>12. CASE TimeSaved(s, op, calls) /\ more \subseteq {"started", "updated", "fixStopped"}
  BY <1>1, <1>2, <1>4, <1>12 DEF TimeSaved, Placed
<1>13. CASE DistanceSaved(s, op, calls) /\ more = {"started"}
  BY <1>1, <1>2, <1>4, <1>13 DEF DistanceSaved, Placed
<1>14. CASE /\ TimeToDistance(s, op, calls)
            /\ more \subseteq {"started", "updated", "fixStopped", "ignored"}
  BY <1>1, <1>2, <1>4, <1>14 DEF TimeToDistance, Placed
<1>15. CASE DistanceToTime(s, op, calls) /\ more = {"thenStartTime"}
  BY <1>1, <1>2, <1>4, <1>7, <1>8, <1>15 DEF DistanceToTime, Erased, Placed
<1>16. CASE DistanceAgain(s, op, calls) /\ more = {"thenStartDistance"}
  BY <1>1, <1>2, <1>4, <1>16 DEF DistanceAgain, Placed
<1>17. CASE TimeStopped(s, op, calls) /\ more \subseteq {"started", "updated", "fixStopped"}
  BY <1>1, <1>2, <1>4, <1>17 DEF TimeStopped, Placed
<1>18. CASE DistanceStopping(s, op, calls) /\ more = {"stopped"}
  BY <1>1, <1>2, <1>4, <1>18 DEF DistanceStopping, Placed
<1>19. CASE DistanceStopped(s, op, calls) /\ more = {}
  BY <1>1, <1>2, <1>4, <1>19 DEF DistanceStopped, Erased, Placed
<1>20. CASE DistanceRestarting(s, op, calls) /\ more = {"restarted"}
  BY <1>1, <1>2, <1>4, <1>20 DEF DistanceRestarting, Placed
<1>21. CASE DistanceRestarted(s, op, calls) /\ more = {}
  BY <1>1, <1>2, <1>4, <1>21 DEF DistanceRestarted, Placed
<1>22. QED
  BY <1>9, <1>10, <1>11, <1>12, <1>13, <1>14, <1>15, <1>16, <1>17, <1>18, <1>19, <1>20, <1>21

\* The first message of the queue is handled.
LEMMA DistancesTail ==
  ASSUME TypeOK, OnlyDistances, queue # <<>>, queue' = Tail(queue),
         \/ mPendingMsgs' = mPendingMsgs
         \/ /\ mPendingMsgs' = Append(mPendingMsgs, Head(queue))
            /\ Head(queue).o = Distance /\ Head(queue) \in Command,
         \A c : c \notin mClientData' =>
           c \notin mClientData \/ (Head(queue).op = "removeClient" /\ Head(queue).c = c)
  PROVE  OnlyDistances'
<1>1. queue \in Seq(Message) /\ mPendingMsgs \in Seq(Command)
  BY DEF TypeOK
<1>2. /\ Head(queue) = queue[1] /\ 1 \in 1..Len(queue) /\ Len(queue) \in Nat
      /\ \A j \in 1..Len(queue') : j + 1 \in 1..Len(queue) /\ queue'[j] = queue[j + 1]
  BY <1>1, TailOf
<1>3. ASSUME NEW j \in 1..Len(queue'), NEW c, Quitting(queue', mClientData', j, c)
      PROVE  Quitting(queue, mClientData, j + 1, c)
  <2>1. CASE c \notin mClientData'
    <3>1. 1 \in 1..j + 1
      OBVIOUS
    <3>2. QED
      BY <1>2, <2>1, <3>1 DEF Quitting
  <2>2. CASE \E i \in 1..j : queue'[i].op = "removeClient" /\ queue'[i].c = c
    <3>1. PICK i \in 1..j : queue'[i].op = "removeClient" /\ queue'[i].c = c
      BY <2>2
    <3>2. i \in 1..Len(queue') /\ i + 1 \in 1..j + 1
      <4>1. Len(queue') \in Nat
        BY <1>1
      <4>2. QED
        BY <4>1
    <3>3. QED
      BY <1>2, <3>1, <3>2 DEF Quitting
  <2>3. QED
    BY <1>3, <2>1, <2>2 DEF Quitting
<1>4. \A j \in 1..Len(queue') :
        queue'[j].op = "update" /\ Quitting(queue', mClientData', j, Owner[queue'[j].s]) => queue'[j].o = Distance
  BY <1>2, <1>3 DEF OnlyDistances
<1>5. \A j \in 1..Len(mPendingMsgs') : mPendingMsgs'[j].o = Distance
  <2>1. CASE mPendingMsgs' = mPendingMsgs
    BY <2>1 DEF OnlyDistances
  <2>2. CASE /\ mPendingMsgs' = Append(mPendingMsgs, Head(queue))
             /\ Head(queue).o = Distance /\ Head(queue) \in Command
    <3>1. \A j \in 1..Len(mPendingMsgs') :
            \/ j \in 1..Len(mPendingMsgs) /\ mPendingMsgs'[j] = mPendingMsgs[j]
            \/ mPendingMsgs'[j] = Head(queue)
      BY <1>1, <2>2
    <3>2. QED
      BY <2>2, <3>1 DEF OnlyDistances
  <2>3. QED
    BY <2>1, <2>2
<1>6. QED
  BY <1>4, <1>5 DEF OnlyDistances

\* A message is appended.
LEMMA DistancesPosted ==
  ASSUME TypeOK, OnlyDistances, NEW m \in Message, queue' = queue \/ queue' = Append(queue, m),
         m.op = "update" => ~Leaving(Owner[m.s]),
         UNCHANGED mPendingMsgs, UNCHANGED mClientData
  PROVE  OnlyDistances'
<1>1. queue \in Seq(Message) /\ Len(queue) \in Nat
  BY DEF TypeOK
<1>2. CASE queue' = queue
  BY <1>2 DEF OnlyDistances, Quitting
<1>3. CASE queue' = Append(queue, m)
  <2>1. /\ Len(queue') = Len(queue) + 1 /\ queue'[Len(queue) + 1] = m
        /\ \A j \in 1..Len(queue) : queue'[j] = queue[j]
    BY <1>1, <1>3
  <2>2. ASSUME NEW j \in 1..Len(queue'), queue'[j].op = "update", Quitting(queue', mClientData', j, Owner[queue'[j].s])
        PROVE  queue'[j].o = Distance
    <3>1. CASE j \in 1..Len(queue)
      <4>1. \A i \in 1..j : queue'[i] = queue[i]
        BY <1>1, <2>1, <3>1
      <4>2. Quitting(queue, mClientData, j, Owner[queue[j].s])
        BY <2>1, <2>2, <3>1, <4>1 DEF Quitting
      <4>3. QED
        BY <2>1, <2>2, <3>1, <4>2 DEF OnlyDistances
    <3>2. CASE j = Len(queue) + 1
      <4>1. ~Leaving(Owner[m.s]) /\ queue'[j] = m /\ m.op # "removeClient"
        BY <2>1, <2>2, <3>2
      <4>2. PICK i \in 1..j : queue'[i].op = "removeClient" /\ queue'[i].c = Owner[m.s]
        BY <2>2, <4>1 DEF Quitting, Leaving
      <4>3. i \in 1..Len(queue) /\ queue'[i] = queue[i]
        <5>1. i # Len(queue) + 1
          BY <2>1, <4>1, <4>2
        <5>2. i \in 1..Len(queue)
          BY <1>1, <3>2, <5>1
        <5>3. QED
          BY <2>1, <5>2
      <4>4. QED
        BY <4>1, <4>2, <4>3 DEF Leaving
    <3>3. QED
      BY <1>1, <2>1, <3>1, <3>2
  <2>3. QED
    BY <2>2 DEF OnlyDistances
<1>4. QED
  BY <1>2, <1>3

\* The deferred commands follow those of the queue.
LEMMA DistancesRestarted ==
  ASSUME TypeOK, OnlyDistances, queue # <<>>, queue' = Tail(queue) \o mPendingMsgs,
         mPendingMsgs' = <<>>, UNCHANGED mClientData
  PROVE  OnlyDistances'
<1> DEFINE a == Tail(queue)
           b == mPendingMsgs
<1>1. /\ queue \in Seq(Message) /\ a \in Seq(Message) /\ b \in Seq(Message)
      /\ \A j \in 1..Len(a) : j + 1 \in 1..Len(queue) /\ a[j] = queue[j + 1]
  BY TailOf, TypesOfFlying DEF TypeOK
<1> HIDE DEF a
<1>2. /\ Len(a) \in Nat /\ Len(b) \in Nat /\ Len(a \o b) = Len(a) + Len(b)
      /\ \A j \in 1..Len(a) : (a \o b)[j] = a[j]
      /\ \A j \in Len(a) + 1..Len(a) + Len(b) : (a \o b)[j] = b[j - Len(a)] /\ j - Len(a) \in 1..Len(b)
  BY <1>1
<1>3. queue' = a \o b
  BY DEF a
<1>4. ASSUME NEW j \in 1..Len(queue'), queue'[j].op = "update", Quitting(queue', mClientData', j, Owner[queue'[j].s])
      PROVE  queue'[j].o = Distance
  <2>1. CASE j \in 1..Len(a)
    <3>1. j + 1 \in 1..Len(queue) /\ queue'[j] = queue[j + 1]
      BY <1>1, <1>2, <1>3, <2>1
    <3>2. \A i \in 1..j : i \in 1..Len(a) /\ i + 1 \in 1..j + 1
      BY <1>2, <2>1
    <3>3. \A i \in 1..j : queue'[i] = queue[i + 1]
      BY <1>1, <1>2, <1>3, <3>2
    <3>4. Quitting(queue, mClientData, j + 1, Owner[queue[j + 1].s])
      BY <1>4, <3>1, <3>2, <3>3 DEF Quitting
    <3>5. QED
      BY <1>4, <3>1, <3>4 DEF OnlyDistances
  <2>2. CASE j \in Len(a) + 1..Len(a) + Len(b)
    BY <1>2, <1>3, <2>2 DEF OnlyDistances
  <2>3. j \in 1..Len(a) \/ j \in Len(a) + 1..Len(a) + Len(b)
    <3>1. Len(a) \in Nat /\ Len(b) \in Nat /\ j \in 1..Len(a) + Len(b)
      BY <1>2, <1>3
    <3>2. QED
      BY <3>1
  <2>4. QED
    BY <2>1, <2>2, <2>3
<1>5. \A j \in 1..Len(mPendingMsgs') : mPendingMsgs'[j].o = Distance
  OBVIOUS
<1>6. QED
  BY <1>4, <1>5 DEF OnlyDistances

LEMMA SessionPlaces ==
  ASSUME PlaceInv, AnswerInv', Handled
  PROVE  PlaceInv'
<1>1. PICK s, op, calls : Handling(s, op, calls)
  BY DEF Handled
<1>2. /\ TypeOK /\ TypeOK' /\ s \in Sessions /\ calls \in Seq(ModemCall) /\ Ask(calls)
      /\ s = Head(queue).s /\ op = Head(queue).op /\ op \in SessionOps
      /\ UNCHANGED mPendingMsgs /\ mClientData' = mClientData /\ disturbed' = disturbed
      /\ ended' = ended /\ hasty' = hasty /\ mSessionIdCounter' = mSessionIdCounter
      /\ queue # <<>> /\ queue' = Tail(queue)
  BY <1>1 DEF PlaceInv, AnswerInv, Inv, Handling, Session, Receive, HandlerUnchanged, clientVars,
              SessionOps
<1>3. \A t \in Sessions \ {s} : /\ t \in TimeBased' <=> t \in TimeBased
                                /\ t \in mDistanceBased' <=> t \in mDistanceBased
  BY <1>1 DEF Handling
<1>4. ASSUME NEW t
      PROVE  /\ Coming(t) = Ops(<<Head(queue)>>, t) \cup Left(t)
             /\ Coming(t)' = Left(t) \cup Ops(Thens(calls), t)
  BY <1>2, ComingHandled
<1>5. /\ Ops(<<Head(queue)>>, s) = {op}
      /\ \A t \in Sessions \ {s} : Ops(<<Head(queue)>>, t) = {} /\ Ops(Thens(calls), t) = {}
  BY <1>1, <1>2, OpsOne, OutcomeOps
<1>6. \A t \in Sessions \ {s} : Coming(t)' = Coming(t)
  BY <1>4, <1>5
<1>7. Known'
  <2>1. s <= mSessionIdCounter /\ mSessionIdCounter \in Nat
    <3>1. Coming(s) # {}
      BY <1>4, <1>5
    <3>2. QED
      BY <1>2, <3>1, BoundsAssumption DEF PlaceInv, Known, TypeOK
  <2>2. s \in 1..mSessionIdCounter
    BY <1>2, <2>1, BoundsAssumption DEF Sessions
  <2>3. TimeBased' \subseteq Sessions /\ mDistanceBased' \subseteq Sessions
    BY <1>2 DEF TimeBased, TypeOK
  <2>4. QED
    BY <1>2, <1>3, <1>6, <2>1, <2>2, <2>3 DEF PlaceInv, Known
<1>8. OnlyDistances'
  BY <1>2, DistancesTail DEF PlaceInv
<1>9. AllPlaced'
  <2>1. ASSUME ~disturbed, NEW t \in Sessions \ {s}, t \notin hasty
        PROVE  Placed(t)'
    BY <1>2, <1>3, <1>6, <2>1 DEF PlaceInv, AllPlaced, Placed
  <2>2. ~disturbed /\ s \notin hasty => Placed(s)'
    BY <1>1, SessionPlaced
  <2>3. QED
    BY <1>2, <2>1, <2>2 DEF AllPlaced
<1>10. QED
  BY <1>7, <1>8, <1>9 DEF PlaceInv

\* A step that leaves the maps and what is under way alone, up to the responses
\* that nothing comes of.
LEMMA PlacesKept ==
  ASSUME PlaceInv, TypeOK', UNCHANGED maps, UNCHANGED ended, UNCHANGED hasty,
         UNCHANGED mSessionIdCounter, mClientData' \subseteq mClientData,
         ~disturbed' => ~disturbed,
         \A s \in Sessions : \/ Coming(s)' = Coming(s)
                             \/ s \in mDistanceBased /\ Coming(s)' = Coming(s) \cup {"ignored"}
  PROVE  Known' /\ AllPlaced'
<1>1. TimeBased' = TimeBased /\ mDistanceBased' = mDistanceBased
  BY SetsSame
<1>2. Known'
  <2>1. mDistanceBased \subseteq 1..mSessionIdCounter /\ mSessionIdCounter \in Nat
    BY BoundsAssumption DEF PlaceInv, Known, AnswerInv, Inv, TypeOK
  <2>2. QED
    BY <1>1, <2>1 DEF PlaceInv, Known
<1>3. ASSUME ~disturbed', NEW s \in Sessions \ hasty
      PROVE  Placed(s)'
  <2>1. Placed(s)
    BY <1>3 DEF PlaceInv, AllPlaced
  <2>2. QED
    BY <1>1, <2>1 DEF Placed
<1>4. AllPlaced'
  BY <1>3 DEF AllPlaced
<1>5. QED
  BY <1>2, <1>4

LEMMA DeferPlaces ==
  ASSUME PlaceInv, AnswerInv', DeferCommand
  PROVE  PlaceInv'
<1>1. TypeOK /\ TypeOK'
  BY DEF PlaceInv, AnswerInv, Inv
<1>2. PICK op \in {"start", "update"} : Receive(op)
  BY DEF DeferCommand
<1>3. /\ queue # <<>> /\ queue' = Tail(queue) /\ Head(queue).op = op
      /\ mPendingMsgs' = Append(mPendingMsgs, Head(queue))
      /\ UNCHANGED toModem /\ UNCHANGED mClientData /\ UNCHANGED maps
      /\ UNCHANGED disturbed /\ UNCHANGED hasty /\ UNCHANGED ended /\ UNCHANGED mSessionIdCounter
      /\ Head(queue).o = Distance
  BY <1>2 DEF Receive, DeferCommand, HandlerUnchanged, clientVars, MustWait, NewOptions
<1>4. Head(queue) \in Command
  <2>1. mPendingMsgs' \in Seq(Command) /\ mPendingMsgs \in Seq(Command) /\ Head(queue) \in Message
    BY <1>1, <1>2, Received DEF TypeOK, CommandOps
  <2>2. QED
    BY <1>2, <1>3, <2>1 DEF Message, Response, ResponseOps
<1>5. Known' /\ AllPlaced'
  BY <1>1, <1>3, ComingDeferred, PlacesKept
<1>6. OnlyDistances'
  BY <1>1, <1>3, <1>4, DistancesTail DEF PlaceInv
<1>7. QED
  BY <1>5, <1>6 DEF PlaceInv

LEMMA EngineUpPlaces ==
  ASSUME PlaceInv, AnswerInv', HandleEngineUp
  PROVE  PlaceInv'
<1>1. TypeOK /\ TypeOK'
  BY DEF PlaceInv, AnswerInv, Inv
<1>2. PICK calls \in Seq(ModemCall) :
        Ask(calls) /\ \A i \in 1..Len(calls) : RestartCall(calls[i])
  BY <1>1, RestartCalls
<1>3. /\ queue # <<>> /\ Head(queue).op = "engineUp"
      /\ queue' = Tail(queue) \o mPendingMsgs /\ mPendingMsgs' = <<>>
      /\ UNCHANGED mClientData /\ UNCHANGED maps
      /\ UNCHANGED disturbed /\ UNCHANGED hasty /\ UNCHANGED ended /\ UNCHANGED mSessionIdCounter
  BY DEF HandleEngineUp, HandlerUnchanged, clientVars
<1>4. ASSUME NEW s \in Sessions
      PROVE  \/ Coming(s)' = Coming(s)
             \/ s \in mDistanceBased /\ Coming(s)' = Coming(s) \cup {"ignored"}
  <2>1. Coming(s)' = Coming(s) \cup Ops(Thens(calls), s)
    BY <1>1, <1>2, <1>3, ComingRestarted
  <2>2. ASSUME NEW op \in Ops(Thens(calls), s)
        PROVE  op = "ignored" /\ s \in mDistanceBased
    <3>1. op \in SessionOps
      BY DEF Ops
    <3>2. PICK i \in 1..Len(calls) : calls[i].then.op = op /\ calls[i].then.s = s
      BY OpsOfCalls
    <3>3. QED
      BY <1>2, <3>1, <3>2 DEF RestartCall, SessionOps, CommandOps, ResponseOps
  <2> DEFINE more == Ops(Thens(calls), s)
  <2> HIDE DEF more
  <2>3. more = {} \/ (more = {"ignored"} /\ s \in mDistanceBased)
    <3>1. \A op \in more : op = "ignored" /\ s \in mDistanceBased
      BY <2>2 DEF more
    <3>2. CASE more # {}
      <4>1. PICK op : op \in more
        BY <3>2
      <4>2. QED
        BY <3>1, <4>1
    <3>3. QED
      BY <3>2
  <2> USE DEF more
  <2>4. QED
    BY <2>1, <2>3
<1>5. Known' /\ AllPlaced'
  BY <1>1, <1>3, <1>4, PlacesKept
<1>6. OnlyDistances'
  BY <1>1, <1>3, DistancesRestarted DEF PlaceInv
<1>7. QED
  BY <1>5, <1>6 DEF PlaceInv

LEMMA RespondPlaces ==
  ASSUME PlaceInv, AnswerInv', NEW ok \in BOOLEAN, Respond(ok), ~disturbed' => ~disturbed
  PROVE  PlaceInv'
<1>1. TypeOK /\ TypeOK'
  BY DEF PlaceInv, AnswerInv, Inv
<1>2. /\ UNCHANGED mPendingMsgs /\ UNCHANGED mClientData /\ UNCHANGED maps
      /\ UNCHANGED hasty /\ UNCHANGED ended /\ UNCHANGED mSessionIdCounter
  BY DEF Respond, clientVars
<1>3. Known' /\ AllPlaced'
  BY <1>1, <1>2, ComingAnswered, PlacesKept
<1>4. OnlyDistances'
  <2>1. PICK m : \/ queue' = queue
                 \/ queue' = Append(queue, m) /\ m \in Message /\ m.op \in ResponseOps
    BY <1>1, RespondShape
  <2>2. CASE queue' = queue
    BY <1>2, <2>2 DEF PlaceInv, OnlyDistances, Quitting
  <2>3. CASE queue' = Append(queue, m) /\ m \in Message /\ m.op \in ResponseOps
    <3>1. m.op # "update"
      BY <2>3 DEF ResponseOps
    <3>2. QED
      BY <1>1, <1>2, <2>3, <3>1, DistancesPosted DEF PlaceInv
  <2>4. QED
    BY <2>1, <2>2, <2>3
<1>5. QED
  BY <1>3, <1>4 DEF PlaceInv

LEMMA PostPlaces ==
  ASSUME PlaceInv, AnswerInv', NEW m \in Message, m.op \in {"removeClient", "engineUp"}, Post(m),
         UNCHANGED <<mPendingMsgs, toModem, maps, mClientData, mSessionIdCounter, ended, hasty, disturbed>>
  PROVE  PlaceInv'
<1>1. TypeOK /\ TypeOK'
  BY DEF PlaceInv, AnswerInv, Inv
<1>2. \A s : Ops(<<m>>, s) = {}
  BY OpsOne DEF SessionOps, CommandOps, ResponseOps
<1>3. \A s \in Sessions : Coming(s)' = Coming(s)
  BY <1>1, <1>2, ComingPosted
<1>4. Known' /\ AllPlaced'
  BY <1>1, <1>3, PlacesKept
<1>5. OnlyDistances'
  BY <1>1, DistancesPosted DEF PlaceInv, Post
<1>6. QED
  BY <1>4, <1>5 DEF PlaceInv

LEMMA RemovePlaces ==
  ASSUME PlaceInv, AnswerInv', HandleRemoveClient
  PROVE  PlaceInv'
<1>1. TypeOK /\ TypeOK' /\ Receive("removeClient")
  BY DEF PlaceInv, AnswerInv, Inv, HandleRemoveClient
<1> DEFINE c == Head(queue).c
<1>2. PICK calls \in Seq(ModemCall) :
        Ask(calls) /\ \A i \in 1..Len(calls) : RemovalCall(calls[i], c)
  BY <1>1, RemovalCalls
<1>3. /\ mClientData' = mClientData \ {c} /\ UNCHANGED mPendingMsgs /\ UNCHANGED maps
      /\ UNCHANGED hasty /\ UNCHANGED ended /\ UNCHANGED mSessionIdCounter
      /\ disturbed' = (disturbed \/ TimeBased \cap {s \in Sessions : Owner[s] = c} # {})
      /\ Head(queue).op = "removeClient" /\ queue # <<>> /\ queue' = Tail(queue)
  BY DEF HandleRemoveClient, HandlerUnchanged, clientVars, Receive
<1>4. TimeBased' = TimeBased /\ mDistanceBased' = mDistanceBased
  BY <1>3, SetsSame
<1> HIDE DEF c
<1>5. ASSUME NEW s \in Sessions
      PROVE  /\ Coming(s)' = Coming(s) \cup Ops(Thens(calls), s)
             /\ Ops(Thens(calls), s) # {}
                  => s \in TimeBased \cup mDistanceBased /\ Owner[s] = c
             /\ ~disturbed' /\ Ops(Thens(calls), s) # {}
                  => Ops(Thens(calls), s) = {"forget"} /\ s \in mDistanceBased
  <2>1. Ops(<<Head(queue)>>, s) = {}
    BY <1>3, OpsOne DEF SessionOps, CommandOps, ResponseOps
  <2>2. Coming(s)' = Coming(s) \cup Ops(Thens(calls), s)
    BY <1>1, <1>2, <1>3, <2>1, ComingHandled
  <2>3. ASSUME NEW op \in Ops(Thens(calls), s)
        PROVE  /\ s \in TimeBased \cup mDistanceBased /\ Owner[s] = c
               /\ ~disturbed' => op = "forget" /\ s \in mDistanceBased
    <3>1. PICK i \in 1..Len(calls) : calls[i].then.op = op /\ calls[i].then.s = s
      BY <1>2, OpsOfCalls
    <3>2. RemovalCall(calls[i], c)
      BY <1>2
    <3>3. QED
      BY <1>3, <3>1, <3>2 DEF RemovalCall
  <2>4. QED
    BY <2>2, <2>3
<1>6. Known'
  <2>1. /\ TimeBased \cup mDistanceBased \cup ended \subseteq 1..mSessionIdCounter
        /\ \A s \in Sessions : Coming(s) # {} => s <= mSessionIdCounter
        /\ mSessionIdCounter \in Nat
    BY <1>1, BoundsAssumption DEF PlaceInv, Known, TypeOK
  <2>2. ASSUME NEW s \in Sessions, Coming(s)' # {}
        PROVE  s <= mSessionIdCounter
    <3>1. Coming(s) # {} \/ s \in TimeBased \cup mDistanceBased
      BY <1>5, <2>2
    <3>2. QED
      BY <2>1, <3>1
  <2>3. QED
    BY <1>3, <1>4, <2>1, <2>2 DEF Known
<1>7. AllPlaced'
  <2>1. ASSUME ~disturbed', NEW s \in Sessions \ hasty
        PROVE  Placed(s)'
    <3>1. Placed(s)
      BY <1>3, <2>1 DEF PlaceInv, AllPlaced
    <3>2. \/ Coming(s)' = Coming(s)
          \/ Coming(s)' = Coming(s) \cup {"forget"} /\ s \in mDistanceBased /\ Owner[s] = c
      BY <1>5, <2>1
    <3>3. QED
      BY <1>3, <1>4, <3>1, <3>2 DEF Placed
  <2>2. QED
    BY <1>3, <2>1 DEF AllPlaced
<1>8. OnlyDistances'
  <2>1. \A d : d \notin mClientData' =>
          d \notin mClientData \/ (Head(queue).op = "removeClient" /\ Head(queue).c = d)
    BY <1>3 DEF c
  <2>2. QED
    BY <1>1, <1>3, <2>1, DistancesTail DEF PlaceInv
<1>9. QED
  BY <1>6, <1>7, <1>8 DEF PlaceInv

LEMMA CommandPlaces ==
  ASSUME PlaceInv, AnswerInv', NEW s, NEW m, Commanded(s, m)
  PROVE  PlaceInv'
<1>1. /\ TypeOK /\ TypeOK' /\ s \in Sessions /\ m \in Message /\ m.op \in CommandOps /\ m.s = s
      /\ Post(m) /\ mSessionIdCounter \in Nat
  <2>1. TypeOK /\ TypeOK' /\ s \in Sessions /\ m \in Command /\ m.s = s /\ Post(m)
    BY DEF PlaceInv, AnswerInv, Inv, Commanded
  <2>2. m \in Message /\ m.op \in CommandOps
    BY <2>1 DEF Message, Command, CommandOps
  <2>3. mSessionIdCounter \in Nat
    BY <2>1, BoundsAssumption DEF TypeOK
  <2>4. QED
    BY <2>1, <2>2, <2>3
<1>2. /\ UNCHANGED mPendingMsgs /\ UNCHANGED toModem /\ UNCHANGED mClientData /\ UNCHANGED maps
      /\ UNCHANGED disturbed /\ ~Leaving(Owner[s])
      /\ hasty' = IF owed[s] > 0 THEN hasty \cup {s} ELSE hasty
  BY DEF Commanded, ClientCalls
<1>3. TimeBased' = TimeBased /\ mDistanceBased' = mDistanceBased
  BY <1>2, SetsSame
<1>4. /\ \A t \in Sessions \ {s} : Coming(t)' = Coming(t)
      /\ Coming(s)' = Coming(s) \cup {m.op}
  <2>1. \A t : Coming(t)' = Coming(t) \cup Ops(<<m>>, t)
    BY <1>1, <1>2, ComingPosted
  <2>2. \A t : Ops(<<m>>, t) = IF t = s THEN {m.op} ELSE {}
    BY <1>1, OpsOne DEF SessionOps
  <2>3. QED
    BY <2>1, <2>2
<1>5. \/ m.op = "start" /\ s = mSessionIdCounter + 1 /\ mSessionIdCounter' = s /\ ended' = ended
      \/ /\ m.op = "update" /\ s \in 1..mSessionIdCounter /\ s \notin ended
         /\ mSessionIdCounter' = mSessionIdCounter /\ ended' = ended
      \/ /\ m.op = "stop" /\ s \in 1..mSessionIdCounter /\ s \notin ended
         /\ mSessionIdCounter' = mSessionIdCounter /\ ended' = ended \cup {s}
  BY DEF Commanded
<1>6. Known'
  <2>1. mSessionIdCounter' \in Nat /\ mSessionIdCounter <= mSessionIdCounter' /\ s <= mSessionIdCounter'
    BY <1>1, <1>5
  <2>2. TimeBased \cup mDistanceBased \cup ended \subseteq 1..mSessionIdCounter
        /\ \A t \in Sessions : Coming(t) # {} => t <= mSessionIdCounter
    BY DEF PlaceInv, Known
  <2>3. TimeBased' \cup mDistanceBased' \cup ended' \subseteq 1..mSessionIdCounter'
    BY <1>1, <1>3, <1>5, <2>1, <2>2
  <2>4. \A t \in Sessions : Coming(t)' # {} => t <= mSessionIdCounter'
    <3>1. \A t \in Sessions : t \in Nat
      BY BoundsAssumption DEF Sessions
    <3>2. ASSUME NEW t \in Sessions, Coming(t)' # {}
          PROVE  t <= mSessionIdCounter'
      <4>1. CASE t = s
        BY <2>1, <4>1
      <4>2. CASE t # s
        <5>1. t <= mSessionIdCounter
          BY <1>4, <2>2, <3>2, <4>2
        <5>2. QED
          BY <1>1, <2>1, <3>1, <5>1
      <4>3. QED
        BY <4>1, <4>2
    <3>3. QED
      BY <3>2
  <2>5. QED
    BY <2>3, <2>4 DEF Known
<1>7. AllPlaced'
  <2>1. ASSUME ~disturbed, NEW t \in Sessions \ {s}, t \notin hasty
        PROVE  Placed(t)'
    <3>1. Placed(t)
      BY <2>1 DEF PlaceInv, AllPlaced
    <3>2. Coming(t)' = Coming(t) /\ (t \in ended' <=> t \in ended) /\ mClientData' = mClientData
      BY <1>2, <1>4, <1>5
    <3>3. QED
      BY <1>3, <3>1, <3>2 DEF Placed
  <2>2. ASSUME ~disturbed, s \notin hasty'
        PROVE  Placed(s)'
    <3>1. s \notin hasty /\ ~(owed[s] > 0)
      BY <1>2, <2>2
    <3>2. Placed(s)
      BY <1>1, <2>2, <3>1 DEF PlaceInv, AllPlaced
    <3>3. Coming(s) \subseteq {"forget", "ignored"}
      <4>1. Owner[s] \in mClientData /\ Count(s) <= owed[s]
        BY <1>1, <1>2 DEF Leaving, PlaceInv, AnswerInv, Counted
      <4>2. owed[s] \in Int
        BY <1>1 DEF TypeOK
      <4>3. /\ Num(queue, s) \in Nat /\ Num(mPendingMsgs, s) \in Nat /\ Num(Thens(toModem), s) \in Nat
            /\ queue \in Seq(Flying) /\ mPendingMsgs \in Seq(Flying) /\ toModem \in Seq(ModemCall)
        BY <1>1, TypesOfFlying
      <4>4. Num(queue, s) = 0 /\ Num(mPendingMsgs, s) = 0 /\ Num(Thens(toModem), s) = 0
        BY <3>1, <4>1, <4>2, <4>3 DEF Count
      <4>5. Thens(toModem) \in Seq(Flying)
        BY <4>3, ThensOf
      <4>6. QED
        BY <4>3, <4>4, <4>5, OpsZero DEF Coming
    <3>4. m.op = "start" => s \notin TimeBased \cup mDistanceBased \cup ended /\ Coming(s) = {}
      <4>1. m.op = "start" => ~(s <= mSessionIdCounter)
        BY <1>1, <1>5
      <4>2. QED
        BY <1>1, <4>1 DEF PlaceInv, Known
    <3>5. s \in ended' <=> s \in ended \/ m.op = "stop"
      BY <1>5
    <3>6. m.op \in {"start", "update"} => s \notin ended
      BY <1>5, <3>4
    <3>7. m.op \in {"start", "update", "stop"} /\ mClientData' = mClientData
      BY <1>1, <1>2 DEF CommandOps
    <3> HIDE DEF Coming
    <3>8. QED
      BY <1>3, <1>4, <3>2, <3>3, <3>4, <3>5, <3>6, <3>7 DEF Placed
  <2>3. QED
    BY <1>2, <2>1, <2>2 DEF AllPlaced
<1>8. OnlyDistances'
  BY <1>1, <1>2, DistancesPosted DEF PlaceInv, Post
<1>9. QED
  BY <1>6, <1>7, <1>8 DEF PlaceInv

LEMMA PlacesInitially == Init => PlaceInv
<1> SUFFICES ASSUME Init
             PROVE  PlaceInv
  OBVIOUS
<1>1. AnswerInv
  BY AnswersInitially
<1>2. TimeBased = {} /\ mDistanceBased = {} /\ ended = {} /\ queue = <<>> /\ mPendingMsgs = <<>>
  BY DEF Init, TimeBased
<1>3. \A s : Coming(s) = {}
  BY NoOps DEF Init, Coming
<1>4. QED
  BY <1>1, <1>2, <1>3 DEF PlaceInv, Known, OnlyDistances, AllPlaced, Placed

LEMMA PlacesInductive == PlaceInv /\ [Next]_vars => PlaceInv'
<1> SUFFICES ASSUME PlaceInv, [Next]_vars
             PROVE  PlaceInv'
  OBVIOUS
<1>1. AnswerInv /\ Inv /\ AnswerInv' /\ TypeOK'
  BY AnswersInductive DEF PlaceInv, AnswerInv, Inv
<1>2. CASE \E s, m : Commanded(s, m)
  BY <1>1, <1>2, CommandPlaces
<1>3. ASSUME NEW c \in Clients, RemoveClient(c)
      PROVE  PlaceInv'
  <2>1. PICK m \in Message : m.op = "removeClient" /\ Post(m)
    BY <1>3 DEF RemoveClient, Message
  <2>2. UNCHANGED <<mPendingMsgs, toModem, maps, mClientData, mSessionIdCounter, ended, hasty, disturbed>>
    BY <1>3 DEF RemoveClient
  <2>3. QED
    BY <1>1, <2>1, <2>2, PostPlaces
<1>4. CASE DeferCommand
  BY <1>1, <1>4, DeferPlaces
<1>5. CASE Handled
  BY <1>1, <1>5, SessionPlaces
<1>6. CASE HandleRemoveClient
  BY <1>1, <1>6, RemovePlaces
<1>7. CASE HandleEngineUp
  BY <1>1, <1>7, EngineUpPlaces
<1>8. CASE ModemAccepts
  <2>1. Respond(TRUE) /\ UNCHANGED disturbed
    BY <1>8 DEF ModemAccepts
  <2>2. QED
    BY <1>1, <2>1, RespondPlaces
<1>9. CASE ModemRefuses
  <2>1. Respond(FALSE) /\ disturbed' = TRUE
    BY <1>9 DEF ModemRefuses
  <2>2. QED
    BY <1>1, <2>1, RespondPlaces
<1>10. CASE ModemUp
  <2>1. PICK m \in Message : m.op = "engineUp" /\ Post(m)
    BY <1>10 DEF ModemUp, Message
  <2>2. UNCHANGED <<mPendingMsgs, toModem, maps, mClientData, mSessionIdCounter, ended, hasty, disturbed>>
    BY <1>10 DEF ModemUp, clientVars
  <2>3. QED
    BY <1>1, <2>1, <2>2, PostPlaces
<1>11. CASE UNCHANGED vars
  <2>1. /\ UNCHANGED <<maps, mPendingMsgs, mClientData, queue, toModem, disturbed, mSessionIdCounter,
                       ended, hasty>>
    BY <1>11 DEF vars, clientVars
  <2>2. \A s : Coming(s)' = Coming(s)
    BY <2>1 DEF Coming
  <2>3. Known' /\ AllPlaced'
    BY <1>1, <2>1, <2>2, PlacesKept
  <2>4. QED
    BY <1>1, <2>1, <2>3 DEF PlaceInv, OnlyDistances
<1>12. QED
  BY <1>1, <1>2, <1>3, <1>4, <1>5, <1>6, <1>7, <1>8, <1>9, <1>10, <1>11, Steps

LEMMA PlacesInvariant == Spec => []PlaceInv
<1>1. QED
  BY PlacesInitially, PlacesInductive, PTL DEF Spec

\* A session is in one of the two maps, and in none once it was stopped: for any
\* number of sessions, updates between times and distances, and restarts, for the
\* clients that wait for their answers, up to the first refused call or removed
\* client with time-based sessions.
THEOREM StoppedIsGone == Spec => []StoppedSessionIsGone
<1>1. PlaceInv => StoppedSessionIsGone
  <2> SUFFICES ASSUME PlaceInv, Quiet, ~disturbed, NEW s \in Sessions \ hasty
               PROVE  /\ s \notin TimeBased \cap mDistanceBased
                      /\ s \in ended => s \notin TimeBased \cup mDistanceBased
    BY DEF StoppedSessionIsGone
  <2>1. Placed(s)
    BY DEF PlaceInv, AllPlaced
  <2>2. Coming(s) = {}
    BY NoOps DEF Quiet, Coming
  <2>3. QED
    BY <2>1, <2>2 DEF Placed
<1>2. QED
  BY PlacesInvariant, <1>1, PTL

-----------------------------------------------------------------------------
(***************************************************************************)
(* Without time-based sessions the last call about the fix stops it.       *)
(***************************************************************************)
LastCallStops(calls) ==
  \E i \in 1..Len(calls) :
    calls[i].call = "stopFix" /\ \A j \in 1..Len(calls) : j > i => ~AboutFix(calls[j])

WillBeIdle(calls, fix) ==
  LastCallStops(calls) \/ (fix = None /\ \A j \in 1..Len(calls) : ~AboutFix(calls[j]))

Idle == ~disturbed /\ hasty = {} /\ TimeBased = {} => WillBeIdle(toModem, engine)

IdleInv == PlaceInv /\ Idle

\* More calls after others.
LEMMA LaterCalls ==
  ASSUME NEW a \in Seq(ModemCall), NEW b \in Seq(ModemCall)
  PROVE  /\ \A i \in 1..Len(a) : i \in 1..Len(a \o b) /\ (a \o b)[i] = a[i]
         /\ \A i \in 1..Len(b) : Len(a) + i \in 1..Len(a \o b) /\ (a \o b)[Len(a) + i] = b[i]
         /\ \A j \in 1..Len(a \o b) :
              \/ j \in 1..Len(a) /\ (a \o b)[j] = a[j]
              \/ j > Len(a) /\ j - Len(a) \in 1..Len(b) /\ (a \o b)[j] = b[j - Len(a)]
<1>1. /\ Len(a) \in Nat /\ Len(b) \in Nat /\ Len(a \o b) = Len(a) + Len(b)
      /\ \A i \in 1..Len(a) : (a \o b)[i] = a[i]
      /\ \A i \in Len(a) + 1..Len(a) + Len(b) : (a \o b)[i] = b[i - Len(a)]
  OBVIOUS
<1> DEFINE m == Len(a)
           n == Len(b)
<1>2. m \in Nat /\ n \in Nat
  BY <1>1
<1> HIDE DEF m, n
<1>3. /\ \A i \in 1..m : i \in 1..m + n
      /\ \A i \in 1..n : m + i \in m + 1..m + n /\ m + i - m = i
      /\ \A j \in 1..m + n : j \in 1..m \/ (j > m /\ j - m \in 1..n /\ j \in m + 1..m + n)
      /\ \A j \in m + 1..m + n : j \in 1..m + n
  BY <1>2
<1>4. QED
  BY <1>1, <1>3 DEF m, n

LEMMA IdleMore ==
  ASSUME NEW a \in Seq(ModemCall), NEW b \in Seq(ModemCall), NEW fix,
         \/ LastCallStops(b)
         \/ WillBeIdle(a, fix) /\ \A j \in 1..Len(b) : ~AboutFix(b[j])
  PROVE  WillBeIdle(a \o b, fix)
<1> DEFINE both == a \o b
<1>1. /\ \A i \in 1..Len(a) : i \in 1..Len(both) /\ both[i] = a[i]
      /\ \A i \in 1..Len(b) : Len(a) + i \in 1..Len(both) /\ both[Len(a) + i] = b[i]
      /\ \A j \in 1..Len(both) : \/ j \in 1..Len(a) /\ both[j] = a[j]
                                 \/ j > Len(a) /\ j - Len(a) \in 1..Len(b) /\ both[j] = b[j - Len(a)]
      /\ Len(a) \in Nat
  BY LaterCalls
<1> HIDE DEF both
<1>2. CASE LastCallStops(b)
  <2>1. PICK i \in 1..Len(b) :
          b[i].call = "stopFix" /\ \A j \in 1..Len(b) : j > i => ~AboutFix(b[j])
    BY <1>2 DEF LastCallStops
  <2>2. Len(a) + i \in 1..Len(both) /\ both[Len(a) + i].call = "stopFix"
    BY <1>1, <2>1
  <2>3. ASSUME NEW j \in 1..Len(both), j > Len(a) + i
        PROVE  ~AboutFix(both[j])
    <3>1. j - Len(a) > i /\ ~(j \in 1..Len(a))
      BY <1>1, <2>3
    <3>2. QED
      BY <1>1, <2>1, <3>1
  <2>4. QED
    BY <2>2, <2>3 DEF WillBeIdle, LastCallStops, both
<1>3. CASE LastCallStops(a) /\ \A j \in 1..Len(b) : ~AboutFix(b[j])
  <2>1. PICK i \in 1..Len(a) :
          a[i].call = "stopFix" /\ \A j \in 1..Len(a) : j > i => ~AboutFix(a[j])
    BY <1>3 DEF LastCallStops
  <2>2. i \in 1..Len(both) /\ both[i].call = "stopFix"
    BY <1>1, <2>1
  <2>3. \A j \in 1..Len(both) : j > i => ~AboutFix(both[j])
    BY <1>1, <1>3, <2>1
  <2>4. QED
    BY <2>2, <2>3 DEF WillBeIdle, LastCallStops, both
<1>4. CASE /\ fix = None /\ \A j \in 1..Len(a) : ~AboutFix(a[j])
           /\ \A j \in 1..Len(b) : ~AboutFix(b[j])
  <2>1. \A j \in 1..Len(both) : ~AboutFix(both[j])
    BY <1>1, <1>4
  <2>2. QED
    BY <1>4, <2>1 DEF WillBeIdle, both
<1>5. QED
  BY <1>2, <1>3, <1>4 DEF WillBeIdle

LEMMA IdleTail ==
  ASSUME NEW calls \in Seq(ModemCall), calls # <<>>, NEW fix, WillBeIdle(calls, fix)
  PROVE  WillBeIdle(Tail(calls), FixAfter(Head(calls), fix))
<1> DEFINE rest == Tail(calls)
<1>1. /\ Head(calls) = calls[1] /\ 1 \in 1..Len(calls) /\ Len(calls) \in Nat \ {0}
      /\ Len(rest) = Len(calls) - 1
      /\ \A i \in 1..Len(rest) : i + 1 \in 1..Len(calls) /\ rest[i] = calls[i + 1]
  BY TailOf
<1> HIDE DEF rest
<1>2. CASE LastCallStops(calls)
  <2>1. PICK i \in 1..Len(calls) :
          calls[i].call = "stopFix" /\ \A j \in 1..Len(calls) : j > i => ~AboutFix(calls[j])
    BY <1>2 DEF LastCallStops
  <2>2. CASE i = 1
    <3>1. FixAfter(Head(calls), fix) = None
      BY <1>1, <2>1, <2>2 DEF FixAfter
    <3>2. ASSUME NEW j \in 1..Len(rest)
          PROVE  ~AboutFix(rest[j])
      <4>1. j + 1 \in 1..Len(calls) /\ rest[j] = calls[j + 1] /\ j + 1 > 1
        BY <1>1
      <4>2. QED
        BY <2>1, <2>2, <4>1
    <3>3. QED
      BY <3>1, <3>2 DEF WillBeIdle, rest
  <2>3. CASE i # 1
    <3>1. i - 1 \in 1..Len(rest) /\ rest[i - 1] = calls[i]
      BY <1>1, <2>3
    <3>2. ASSUME NEW j \in 1..Len(rest), j > i - 1
          PROVE  ~AboutFix(rest[j])
      <4>1. j + 1 \in 1..Len(calls) /\ rest[j] = calls[j + 1] /\ j + 1 > i
        BY <1>1, <3>2
      <4>2. QED
        BY <2>1, <4>1
    <3>3. QED
      BY <2>1, <3>1, <3>2 DEF WillBeIdle, LastCallStops, rest
  <2>4. QED
    BY <2>2, <2>3
<1>3. CASE fix = None /\ \A j \in 1..Len(calls) : ~AboutFix(calls[j])
  <2>1. FixAfter(Head(calls), fix) = None
    BY <1>1, <1>3 DEF FixAfter, AboutFix
  <2>2. \A j \in 1..Len(rest) : ~AboutFix(rest[j])
    BY <1>1, <1>3
  <2>3. QED
    BY <2>1, <2>2 DEF WillBeIdle, rest
<1>4. QED
  BY <1>2, <1>3 DEF WillBeIdle

\* A handler that takes the last time-based session stops the fix, and no other
\* handler makes a call about the fix without leaving a session.
LEMMA OutcomeIdle ==
  ASSUME PlaceInv, NEW s, NEW op, NEW calls, Handling(s, op, calls), ~disturbed, hasty = {},
         TimeBased' = {}
  PROVE  \/ LastCallStops(calls)
         \/ TimeBased = {} /\ \A j \in 1..Len(calls) : ~AboutFix(calls[j])
<1>1. /\ TypeOK /\ mTimeBased \in TimeMap /\ s \in Sessions /\ calls \in Seq(ModemCall)
      /\ op = Head(queue).op /\ s = Head(queue).s /\ op \in SessionOps
      /\ queue # <<>> /\ queue' = Tail(queue) /\ Ask(calls) /\ UNCHANGED mPendingMsgs
  BY SessionOf DEF PlaceInv, AnswerInv, Inv, Handling, Session, Receive, SessionOps
<1>2. Placed(s) /\ op \in Coming(s)
  <2>1. op \in Ops(<<Head(queue)>>, s)
    BY <1>1, OpsOne
  <2>2. QED
    BY <1>1, <2>1, ComingHandled DEF PlaceInv, AllPlaced
<1>3. op \in ResponseOps => Succeeded
  <2>1. queue \in Seq(Message) /\ 1 \in 1..Len(queue) /\ queue[1] = Head(queue)
    BY <1>1, TailOf DEF TypeOK
  <2>2. QED
    BY <1>1, <2>1 DEF PlaceInv, AnswerInv, Inv, ResponsesSucceed, Succeeded
<1>4. \A t \in Sessions \ {s} : t \notin TimeBased
  BY DEF Handling
<1>5. TimeBased = {s} \/ TimeBased = {}
  BY <1>1, <1>4 DEF TimeBased
<1>6. CASE calls = <<>> /\ TimeBased = {}
  BY <1>6
<1>7. Outcome(s, op, calls)
  BY DEF Handling
<1>8. CASE Nothing(s, op, calls)
  BY <1>6, <1>8 DEF Nothing
<1>9. CASE Failed(s, op, calls)
  BY <1>3, <1>9 DEF Failed
<1>10. CASE TimeSaved(s, op, calls)
  BY <1>10 DEF TimeSaved
<1>11. CASE TimeToDistance(s, op, calls)
  <2> DEFINE stop == Call("stopFix", s, None, "fixStopped")
             first == <<stop>>
             start == Call("startDistance", s, Distance, "ignored")
             last == <<start>>
  <2>1. s \in TimeBased /\ TimeBased \ {s} = {}
    BY <1>5, <1>11 DEF TimeToDistance
  <2>2. StopMultiplex(s) = first /\ stop \in ModemCall
    BY <1>1, <2>1, StopMultiplexed
  <2>3. start \in ModemCall
    BY <1>1, CallTypes DEF Reports, ResponseOps
  <2>4. stop.call = "stopFix" /\ ~AboutFix(start)
    BY DEF Call, AboutFix
  <2>5. calls = first \o last
    BY <1>11, <2>2 DEF TimeToDistance
  <2> HIDE DEF stop, start
  <2>6. /\ first \in Seq(ModemCall) /\ Len(first) = 1 /\ first[1] = stop
        /\ last \in Seq(ModemCall) /\ Len(last) = 1 /\ last[1] = start
    BY <2>2, <2>3, OneCall
  <2> HIDE DEF first, last
  <2>7. /\ 1 \in 1..Len(calls) /\ calls[1].call = "stopFix"
        /\ \A j \in 1..Len(calls) : j > 1 => ~AboutFix(calls[j])
    <3>1. /\ \A i \in 1..Len(first) : i \in 1..Len(calls) /\ calls[i] = first[i]
          /\ \A j \in 1..Len(calls) :
               \/ j \in 1..Len(first) /\ calls[j] = first[j]
               \/ j > Len(first) /\ j - Len(first) \in 1..Len(last) /\ calls[j] = last[j - Len(first)]
      BY <2>5, <2>6, LaterCalls
    <3>2. 1 \in 1..Len(calls) /\ calls[1] = stop
      BY <2>6, <3>1
    <3>3. ASSUME NEW j \in 1..Len(calls), j > 1
          PROVE  calls[j] = start
      <4>1. j - 1 \in 1..1 /\ calls[j] = last[j - 1]
        BY <2>6, <3>1, <3>3
      <4>2. j - 1 = 1
        BY <4>1
      <4>3. QED
        BY <2>6, <4>1, <4>2
    <3>4. QED
      BY <2>4, <3>2, <3>3
  <2>8. QED
    BY <2>7 DEF LastCallStops
<1>12. CASE TimeStopped(s, op, calls)
  <2> DEFINE stop == Call("stopFix", s, None, "fixStopped")
  <2>1. s \in TimeBased /\ TimeBased \ {s} = {}
    BY <1>5, <1>12 DEF TimeStopped
  <2>2. calls = <<stop>> /\ stop \in ModemCall
    BY <1>1, <1>12, <2>1, StopMultiplexed DEF TimeStopped
  <2>3. stop.call = "stopFix"
    BY DEF Call
  <2> HIDE DEF stop
  <2>4. Len(calls) = 1 /\ calls[1] = stop
    BY <2>2, OneCall
  <2>5. QED
    BY <2>3, <2>4 DEF LastCallStops
<1>13. CASE DistanceStopped(s, op, calls)
  <2>1. s \notin TimeBased
    BY <1>2, <1>13 DEF DistanceStopped, Placed
  <2>2. QED
    BY <1>5, <1>6, <1>13, <2>1 DEF DistanceStopped
<1>14. CASE DistanceRestarted(s, op, calls)
  BY <1>6, <1>14 DEF DistanceRestarted
<1>15. CASE \/ DistanceSaved(s, op, calls) \/ DistanceToTime(s, op, calls)
            \/ DistanceAgain(s, op, calls) \/ DistanceStopping(s, op, calls)
            \/ DistanceRestarting(s, op, calls)
  <2>1. PICK call \in {Call("startDistance", s, Distance, "started"),
                       SwitchToTime(s, NewOptions),
                       Call("stopDistance", s, None, "thenStartDistance"),
                       Call("stopDistance", s, None, "stopped"),
                       Call("startDistance", s, Distance, "restarted")} : calls = <<call>>
    BY <1>15 DEF DistanceSaved, DistanceToTime, DistanceAgain, DistanceStopping, DistanceRestarting
  <2>2. ~AboutFix(call)
    BY DEF Call, SwitchToTime, AboutFix
  <2>3. TimeBased = {}
    <3>1. DistanceToTime(s, op, calls) => s \notin TimeBased
      BY <1>2 DEF DistanceToTime, Placed
    <3>2. QED
      BY <1>5, <1>15, <3>1
         DEF DistanceSaved, DistanceToTime, DistanceAgain, DistanceStopping, DistanceRestarting
  <2>4. Len(<<call>>) = 1 /\ <<call>>[1] = call
    OBVIOUS
  <2>5. QED
    BY <2>1, <2>2, <2>3, <2>4
<1>16. QED
  BY <1>7, <1>8, <1>9, <1>10, <1>11, <1>12, <1>13, <1>14, <1>15 DEF Outcome

LEMMA IdleInductive == IdleInv /\ [Next]_vars => IdleInv'
<1> SUFFICES ASSUME IdleInv, [Next]_vars
             PROVE  IdleInv'
  OBVIOUS
<1>1. PlaceInv /\ PlaceInv' /\ Inv /\ TypeOK /\ toModem \in Seq(ModemCall)
  BY PlacesInductive DEF IdleInv, PlaceInv, AnswerInv, Inv, TypeOK
<1> SUFFICES ASSUME ~disturbed', hasty' = {}, TimeBased' = {}
             PROVE  WillBeIdle(toModem', engine')
  BY <1>1 DEF IdleInv, Idle
<1>2. ASSUME ~disturbed, hasty = {}, TimeBased = {}
      PROVE  WillBeIdle(toModem, engine)
  BY <1>2 DEF IdleInv, Idle
<1>3. CASE \E s, m : Commanded(s, m)
  <2>1. /\ hasty = {} /\ UNCHANGED toModem /\ UNCHANGED engine /\ UNCHANGED disturbed
        /\ UNCHANGED maps
    BY <1>3 DEF Commanded, ClientCalls, modemVars
  <2>2. QED
    BY <1>2, <2>1, SetsSame
<1>4. CASE (\E c \in Clients : RemoveClient(c)) \/ DeferCommand
  <2>1. /\ UNCHANGED hasty /\ UNCHANGED toModem /\ UNCHANGED engine /\ UNCHANGED disturbed
        /\ UNCHANGED maps
    BY <1>4 DEF RemoveClient, DeferCommand, HandlerUnchanged, clientVars, modemVars
  <2>2. QED
    BY <1>2, <2>1, SetsSame
<1>5. CASE Handled
  <2>1. PICK s, op, calls : Handling(s, op, calls)
    BY <1>5 DEF Handled
  <2>2. /\ calls \in Seq(ModemCall) /\ toModem' = toModem \o calls /\ engine' = engine
        /\ disturbed' = disturbed /\ hasty' = hasty
    BY <2>1 DEF Handling, Ask, HandlerUnchanged, clientVars, modemVars
  <2>3. \/ LastCallStops(calls)
        \/ TimeBased = {} /\ \A j \in 1..Len(calls) : ~AboutFix(calls[j])
    BY <1>1, <2>1, <2>2, OutcomeIdle
  <2>4. QED
    BY <1>1, <1>2, <2>2, <2>3, IdleMore
<1>6. CASE HandleRemoveClient
  <2>1. PICK calls \in Seq(ModemCall) :
          Ask(calls) /\ \A i \in 1..Len(calls) : RemovalCall(calls[i], Head(queue).c)
    BY <1>1, <1>6, RemovalCalls
  <2>2. /\ UNCHANGED maps /\ UNCHANGED hasty /\ UNCHANGED engine /\ ~disturbed
        /\ toModem' = toModem \o calls
    BY <1>6, <2>1 DEF HandleRemoveClient, HandlerUnchanged, clientVars, modemVars, Ask
  <2>3. TimeBased = {}
    BY <2>2, SetsSame
  <2>4. \A i \in 1..Len(calls) : ~AboutFix(calls[i])
    BY <2>1, <2>3 DEF RemovalCall, AboutFix
  <2>5. QED
    BY <1>1, <1>2, <2>2, <2>3, <2>4, IdleMore
<1>7. CASE HandleEngineUp
  <2>1. PICK calls \in Seq(ModemCall) :
          Ask(calls) /\ \A i \in 1..Len(calls) : RestartCall(calls[i])
    BY <1>1, <1>7, RestartCalls
  <2>2. /\ UNCHANGED maps /\ UNCHANGED hasty /\ UNCHANGED engine /\ ~disturbed
        /\ toModem' = toModem \o calls
    BY <1>7, <2>1 DEF HandleEngineUp, HandlerUnchanged, clientVars, modemVars, Ask
  <2>3. TimeBased = {}
    BY <2>2, SetsSame
  <2>4. \A i \in 1..Len(calls) : ~AboutFix(calls[i])
    BY <2>1, <2>3 DEF RestartCall, AboutFix
  <2>5. QED
    BY <1>1, <1>2, <2>2, <2>3, <2>4, IdleMore
<1>8. CASE ModemAccepts
  <2>1. /\ Respond(TRUE) /\ UNCHANGED disturbed /\ UNCHANGED maps /\ UNCHANGED hasty
        /\ toModem # <<>> /\ toModem' = Tail(toModem)
    BY <1>8 DEF ModemAccepts, Respond, clientVars
  <2>2. engine' = FixAfter(Head(toModem), engine)
    BY <1>8 DEF ModemAccepts, FixAfter
  <2>3. WillBeIdle(toModem, engine)
    BY <1>2, <2>1, SetsSame
  <2>4. QED
    BY <1>1, <2>1, <2>2, <2>3, IdleTail
<1>9. CASE ModemRefuses
  BY <1>9 DEF ModemRefuses
<1>10. CASE ModemUp
  <2>1. /\ UNCHANGED disturbed /\ UNCHANGED maps /\ UNCHANGED hasty
        /\ toModem' = toModem /\ engine' = None
    BY <1>10 DEF ModemUp, clientVars
  <2>2. WillBeIdle(toModem, engine)
    BY <1>2, <2>1, SetsSame
  <2>3. QED
    BY <2>1, <2>2 DEF WillBeIdle
<1>11. CASE UNCHANGED vars
  <2>1. /\ UNCHANGED hasty /\ UNCHANGED toModem /\ UNCHANGED engine /\ UNCHANGED disturbed
        /\ UNCHANGED maps
    BY <1>11 DEF vars, clientVars, modemVars
  <2>2. QED
    BY <1>2, <2>1, SetsSame
<1>12. QED
  BY <1>1, <1>3, <1>4, <1>5, <1>6, <1>7, <1>8, <1>9, <1>10, <1>11, Steps

LEMMA IdleInitially == Init => IdleInv
<1>1. Init => WillBeIdle(toModem, engine)
  BY DEF Init, WillBeIdle
<1>2. QED
  BY <1>1, PlacesInitially DEF IdleInv, Idle

\* When nothing is under way and there is no time-based session, the modem runs no
\* fix: for any number of sessions and restarts, up to the first refused call or
\* removed client with time-based sessions, if every client has waited for its
\* answers.
THEOREM NoFixWithoutSessions == Spec => []NoSessionNoFix
<1>1. IdleInv => NoSessionNoFix
  <2> SUFFICES ASSUME IdleInv, Quiet, ~disturbed, TimeBased \cup hasty = {}
               PROVE  engine = None
    BY DEF NoSessionNoFix
  <2>1. WillBeIdle(toModem, engine)
    BY DEF IdleInv, Idle
  <2>2. toModem = <<>>
    BY DEF Quiet
  <2>3. QED
    BY <2>1, <2>2 DEF WillBeIdle, LastCallStops
<1>2. QED
  BY IdleInitially, IdleInductive, <1>1, PTL DEF Spec

-----------------------------------------------------------------------------
(***************************************************************************)
(* The modem tracks the distance-based sessions, or will: no stop follows  *)
(* the last start, or the modem has come up since and all are restarted,   *)
(* or the message that starts or takes the session is under way.           *)
(***************************************************************************)
Starts(call, s) == call.call = "startDistance" /\ call.then.s = s
Stops(call, s)  == call.call = "stopDistance" /\ call.then.s = s

WillTrack(calls, tracked, s) ==
  \/ \E i \in 1..Len(calls) :
       Starts(calls[i], s) /\ \A j \in 1..Len(calls) : j > i => ~Stops(calls[j], s)
  \/ s \in tracked /\ \A j \in 1..Len(calls) : ~Stops(calls[j], s)

Excuse(m, s) == m.op \in {"thenStartDistance", "stopped", "forget"} /\ m.s = s

\* Once the first i messages are handled.
SafeFrom(i, s) ==
  \/ WillTrack(toModem, engineDistance, s)
  \/ \E j \in 1..Len(queue) : j > i /\ (queue[j].op = "engineUp" \/ Excuse(queue[j], s))
  \/ \E j \in 1..Len(toModem) : Excuse(toModem[j].then, s)

Tracked(s) ==
  /\ s \in mDistanceBased => SafeFrom(0, s)
  /\ \A i \in 1..Len(queue) : queue[i].op = "restarted" /\ queue[i].s = s => SafeFrom(i, s)

AllTracked == ~disturbed => \A s \in Sessions \ hasty : Tracked(s)

TrackInv == PlaceInv /\ AllTracked

LEMMA TrackMore ==
  ASSUME NEW a \in Seq(ModemCall), NEW b \in Seq(ModemCall), NEW tracked, NEW s,
         \A j \in 1..Len(b) : ~Stops(b[j], s),
         WillTrack(a, tracked, s) \/ \E i \in 1..Len(b) : Starts(b[i], s)
  PROVE  WillTrack(a \o b, tracked, s)
<1> DEFINE both == a \o b
<1>1. /\ \A i \in 1..Len(a) : i \in 1..Len(both) /\ both[i] = a[i]
      /\ \A i \in 1..Len(b) : Len(a) + i \in 1..Len(both) /\ both[Len(a) + i] = b[i]
      /\ \A j \in 1..Len(both) : \/ j \in 1..Len(a) /\ both[j] = a[j]
                                 \/ j > Len(a) /\ j - Len(a) \in 1..Len(b) /\ both[j] = b[j - Len(a)]
      /\ Len(a) \in Nat
  BY LaterCalls
<1> HIDE DEF both
<1>2. CASE \E i \in 1..Len(b) : Starts(b[i], s)
  <2>1. PICK i \in 1..Len(b) : Starts(b[i], s)
    BY <1>2
  <2>2. Len(a) + i \in 1..Len(both) /\ Starts(both[Len(a) + i], s)
    BY <1>1, <2>1
  <2>3. ASSUME NEW j \in 1..Len(both), j > Len(a) + i
        PROVE  ~Stops(both[j], s)
    <3>1. ~(j \in 1..Len(a))
      BY <1>1, <2>3
    <3>2. QED
      BY <1>1, <3>1
  <2>4. QED
    BY <2>2, <2>3 DEF WillTrack, both
<1>3. CASE \E i \in 1..Len(a) :
             Starts(a[i], s) /\ \A j \in 1..Len(a) : j > i => ~Stops(a[j], s)
  <2>1. PICK i \in 1..Len(a) :
          Starts(a[i], s) /\ \A j \in 1..Len(a) : j > i => ~Stops(a[j], s)
    BY <1>3
  <2>2. i \in 1..Len(both) /\ Starts(both[i], s)
    BY <1>1, <2>1
  <2>3. \A j \in 1..Len(both) : j > i => ~Stops(both[j], s)
    BY <1>1, <2>1
  <2>4. QED
    BY <2>2, <2>3 DEF WillTrack, both
<1>4. CASE s \in tracked /\ \A j \in 1..Len(a) : ~Stops(a[j], s)
  <2>1. \A j \in 1..Len(both) : ~Stops(both[j], s)
    BY <1>1, <1>4
  <2>2. QED
    BY <1>4, <2>1 DEF WillTrack, both
<1>5. QED
  BY <1>2, <1>3, <1>4 DEF WillTrack

TrackedAfter(call, tracked) ==
  CASE call.call = "startDistance" -> tracked \cup {call.then.s}
    [] call.call = "stopDistance"  -> tracked \ {call.then.s}
    [] OTHER -> tracked

LEMMA TrackTail ==
  ASSUME NEW calls \in Seq(ModemCall), calls # <<>>, NEW tracked, NEW s,
         WillTrack(calls, tracked, s)
  PROVE  WillTrack(Tail(calls), TrackedAfter(Head(calls), tracked), s)
<1> DEFINE rest == Tail(calls)
           after == TrackedAfter(Head(calls), tracked)
<1>1. /\ Head(calls) = calls[1] /\ 1 \in 1..Len(calls) /\ Len(calls) \in Nat \ {0}
      /\ Len(rest) = Len(calls) - 1
      /\ \A i \in 1..Len(rest) : i + 1 \in 1..Len(calls) /\ rest[i] = calls[i + 1]
  BY TailOf
<1> HIDE DEF rest
<1>2. CASE \E i \in 1..Len(calls) :
             Starts(calls[i], s) /\ \A j \in 1..Len(calls) : j > i => ~Stops(calls[j], s)
  <2>1. PICK i \in 1..Len(calls) :
          Starts(calls[i], s) /\ \A j \in 1..Len(calls) : j > i => ~Stops(calls[j], s)
    BY <1>2
  <2>2. CASE i = 1
    <3>1. s \in after
      BY <1>1, <2>1, <2>2 DEF TrackedAfter, Starts
    <3>2. ASSUME NEW j \in 1..Len(rest)
          PROVE  ~Stops(rest[j], s)
      <4>1. j + 1 \in 1..Len(calls) /\ rest[j] = calls[j + 1] /\ j + 1 > 1
        BY <1>1
      <4>2. QED
        BY <2>1, <2>2, <4>1
    <3>3. QED
      BY <3>1, <3>2 DEF WillTrack, rest
  <2>3. CASE i # 1
    <3>1. i - 1 \in 1..Len(rest) /\ rest[i - 1] = calls[i]
      BY <1>1, <2>3
    <3>2. ASSUME NEW j \in 1..Len(rest), j > i - 1
          PROVE  ~Stops(rest[j], s)
      <4>1. j + 1 \in 1..Len(calls) /\ rest[j] = calls[j + 1] /\ j + 1 > i
        BY <1>1, <3>2
      <4>2. QED
        BY <2>1, <4>1
    <3>3. QED
      BY <2>1, <3>1, <3>2 DEF WillTrack, rest
  <2>4. QED
    BY <2>2, <2>3
<1>3. CASE s \in tracked /\ \A j \in 1..Len(calls) : ~Stops(calls[j], s)
  <2>1. s \in after
    BY <1>1, <1>3 DEF TrackedAfter, Stops
  <2>2. \A j \in 1..Len(rest) : ~Stops(rest[j], s)
    BY <1>1, <1>3
  <2>3. QED
    BY <2>1, <2>2 DEF WillTrack, rest
<1>4. QED
  BY <1>2, <1>3 DEF WillTrack

\* The first message is taken, others may follow, and calls are made that do not
\* stop s.
LEMMA SafeTail ==
  ASSUME TypeOK, queue # <<>>, NEW more \in Seq(Message), queue' = Tail(queue) \o more,
         NEW calls \in Seq(ModemCall), Ask(calls), engineDistance' = engineDistance,
         NEW s, \A j \in 1..Len(calls) : ~Stops(calls[j], s),
         NEW i \in Nat, SafeFrom(i + 1, s)
  PROVE  SafeFrom(i, s)'
<1> DEFINE a == Tail(queue)
<1>1. /\ queue \in Seq(Message) /\ a \in Seq(Message) /\ Len(a) = Len(queue) - 1
      /\ toModem \in Seq(ModemCall) /\ toModem' = toModem \o calls
      /\ Len(queue) \in Nat \ {0}
  BY TailOf DEF TypeOK, Ask
<1>2. \A j \in 1..Len(queue) : j > i + 1 => j - 1 \in 1..Len(a) /\ a[j - 1] = queue[j] /\ j - 1 > i
  <2>1. \A k \in 1..Len(a) : a[k] = queue[k + 1]
    BY <1>1, TailOf
  <2> HIDE DEF a
  <2>2. ASSUME NEW j \in 1..Len(queue), j > i + 1
        PROVE  j - 1 \in 1..Len(a) /\ a[j - 1] = queue[j] /\ j - 1 > i
    <3>1. j - 1 \in 1..Len(a) /\ j - 1 > i /\ (j - 1) + 1 = j
      BY <1>1, <2>2
    <3>2. QED
      BY <2>1, <3>1
  <2>3. QED
    BY <2>2
<1>3. \A j \in 1..Len(a) : j \in 1..Len(queue') /\ queue'[j] = a[j]
  BY <1>1
<1> HIDE DEF a
<1>4. CASE WillTrack(toModem, engineDistance, s)
  BY <1>1, <1>4, TrackMore DEF SafeFrom
<1>5. CASE \E j \in 1..Len(queue) : j > i + 1 /\ (queue[j].op = "engineUp" \/ Excuse(queue[j], s))
  <2>1. PICK j \in 1..Len(queue) : j > i + 1 /\ (queue[j].op = "engineUp" \/ Excuse(queue[j], s))
    BY <1>5
  <2>2. j - 1 \in 1..Len(queue') /\ queue'[j - 1] = queue[j] /\ j - 1 > i
    BY <1>2, <1>3, <2>1
  <2>3. QED
    BY <2>1, <2>2 DEF SafeFrom
<1>6. CASE \E j \in 1..Len(toModem) : Excuse(toModem[j].then, s)
  <2>1. \A j \in 1..Len(toModem) : j \in 1..Len(toModem') /\ toModem'[j] = toModem[j]
    BY <1>1, LaterCalls
  <2>2. QED
    BY <1>6, <2>1 DEF SafeFrom
<1>7. QED
  BY <1>4, <1>5, <1>6 DEF SafeFrom

\* Nothing is taken.
LEMMA SafeAppend ==
  ASSUME TypeOK, NEW m \in Message, queue' = queue \/ queue' = Append(queue, m),
         UNCHANGED toModem, engineDistance' = engineDistance,
         NEW s, NEW i, SafeFrom(i, s)
  PROVE  SafeFrom(i, s)'
<1>1. queue \in Seq(Message) /\ Len(queue) \in Nat
  BY DEF TypeOK
<1>2. \A j \in 1..Len(queue) : j \in 1..Len(queue') /\ queue'[j] = queue[j]
  <2>1. CASE queue' = queue
    BY <2>1
  <2>2. CASE queue' = Append(queue, m)
    <3>1. Len(queue') = Len(queue) + 1 /\ \A j \in 1..Len(queue) : queue'[j] = queue[j]
      BY <1>1, <2>2
    <3>2. QED
      BY <1>1, <3>1
  <2>3. QED
    BY <2>1, <2>2
<1>3. QED
  BY <1>2 DEF SafeFrom

\* Whatever is in the queue, the modem will track s.
LEMMA SafeAnyway ==
  ASSUME NEW s, \/ WillTrack(toModem', engineDistance', s)
                \/ \E j \in 1..Len(toModem') : Excuse(toModem'[j].then, s)
  PROVE  \A i : SafeFrom(i, s)'
BY DEF SafeFrom

LEMMA TrackedAnyway ==
  ASSUME NEW s, \/ WillTrack(toModem', engineDistance', s)
                \/ \E j \in 1..Len(toModem') : Excuse(toModem'[j].then, s)
  PROVE  Tracked(s)'
BY SafeAnyway DEF Tracked

\* The first message is handled by calls that do not stop s.
LEMMA TrackedTail ==
  ASSUME TypeOK, queue # <<>>, queue' = Tail(queue), NEW calls \in Seq(ModemCall), Ask(calls),
         engineDistance' = engineDistance,
         NEW s, \A j \in 1..Len(calls) : ~Stops(calls[j], s), Tracked(s),
         s \in mDistanceBased' => SafeFrom(1, s)
  PROVE  Tracked(s)'
<1>1. PICK none \in Seq(Message) : none = <<>>
  <2>1. <<>> \in Seq(Message)
    OBVIOUS
  <2>2. QED
    BY <2>1, Zenon
<1>2. queue' = Tail(queue) \o none /\ queue \in Seq(Message)
  BY <1>1 DEF TypeOK
<1>3. \A i \in Nat : SafeFrom(i + 1, s) => SafeFrom(i, s)'
  BY <1>2, SafeTail
<1>4. s \in mDistanceBased' => SafeFrom(0, s)'
  <2>1. 0 + 1 = 1 /\ 0 \in Nat
    OBVIOUS
  <2>2. QED
    BY <1>3, <2>1
<1>5. ASSUME NEW i \in 1..Len(queue'), queue'[i].op = "restarted", queue'[i].s = s
      PROVE  SafeFrom(i, s)'
  <2>1. i + 1 \in 1..Len(queue) /\ queue'[i] = queue[i + 1] /\ i \in Nat
    BY <1>2, TailOf
  <2>2. SafeFrom(i + 1, s)
    BY <1>5, <2>1 DEF Tracked
  <2>3. QED
    BY <1>3, <2>1, <2>2
<1>6. QED
  BY <1>4, <1>5 DEF Tracked

\* A message that neither restarts nor excuses s can be handled.
LEMMA SafeWithout ==
  ASSUME TypeOK, NEW s, SafeFrom(0, s), queue # <<>>, Head(queue).op # "engineUp",
         ~Excuse(Head(queue), s)
  PROVE  SafeFrom(1, s)
<1>1. queue[1] = Head(queue) /\ Len(queue) \in Nat
  BY DEF TypeOK
<1>2. \A j \in 1..Len(queue) : j > 0 /\ (queue[j].op = "engineUp" \/ Excuse(queue[j], s)) => j > 1
  BY <1>1
<1>3. QED
  BY <1>2 DEF SafeFrom

LEMMA OneCallDoes ==
  ASSUME NEW call, NEW s
  PROVE  /\ (\A j \in 1..Len(<<call>>) : ~Stops(<<call>>[j], s)) <=> ~Stops(call, s)
         /\ (\E j \in 1..Len(<<call>>) : Starts(<<call>>[j], s)) <=> Starts(call, s)
<1> DEFINE calls == <<call>>
<1>1. Len(calls) = 1 /\ calls[1] = call /\ 1..1 = {1}
  OBVIOUS
<1> HIDE DEF calls
<1>2. /\ (\A j \in 1..Len(calls) : ~Stops(calls[j], s)) <=> ~Stops(call, s)
      /\ (\E j \in 1..Len(calls) : Starts(calls[j], s)) <=> Starts(call, s)
  BY <1>1
<1>3. QED
  BY <1>2 DEF calls

LEMMA SessionTracked ==
  ASSUME TrackInv, NEW s, NEW op, NEW calls, Handling(s, op, calls), ~disturbed, s \notin hasty
  PROVE  Tracked(s)'
<1>1. /\ TypeOK /\ mTimeBased \in TimeMap /\ s \in Sessions /\ calls \in Seq(ModemCall)
      /\ op = Head(queue).op /\ s = Head(queue).s /\ op \in SessionOps
      /\ queue # <<>> /\ queue' = Tail(queue) /\ Ask(calls) /\ UNCHANGED mPendingMsgs
      /\ engineDistance' = engineDistance /\ toModem \in Seq(ModemCall)
      /\ toModem' = toModem \o calls
  BY SessionOf DEF TrackInv, PlaceInv, AnswerInv, Inv, Handling, Session, Receive, SessionOps,
                   HandlerUnchanged, modemVars, Ask
<1>2. /\ Placed(s) /\ Tracked(s) /\ Coming(s) = {op} \cup Left(s)
      /\ op \notin {"forget", "ignored"} => Left(s) \subseteq {"forget", "ignored"}
  <2>1. Ops(<<Head(queue)>>, s) = {op}
    BY <1>1, OpsOne
  <2>2. op \notin {"forget", "ignored"} => Reporting(Head(queue), s)
    BY <1>1 DEF Reporting, SessionOps
  <2>3. Count(s) <= 1
    BY <1>1 DEF TrackInv, PlaceInv, AnswerInv, Counted
  <2>4. QED
    BY <1>1, <2>1, <2>2, <2>3, ComingHandled DEF TrackInv, PlaceInv, AllPlaced, AllTracked
<1>3. op \in ResponseOps => Succeeded
  <2>1. queue \in Seq(Message) /\ 1 \in 1..Len(queue) /\ queue[1] = Head(queue)
    BY <1>1, TailOf DEF TypeOK
  <2>2. QED
    BY <1>1, <2>1 DEF TrackInv, PlaceInv, AnswerInv, Inv, ResponsesSucceed, Succeeded
<1>4. op \notin {"thenStartDistance", "stopped", "forget"} /\ s \in mDistanceBased => SafeFrom(1, s)
  <2>1. op # "engineUp"
    BY <1>1 DEF SessionOps, CommandOps, ResponseOps
  <2>2. QED
    BY <1>1, <1>2, <2>1, SafeWithout DEF Tracked, Excuse
<1>5. Outcome(s, op, calls)
  BY DEF Handling
<1>6. ASSUME \A j \in 1..Len(calls) : ~Stops(calls[j], s),
             s \in mDistanceBased' => SafeFrom(1, s)
      PROVE  Tracked(s)'
  BY <1>1, <1>2, <1>6, TrackedTail
<1>7. calls = <<>> => \A j \in 1..Len(calls) : ~Stops(calls[j], s)
  OBVIOUS
<1>8. Multiplexed(calls, s) => \A j \in 1..Len(calls) : ~Stops(calls[j], s)
  <2>1. ASSUME NEW call, calls = <<call>>, AboutFix(call)
        PROVE  \A j \in 1..Len(calls) : ~Stops(calls[j], s)
    BY <2>1, OneCallDoes DEF Stops, AboutFix
  <2>2. QED
    BY <1>7, <2>1 DEF Multiplexed
<1>9. ASSUME NEW then, calls = <<Call("startDistance", s, Distance, then)>>
      PROVE  Tracked(s)'
  <2> DEFINE call == Call("startDistance", s, Distance, then)
  <2>1. Starts(call, s) /\ ~Stops(call, s)
    BY DEF Call, Msg, Starts, Stops
  <2> HIDE DEF call
  <2>2. WillTrack(toModem', engineDistance', s)
    BY <1>1, <1>9, <2>1, OneCallDoes, TrackMore DEF call
  <2>3. QED
    BY <2>2, TrackedAnyway
<1>10. ASSUME NEW then \in {"thenStartDistance", "stopped"},
              calls = <<Call("stopDistance", s, None, then)>>
       PROVE  Tracked(s)'
  <2> DEFINE call == Call("stopDistance", s, None, then)
  <2>1. Excuse(call.then, s) /\ call \in ModemCall
    BY <1>1, CallTypes DEF Call, Msg, Excuse, Reports, ResponseOps
  <2> HIDE DEF call
  <2>2. Len(calls) = 1 /\ calls[1] = call
    BY <1>10, <2>1, OneCall DEF call
  <2>3. \E j \in 1..Len(toModem') : Excuse(toModem'[j].then, s)
    <3>1. 1 \in 1..Len(calls)
      BY <2>2
    <3>2. Len(toModem) + 1 \in 1..Len(toModem') /\ toModem'[Len(toModem) + 1] = call
      BY <1>1, <2>2, <3>1, LaterCalls
    <3>3. QED
      BY <2>1, <3>2
  <2>4. QED
    BY <2>3, TrackedAnyway
<1>11. CASE Nothing(s, op, calls)
  <2>1. op \notin {"thenStartDistance", "stopped", "forget"}
    BY <1>11 DEF Nothing
  <2>2. QED
    BY <1>4, <1>6, <1>7, <1>11, <2>1 DEF Nothing
<1>12. CASE Failed(s, op, calls)
  BY <1>3, <1>12 DEF Failed
<1>13. CASE TimeSaved(s, op, calls)
  <2>1. op \notin {"thenStartDistance", "stopped", "forget"}
    BY <1>13 DEF TimeSaved
  <2>2. QED
    BY <1>4, <1>6, <1>8, <1>13, <2>1 DEF TimeSaved
<1>14. CASE DistanceSaved(s, op, calls)
  BY <1>9, <1>14 DEF DistanceSaved
<1>15. CASE TimeToDistance(s, op, calls)
  <2> DEFINE call == Call("startDistance", s, Distance, "ignored")
             first == StopMultiplex(s)
             last == <<call>>
  <2>1. Starts(call, s) /\ ~Stops(call, s) /\ call \in ModemCall
    BY <1>1, CallTypes DEF Call, Msg, Starts, Stops, Reports, ResponseOps
  <2>2. /\ first \in Seq(ModemCall) /\ calls = first \o last
        /\ \A j \in 1..Len(first) : ~Stops(first[j], s)
    <3>1. first \in Seq(ModemCall) /\ calls = first \o last
      BY <1>1, <1>15, StopMultiplexServes DEF TimeToDistance
    <3>2. Multiplexed(first, s)
      BY <1>1, <1>15, StopMultiplexed DEF TimeToDistance
    <3>3. ASSUME NEW k, first = <<k>>, AboutFix(k)
          PROVE  \A j \in 1..Len(first) : ~Stops(first[j], s)
      BY <3>3, OneCallDoes DEF Stops, AboutFix
    <3>4. first = <<>> => \A j \in 1..Len(first) : ~Stops(first[j], s)
      OBVIOUS
    <3>5. QED
      BY <3>1, <3>2, <3>3, <3>4 DEF Multiplexed
  <2> HIDE DEF call, first
  <2>3. last \in Seq(ModemCall) /\ (\A j \in 1..Len(last) : ~Stops(last[j], s))
        /\ \E j \in 1..Len(last) : Starts(last[j], s)
    BY <2>1, OneCall, OneCallDoes
  <2> HIDE DEF last
  <2>4. /\ \A j \in 1..Len(calls) : ~Stops(calls[j], s)
        /\ \E j \in 1..Len(calls) : Starts(calls[j], s)
    <3>1. /\ \A i \in 1..Len(last) : Len(first) + i \in 1..Len(calls) /\ calls[Len(first) + i] = last[i]
          /\ \A j \in 1..Len(calls) :
               \/ j \in 1..Len(first) /\ calls[j] = first[j]
               \/ j > Len(first) /\ j - Len(first) \in 1..Len(last) /\ calls[j] = last[j - Len(first)]
      BY <2>2, <2>3, LaterCalls
    <3>2. \A j \in 1..Len(first) : ~Stops(first[j], s)
      BY <2>2
    <3>3. QED
      BY <2>3, <3>1, <3>2
  <2>5. WillTrack(toModem', engineDistance', s)
    BY <1>1, <2>4, TrackMore
  <2>6. QED
    BY <2>5, TrackedAnyway
<1>16. CASE DistanceToTime(s, op, calls)
  <2>1. s \notin TimeBased /\ s \notin mDistanceBased'
    BY <1>2, <1>16 DEF DistanceToTime, Erased, Placed
  <2>2. "restarted" \notin Left(s)
    BY <1>2, <1>16 DEF DistanceToTime
  <2>3. \A i \in 1..Len(queue') : ~(queue'[i].op = "restarted" /\ queue'[i].s = s)
    BY <1>1, <2>2 DEF Left, Ops, SessionOps, ResponseOps
  <2>4. QED
    BY <2>1, <2>3 DEF Tracked
<1>17. CASE DistanceAgain(s, op, calls)
  BY <1>10, <1>17 DEF DistanceAgain
<1>18. CASE TimeStopped(s, op, calls)
  <2>1. s \notin mDistanceBased' /\ Multiplexed(calls, s)
    BY <1>1, <1>2, <1>18, StopMultiplexed DEF TimeStopped, Placed
  <2>2. QED
    BY <1>6, <1>8, <2>1
<1>19. CASE DistanceStopping(s, op, calls)
  BY <1>10, <1>19 DEF DistanceStopping
<1>20. CASE DistanceStopped(s, op, calls)
  <2>1. s \notin TimeBased /\ s \notin mDistanceBased' /\ calls = <<>>
    BY <1>2, <1>20 DEF DistanceStopped, Erased, Placed
  <2>2. QED
    BY <1>6, <1>7, <2>1
<1>21. CASE DistanceRestarting(s, op, calls)
  BY <1>9, <1>21 DEF DistanceRestarting
<1>22. CASE DistanceRestarted(s, op, calls)
  <2>1. queue[1] = Head(queue) /\ 1 \in 1..Len(queue)
    BY <1>1, TailOf DEF TypeOK
  <2>2. SafeFrom(1, s)
    BY <1>1, <1>2, <1>22, <2>1 DEF DistanceRestarted, Tracked
  <2>3. QED
    BY <1>6, <1>7, <1>22, <2>2 DEF DistanceRestarted
<1>23. QED
  BY <1>5, <1>11, <1>12, <1>13, <1>14, <1>15, <1>16, <1>17, <1>18, <1>19, <1>20, <1>21, <1>22
     DEF Outcome

\* Messages that do not concern the restart of s.
LEMMA TrackedPosted ==
  ASSUME TypeOK, NEW m \in Message, m.op # "restarted", Post(m), UNCHANGED toModem,
         engineDistance' = engineDistance, mDistanceBased' = mDistanceBased, NEW s, Tracked(s)
  PROVE  Tracked(s)'
<1>1. \A i : SafeFrom(i, s) => SafeFrom(i, s)'
  BY SafeAppend DEF Post
<1>2. /\ queue \in Seq(Message) /\ Len(queue) \in Nat /\ Len(queue') = Len(queue) + 1
      /\ \A i \in 1..Len(queue) : queue'[i] = queue[i]
      /\ queue'[Len(queue) + 1] = m
  BY DEF TypeOK, Post
<1>3. \A i \in 1..Len(queue') : i \in 1..Len(queue) \/ i = Len(queue) + 1
  BY <1>2
<1>4. ASSUME NEW i \in 1..Len(queue'), queue'[i].op = "restarted", queue'[i].s = s
      PROVE  SafeFrom(i, s)'
  <2>1. i \in 1..Len(queue) /\ queue[i].op = "restarted" /\ queue[i].s = s
    BY <1>2, <1>3, <1>4
  <2>2. QED
    BY <1>1, <2>1 DEF Tracked
<1>5. QED
  BY <1>1, <1>4 DEF Tracked

\* All are restarted once the modem is up.
LEMMA TrackedUp ==
  ASSUME TypeOK, NEW m \in Message, m.op = "engineUp", Post(m), NEW s
  PROVE  Tracked(s)'
<1>1. /\ Len(queue) \in Nat /\ Len(queue') = Len(queue) + 1
      /\ queue'[Len(queue) + 1] = m
  BY DEF TypeOK, Post
<1>2. Len(queue) + 1 \in 1..Len(queue') /\ \A i \in 0..Len(queue) : Len(queue) + 1 > i
  BY <1>1
<1>3. \A i \in 0..Len(queue) : SafeFrom(i, s)'
  BY <1>1, <1>2 DEF SafeFrom
<1>4. 0 \in 0..Len(queue)
      /\ \A i \in 1..Len(queue') : queue'[i].op = "restarted" => i \in 0..Len(queue)
  <2>1. \A i \in 1..Len(queue') : i \in 0..Len(queue) \/ i = Len(queue) + 1
    BY <1>1
  <2>2. QED
    BY <1>1, <2>1
<1>5. QED
  BY <1>3, <1>4 DEF Tracked

\* The modem takes the first call, and its response follows.
LEMMA SafeAnswered ==
  ASSUME TypeOK, NEW ok \in BOOLEAN, Respond(ok), engineDistance' = TrackedAfter(Head(toModem), engineDistance),
         NEW s, NEW i, i \in 0..Len(queue), SafeFrom(i, s)
  PROVE  SafeFrom(i, s)'
<1>1. PICK then \in Then, m \in Flying :
        /\ then = Head(toModem).then
        /\ \/ then.op = "none" /\ queue' = queue
           \/ /\ then.op # "none" /\ queue' = Append(queue, m) /\ m \in Message
              /\ m.op = then.op /\ m.s = then.s /\ m.o = then.o /\ m.ok = ok
              /\ m.op \in ResponseOps
  BY RespondShape
<1>2. /\ toModem \in Seq(ModemCall) /\ toModem # <<>> /\ toModem' = Tail(toModem)
      /\ queue \in Seq(Message) /\ Len(queue) \in Nat
  BY RespondShape DEF TypeOK
<1>3. \A j \in 1..Len(queue) : j \in 1..Len(queue') /\ queue'[j] = queue[j]
  <2>1. CASE queue' = queue
    BY <2>1
  <2>2. CASE queue' = Append(queue, m)
    <3>1. Len(queue') = Len(queue) + 1 /\ \A j \in 1..Len(queue) : queue'[j] = queue[j]
      BY <1>2, <2>2
    <3>2. QED
      BY <1>2, <3>1
  <2>3. QED
    BY <1>1, <2>1, <2>2
<1>4. CASE WillTrack(toModem, engineDistance, s)
  BY <1>2, <1>4, TrackTail DEF SafeFrom
<1>5. CASE \E j \in 1..Len(queue) : j > i /\ (queue[j].op = "engineUp" \/ Excuse(queue[j], s))
  BY <1>3, <1>5 DEF SafeFrom
<1>6. CASE \E j \in 1..Len(toModem) : Excuse(toModem[j].then, s)
  <2>1. PICK j \in 1..Len(toModem) : Excuse(toModem[j].then, s)
    BY <1>6
  <2>2. CASE j = 1
    <3>1. Excuse(then, s) /\ then.op # "none"
      BY <1>1, <1>2, <2>1, <2>2, TailOf DEF Excuse
    <3>2. queue' = Append(queue, m) /\ Excuse(m, s)
      BY <1>1, <3>1 DEF Excuse
    <3>3. Len(queue') = Len(queue) + 1 /\ queue'[Len(queue) + 1] = m
      BY <1>2, <3>2
    <3>4. Len(queue) + 1 \in 1..Len(queue') /\ Len(queue) + 1 > i
      BY <1>2, <3>3
    <3>5. QED
      BY <3>2, <3>3, <3>4 DEF SafeFrom
  <2>3. CASE j # 1
    <3>1. /\ Len(toModem) \in Nat /\ Len(toModem') = Len(toModem) - 1
          /\ \A k \in 1..Len(toModem') : toModem'[k] = toModem[k + 1]
      BY <1>2, TailOf
    <3>2. j - 1 \in 1..Len(toModem') /\ (j - 1) + 1 = j
      BY <2>3, <3>1
    <3>3. toModem'[j - 1] = toModem[j]
      BY <3>1, <3>2
    <3>4. QED
      BY <2>1, <3>2, <3>3 DEF SafeFrom
  <2>4. QED
    BY <2>2, <2>3
<1>7. QED
  BY <1>4, <1>5, <1>6 DEF SafeFrom

\* A client that waits has nothing else under way.
LEMMA AnswersAlone ==
  ASSUME NEW q \in Seq(Flying), NEW p \in Seq(Flying), NEW calls \in Seq(ModemCall), NEW s,
         Num(q, s) + Num(p, s) + Num(Thens(calls), s) <= 1,
         NEW i \in 1..Len(q), Reporting(q[i], s)
  PROVE  \A j \in 1..Len(calls) : ~Reporting(calls[j].then, s)
<1>1. /\ Thens(calls) \in Seq(Flying) /\ Len(Thens(calls)) = Len(calls)
      /\ \A j \in 1..Len(calls) : Thens(calls)[j] = calls[j].then
  BY ThensOf
<1>2. /\ Num(q, s) \in Nat /\ Num(p, s) \in Nat /\ Num(Thens(calls), s) \in Nat
      /\ Num(q, s) # 0
  BY <1>1, NumType
<1>3. Num(Thens(calls), s) = 0
  BY <1>2
<1>4. QED
  BY <1>1, <1>3, NumType

LEMMA TrackedAnswered ==
  ASSUME TrackInv, AnswerInv', ModemAccepts, NEW ok \in BOOLEAN, Respond(ok),
         NEW s \in Sessions, s \notin hasty, ~disturbed
  PROVE  Tracked(s)'
<1>1. /\ TypeOK /\ TypeOK' /\ Tracked(s) /\ CallShapes(toModem)
      /\ mDistanceBased' = mDistanceBased /\ hasty' = hasty /\ disturbed' = disturbed
  BY DEF TrackInv, PlaceInv, AnswerInv, Inv, AllTracked, ModemAccepts, Respond, maps, clientVars
<1>2. PICK then \in Then, m \in Flying :
        /\ then = Head(toModem).then
        /\ \/ then.op = "none" /\ queue' = queue
           \/ /\ then.op # "none" /\ queue' = Append(queue, m) /\ m \in Message
              /\ m.op = then.op /\ m.s = then.s /\ m.o = then.o /\ m.ok = ok
              /\ m.op \in ResponseOps
  BY <1>1, RespondShape
<1>3. /\ toModem \in Seq(ModemCall) /\ toModem # <<>> /\ toModem' = Tail(toModem)
      /\ queue \in Seq(Message) /\ Len(queue) \in Nat /\ toModem' \in Seq(ModemCall)
      /\ Head(toModem) = toModem[1] /\ 1 \in 1..Len(toModem)
      /\ \A k \in 1..Len(toModem') : k + 1 \in 1..Len(toModem) /\ toModem'[k] = toModem[k + 1]
  <2>1. /\ toModem \in Seq(ModemCall) /\ toModem # <<>> /\ toModem' = Tail(toModem)
        /\ queue \in Seq(Message) /\ Len(queue) \in Nat
    BY <1>1, RespondShape DEF TypeOK
  <2>2. QED
    BY <2>1, TailOf
<1> PICK n \in Nat : n = Len(queue)
  BY <1>3
<1>4. engineDistance' = TrackedAfter(Head(toModem), engineDistance)
  BY DEF ModemAccepts, TrackedAfter
<1>5. \A i \in 0..Len(queue) : SafeFrom(i, s) => SafeFrom(i, s)'
  BY <1>1, <1>4, SafeAnswered
<1>6. s \in mDistanceBased' => SafeFrom(0, s)'
  <2>1. 0 \in 0..Len(queue)
    BY <1>3
  <2>2. QED
    BY <1>1, <1>5, <2>1 DEF Tracked
<1>7. ASSUME NEW i \in 1..Len(queue), queue'[i].op = "restarted", queue'[i].s = s,
             queue'[i] = queue[i]
      PROVE  SafeFrom(i, s)'
  <2>1. i \in 0..Len(queue) /\ SafeFrom(i, s)
    BY <1>1, <1>3, <1>7 DEF Tracked
  <2>2. QED
    BY <1>5, <2>1
<1>8. ASSUME queue' = Append(queue, m), then.op # "none", m.op = "restarted", m.s = s,
             m.op = then.op, m.s = then.s
      PROVE  SafeFrom(n + 1, s)'
  <2>1. Head(toModem).call = "startDistance" /\ Head(toModem).then.s = s
    BY <1>1, <1>2, <1>3, <1>8 DEF CallShapes
  <2>2. s \in engineDistance'
    BY <1>4, <2>1 DEF TrackedAfter
  <2>3. n + 1 \in 1..Len(queue') /\ queue'[n + 1] = m
    BY <1>3, <1>8
  <2>4. \A j \in 1..Len(toModem') : ~Reporting(toModem'[j].then, s)
    <3>1. Count(s)' <= 1
      BY <1>1 DEF AnswerInv, Counted
    <3>2. /\ queue' \in Seq(Message) /\ mPendingMsgs' \in Seq(Command)
          /\ Command \subseteq Flying /\ Message \subseteq Flying
      BY <1>1 DEF TypeOK, Message, Flying
    <3>3. queue' \in Seq(Flying) /\ mPendingMsgs' \in Seq(Flying)
      BY <3>2
    <3>4. PICK q \in Seq(Flying), p \in Seq(Flying), calls \in Seq(ModemCall) :
            q = queue' /\ p = mPendingMsgs' /\ calls = toModem'
      BY <1>3, <3>3
    <3>5. Num(q, s) + Num(p, s) + Num(Thens(calls), s) <= 1
      BY <3>1, <3>4 DEF Count
    <3>6. n + 1 \in 1..Len(q) /\ Reporting(q[n + 1], s)
      BY <1>8, <2>3, <3>4 DEF Reporting, ResponseOps
    <3>7. \A j \in 1..Len(calls) : ~Reporting(calls[j].then, s)
      BY <3>5, <3>6, AnswersAlone
    <3>8. QED
      BY <3>4, <3>7
  <2>5. ASSUME NEW j \in 1..Len(toModem'), Stops(toModem'[j], s)
        PROVE  Excuse(toModem'[j].then, s)
    <3>1. toModem'[j].then.op \in {"thenStartTime", "thenStartDistance", "stopped", "forget"}
          /\ toModem'[j].then.s = s
      BY <1>1, <1>3, <2>5 DEF CallShapes, Stops
    <3>2. toModem'[j].then.op # "thenStartTime"
      BY <2>4, <3>1 DEF Reporting, ResponseOps
    <3>3. QED
      BY <3>1, <3>2 DEF Excuse
  <2>6. QED
    BY <2>2, <2>5 DEF SafeFrom, WillTrack
<1>9. CASE then.op = "none" /\ queue' = queue
  BY <1>6, <1>7, <1>9 DEF Tracked
<1>10. CASE /\ then.op # "none" /\ queue' = Append(queue, m)
            /\ m.op = then.op /\ m.s = then.s
  <2>1. /\ Len(queue') = n + 1 /\ queue'[n + 1] = m
        /\ \A i \in 1..Len(queue) : queue'[i] = queue[i]
    BY <1>3, <1>10
  <2>2. \A i \in 1..Len(queue') : i \in 1..Len(queue) \/ i = n + 1
    BY <1>3, <2>1
  <2>3. \A i \in 1..Len(queue') :
          queue'[i].op = "restarted" /\ queue'[i].s = s => SafeFrom(i, s)'
    <3>1. m.op = "restarted" /\ m.s = s => SafeFrom(n + 1, s)'
      BY <1>8, <1>10
    <3>2. ASSUME NEW i \in 1..Len(queue'), queue'[i].op = "restarted", queue'[i].s = s
          PROVE  SafeFrom(i, s)'
      <4>1. CASE i \in 1..Len(queue)
        BY <1>7, <2>1, <3>2, <4>1
      <4>2. CASE i = n + 1
        <5>1. m.op = "restarted" /\ m.s = s
          BY <2>1, <3>2, <4>2
        <5>2. QED
          BY <3>1, <4>2, <5>1
      <4>3. QED
        BY <2>2, <4>1, <4>2
    <3>3. QED
      BY <3>2
  <2>4. QED
    BY <1>6, <2>3 DEF Tracked
<1>11. QED
  BY <1>2, <1>9, <1>10

\* The restarted modem is asked for every session that is in the map; the others
\* are as they were before.
LEMMA TrackedRestarted ==
  ASSUME TypeOK, HandleEngineUp, NEW s, Tracked(s)
  PROVE  Tracked(s)'
<1>1. PICK calls \in Seq(ModemCall) :
        /\ Ask(calls) /\ \A i \in 1..Len(calls) : RestartCall(calls[i])
        /\ \A t \in mDistanceBased : \E i \in 1..Len(calls) :
             calls[i].call = "startDistance" /\ calls[i].then.s = t
  BY RestartCalls
<1>2. /\ queue # <<>> /\ queue' = Tail(queue) \o mPendingMsgs /\ engineDistance' = engineDistance
      /\ mDistanceBased' = mDistanceBased /\ queue \in Seq(Message) /\ mPendingMsgs \in Seq(Command)
      /\ toModem \in Seq(ModemCall) /\ toModem' = toModem \o calls
      /\ Command \subseteq Message
  BY <1>1 DEF HandleEngineUp, HandlerUnchanged, modemVars, maps, TypeOK, Ask, Message
<1>3. \A j \in 1..Len(calls) : ~Stops(calls[j], s)
  BY <1>1 DEF RestartCall, Stops
<1>4. CASE s \in mDistanceBased
  <2>1. \E j \in 1..Len(calls) : Starts(calls[j], s)
    BY <1>1, <1>4 DEF Starts
  <2>2. WillTrack(toModem', engineDistance', s)
    BY <1>2, <1>3, <2>1, TrackMore
  <2>3. QED
    BY <2>2, TrackedAnyway
<1>5. CASE s \notin mDistanceBased
  <2>1. \A i \in Nat : SafeFrom(i + 1, s) => SafeFrom(i, s)'
    <3>1. mPendingMsgs \in Seq(Message)
      BY <1>2
    <3>2. QED
      BY <1>1, <1>2, <1>3, <3>1, SafeTail
  <2>2. ASSUME NEW i \in 1..Len(queue'), queue'[i].op = "restarted", queue'[i].s = s
        PROVE  i \in Nat /\ i + 1 \in 1..Len(queue) /\ queue[i + 1] = queue'[i]
    <3> DEFINE a == Tail(queue)
               b == mPendingMsgs
    <3>1. /\ a \in Seq(Message) /\ b \in Seq(Command) /\ queue' = a \o b
          /\ Len(a) \in Nat /\ Len(b) \in Nat
          /\ \A k \in 1..Len(a) : k + 1 \in 1..Len(queue) /\ a[k] = queue[k + 1]
      BY <1>2, TailOf
    <3> HIDE DEF a, b
    <3>2. /\ Len(queue') = Len(a) + Len(b)
          /\ \A k \in 1..Len(a) : queue'[k] = a[k]
          /\ \A k \in Len(a) + 1..Len(a) + Len(b) : queue'[k] = b[k - Len(a)]
      BY <3>1
    <3>3. \A k \in 1..Len(b) : b[k].op # "restarted"
      <4>1. \A m \in Command : m.op # "restarted"
        BY DEF Command
      <4>2. QED
        BY <3>1, <4>1
    <3>4. i \in 1..Len(a)
      <4>1. CASE i \in Len(a) + 1..Len(a) + Len(b)
        <5>1. i - Len(a) \in 1..Len(b) /\ queue'[i] = b[i - Len(a)]
          BY <3>1, <3>2, <4>1
        <5>2. QED
          BY <2>2, <3>3, <5>1
      <4>2. QED
        BY <3>1, <3>2, <4>1
    <3>5. QED
      BY <3>1, <3>2, <3>4
  <2>3. ASSUME NEW i \in 1..Len(queue'), queue'[i].op = "restarted", queue'[i].s = s
        PROVE  SafeFrom(i, s)'
    <3>1. i \in Nat /\ i + 1 \in 1..Len(queue) /\ queue[i + 1] = queue'[i]
      BY <2>2, <2>3
    <3>2. SafeFrom(i + 1, s)
      BY <2>3, <3>1 DEF Tracked
    <3>3. QED
      BY <2>1, <3>1, <3>2
  <2>4. QED
    BY <1>2, <1>5, <2>3 DEF Tracked
<1>6. QED
  BY <1>4, <1>5

\* The sessions of a removed client are forgotten once the modem has stopped them.
LEMMA TrackedRemoved ==
  ASSUME TypeOK, HandleRemoveClient, NEW s, Tracked(s)
  PROVE  Tracked(s)'
<1>1. PICK calls \in Seq(ModemCall) :
        Ask(calls) /\ \A i \in 1..Len(calls) : RemovalCall(calls[i], Head(queue).c)
  BY RemovalCalls
<1>2. /\ queue # <<>> /\ queue' = Tail(queue) /\ engineDistance' = engineDistance
      /\ mDistanceBased' = mDistanceBased /\ Head(queue).op = "removeClient"
      /\ toModem \in Seq(ModemCall) /\ toModem' = toModem \o calls
  BY <1>1 DEF HandleRemoveClient, HandlerUnchanged, modemVars, maps, TypeOK, Ask, Receive
<1>3. CASE \E j \in 1..Len(calls) : Stops(calls[j], s)
  <2>1. PICK j \in 1..Len(calls) : Stops(calls[j], s)
    BY <1>3
  <2>2. Excuse(calls[j].then, s)
    BY <1>1, <2>1 DEF RemovalCall, AboutFix, Stops, Excuse
  <2>3. Len(toModem) + j \in 1..Len(toModem') /\ toModem'[Len(toModem) + j] = calls[j]
    BY <1>2, LaterCalls
  <2>4. QED
    BY <2>2, <2>3, TrackedAnyway
<1>4. CASE \A j \in 1..Len(calls) : ~Stops(calls[j], s)
  <2>1. s \in mDistanceBased' => SafeFrom(1, s)
    BY <1>2, SafeWithout DEF Tracked, Excuse
  <2>2. QED
    BY <1>1, <1>2, <1>4, <2>1, TrackedTail
<1>5. QED
  BY <1>3, <1>4

\* The other sessions, when a message about one is handled.
LEMMA OthersTracked ==
  ASSUME TypeOK, NEW t, NEW op, NEW calls, Handling(t, op, calls),
         NEW s \in Sessions \ {t}, Tracked(s)
  PROVE  Tracked(s)'
<1>1. /\ calls \in Seq(ModemCall) /\ Ask(calls) /\ queue # <<>> /\ queue' = Tail(queue)
      /\ engineDistance' = engineDistance /\ Head(queue).s = t
      /\ Head(queue).op = op /\ op \in CommandOps \cup ResponseOps
      /\ s \in mDistanceBased' <=> s \in mDistanceBased
  BY DEF Handling, Receive, Session, HandlerUnchanged, modemVars
<1>2. \A j \in 1..Len(calls) : ~Stops(calls[j], s)
  BY OutcomeCalls DEF CallOf, Stops
<1>3. Head(queue).op # "engineUp" /\ ~Excuse(Head(queue), s)
  BY <1>1 DEF Excuse, CommandOps, ResponseOps
<1>4. s \in mDistanceBased' => SafeFrom(1, s)
  BY <1>1, <1>3, SafeWithout DEF Tracked
<1>5. QED
  BY <1>1, <1>2, <1>4, TrackedTail

LEMMA TrackedDeferred ==
  ASSUME TypeOK, DeferCommand, NEW s, Tracked(s)
  PROVE  Tracked(s)'
<1>1. /\ queue # <<>> /\ queue' = Tail(queue) /\ engineDistance' = engineDistance
      /\ mDistanceBased' = mDistanceBased /\ Head(queue).op \in {"start", "update"}
      /\ UNCHANGED toModem
  BY DEF DeferCommand, Receive, HandlerUnchanged, modemVars, maps
<1>2. PICK calls \in Seq(ModemCall) : calls = <<>> /\ Ask(calls)
  BY <1>1, AskNothing, Zenon
<1>3. \A j \in 1..Len(calls) : ~Stops(calls[j], s)
  BY <1>2
<1>4. s \in mDistanceBased' => SafeFrom(1, s)
  BY <1>1, SafeWithout DEF Tracked, Excuse
<1>5. QED
  BY <1>1, <1>2, <1>3, <1>4, TrackedTail

LEMMA TrackInductive == TrackInv /\ [Next]_vars => TrackInv'
<1> SUFFICES ASSUME TrackInv, [Next]_vars
             PROVE  TrackInv'
  OBVIOUS
<1>1. PlaceInv /\ PlaceInv' /\ Inv /\ TypeOK /\ AnswerInv'
  BY PlacesInductive DEF TrackInv, PlaceInv, AnswerInv, Inv
<1> SUFFICES ASSUME ~disturbed', NEW s \in Sessions, s \notin hasty'
             PROVE  Tracked(s)'
  BY <1>1 DEF TrackInv, AllTracked
<1>2. ASSUME ~disturbed, s \notin hasty
      PROVE  Tracked(s)
  BY <1>2 DEF TrackInv, AllTracked
<1>3. CASE \E t, m : Commanded(t, m)
  <2>1. PICK t, m : Commanded(t, m)
    BY <1>3
  <2>2. /\ m \in Message /\ m.op # "restarted" /\ Post(m) /\ UNCHANGED toModem
        /\ engineDistance' = engineDistance /\ mDistanceBased' = mDistanceBased
        /\ ~disturbed /\ s \notin hasty
    BY <2>1 DEF Commanded, ClientCalls, Command, Message, modemVars, maps
  <2>3. QED
    BY <1>1, <1>2, <2>2, TrackedPosted
<1>4. CASE \E c \in Clients : RemoveClient(c)
  <2>1. PICK c \in Clients : RemoveClient(c)
    BY <1>4
  <2>2. PICK m \in Message : m.op = "removeClient" /\ Post(m)
    BY <2>1 DEF RemoveClient, Message
  <2>3. /\ UNCHANGED toModem /\ engineDistance' = engineDistance
        /\ mDistanceBased' = mDistanceBased /\ ~disturbed /\ s \notin hasty
    BY <2>1 DEF RemoveClient, modemVars, maps
  <2>4. QED
    BY <1>1, <1>2, <2>2, <2>3, TrackedPosted
<1>5. CASE DeferCommand
  <2>1. ~disturbed /\ s \notin hasty
    BY <1>5 DEF DeferCommand, HandlerUnchanged, clientVars
  <2>2. QED
    BY <1>1, <1>2, <1>5, <2>1, TrackedDeferred
<1>6. CASE Handled
  <2>1. PICK t, op, calls : Handling(t, op, calls)
    BY <1>6 DEF Handled
  <2>2. ~disturbed /\ s \notin hasty
    BY <2>1 DEF Handling, HandlerUnchanged, clientVars
  <2>3. CASE s = t
    BY <2>1, <2>2, <2>3, SessionTracked
  <2>4. CASE s # t
    BY <1>1, <1>2, <2>1, <2>2, <2>4, OthersTracked
  <2>5. QED
    BY <2>3, <2>4
<1>7. CASE HandleRemoveClient
  <2>1. ~disturbed /\ s \notin hasty
    BY <1>7 DEF HandleRemoveClient, HandlerUnchanged, clientVars
  <2>2. QED
    BY <1>1, <1>2, <1>7, <2>1, TrackedRemoved
<1>8. CASE HandleEngineUp
  <2>1. ~disturbed /\ s \notin hasty
    BY <1>8 DEF HandleEngineUp, HandlerUnchanged, clientVars
  <2>2. QED
    BY <1>1, <1>2, <1>8, <2>1, TrackedRestarted
<1>9. CASE ModemAccepts
  <2>1. Respond(TRUE) /\ ~disturbed /\ s \notin hasty
    BY <1>9 DEF ModemAccepts, Respond, clientVars
  <2>2. QED
    BY <1>1, <1>9, <2>1, TrackedAnswered
<1>10. CASE ModemRefuses
  BY <1>10 DEF ModemRefuses
<1>11. CASE ModemUp
  <2>1. PICK m \in Message : m.op = "engineUp" /\ Post(m)
    BY <1>11 DEF ModemUp, Message
  <2>2. QED
    BY <1>1, <2>1, TrackedUp
<1>12. CASE UNCHANGED vars
  <2>1. /\ UNCHANGED hasty /\ UNCHANGED toModem /\ UNCHANGED engineDistance /\ UNCHANGED disturbed
        /\ UNCHANGED mDistanceBased /\ UNCHANGED queue
    BY <1>12 DEF vars, clientVars, modemVars, maps
  <2>2. \A i : SafeFrom(i, s)' <=> SafeFrom(i, s)
    BY <2>1 DEF SafeFrom
  <2>3. QED
    BY <1>2, <2>1, <2>2 DEF Tracked
<1>13. QED
  BY <1>1, <1>3, <1>4, <1>5, <1>6, <1>7, <1>8, <1>9, <1>10, <1>11, <1>12, Steps

LEMMA TrackInitially == Init => TrackInv
<1>1. Init => mDistanceBased = {} /\ Len(queue) = 0
  BY DEF Init
<1>2. Init => AllTracked
  BY <1>1 DEF AllTracked, Tracked
<1>3. QED
  BY <1>2, PlacesInitially DEF TrackInv

\* When nothing is under way, the modem tracks every registered distance-based
\* session: for any number of sessions, updates and restarts, for the clients that
\* wait for their answers, up to the first refused call or removed client with
\* time-based sessions.
THEOREM DistancesServed == Spec => []DistanceSessionsAreServed
<1>1. TrackInv => DistanceSessionsAreServed
  <2> SUFFICES ASSUME TrackInv, Quiet, ~disturbed, NEW s \in mDistanceBased \ hasty
               PROVE  s \in engineDistance
    BY DEF DistanceSessionsAreServed
  <2>1. s \in Sessions
    BY DEF TrackInv, PlaceInv, AnswerInv, Inv, TypeOK
  <2>2. SafeFrom(0, s)
    BY <2>1 DEF TrackInv, AllTracked, Tracked
  <2>3. Len(queue) = 0 /\ Len(toModem) = 0
    BY DEF Quiet
  <2>4. QED
    BY <2>2, <2>3 DEF SafeFrom, WillTrack
<1>2. QED
  BY TrackInitially, TrackInductive, <1>1, PTL DEF Spec
=============================================================================
