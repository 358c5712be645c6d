-------------------------- MODULE GnssAdapterProofs -------------------------
(***************************************************************************)
(* Two services that GnssAdapter offers the modem.                         *)
(*                                                                         *)
(* Agps: what AgpsManager holds for the modem's handles agrees with what   *)
(* the modem believes, for any number of handles and state machines, any   *)
(* bound on the messages under way, and every fault of the framework.  A   *)
(* handle may be asked for again while a release of its last use is still  *)
(* in the queue, so the inductive invariant tells the releases that come   *)
(* after the handle's request, which end it, from those before it, which   *)
(* find no subscriber.  A handler works with the state it has read before; *)
(* what the framework's thread does to another state machine meanwhile     *)
(* leaves that reading true.  Nothing is said once both are in the same.   *)
(*                                                                         *)
(* NiSession: the payload of a network-initiated request has one owner at  *)
(* a time, and the modem is told "accept" only with the user's consent,    *)
(* for any number of requests and answers and any interleaving of the      *)
(* handlers with the threads.  The inductive invariant follows a payload   *)
(* from its notification through the session and the thread to the message *)
(* that hands it back: each place excludes the others.  Consent is         *)
(* followed along the same way.                                            *)
(***************************************************************************)
EXTENDS Agps, NiSession, TLAPS

-----------------------------------------------------------------------------
(****************************************************************************)
(* Agps.                                                                   *)
(****************************************************************************)

-----------------------------------------------------------------------------
(***************************************************************************)
(* Types.                                                                  *)
(***************************************************************************)
NifTypes ==
  /\ mState \in [Nifs -> NifStates]
  /\ mSubscriberList \in [Nifs -> SUBSET Handles]
  /\ toFramework \in Seq(Command)
  /\ atl \in [Handles -> {"idle", "asked", "open", "closing"}]

LEMMA AtlTypes ==
  ASSUME AtlTypeOK, NEW S
  PROVE  /\ AtlOpened(S) \in [Handles -> {"idle", "asked", "open", "closing"}]
         /\ AtlEnded(S)  \in [Handles -> {"idle", "asked", "open", "closing"}]
BY DEF AtlTypeOK, AtlOpened, AtlEnded

LEMMA DataConnTypes ==
  ASSUME AtlTypeOK, NEW n \in Nifs, NEW op \in {"request", "release"}, DataConn(op, n)
  PROVE  toFramework' \in Seq(Command)
<1>1. [op |-> op, n |-> n] \in Command
  BY DEF Command
<1>2. QED
  BY <1>1 DEF AtlTypeOK, DataConn

LEMMA SubscribeTypes ==
  ASSUME AtlTypeOK, NEW h \in Handles, NEW n \in Nifs, NEW saw, Subscribe(h, n, saw)
  PROVE  NifTypes'
<1>1. mState' \in [Nifs -> NifStates] /\ mSubscriberList' \in [Nifs -> SUBSET Handles]
  BY DEF AtlTypeOK, Subscribe, AddSubscriber, Transition, NifStates
<1>2. toFramework' \in Seq(Command)
  BY DataConnTypes DEF AtlTypeOK, Subscribe
<1>3. atl' \in [Handles -> {"idle", "asked", "open", "closing"}]
  BY AtlTypes DEF AtlTypeOK, Subscribe
<1>4. QED
  BY <1>1, <1>2, <1>3 DEF NifTypes

LEMMA UnsubscribeTypes ==
  ASSUME AtlTypeOK, NEW h \in Handles, NEW n \in Nifs, NEW saw, Unsubscribe(h, n, saw)
  PROVE  NifTypes'
<1>1. mState' \in [Nifs -> NifStates] /\ mSubscriberList' \in [Nifs -> SUBSET Handles]
  BY DEF AtlTypeOK, Unsubscribe, Transition, NifStates
<1>2. toFramework' \in Seq(Command)
  BY DataConnTypes DEF AtlTypeOK, Unsubscribe
<1>3. atl' \in [Handles -> {"idle", "asked", "open", "closing"}]
  BY AtlTypes DEF AtlTypeOK, Unsubscribe
<1>4. QED
  BY <1>1, <1>2, <1>3 DEF NifTypes

LEMMA ReportTypes ==
  ASSUME AtlTypeOK, NEW n, NEW saw, Granted(n, saw) \/ DenyApn(n, saw) \/ Released(n, saw)
  PROVE  NifTypes'
<1>1. mState' \in [Nifs -> NifStates] /\ mSubscriberList' \in [Nifs -> SUBSET Handles]
  BY DEF AtlTypeOK, Granted, DenyApn, Released, End, Transition, NifStates
<1>2. atl' \in [Handles -> {"idle", "asked", "open", "closing"}]
  BY AtlTypes DEF AtlTypeOK, Granted, DenyApn, Released, End
<1>3. QED
  BY <1>1, <1>2 DEF AtlTypeOK, NifTypes, Granted, DenyApn, Released, End

\* The message that a handler of the MsgTask receives.
LEMMA ReceiveTypes ==
  ASSUME AtlTypeOK, NEW op, Receive(op)
  PROVE  /\ atlQueue' \in Seq(AtlMessage)
         /\ Head(atlQueue) \in AtlMessage
         /\ handling' = Idle
         /\ UNCHANGED <<created, framework, closing, raced>>
BY DEF AtlTypeOK, Receive

\* The state machine that a handler works on.
LEMMA HandlingTypes ==
  ASSUME AtlTypeOK, handling # Idle, handling # Absent
  PROVE  handling.n \in Nifs /\ handling.saw \in NifStates
BY DEF AtlTypeOK, Handling

LEMMA TargetsTypes ==
  ASSUME AtlTypeOK, NEW m \in AtlMessage
  PROVE  /\ Targets(m) \subseteq Nifs /\ Targets(m) \subseteq Touched(m)
         /\ NoArg \notin Touched(m)
<1>1. CASE m.op = "requestATL"
  BY <1>1, NoArgAssumption DEF AtlMessage, Targets, Touched
<1>2. CASE m.op = "releaseATL"
  BY <1>2, NoArgAssumption DEF AtlTypeOK, Targets, Touched, Holders
<1>3. CASE m.op \in {"opened", "failed", "closed"}
  BY <1>3, NoArgAssumption DEF AtlMessage, Targets, Touched
<1>4. QED
  BY <1>1, <1>2, <1>3 DEF AtlMessage

\* ... and the call that the framework acts upon.
LEMMA ActTypes ==
  ASSUME AtlTypeOK, NEW op, NEW n, Act(op, n)
  PROVE  toFramework' \in Seq(Command)
<1>1. toFramework \in Seq(Command)
  BY DEF AtlTypeOK
<1>2. QED
  BY <1>1 DEF Act

LEMMA AtlInitTypeOK == AtlInit => AtlTypeOK
<1>1. Idle \in Handling
  BY DEF Handling
<1>2. AtlInit => handling \in Handling /\ closing \in Nifs \cup {NoArg} /\ raced \in BOOLEAN
  BY <1>1 DEF AtlInit
<1>3. AtlInit => /\ created \subseteq Nifs /\ mState \in [Nifs -> NifStates]
                 /\ mSubscriberList \in [Nifs -> SUBSET Handles]
                 /\ atlQueue \in Seq(AtlMessage) /\ toFramework \in Seq(Command)
  BY DEF AtlInit, NifStates
<1>4. AtlInit => /\ framework \in [Nifs -> {"open", "closed"}]
                 /\ atl \in [Handles -> {"idle", "asked", "open", "closing"}]
  BY DEF AtlInit
<1>5. QED
  BY <1>2, <1>3, <1>4 DEF AtlTypeOK

LEMMA AtlNextTypeOK == AtlTypeOK /\ [AtlNext]_atlVars => AtlTypeOK'
<1> SUFFICES ASSUME AtlTypeOK, [AtlNext]_atlVars PROVE AtlTypeOK'
  OBVIOUS
<1>1. ASSUME NifTypes', atlQueue' \in Seq(AtlMessage), created' \subseteq Nifs,
             framework' \in [Nifs -> {"open", "closed"}],
             handling' \in Handling, closing' \in Nifs \cup {NoArg}, raced' \in BOOLEAN
      PROVE  AtlTypeOK'
  BY <1>1 DEF AtlTypeOK, NifTypes
<1>0. CASE TaskBegins
  <2>1. PICK m : m = Head(atlQueue)
    OBVIOUS
  <2>2. m \in AtlMessage
    BY <1>0, <2>1 DEF TaskBegins, AtlTypeOK
  <2>3. Targets(m) \subseteq Nifs
    BY <2>2, TargetsTypes
  <2>4. handling' \in {Absent} \cup {[n |-> n, saw |-> mState[n]] : n \in Targets(m)}
    BY <1>0, <2>1 DEF TaskBegins
  <2>5. handling' \in Handling
    BY <2>3, <2>4 DEF Handling, AtlTypeOK
  <2>6. raced' \in BOOLEAN /\ UNCHANGED <<nifVars, atlQueue, toFramework, framework, atl, closing>>
    BY <1>0 DEF TaskBegins, AtlTypeOK
  <2>7. QED
    BY <2>5, <2>6 DEF AtlTypeOK, nifVars
<1>20. ASSUME NEW op, Receive(op)
       PROVE  /\ handling' \in Handling /\ closing' \in Nifs \cup {NoArg} /\ raced' \in BOOLEAN
              /\ created' \subseteq Nifs /\ framework' \in [Nifs -> {"open", "closed"}]
  BY <1>20 DEF Receive, AtlTypeOK, Handling
<1>2. CASE RequestATL
  <2> DEFINE m == Head(atlQueue)
  <2>1. m \in AtlMessage /\ m.op = "requestATL" /\ atlQueue' \in Seq(AtlMessage)
    BY <1>2, ReceiveTypes DEF RequestATL, Receive
  <2>2. m.h \in Handles /\ handling # Idle
    BY <1>2, <2>1 DEF AtlMessage, RequestATL, Receive
  <2>3. NifTypes'
    <3>1. CASE handling = Absent
      BY <1>2, <3>1, AtlTypes DEF RequestATL, AtlTypeOK, NifTypes
    <3>2. CASE handling # Absent
      BY <1>2, <2>2, <3>2, HandlingTypes, SubscribeTypes DEF RequestATL
    <3>3. QED
      BY <3>1, <3>2
  <2>4. QED
    BY <1>1, <1>2, <1>20, <2>1, <2>3 DEF RequestATL
<1>3. CASE ReleaseATL
  <2> DEFINE m == Head(atlQueue)
  <2>1. m \in AtlMessage /\ m.op = "releaseATL" /\ atlQueue' \in Seq(AtlMessage)
    BY <1>3, ReceiveTypes DEF ReleaseATL, Receive
  <2>2. m.h \in Handles /\ handling # Idle
    BY <1>3, <2>1 DEF AtlMessage, ReleaseATL, Receive
  <2>3. NifTypes'
    <3>1. CASE handling = Absent
      BY <1>3, <3>1 DEF ReleaseATL, AtlTypeOK, NifTypes
    <3>2. CASE handling # Absent
      BY <1>3, <2>2, <3>2, HandlingTypes, UnsubscribeTypes DEF ReleaseATL
    <3>3. QED
      BY <3>1, <3>2
  <2>4. QED
    BY <1>1, <1>3, <1>20, <2>1, <2>3 DEF ReleaseATL
<1>4. CASE ReportAtlOpenSuccess \/ ReportAtlOpenFailed \/ ReportAtlClosed
  <2>1. PICK op : Receive(op)
    BY <1>4 DEF ReportAtlOpenSuccess, ReportAtlOpenFailed, ReportAtlClosed
  <2>2. atlQueue' \in Seq(AtlMessage)
    BY <2>1, ReceiveTypes
  <2>3. NifTypes'
    BY <1>4, ReportTypes DEF ReportAtlOpenSuccess, ReportAtlOpenFailed, ReportAtlClosed
  <2>4. QED
    BY <1>1, <1>20, <2>1, <2>2, <2>3
<1>5. ASSUME NEW h \in Handles, NEW n \in Nifs, ModemRequest(h, n) PROVE AtlTypeOK'
  <2>1. [op |-> "requestATL", h |-> h, n |-> n] \in AtlMessage
    BY DEF AtlMessage
  <2>2. QED
    BY <1>5, <2>1 DEF AtlTypeOK, ModemRequest, nifVars, threadVars
<1>6. ASSUME NEW h \in Handles, ModemRelease(h) PROVE AtlTypeOK'
  <2>1. [op |-> "releaseATL", h |-> h, n |-> NoArg] \in AtlMessage
    BY DEF AtlMessage
  <2>2. QED
    BY <1>6, <2>1 DEF AtlTypeOK, ModemRelease, nifVars, threadVars
<1>7. ASSUME NEW S \in SUBSET Nifs, CreateAgpsStateMachines(S) PROVE AtlTypeOK'
  BY <1>7 DEF AtlTypeOK, CreateAgpsStateMachines, threadVars
<1>8. ASSUME NEW n \in Nifs,
             \/ FrameworkOpens(n) \/ FrameworkFails(n) \/ FrameworkCloses(n)
             \/ FrameworkFailsToClose(n) \/ FrameworkLoses(n)
      PROVE  AtlTypeOK'
  <2>1. \A op \in {"opened", "failed", "closed"} : Report(op, n) \in AtlMessage
    BY DEF AtlMessage, Report
  <2>2. atlQueue' = atlQueue \/ \E op \in {"opened", "failed", "closed"} :
                             atlQueue' = Append(atlQueue, Report(op, n))
    BY <1>8 DEF FrameworkOpens, FrameworkFails, FrameworkCloses, FrameworkFailsToClose,
       FrameworkLoses
  <2>3. atlQueue' \in Seq(AtlMessage)
    <3>1. CASE atlQueue' = atlQueue
      BY <3>1 DEF AtlTypeOK
    <3>2. ASSUME NEW op \in {"opened", "failed", "closed"},
                 atlQueue' = Append(atlQueue, Report(op, n))
          PROVE  atlQueue' \in Seq(AtlMessage)
      <4>1. Report(op, n) \in AtlMessage /\ atlQueue \in Seq(AtlMessage)
        BY <2>1 DEF AtlTypeOK
      <4>2. QED
        BY <3>2, <4>1
    <3>3. QED
      BY <2>2, <3>1, <3>2
  <2>4. framework' \in [Nifs -> {"open", "closed"}]
    BY <1>8 DEF AtlTypeOK, FrameworkOpens, FrameworkFails, FrameworkCloses,
       FrameworkFailsToClose, FrameworkLoses
  <2>5. UNCHANGED <<nifVars, atl, threadVars>>
    BY <1>8 DEF FrameworkOpens, FrameworkFails, FrameworkCloses, FrameworkFailsToClose,
       FrameworkLoses
  <2>6. toFramework' \in Seq(Command)
    <3>1. toFramework' = toFramework \/ \E op \in {"request", "release"} : Act(op, n)
      BY <1>8 DEF FrameworkOpens, FrameworkFails, FrameworkCloses, FrameworkFailsToClose,
         FrameworkLoses
    <3>2. QED
      BY <3>1, ActTypes DEF AtlTypeOK
  <2>7. QED
    BY <2>3, <2>4, <2>5, <2>6 DEF AtlTypeOK, nifVars, threadVars
<1>9. ASSUME NEW n \in Nifs, FrameworkOpensBadApn(n) PROVE AtlTypeOK'
  <2>1. toFramework' \in Seq(Command)
    BY <1>9, ActTypes DEF FrameworkOpensBadApn
  <2>2. closing' \in Nifs \cup {NoArg} /\ raced' \in BOOLEAN
    BY <1>9 DEF AtlTypeOK, FrameworkOpensBadApn
  <2>3. UNCHANGED <<nifVars, atlQueue, atl, handling>>
    BY <1>9 DEF FrameworkOpensBadApn
  <2>4. framework' \in [Nifs -> {"open", "closed"}]
    BY <1>9 DEF AtlTypeOK, FrameworkOpensBadApn
  <2>5. QED
    BY <2>1, <2>2, <2>3, <2>4 DEF AtlTypeOK, nifVars
<1>12. CASE FrameworkReportsClosed
  <2>1. NifTypes'
    BY <1>12, ReportTypes DEF FrameworkReportsClosed
  <2>2. QED
    BY <1>1, <1>12, <2>1 DEF FrameworkReportsClosed, AtlTypeOK
<1>10. CASE UNCHANGED atlVars
  BY <1>10 DEF AtlTypeOK, atlVars, nifVars, threadVars
<1>11. QED
  BY <1>0, <1>2, <1>3, <1>4, <1>5, <1>6, <1>7, <1>8, <1>9, <1>10, <1>12
     DEF AtlNext, TaskNext, FrameworkNext

\* Every variable keeps its type.
THEOREM AtlTypeCorrect == AtlSpec => []AtlTypeOK
BY AtlInitTypeOK, AtlNextTypeOK, PTL DEF AtlSpec

-----------------------------------------------------------------------------
(***************************************************************************)
(* The messages about one handle, and how they change as a message is sent *)
(* or received.                                                            *)
(***************************************************************************)
Is(i, op, h) == i \in DOMAIN atlQueue /\ atlQueue[i].op = op /\ atlQueue[i].h = h

Req(h) == AtlQueued("requestATL", h)
Rel(h) == AtlQueued("releaseATL", h)

\* The handle is released after it is requested; it is requested twice.
ReqRel(h) == \E i, j \in DOMAIN atlQueue : i < j /\ Is(i, "requestATL", h) /\ Is(j, "releaseATL", h)
TwoReq(h) == \E i, j \in DOMAIN atlQueue : i < j /\ Is(i, "requestATL", h) /\ Is(j, "requestATL", h)

LEMMA AtlSent ==
  ASSUME AtlTypeOK, NEW m \in AtlMessage, atlQueue' = Append(atlQueue, m), NEW h \in Handles
  PROVE  /\ Req(h)' <=> Req(h) \/ (m.op = "requestATL" /\ m.h = h)
         /\ Rel(h)' <=> Rel(h) \/ (m.op = "releaseATL" /\ m.h = h)
         /\ ReqRel(h)' <=> ReqRel(h) \/ (Req(h) /\ m.op = "releaseATL" /\ m.h = h)
         /\ TwoReq(h)' <=> TwoReq(h) \/ (Req(h) /\ m.op = "requestATL" /\ m.h = h)
<1>0. PICK L \in Nat : L = Len(atlQueue)
  BY DEF AtlTypeOK
<1>1. /\ L \in Nat /\ DOMAIN atlQueue = 1..L /\ DOMAIN atlQueue' = 1..(L + 1)
      /\ \A i \in 1..L : atlQueue'[i] = atlQueue[i]
      /\ atlQueue'[L + 1] = m
  BY <1>0 DEF AtlTypeOK
<1>2. \A op : \A i \in 1..L : Is(i, op, h)' <=> Is(i, op, h)
  BY <1>1 DEF Is
<1>3. \A op : Is(L + 1, op, h)' <=> m.op = op /\ m.h = h
  BY <1>1 DEF Is
<1>4. \A op : AtlQueued(op, h)' <=> AtlQueued(op, h) \/ (m.op = op /\ m.h = h)
  BY <1>1 DEF AtlQueued
<1>5. \A op : (\E i \in 1..L : Is(i, op, h)) <=> AtlQueued(op, h)
  BY <1>1 DEF Is, AtlQueued
<1>6. ReqRel(h)' <=> ReqRel(h) \/ (Req(h) /\ m.op = "releaseATL" /\ m.h = h)
  BY <1>1, <1>2, <1>3, <1>5 DEF ReqRel, Req
<1>7. TwoReq(h)' <=> TwoReq(h) \/ (Req(h) /\ m.op = "requestATL" /\ m.h = h)
  BY <1>1, <1>2, <1>3, <1>5 DEF TwoReq, Req
<1>8. QED
  BY <1>4, <1>6, <1>7 DEF Req, Rel

LEMMA AtlReceived ==
  ASSUME AtlTypeOK, NEW op, Receive(op), NEW h \in Handles, ~ TwoReq(h)
  PROVE  /\ ~ TwoReq(h)'
         /\ ReqRel(h)' => ReqRel(h)
         /\ IF op = "requestATL" /\ Head(atlQueue).h = h
            THEN ~ Req(h)' /\ Req(h) /\ (Rel(h)' <=> ReqRel(h))
            ELSE /\ Req(h)' <=> Req(h)
                 /\ ReqRel(h)' <=> ReqRel(h)
                 /\ IF op = "releaseATL" /\ Head(atlQueue).h = h
                    THEN Rel(h)' => Rel(h)
                    ELSE Rel(h)' <=> Rel(h)
<1>0. PICK L \in Nat : L = Len(atlQueue)
  BY DEF AtlTypeOK
<1>1. /\ L \in Nat /\ DOMAIN atlQueue = 1..L /\ DOMAIN atlQueue' = 1..(L - 1)
      /\ \A i \in 1..(L - 1) : atlQueue'[i] = atlQueue[i + 1]
      /\ L > 0 /\ Head(atlQueue) = atlQueue[1] /\ atlQueue[1].op = op
  BY <1>0 DEF AtlTypeOK, Receive
<1>2. \A o : \A i \in 1..(L - 1) : Is(i, o, h)' <=> Is(i + 1, o, h)
  BY <1>1 DEF Is
<1>3. \A o : Is(1, o, h) <=> o = op /\ Head(atlQueue).h = h
  BY <1>1 DEF Is
<1>4. \A o : (\E i \in 1..L : Is(i, o, h)) <=> AtlQueued(o, h)
  BY <1>1 DEF Is, AtlQueued
<1>5. \A o : (\E i \in 1..L : i > 1 /\ Is(i, o, h)) <=> AtlQueued(o, h)'
  <2>1. ASSUME NEW o, NEW i \in 1..L, i > 1, Is(i, o, h) PROVE AtlQueued(o, h)'
    <3>1. i - 1 \in 1..(L - 1) /\ atlQueue'[i - 1] = atlQueue[i]
      BY <1>1, <2>1
    <3>2. QED
      BY <1>1, <2>1, <3>1 DEF Is, AtlQueued
  <2>2. ASSUME NEW o, AtlQueued(o, h)' PROVE \E i \in 1..L : i > 1 /\ Is(i, o, h)
    BY <1>1, <2>2 DEF Is, AtlQueued
  <2>3. QED
    BY <2>1, <2>2
<1>6. ReqRel(h)' <=> \E i, j \in 1..L : 1 < i /\ i < j /\ Is(i, "requestATL", h) /\ Is(j, "releaseATL", h)
  <2>1. ASSUME NEW i \in 1..L, NEW j \in 1..L, 1 < i, i < j,
               Is(i, "requestATL", h), Is(j, "releaseATL", h)
        PROVE  ReqRel(h)'
    <3>1. i - 1 \in 1..(L - 1) /\ j - 1 \in 1..(L - 1) /\ i - 1 < j - 1
          /\ (i - 1) + 1 = i /\ (j - 1) + 1 = j
      BY <1>1, <2>1
    <3>2. Is(i - 1, "requestATL", h)' /\ Is(j - 1, "releaseATL", h)'
      BY <1>2, <2>1, <3>1
    <3>3. QED
      BY <1>1, <3>1, <3>2 DEF ReqRel
  <2>2. ASSUME ReqRel(h)'
        PROVE  \E i, j \in 1..L : 1 < i /\ i < j /\ Is(i, "requestATL", h) /\ Is(j, "releaseATL", h)
    BY <1>1, <1>2, <2>2 DEF ReqRel
  <2>3. QED
    BY <2>1, <2>2
<1>7. ~ TwoReq(h)'
  <2>1. SUFFICES ASSUME NEW i \in 1..(L - 1), NEW j \in 1..(L - 1), i < j,
                        Is(i, "requestATL", h)', Is(j, "requestATL", h)'
                 PROVE  FALSE
    BY <1>1 DEF TwoReq
  <2>2. /\ Is(i + 1, "requestATL", h) /\ Is(j + 1, "requestATL", h)
        /\ i + 1 \in 1..L /\ j + 1 \in 1..L /\ i + 1 < j + 1
    BY <1>1, <1>2, <2>1
  <2>3. QED
    BY <1>1, <2>2 DEF TwoReq
<1>8. ReqRel(h)' => ReqRel(h)
  BY <1>1, <1>6 DEF ReqRel
<1>9. CASE op = "requestATL" /\ Head(atlQueue).h = h
  <2>1. Is(1, "requestATL", h)
    BY <1>3, <1>9
  <2>2. Req(h) /\ ~ Req(h)'
    <3>1. Req(h)
      BY <1>1, <1>4, <2>1 DEF Req
    <3>2. \A i \in 1..L : i > 1 => ~ Is(i, "requestATL", h)
      BY <1>1, <2>1 DEF TwoReq
    <3>3. QED
      BY <1>5, <3>1, <3>2 DEF Req
  <2>3. Rel(h)' <=> ReqRel(h)
    <3>1. \A i, j \in 1..L : Is(i, "requestATL", h) /\ i < j => i = 1
      BY <1>1, <2>1 DEF TwoReq
    <3>2. QED
      BY <1>1, <1>5, <2>1, <3>1 DEF Rel, ReqRel
  <2>4. QED
    BY <1>7, <1>8, <1>9, <2>2, <2>3
<1>10. CASE ~ (op = "requestATL" /\ Head(atlQueue).h = h)
  <2>1. ~ Is(1, "requestATL", h)
    BY <1>3, <1>10
  <2>2. Req(h)' <=> Req(h)
    BY <1>1, <1>4, <1>5, <2>1 DEF Req
  <2>3. ReqRel(h)' <=> ReqRel(h)
    BY <1>1, <1>6, <1>8, <2>1 DEF ReqRel
  <2>4. Rel(h)' => Rel(h)
    BY <1>4, <1>5 DEF Rel
  <2>5. ~ (op = "releaseATL" /\ Head(atlQueue).h = h) => (Rel(h) => Rel(h)')
    BY <1>1, <1>3, <1>4, <1>5 DEF Rel
  <2>6. QED
    BY <1>7, <1>10, <2>2, <2>3, <2>4, <2>5
<1>11. QED
  BY <1>9, <1>10

-----------------------------------------------------------------------------
(***************************************************************************)
(* The inductive invariant.                                                *)
(***************************************************************************)
Listed(h) == \E n \in Nifs : h \in mSubscriberList[n]

HandleInv(h) ==
  /\ ~ TwoReq(h)
  /\ \A m, n \in Nifs : h \in mSubscriberList[m] \cap mSubscriberList[n] => m = n
  /\ \A n \in Nifs : h \in mSubscriberList[n] =>
       atl[h] \in {"closing", IF mState[n] = "ACQUIRED" THEN "open" ELSE "asked"}
  /\ Req(h) => atl[h] \in {"asked", "closing"} /\ ~ Listed(h)
  /\ atl[h] = "asked" => ~ ReqRel(h) /\ (Req(h) \/ (Listed(h) /\ ~ Rel(h)))
  /\ atl[h] = "open" => Listed(h) /\ ~ Rel(h)
  /\ atl[h] = "closing" => ReqRel(h) \/ (Listed(h) /\ Rel(h))

\* Only a state machine that has been created has subscribers.
CreatedInv == \A n \in Nifs \ created : mSubscriberList[n] = {}

\* A handler that is under way works on the message's state machine, as it is
\* still, and the framework's thread is in none that the handler looks into.
Acting(m) ==
  /\ closing \notin Touched(m)
  /\ IF handling = Absent
     THEN Targets(m) = {}
     ELSE handling.n \in Targets(m) /\ handling.saw = mState[handling.n]

TaskInv == handling # Idle => atlQueue # <<>> /\ Acting(Head(atlQueue))

\* The state machine that the framework's thread closes is open.
ClosingInv == closing # NoArg => mState[closing] = "ACQUIRED"

StatesMatch == \A n \in Nifs : mState[n] = "RELEASED" <=> mSubscriberList[n] = {}

AtlIInv ==
  /\ AtlTypeOK /\ StatesMatch /\ CreatedInv /\ TaskInv /\ ClosingInv
  /\ \A h \in Handles : HandleInv(h)

\* The step leaves the messages about h as they are.
SameMessages(h) ==
  /\ Req(h)' <=> Req(h)
  /\ Rel(h)' <=> Rel(h)
  /\ ReqRel(h)' <=> ReqRel(h)
  /\ ~ TwoReq(h)'

LEMMA ReqRelNeedsBoth ==
  ASSUME NEW h PROVE ReqRel(h) => Req(h) /\ Rel(h)
BY DEF ReqRel, Req, Rel, Is, AtlQueued

LEMMA Still ==
  ASSUME NEW h \in Handles, HandleInv(h), SameMessages(h),
         UNCHANGED <<mState, mSubscriberList, atl>>
  PROVE  HandleInv(h)'
BY DEF HandleInv, SameMessages, Listed

LEMMA SubscribeKeepsMatch ==
  ASSUME AtlTypeOK, StatesMatch, NEW h \in Handles, NEW n \in Nifs, Subscribe(h, n, mState[n])
  PROVE  StatesMatch'
BY DEF AtlTypeOK, StatesMatch, Subscribe, AddSubscriber, Transition

LEMMA UnsubscribeKeepsMatch ==
  ASSUME AtlTypeOK, StatesMatch, NEW h \in Handles, NEW n \in Nifs, Unsubscribe(h, n, mState[n])
  PROVE  StatesMatch'
BY DEF AtlTypeOK, StatesMatch, Unsubscribe, Transition

LEMMA ReportKeepsMatch ==
  ASSUME AtlTypeOK, StatesMatch, NEW n \in Nifs,
         \/ Granted(n, mState[n]) \/ DenyApn(n, mState[n]) \/ Released(n, mState[n])
  PROVE  StatesMatch'
BY DEF AtlTypeOK, StatesMatch, Granted, DenyApn, Released, End, Transition, NifStates

\* The request of a handle is handled: a release that follows it is now all
\* that can end the subscription.
LEMMA SubscribeOwn ==
  ASSUME AtlTypeOK, StatesMatch, NEW h \in Handles, NEW n \in Nifs, HandleInv(h),
         Subscribe(h, n, mState[n]), Req(h), ~ Req(h)', Rel(h)' <=> ReqRel(h), ~ TwoReq(h)'
  PROVE  HandleInv(h)'
<1>1. atl[h] \in {"asked", "closing"} /\ ~ Listed(h) /\ (atl[h] = "closing" => ReqRel(h))
  BY DEF HandleInv
<1>2. mSubscriberList' = [mSubscriberList EXCEPT ![n] = @ \cup {h}]
  BY DEF Subscribe, AddSubscriber
<1>3. \A m \in Nifs : h \in mSubscriberList'[m] <=> m = n
  BY <1>1, <1>2 DEF AtlTypeOK, Listed
<1>4. mState'[n] = "ACQUIRED" <=> mState[n] = "ACQUIRED"
  BY DEF AtlTypeOK, Subscribe, Transition
<1>5. atl'[h] = IF mState[n] = "ACQUIRED" /\ atl[h] = "asked" THEN "open" ELSE atl[h]
  BY DEF Subscribe, AtlOpened
<1>6. Listed(h)'
  BY <1>3 DEF Listed
<1>7. atl[h] = "asked" => ~ Rel(h)'
  BY DEF HandleInv
<1>8. ~ ReqRel(h)'
  BY ReqRelNeedsBoth, PTL
<1>9. QED
  BY <1>1, <1>3, <1>4, <1>5, <1>6, <1>7, <1>8 DEF HandleInv

LEMMA SubscribeOther ==
  ASSUME AtlTypeOK, StatesMatch, NEW g \in Handles, NEW n \in Nifs, Subscribe(g, n, mState[n]),
         NEW h \in Handles \ {g}, HandleInv(h), SameMessages(h)
  PROVE  HandleInv(h)'
<1>1. \A m \in Nifs : h \in mSubscriberList'[m] <=> h \in mSubscriberList[m]
  BY DEF AtlTypeOK, Subscribe, AddSubscriber
<1>2. \A m \in Nifs : h \in mSubscriberList[m] => mState'[m] = mState[m]
  BY DEF AtlTypeOK, StatesMatch, Subscribe, Transition
<1>3. atl'[h] = atl[h]
  BY DEF AtlTypeOK, Subscribe, AtlOpened
<1>4. Listed(h)' <=> Listed(h)
  BY <1>1 DEF Listed
<1>5. QED
  BY <1>1, <1>2, <1>3, <1>4 DEF HandleInv, SameMessages

LEMMA UnsubscribeOwn ==
  ASSUME AtlTypeOK, StatesMatch, NEW h \in Handles, NEW n \in Nifs, HandleInv(h),
         h \in mSubscriberList[n], Unsubscribe(h, n, mState[n]), Req(h)' <=> Req(h), ~ TwoReq(h)'
  PROVE  HandleInv(h)'
<1>1. \A m \in Nifs : h \notin mSubscriberList'[m]
  BY DEF AtlTypeOK, StatesMatch, HandleInv, Unsubscribe
<1>2. atl'[h] = "idle"
  BY DEF Unsubscribe, AtlEnded
<1>3. ~ Req(h)'
  BY DEF HandleInv, Listed
<1>4. QED
  BY <1>1, <1>2, <1>3 DEF HandleInv

LEMMA UnsubscribeOther ==
  ASSUME AtlTypeOK, StatesMatch, NEW g \in Handles, NEW n \in Nifs, Unsubscribe(g, n, mState[n]),
         NEW h \in Handles \ {g}, HandleInv(h), SameMessages(h)
  PROVE  HandleInv(h)'
<1>1. \A m \in Nifs : h \in mSubscriberList'[m] <=> h \in mSubscriberList[m]
  BY DEF AtlTypeOK, Unsubscribe
<1>2. \A m \in Nifs : h \in mSubscriberList'[m] => mState'[m] = mState[m]
  BY DEF AtlTypeOK, Unsubscribe, Transition
<1>3. atl'[h] = atl[h]
  BY DEF AtlTypeOK, Unsubscribe, AtlEnded
<1>4. Listed(h)' <=> Listed(h)
  BY <1>1 DEF Listed
<1>5. QED
  BY <1>1, <1>2, <1>3, <1>4 DEF HandleInv, SameMessages

LEMMA GrantedKeeps ==
  ASSUME AtlTypeOK, NEW n \in Nifs, Granted(n, mState[n]),
         NEW h \in Handles, HandleInv(h), SameMessages(h)
  PROVE  HandleInv(h)'
<1>1. mSubscriberList' = mSubscriberList
  BY DEF Granted
<1>2. CASE mState[n] = "PENDING" /\ h \in mSubscriberList[n]
  <2>1. atl'[h] = (IF atl[h] = "asked" THEN "open" ELSE atl[h]) /\ mState'[n] = "ACQUIRED"
    BY <1>2 DEF AtlTypeOK, Granted, AtlOpened, Transition
  <2>2. \A m \in Nifs : h \in mSubscriberList[m] => m = n
    BY <1>2 DEF HandleInv
  <2>3. Listed(h) /\ Listed(h)' /\ atl[h] \in {"asked", "closing"}
    BY <1>1, <1>2 DEF HandleInv, Listed
  <2>4. QED
    BY <1>1, <1>2, <2>1, <2>2, <2>3 DEF HandleInv, SameMessages
<1>3. CASE ~ (mState[n] = "PENDING" /\ h \in mSubscriberList[n])
  <2>1. /\ atl'[h] = atl[h]
        /\ \A m \in Nifs : h \in mSubscriberList[m] => mState'[m] = mState[m]
    BY <1>3 DEF AtlTypeOK, Granted, AtlOpened, Transition
  <2>2. QED
    BY <1>1, <2>1 DEF HandleInv, SameMessages, Listed
<1>4. QED
  BY <1>2, <1>3

LEMMA EndKeeps ==
  ASSUME AtlTypeOK, NEW n \in Nifs, NEW state, NEW h \in Handles, HandleInv(h), SameMessages(h),
         IF mState[n] = state
         THEN /\ Transition(n, "RELEASED")
              /\ atl' = AtlEnded(mSubscriberList[n])
              /\ mSubscriberList' = [mSubscriberList EXCEPT ![n] = {}]
         ELSE UNCHANGED <<mState, mSubscriberList, atl>>
  PROVE  HandleInv(h)'
<1>1. CASE mState[n] = state /\ h \in mSubscriberList[n]
  <2>1. atl'[h] = "idle"
    BY <1>1 DEF AtlEnded
  <2>2. \A m \in Nifs : h \notin mSubscriberList'[m]
    BY <1>1 DEF AtlTypeOK, HandleInv
  <2>3. ~ Req(h)'
    BY <1>1 DEF HandleInv, SameMessages, Listed
  <2>4. QED
    BY <2>1, <2>2, <2>3 DEF HandleInv, SameMessages
<1>2. CASE mState[n] = state /\ h \notin mSubscriberList[n]
  <2>1. atl'[h] = atl[h]
    BY <1>2 DEF AtlTypeOK, AtlEnded
  <2>2. \A m \in Nifs : h \in mSubscriberList'[m] <=> h \in mSubscriberList[m]
    BY <1>2 DEF AtlTypeOK
  <2>3. \A m \in Nifs : h \in mSubscriberList[m] => mState'[m] = mState[m]
    BY <1>2 DEF AtlTypeOK, Transition
  <2>4. Listed(h)' <=> Listed(h)
    BY <2>2 DEF Listed
  <2>5. QED
    BY <2>1, <2>2, <2>3, <2>4 DEF HandleInv, SameMessages
<1>3. CASE mState[n] # state
  BY <1>3, Still
<1>4. QED
  BY <1>1, <1>2, <1>3

-----------------------------------------------------------------------------
(***************************************************************************)
(* Each step preserves the invariant: first the handlers of the MsgTask.   *)
(***************************************************************************)
Inv == StatesMatch /\ \A h \in Handles : HandleInv(h)

\* A handler works on the state machine of its message, in the state that it
\* is in.
LEMMA HandlerActs ==
  ASSUME AtlIInv, NEW op, Receive(op), NEW m, m = Head(atlQueue)
  PROVE  /\ m \in AtlMessage /\ m.op = op
         /\ IF handling = Absent
            THEN Targets(m) = {}
            ELSE /\ handling.n \in Targets(m) /\ handling.n \in Nifs
                 /\ handling.saw = mState[handling.n]
<1>1. m \in AtlMessage /\ m.op = op /\ handling # Idle
  BY ReceiveTypes DEF AtlIInv, Receive
<1>2. Acting(m)
  BY <1>1 DEF AtlIInv, TaskInv
<1>3. AtlTypeOK
  BY DEF AtlIInv
<1>4. QED
  BY <1>1, <1>2, <1>3, HandlingTypes DEF Acting

LEMMA RequestKeeps == AtlIInv /\ RequestATL => Inv'
<1> SUFFICES ASSUME AtlIInv, RequestATL PROVE Inv'
  OBVIOUS
<1>0. PICK m : m = Head(atlQueue)
  OBVIOUS
<1>1. /\ AtlTypeOK /\ StatesMatch /\ \A h \in Handles : HandleInv(h)
      /\ Receive("requestATL") /\ m.h \in Handles
  <2>1. m \in AtlMessage /\ m.op = "requestATL"
    BY <1>0, HandlerActs DEF RequestATL
  <2>2. QED
    BY <2>1 DEF AtlIInv, RequestATL, AtlMessage
<1>2. Req(m.h) /\ ~ Req(m.h)' /\ (Rel(m.h)' <=> ReqRel(m.h)) /\ ~ TwoReq(m.h)'
  BY <1>0, <1>1, AtlReceived DEF HandleInv
<1>3. \A h \in Handles \ {m.h} : SameMessages(h)
  BY <1>0, <1>1, AtlReceived DEF HandleInv, SameMessages
<1>4. CASE handling # Absent
  <2> DEFINE n == handling.n
  <2>0. n \in Nifs /\ handling.saw = mState[n]
    BY <1>0, <1>1, <1>4, HandlerActs
  <2>1. Subscribe(m.h, n, mState[n])
    BY <1>0, <1>4, <2>0 DEF RequestATL
  <2> HIDE DEF n
  <2>2. HandleInv(m.h)'
    BY <1>1, <1>2, <2>0, <2>1, SubscribeOwn
  <2>3. \A h \in Handles \ {m.h} : HandleInv(h)'
    BY <1>1, <1>3, <2>0, <2>1, SubscribeOther
  <2>4. StatesMatch'
    BY <1>1, <2>0, <2>1, SubscribeKeepsMatch
  <2>5. QED
    BY <2>2, <2>3, <2>4 DEF Inv
<1>5. CASE handling = Absent
  <2>1. atl' = AtlEnded({m.h}) /\ UNCHANGED <<mState, mSubscriberList>>
    BY <1>0, <1>5 DEF RequestATL
  <2>2. HandleInv(m.h)'
    <3>1. atl'[m.h] = "idle" /\ ~ Listed(m.h)
      BY <1>1, <1>2, <2>1 DEF AtlEnded, HandleInv
    <3>2. QED
      BY <1>1, <1>2, <2>1, <3>1 DEF HandleInv, Listed
  <2>3. ASSUME NEW h \in Handles \ {m.h} PROVE HandleInv(h)'
    <3>1. atl'[h] = atl[h]
      BY <1>1, <2>1 DEF AtlEnded
    <3>2. QED
      BY <1>1, <1>3, <2>1, <3>1 DEF HandleInv, SameMessages, Listed
  <2>4. StatesMatch'
    BY <1>1, <2>1 DEF StatesMatch
  <2>5. QED
    BY <2>2, <2>3, <2>4 DEF Inv
<1>6. QED
  BY <1>4, <1>5

LEMMA ReleaseKeeps == AtlIInv /\ ReleaseATL => Inv'
<1> SUFFICES ASSUME AtlIInv, ReleaseATL PROVE Inv'
  OBVIOUS
<1>0. PICK m : m = Head(atlQueue)
  OBVIOUS
<1>1. /\ AtlTypeOK /\ StatesMatch /\ \A h \in Handles : HandleInv(h)
      /\ Receive("releaseATL") /\ m.h \in Handles
  <2>1. m \in AtlMessage /\ m.op = "releaseATL"
    BY <1>0, HandlerActs DEF ReleaseATL
  <2>2. QED
    BY <2>1 DEF AtlIInv, ReleaseATL, AtlMessage
<1>2. /\ Req(m.h)' <=> Req(m.h)
      /\ ReqRel(m.h)' <=> ReqRel(m.h)
      /\ Rel(m.h)' => Rel(m.h)
      /\ ~ TwoReq(m.h)'
  BY <1>0, <1>1, AtlReceived DEF HandleInv
<1>3. \A h \in Handles \ {m.h} : SameMessages(h)
  BY <1>0, <1>1, AtlReceived DEF HandleInv, SameMessages
<1>4. CASE handling = Absent
  <2>0. Holders(m.h) = {}
    <3>1. Targets(m) = {} /\ m.op = "releaseATL"
      BY <1>0, <1>1, <1>4, HandlerActs
    <3>2. QED
      BY <3>1 DEF Targets
  <2>1. UNCHANGED <<mState, mSubscriberList, atl>>
    BY <1>0, <1>4 DEF ReleaseATL
  <2>2. StatesMatch' /\ \A h \in Handles \ {m.h} : HandleInv(h)'
    BY <1>1, <1>3, <2>1, Still DEF StatesMatch
  <2>3. HandleInv(m.h)'
    <3>1. CASE Listed(m.h)
      BY <2>0, <3>1 DEF AtlIInv, CreatedInv, Listed, Holders
    <3>2. CASE ~ Listed(m.h)
      BY <1>1, <1>2, <2>1, <3>2 DEF HandleInv, Listed
    <3>3. QED
      BY <3>1, <3>2
  <2>4. QED
    BY <2>2, <2>3 DEF Inv
<1>5. CASE handling # Absent
  <2> DEFINE n == handling.n
  <2>0. n \in Nifs /\ handling.saw = mState[n] /\ n \in Holders(m.h)
    <3>1. /\ n \in Targets(m) /\ n \in Nifs /\ handling.saw = mState[n]
          /\ m.op = "releaseATL"
      BY <1>0, <1>1, <1>5, HandlerActs
    <3>2. QED
      BY <3>1 DEF Targets
  <2>1. Unsubscribe(m.h, n, mState[n])
    BY <1>0, <1>5, <2>0 DEF ReleaseATL
  <2>2. m.h \in mSubscriberList[n]
    BY <2>0 DEF Holders
  <2> HIDE DEF n
  <2>3. HandleInv(m.h)'
    BY <1>1, <1>2, <2>0, <2>1, <2>2, UnsubscribeOwn
  <2>4. \A h \in Handles \ {m.h} : HandleInv(h)'
    BY <1>1, <1>3, <2>0, <2>1, UnsubscribeOther
  <2>5. StatesMatch'
    BY <1>1, <2>0, <2>1, UnsubscribeKeepsMatch
  <2>6. QED
    BY <2>3, <2>4, <2>5 DEF Inv
<1>6. QED
  BY <1>4, <1>5

LEMMA ReportKeeps ==
  AtlIInv /\ (ReportAtlOpenSuccess \/ ReportAtlOpenFailed \/ ReportAtlClosed) => Inv'
<1> SUFFICES ASSUME AtlIInv, ReportAtlOpenSuccess \/ ReportAtlOpenFailed \/ ReportAtlClosed
             PROVE  Inv'
  OBVIOUS
<1>0. PICK n : n = handling.n
  OBVIOUS
<1>1. AtlTypeOK /\ StatesMatch /\ \A h \in Handles : HandleInv(h)
  BY DEF AtlIInv
<1>2. PICK op \in {"opened", "failed", "closed"} : Receive(op)
  BY DEF ReportAtlOpenSuccess, ReportAtlOpenFailed, ReportAtlClosed
<1>3. n \in Nifs /\ handling.saw = mState[n]
  <2>1. PICK m : m = Head(atlQueue)
    OBVIOUS
  <2>2. Targets(m) = {m.n}
    BY <1>2, <2>1, HandlerActs DEF Targets
  <2>3. QED
    BY <1>0, <1>2, <2>1, <2>2, HandlerActs
<1>4. Granted(n, mState[n]) \/ DenyApn(n, mState[n]) \/ Released(n, mState[n])
  BY <1>0, <1>3 DEF ReportAtlOpenSuccess, ReportAtlOpenFailed, ReportAtlClosed
<1>5. ASSUME NEW h \in Handles PROVE HandleInv(h)'
  <2>1. SameMessages(h)
    BY <1>1, <1>2, AtlReceived DEF HandleInv, SameMessages
  <2>2. QED
    BY <1>1, <1>3, <1>4, <2>1, GrantedKeeps, EndKeeps DEF DenyApn, Released, End
<1>6. StatesMatch'
  BY <1>1, <1>3, <1>4, ReportKeepsMatch
<1>7. QED
  BY <1>5, <1>6 DEF Inv

-----------------------------------------------------------------------------
(***************************************************************************)
(* The modem, the framework and the creation of the state machines.        *)
(***************************************************************************)
LEMMA ModemRequestKeeps ==
  ASSUME AtlIInv, NEW g \in Handles, NEW n \in Nifs, ModemRequest(g, n)
  PROVE  Inv'
<1>1. PICK m : m = [op |-> "requestATL", h |-> g, n |-> n]
  OBVIOUS
<1>2. m \in AtlMessage /\ atlQueue' = Append(atlQueue, m) /\ AtlTypeOK
  BY <1>1 DEF AtlIInv, ModemRequest, AtlMessage
<1>3. /\ UNCHANGED <<mState, mSubscriberList>>
      /\ atl[g] = "idle" /\ atl' = [atl EXCEPT ![g] = "asked"]
  BY DEF ModemRequest, nifVars
<1>4. ASSUME NEW h \in Handles PROVE HandleInv(h)'
  <2>1. HandleInv(h)
    BY DEF AtlIInv
  <2>2. CASE h = g
    <3>1. ~ Req(h) /\ ~ ReqRel(h) /\ ~ Listed(h) /\ ~ TwoReq(h)
      BY <1>3, <2>1, <2>2, ReqRelNeedsBoth DEF HandleInv, Listed
    <3>2. Req(h)' /\ ~ ReqRel(h)' /\ ~ TwoReq(h)'
      BY <1>1, <1>2, <2>2, <3>1, AtlSent
    <3>3. atl'[h] = "asked" /\ ~ Listed(h)'
      BY <1>2, <1>3, <2>2, <3>1 DEF AtlTypeOK, Listed
    <3>4. QED
      BY <1>3, <3>1, <3>2, <3>3 DEF HandleInv, Listed
  <2>3. CASE h # g
    <3>1. SameMessages(h)
      BY <1>1, <1>2, <2>1, <2>3, AtlSent DEF HandleInv, SameMessages
    <3>2. atl'[h] = atl[h]
      BY <1>2, <1>3, <2>3 DEF AtlTypeOK
    <3>3. QED
      BY <1>3, <2>1, <3>1, <3>2 DEF HandleInv, SameMessages, Listed
  <2>4. QED
    BY <2>2, <2>3
<1>5. QED
  BY <1>3, <1>4 DEF AtlIInv, Inv, StatesMatch

LEMMA ModemReleaseKeeps ==
  ASSUME AtlIInv, NEW g \in Handles, ModemRelease(g)
  PROVE  Inv'
<1>1. PICK m : m = [op |-> "releaseATL", h |-> g, n |-> NoArg]
  OBVIOUS
<1>2. m \in AtlMessage /\ atlQueue' = Append(atlQueue, m) /\ AtlTypeOK
  BY <1>1 DEF AtlIInv, ModemRelease, AtlMessage
<1>3. /\ UNCHANGED <<mState, mSubscriberList>>
      /\ atl[g] \in {"asked", "open"} /\ atl' = [atl EXCEPT ![g] = "closing"]
  BY DEF ModemRelease, nifVars
<1>4. ASSUME NEW h \in Handles PROVE HandleInv(h)'
  <2>1. HandleInv(h)
    BY DEF AtlIInv
  <2>2. CASE h = g
    <3>1. /\ Req(h)' <=> Req(h)
          /\ Rel(h)'
          /\ ReqRel(h)' <=> ReqRel(h) \/ Req(h)
          /\ ~ TwoReq(h)'
      BY <1>1, <1>2, <2>1, <2>2, AtlSent DEF HandleInv
    <3>2. atl'[h] = "closing" /\ (Listed(h)' <=> Listed(h))
      BY <1>2, <1>3, <2>2 DEF AtlTypeOK, Listed
    <3>3. Req(h) \/ Listed(h)
      BY <1>3, <2>1, <2>2 DEF HandleInv
    <3>4. QED
      BY <1>3, <2>1, <3>1, <3>2, <3>3 DEF HandleInv
  <2>3. CASE h # g
    <3>1. SameMessages(h)
      BY <1>1, <1>2, <2>1, <2>3, AtlSent DEF HandleInv, SameMessages
    <3>2. atl'[h] = atl[h]
      BY <1>2, <1>3, <2>3 DEF AtlTypeOK
    <3>3. QED
      BY <1>3, <2>1, <3>1, <3>2 DEF HandleInv, SameMessages, Listed
  <2>4. QED
    BY <2>2, <2>3
<1>5. QED
  BY <1>3, <1>4 DEF AtlIInv, Inv, StatesMatch

\* A report is about no handle, nor is anything that leaves the queue alone.
LEMMA NoHandleTouched ==
  ASSUME AtlIInv,
         \/ atlQueue' = atlQueue
         \/ \E n \in Nifs, op \in {"opened", "failed", "closed"} :
              atlQueue' = Append(atlQueue, Report(op, n))
  PROVE  \A h \in Handles : SameMessages(h)
<1> SUFFICES ASSUME NEW h \in Handles PROVE SameMessages(h)
  OBVIOUS
<1>1. AtlTypeOK /\ ~ TwoReq(h)
  BY DEF AtlIInv, HandleInv
<1>2. CASE atlQueue' = atlQueue
  BY <1>1, <1>2 DEF SameMessages, Req, Rel, ReqRel, TwoReq, AtlQueued, Is
<1>3. ASSUME NEW n \in Nifs, NEW op \in {"opened", "failed", "closed"},
             atlQueue' = Append(atlQueue, Report(op, n))
      PROVE  SameMessages(h)
  <2>1. PICK m : m = Report(op, n)
    OBVIOUS
  <2>2. m \in AtlMessage /\ m.op \notin {"requestATL", "releaseATL"}
    BY <2>1 DEF AtlMessage, Report
  <2>3. QED
    BY <1>1, <1>3, <2>1, <2>2, AtlSent DEF SameMessages
<1>4. QED
  BY <1>2, <1>3

LEMMA FrameworkKeeps ==
  ASSUME AtlIInv, NEW n \in Nifs,
         \/ FrameworkOpens(n) \/ FrameworkFails(n) \/ FrameworkCloses(n)
         \/ FrameworkFailsToClose(n) \/ FrameworkLoses(n)
  PROVE  Inv'
<1>1. atlQueue' = atlQueue \/ \E op \in {"opened", "failed", "closed"} :
                           atlQueue' = Append(atlQueue, Report(op, n))
  BY DEF FrameworkOpens, FrameworkFails, FrameworkCloses, FrameworkFailsToClose, FrameworkLoses
<1>2. UNCHANGED <<mState, mSubscriberList, atl>>
  BY DEF FrameworkOpens, FrameworkFails, FrameworkCloses, FrameworkFailsToClose, FrameworkLoses,
     nifVars
<1>3. \A h \in Handles : SameMessages(h)
  BY <1>1, NoHandleTouched
<1>4. QED
  BY <1>2, <1>3, Still DEF AtlIInv, Inv, StatesMatch

\* The framework's thread closes a state machine.
LEMMA CloseKeeps == AtlIInv /\ FrameworkReportsClosed => Inv'
<1> SUFFICES ASSUME AtlIInv, FrameworkReportsClosed PROVE Inv'
  OBVIOUS
<1>0. PICK n : n = closing
  OBVIOUS
<1>1. n \in Nifs /\ mState[n] = "ACQUIRED" /\ AtlTypeOK /\ StatesMatch
  BY <1>0 DEF AtlIInv, AtlTypeOK, ClosingInv, FrameworkReportsClosed
<1>2. Released(n, mState[n])
  BY <1>0, <1>1 DEF FrameworkReportsClosed
<1>3. \A h \in Handles : SameMessages(h)
  BY NoHandleTouched DEF FrameworkReportsClosed
<1>4. \A h \in Handles : HandleInv(h)'
  BY <1>1, <1>2, <1>3, EndKeeps DEF AtlIInv, Released, End
<1>5. StatesMatch'
  BY <1>1, <1>2, ReportKeepsMatch
<1>6. QED
  BY <1>4, <1>5 DEF Inv

\* Steps that change no list, no state and no message.
LEMMA QuietKeeps ==
  ASSUME AtlIInv, UNCHANGED <<atlQueue, mState, mSubscriberList, atl>>
  PROVE  Inv'
BY NoHandleTouched, Still DEF AtlIInv, Inv, StatesMatch

LEMMA CreatedKeeps == AtlIInv /\ [AtlNext]_atlVars => CreatedInv'
<1> SUFFICES ASSUME AtlIInv, [AtlNext]_atlVars PROVE CreatedInv'
  OBVIOUS
<1>1. AtlTypeOK /\ CreatedInv
  BY DEF AtlIInv
<1>2. CASE RequestATL
  <2>1. PICK m : m = Head(atlQueue)
    OBVIOUS
  <2>2. Receive("requestATL") /\ created' = created
    BY <1>2 DEF RequestATL, Receive
  <2>3. CASE handling = Absent
    BY <1>1, <1>2, <2>2, <2>3 DEF RequestATL, CreatedInv
  <2>4. CASE handling # Absent
    <3>1. handling.n \in created
      BY <2>1, <2>2, <2>4, HandlerActs DEF Targets
    <3>2. \A n \in Nifs : mSubscriberList'[n] = mSubscriberList[n] \/ n = handling.n
      BY <1>1, <1>2, <2>4 DEF AtlTypeOK, RequestATL, Subscribe, AddSubscriber
    <3>3. QED
      BY <1>1, <2>2, <3>1, <3>2 DEF CreatedInv
  <2>5. QED
    BY <2>3, <2>4
<1>3. CASE \/ ReleaseATL \/ ReportAtlOpenSuccess \/ ReportAtlOpenFailed \/ ReportAtlClosed
           \/ FrameworkReportsClosed
  <2>1. \A n \in Nifs : mSubscriberList'[n] \subseteq mSubscriberList[n]
    BY <1>1, <1>3 DEF AtlTypeOK, ReleaseATL, ReportAtlOpenSuccess, ReportAtlOpenFailed,
       ReportAtlClosed, FrameworkReportsClosed, Unsubscribe, Granted, DenyApn, Released, End
  <2>2. created' = created
    BY <1>3 DEF ReleaseATL, ReportAtlOpenSuccess, ReportAtlOpenFailed, ReportAtlClosed,
       FrameworkReportsClosed, Receive
  <2>3. QED
    BY <1>1, <2>1, <2>2 DEF CreatedInv
<1>4. CASE TaskBegins \/ UNCHANGED atlVars
  BY <1>1, <1>4 DEF CreatedInv, TaskBegins, atlVars, nifVars
<1>5. ASSUME NEW n \in Nifs,
             \/ FrameworkOpens(n) \/ FrameworkFails(n) \/ FrameworkCloses(n)
             \/ FrameworkFailsToClose(n) \/ FrameworkLoses(n) \/ FrameworkOpensBadApn(n)
      PROVE  CreatedInv'
  BY <1>1, <1>5 DEF CreatedInv, FrameworkOpens, FrameworkFails, FrameworkCloses,
     FrameworkFailsToClose, FrameworkLoses, FrameworkOpensBadApn, nifVars
<1>6. ASSUME NEW h \in Handles, ModemRelease(h) \/ \E n \in Nifs : ModemRequest(h, n)
      PROVE  CreatedInv'
  BY <1>1, <1>6 DEF CreatedInv, ModemRelease, ModemRequest, nifVars
<1>7. ASSUME NEW S \in SUBSET Nifs, CreateAgpsStateMachines(S) PROVE CreatedInv'
  BY <1>1, <1>7 DEF CreatedInv, CreateAgpsStateMachines
<1>8. QED
  BY <1>2, <1>3, <1>4, <1>5, <1>6, <1>7 DEF AtlNext, TaskNext, FrameworkNext

-----------------------------------------------------------------------------
(***************************************************************************)
(* The two threads: what a handler has read stays true while it works.     *)
(***************************************************************************)

\* The next message is the same if messages are only added.
LEMMA SameHead ==
  ASSUME AtlTypeOK, atlQueue # <<>>,
         atlQueue' = atlQueue \/ \E m \in AtlMessage : atlQueue' = Append(atlQueue, m)
  PROVE  atlQueue' # <<>> /\ Head(atlQueue)' = Head(atlQueue)
BY DEF AtlTypeOK

\* Steps of the modem and the framework that leave the state machines alone.
LEMMA OutsideKeepsThreads ==
  ASSUME AtlIInv, UNCHANGED <<nifVars, threadVars>>,
         atlQueue' = atlQueue \/ \E m \in AtlMessage : atlQueue' = Append(atlQueue, m)
  PROVE  TaskInv' /\ ClosingInv'
<1>1. ClosingInv'
  BY DEF AtlIInv, ClosingInv, nifVars, threadVars
<1>2. ASSUME handling # Idle PROVE atlQueue' # <<>> /\ Acting(Head(atlQueue))'
  <2>1. atlQueue' # <<>> /\ Head(atlQueue)' = Head(atlQueue) /\ Acting(Head(atlQueue))
    BY <1>2, SameHead DEF AtlIInv, TaskInv
  <2>2. QED
    BY <2>1 DEF Acting, Targets, Touched, Holders, nifVars, threadVars
<1>3. QED
  BY <1>1, <1>2 DEF TaskInv, threadVars

LEMMA BeginKeepsThreads ==
  ASSUME AtlIInv, TaskBegins, ~ raced'
  PROVE  TaskInv' /\ ClosingInv'
<1>1. PICK m : m = Head(atlQueue)
  OBVIOUS
<1>2. closing \notin Touched(m) /\ atlQueue # <<>>
  BY <1>1 DEF TaskBegins
<1>3. UNCHANGED <<created, mState, mSubscriberList, atlQueue, closing>>
  BY DEF TaskBegins, nifVars
<1>4. IF handling' = Absent
      THEN Targets(m) = {}
      ELSE handling'.n \in Targets(m) /\ handling'.saw = mState[handling'.n]
  <2>1. CASE Targets(m) = {}
    BY <1>1, <2>1 DEF TaskBegins
  <2>2. CASE Targets(m) # {}
    <3>1. PICK n \in Targets(m) : handling' = [n |-> n, saw |-> mState[n]]
      BY <1>1, <2>2 DEF TaskBegins
    <3>2. n \in Nifs
      BY <1>1, <1>2, TargetsTypes DEF AtlIInv, AtlTypeOK
    <3>3. handling' # Absent
      BY <3>1, <3>2, NoArgAssumption DEF Absent
    <3>4. QED
      BY <3>1, <3>3
  <2>3. QED
    BY <2>1, <2>2
<1>5. Acting(m)'
  BY <1>2, <1>3, <1>4 DEF Acting, Targets, Touched, Holders
<1>6. QED
  BY <1>1, <1>2, <1>3, <1>5 DEF AtlIInv, TaskInv, ClosingInv

\* A handler leaves alone the state machine that the framework's thread closes.
LEMMA HandlerKeepsThreads ==
  ASSUME AtlIInv, \/ RequestATL \/ ReleaseATL
                  \/ ReportAtlOpenSuccess \/ ReportAtlOpenFailed \/ ReportAtlClosed
  PROVE  TaskInv' /\ ClosingInv'
<1>1. PICK op : Receive(op)
  BY DEF RequestATL, ReleaseATL, ReportAtlOpenSuccess, ReportAtlOpenFailed, ReportAtlClosed
<1>2. PICK m : m = Head(atlQueue)
  OBVIOUS
<1>3. handling # Idle /\ handling' = Idle /\ closing' = closing
  BY <1>1 DEF Receive
<1>4. closing \notin Touched(m)
  BY <1>2, <1>3 DEF AtlIInv, TaskInv, Acting
<1>5. handling # Absent => handling.n # closing
  BY <1>1, <1>2, <1>4, HandlerActs, TargetsTypes DEF AtlIInv
<1>6. \A n \in Nifs \ {handling.n} : mState'[n] = mState[n]
  BY DEF AtlIInv, AtlTypeOK, RequestATL, ReleaseATL, ReportAtlOpenSuccess, ReportAtlOpenFailed,
     ReportAtlClosed, Subscribe, Unsubscribe, Granted, DenyApn, Released, End, Transition
<1>7. handling = Absent => handling.n = NoArg
  BY DEF Absent
<1>8. closing # NoArg => mState'[closing] = mState[closing]
  BY <1>5, <1>6, <1>7, NoArgAssumption DEF AtlIInv, AtlTypeOK
<1>9. QED
  BY <1>3, <1>8 DEF AtlIInv, TaskInv, ClosingInv

LEMMA CreateKeepsThreads ==
  ASSUME AtlIInv, NEW S \in SUBSET Nifs, CreateAgpsStateMachines(S)
  PROVE  TaskInv' /\ ClosingInv'
BY DEF AtlIInv, CreateAgpsStateMachines, TaskInv, ClosingInv, threadVars

LEMMA BadApnKeepsThreads ==
  ASSUME AtlIInv, NEW n \in Nifs, FrameworkOpensBadApn(n), ~ raced'
  PROVE  TaskInv' /\ ClosingInv'
<1>1. UNCHANGED <<created, mState, mSubscriberList, atlQueue, handling>>
  BY DEF FrameworkOpensBadApn, nifVars
<1>2. ClosingInv'
  BY <1>1, NoArgAssumption DEF FrameworkOpensBadApn, ClosingInv
<1>3. PICK m : m = Head(atlQueue)
  OBVIOUS
<1>4. ASSUME handling # Idle PROVE atlQueue # <<>> /\ Acting(m)'
  <2>1. atlQueue # <<>> /\ Acting(m)
    BY <1>3, <1>4 DEF AtlIInv, TaskInv
  <2>2. n \notin Touched(m)
    BY <1>3, <1>4 DEF FrameworkOpensBadApn
  <2>3. NoArg \notin Touched(m)
    BY <1>3, <2>1, TargetsTypes DEF AtlIInv, AtlTypeOK
  <2>4. closing' \notin Touched(m)
    BY <2>2, <2>3 DEF FrameworkOpensBadApn
  <2>5. QED
    BY <1>1, <2>1, <2>4 DEF Acting, Targets, Touched, Holders
<1>5. QED
  BY <1>1, <1>2, <1>3, <1>4 DEF TaskInv

\* What the framework's thread closes is not the handler's.
LEMMA CloseKeepsThreads ==
  ASSUME AtlIInv, FrameworkReportsClosed
  PROVE  TaskInv' /\ ClosingInv'
<1>0. PICK n : n = closing
  OBVIOUS
<1>1. n \in Nifs /\ closing' = NoArg /\ UNCHANGED <<created, atlQueue, handling>>
  BY <1>0 DEF AtlIInv, AtlTypeOK, FrameworkReportsClosed
<1>2. \A k \in Nifs \ {n} : mState'[k] = mState[k]
  BY <1>0, <1>1 DEF AtlIInv, AtlTypeOK, FrameworkReportsClosed, Released, End, Transition
<1>3. PICK m : m = Head(atlQueue)
  OBVIOUS
<1>4. ASSUME handling # Idle PROVE atlQueue # <<>> /\ Acting(m)'
  <2>1. atlQueue # <<>> /\ Acting(m)
    BY <1>3, <1>4 DEF AtlIInv, TaskInv
  <2>2. m \in AtlMessage /\ n \notin Touched(m)
    BY <1>0, <1>3, <2>1 DEF AtlIInv, AtlTypeOK, Acting
  <2>3. m.op # "releaseATL"
    BY <1>1, <2>2 DEF Touched
  <2>4. Targets(m)' = Targets(m)
    BY <1>1, <2>3 DEF Targets
  <2>5. Targets(m) \subseteq Nifs \ {n} /\ NoArg \notin Touched(m)
    BY <2>2, TargetsTypes DEF AtlIInv
  <2>6. QED
    BY <1>1, <1>2, <2>1, <2>4, <2>5 DEF Acting, Touched
<1>5. QED
  BY <1>1, <1>3, <1>4 DEF TaskInv, ClosingInv

-----------------------------------------------------------------------------
(***************************************************************************)
(* Together: as long as the two threads have not met.                      *)
(***************************************************************************)
AtlRacedInv == AtlTypeOK /\ (~ raced => AtlIInv)

LEMMA AtlInitIInv == AtlInit => AtlRacedInv
<1> SUFFICES ASSUME AtlInit PROVE AtlIInv
  BY AtlInitTypeOK DEF AtlRacedInv
<1>1. StatesMatch /\ CreatedInv /\ TaskInv /\ ClosingInv
  BY DEF AtlInit, StatesMatch, CreatedInv, TaskInv, ClosingInv
<1>2. ASSUME NEW h \in Handles PROVE HandleInv(h)
  BY DEF AtlInit, HandleInv, Listed, Req, Rel, ReqRel, TwoReq, Is, AtlQueued
<1>3. QED
  BY <1>1, <1>2, AtlInitTypeOK DEF AtlIInv

LEMMA RacedStays == AtlTypeOK /\ [AtlNext]_atlVars /\ ~ raced' => ~ raced
BY DEF AtlNext, TaskNext, FrameworkNext, TaskBegins, RequestATL, ReleaseATL, ReportAtlOpenSuccess,
   ReportAtlOpenFailed, ReportAtlClosed, Receive, FrameworkOpens, FrameworkFails,
   FrameworkOpensBadApn, FrameworkCloses, FrameworkFailsToClose, FrameworkLoses,
   FrameworkReportsClosed, CreateAgpsStateMachines, ModemRelease, ModemRequest, threadVars, atlVars

LEMMA AtlNextIInv == AtlIInv /\ [AtlNext]_atlVars /\ ~ raced' => Inv' /\ TaskInv' /\ ClosingInv'
<1> SUFFICES ASSUME AtlIInv, [AtlNext]_atlVars, ~ raced' PROVE Inv' /\ TaskInv' /\ ClosingInv'
  OBVIOUS
<1>1. CASE TaskBegins
  <2>1. UNCHANGED <<atlQueue, mState, mSubscriberList, atl>>
    BY <1>1 DEF TaskBegins, nifVars
  <2>2. QED
    BY <1>1, <2>1, QuietKeeps, BeginKeepsThreads
<1>2. CASE \/ RequestATL \/ ReleaseATL
           \/ ReportAtlOpenSuccess \/ ReportAtlOpenFailed \/ ReportAtlClosed
  BY <1>2, RequestKeeps, ReleaseKeeps, ReportKeeps, HandlerKeepsThreads
<1>3. CASE FrameworkReportsClosed
  BY <1>3, CloseKeeps, CloseKeepsThreads
<1>4. ASSUME NEW n \in Nifs, FrameworkOpensBadApn(n) PROVE Inv' /\ TaskInv' /\ ClosingInv'
  <2>1. UNCHANGED <<atlQueue, mState, mSubscriberList, atl>>
    BY <1>4 DEF FrameworkOpensBadApn, nifVars
  <2>2. QED
    BY <1>4, <2>1, QuietKeeps, BadApnKeepsThreads
<1>5. ASSUME NEW n \in Nifs,
             \/ FrameworkOpens(n) \/ FrameworkFails(n) \/ FrameworkCloses(n)
             \/ FrameworkFailsToClose(n) \/ FrameworkLoses(n)
      PROVE  Inv' /\ TaskInv' /\ ClosingInv'
  <2>1. \A op \in {"opened", "failed", "closed"} : Report(op, n) \in AtlMessage
    BY DEF AtlMessage, Report
  <2>2. /\ atlQueue' = atlQueue \/ \E m \in AtlMessage : atlQueue' = Append(atlQueue, m)
        /\ UNCHANGED <<nifVars, threadVars>>
    BY <1>5, <2>1 DEF FrameworkOpens, FrameworkFails, FrameworkCloses, FrameworkFailsToClose,
       FrameworkLoses
  <2>3. QED
    BY <1>5, <2>2, FrameworkKeeps, OutsideKeepsThreads
<1>6. ASSUME NEW S \in SUBSET Nifs, CreateAgpsStateMachines(S)
      PROVE  Inv' /\ TaskInv' /\ ClosingInv'
  <2>1. UNCHANGED <<atlQueue, mState, mSubscriberList, atl>>
    BY <1>6 DEF CreateAgpsStateMachines
  <2>2. QED
    BY <1>6, <2>1, QuietKeeps, CreateKeepsThreads
<1>7. ASSUME NEW h \in Handles, NEW n \in Nifs, ModemRequest(h, n)
      PROVE  Inv' /\ TaskInv' /\ ClosingInv'
  <2>1. [op |-> "requestATL", h |-> h, n |-> n] \in AtlMessage
    BY DEF AtlMessage
  <2>2. /\ \E m \in AtlMessage : atlQueue' = Append(atlQueue, m)
        /\ UNCHANGED <<nifVars, threadVars>>
    BY <1>7, <2>1 DEF ModemRequest
  <2>3. QED
    BY <1>7, <2>2, ModemRequestKeeps, OutsideKeepsThreads
<1>8. ASSUME NEW h \in Handles, ModemRelease(h)
      PROVE  Inv' /\ TaskInv' /\ ClosingInv'
  <2>1. [op |-> "releaseATL", h |-> h, n |-> NoArg] \in AtlMessage
    BY DEF AtlMessage
  <2>2. /\ \E m \in AtlMessage : atlQueue' = Append(atlQueue, m)
        /\ UNCHANGED <<nifVars, threadVars>>
    BY <1>8, <2>1 DEF ModemRelease
  <2>3. QED
    BY <1>8, <2>2, ModemReleaseKeeps, OutsideKeepsThreads
<1>9. CASE UNCHANGED atlVars
  <2>1. UNCHANGED <<atlQueue, mState, mSubscriberList, atl, nifVars, threadVars>>
    BY <1>9 DEF atlVars, nifVars
  <2>2. QED
    BY <2>1, QuietKeeps, OutsideKeepsThreads
<1>10. QED
  BY <1>1, <1>2, <1>3, <1>4, <1>5, <1>6, <1>7, <1>8, <1>9 DEF AtlNext, TaskNext, FrameworkNext

LEMMA AtlNextRacedInv == AtlRacedInv /\ [AtlNext]_atlVars => AtlRacedInv'
<1> SUFFICES ASSUME AtlRacedInv, [AtlNext]_atlVars PROVE AtlRacedInv'
  OBVIOUS
<1>1. AtlTypeOK /\ AtlTypeOK'
  BY AtlNextTypeOK DEF AtlRacedInv
<1>2. ASSUME ~ raced' PROVE AtlIInv'
  <2>1. AtlIInv
    BY <1>1, <1>2, RacedStays DEF AtlRacedInv
  <2>2. Inv' /\ TaskInv' /\ ClosingInv' /\ CreatedInv'
    BY <1>2, <2>1, AtlNextIInv, CreatedKeeps
  <2>3. QED
    BY <1>1, <2>2 DEF Inv, AtlIInv
<1>3. QED
  BY <1>1, <1>2 DEF AtlRacedInv

\* The strengthened invariant holds in every reachable state.
THEOREM AtlInvariance == AtlSpec => []AtlRacedInv
BY AtlInitIInv, AtlNextRacedInv, PTL DEF AtlSpec

\* A state machine is RELEASED exactly when it has no subscribers, as long as
\* the framework's thread has not closed one that the MsgTask was in.
THEOREM SubscribersMatch == AtlSpec => []SubscribersMatchState
<1>1. AtlRacedInv => SubscribersMatchState
  BY DEF AtlRacedInv, AtlIInv, StatesMatch, SubscribersMatchState
<1>2. QED
  BY AtlInvariance, <1>1, PTL

\* What AgpsManager holds for a handle agrees with what the modem has been
\* told, whatever calls and reports are under way, as long as the framework's
\* thread has not closed a state machine that the MsgTask was in.
THEOREM Agreement == AtlSpec => []AtlAgreement
<1>1. AtlRacedInv => AtlAgreement
  <2> SUFFICES ASSUME AtlIInv, NEW h \in Handles PROVE AgreesOn(h)
    BY DEF AtlAgreement, AtlRacedInv
  <2>1. HandleInv(h)
    BY DEF AtlIInv
  <2>2. QED
    BY <2>1, ReqRelNeedsBoth DEF HandleInv, AgreesOn, Req, Rel, Listed
<1>2. QED
  BY AtlInvariance, <1>1, PTL

-----------------------------------------------------------------------------
(****************************************************************************)
(* NiSession.                                                              *)
(****************************************************************************)

-----------------------------------------------------------------------------
(***************************************************************************)
(* The inductive invariant.                                                *)
(***************************************************************************)
Held(r) == thread[r].at \in {"start", "wait", "failed"}

\* An "accept" for a request the user was asked about.
Justified(r) == r \in consented \/ overtaken

Carries(m, r) == m.op \in {"notify", "inform"} /\ m.r = r

MessageOK(m) ==
  /\ m.op = "notify" =>
       /\ m.r \notin unasked /\ thread[m.r].at = "none" /\ disposed[m.r] = 0
  /\ m.op = "inform" =>
       /\ m.r \notin unasked /\ thread[m.r].at = "done" /\ disposed[m.r] = 0
       /\ m.answer = "accept" => Justified(m.r)
  /\ m.op = "reply" =>
       /\ m.id # 0
       /\ m.answer = "accept" => \E r \in consented : id[r] = m.id

QueueOK == \A i \in DOMAIN queue : MessageOK(queue[i])

UniqueOK ==
  \A i, j \in DOMAIN queue : \A r \in Requests :
    Carries(queue[i], r) /\ Carries(queue[j], r) => i = j

PlaceOK(r) ==
  /\ r \in unasked => thread[r].at = "none" /\ disposed[r] = 0
  /\ thread[r].at = "none" <=> id[r] = 0
  /\ Held(r) => rawRequest[thread[r].session] = r /\ disposed[r] = 0 /\ thread[r].raw = None
  /\ thread[r].at \in {"reset", "send"} =>
       \/ thread[r].raw = None /\ disposed[r] = 1
       \/ /\ thread[r].raw = r /\ disposed[r] = 0
          /\ thread[r].answer = "accept" => Justified(r)
  /\ thread[r].at \in {"none", "done"} => thread[r].raw = None

ToldOK(r) ==
  /\ disposed[r] <= 1
  /\ disposed[r] = 0 => told[r] = {}
  /\ \A a, b \in told[r] : a = b
  /\ "accept" \in told[r] /\ id[r] # 0 => Justified(r)

IdsOK ==
  /\ \A r \in Requests : id[r] <= reqIDCounter
  /\ \A r, q \in Requests : id[r] = id[q] /\ id[r] # 0 => r = q

SessionOK(s) ==
  /\ rawRequest[s] # None =>
       /\ thread[rawRequest[s]].session = s /\ Held(rawRequest[s])
       /\ reqID[s] \in {0, id[rawRequest[s]]}
  /\ respRecvd[s] => \/ overtaken
                     \/ /\ rawRequest[s] # None
                        /\ resp[s] = "accept" => rawRequest[s] \in consented

SectionsOK ==
  \A k \in DOMAIN toSignal : toSignal[k].answer = "accept" => toSignal[k].r \in consented

IInv ==
  /\ TypeOK
  /\ QueueOK /\ UniqueOK
  /\ \A r \in Requests : PlaceOK(r) /\ ToldOK(r)
  /\ IdsOK
  /\ \A s \in Sessions : SessionOK(s)
  /\ SectionsOK

-----------------------------------------------------------------------------
(***************************************************************************)
(* Messages and sections.                                                  *)
(***************************************************************************)
LEMMA MessageTypes ==
  /\ \A r \in Requests, t \in Types, e \in BOOLEAN : Notify(r, t, e) \in Message
  /\ \A n \in Nat, a \in Responses : Reply(n, a) \in Message
  /\ \A r \in Requests, a \in Responses : Inform(r, a) \in Message
BY DEF Notify, Reply, Inform, Message

LEMMA MessageFields ==
  ASSUME NEW m \in Message
  PROVE  /\ m.op = "notify" => m.r \in Requests /\ m.type \in Types /\ m.emergency \in BOOLEAN
         /\ m.op = "reply" => m.id \in Nat /\ m.answer \in Responses
         /\ m.op = "inform" => m.r \in Requests /\ m.answer \in Responses
BY DEF Message

LEMMA Sent ==
  ASSUME NEW q \in Seq(Message), NEW m \in Message
  PROVE  /\ Append(q, m) \in Seq(Message)
         /\ \A i \in DOMAIN Append(q, m) :
              \/ i \in DOMAIN q /\ Append(q, m)[i] = q[i]
              \/ i \notin DOMAIN q /\ i = Len(q) + 1 /\ Append(q, m)[i] = m
OBVIOUS

LEMMA Received ==
  ASSUME NEW q \in Seq(Message), q # <<>>
  PROVE  /\ Tail(q) \in Seq(Message)
         /\ Head(q) \in Message /\ 1 \in DOMAIN q /\ Head(q) = q[1]
         /\ \A i \in DOMAIN Tail(q) :
              i \in Nat /\ i # 0 /\ i + 1 \in DOMAIN q /\ i + 1 # 1 /\ Tail(q)[i] = q[i + 1]
OBVIOUS

\* The messages that are left, when the first one is received.
LEMMA Handled ==
  ASSUME IInv, queue # <<>>, queue' = Tail(queue)
  PROVE  /\ Head(queue) \in Message /\ MessageOK(Head(queue))
         /\ queue' \in Seq(Message)
         /\ UniqueOK'
         /\ \A i \in DOMAIN queue' :
              /\ queue'[i] \in Message /\ MessageOK(queue'[i])
              /\ \A r \in Requests : Carries(queue'[i], r) => ~Carries(Head(queue), r)
<1>1. queue \in Seq(Message)
  BY DEF IInv, TypeOK
<1>2. /\ queue' \in Seq(Message)
      /\ Head(queue) \in Message /\ 1 \in DOMAIN queue /\ Head(queue) = queue[1]
      /\ \A i \in DOMAIN queue' :
           i \in Nat /\ i # 0 /\ i + 1 \in DOMAIN queue /\ i + 1 # 1 /\ queue'[i] = queue[i + 1]
  BY <1>1, Received
<1>3. MessageOK(Head(queue))
  BY <1>2 DEF IInv, QueueOK
<1>4. UniqueOK'
  <2>1. SUFFICES ASSUME NEW i \in DOMAIN queue', NEW j \in DOMAIN queue', NEW r \in Requests,
                        Carries(queue'[i], r), Carries(queue'[j], r)
                 PROVE  i = j
    BY DEF UniqueOK, Carries
  <2>2. i + 1 = j + 1
    BY <1>2, <2>1 DEF IInv, UniqueOK
  <2>3. QED
    BY <1>2, <2>2
<1>5. ASSUME NEW i \in DOMAIN queue'
      PROVE  /\ queue'[i] \in Message /\ MessageOK(queue'[i])
             /\ \A r \in Requests : Carries(queue'[i], r) => ~Carries(Head(queue), r)
  <2>1. queue'[i] \in Message
    BY <1>2
  <2>2. MessageOK(queue'[i])
    BY <1>2 DEF IInv, QueueOK
  <2>3. \A r \in Requests : Carries(queue'[i], r) => ~Carries(Head(queue), r)
    BY <1>2 DEF IInv, UniqueOK
  <2>4. QED
    BY <2>1, <2>2, <2>3
<1>6. QED
  BY <1>2, <1>3, <1>4, <1>5

\* A message that is new to the queue.
LEMMA Queued ==
  ASSUME IInv, NEW m \in Message, queue' = Append(queue, m),
         \A r \in Requests : Carries(m, r) =>
           \A i \in DOMAIN queue : ~Carries(queue[i], r)
  PROVE  /\ queue' \in Seq(Message)
         /\ UniqueOK'
         /\ \A i \in DOMAIN queue' :
              \/ i \in DOMAIN queue /\ queue'[i] = queue[i]
              \/ queue'[i] = m
<1>1. queue \in Seq(Message)
  BY DEF IInv, TypeOK
<1>2. /\ queue' \in Seq(Message)
      /\ \A i \in DOMAIN queue' :
           \/ i \in DOMAIN queue /\ queue'[i] = queue[i]
           \/ i \notin DOMAIN queue /\ i = Len(queue) + 1 /\ queue'[i] = m
  BY <1>1, Sent
<1>3. UniqueOK'
  <2>1. SUFFICES ASSUME NEW i \in DOMAIN queue', NEW j \in DOMAIN queue', NEW r \in Requests,
                        Carries(queue'[i], r), Carries(queue'[j], r)
                 PROVE  i = j
    BY DEF UniqueOK, Carries
  <2>2. CASE i \in DOMAIN queue /\ j \in DOMAIN queue
    BY <1>2, <2>1, <2>2 DEF IInv, UniqueOK
  <2>3. CASE i \notin DOMAIN queue \/ j \notin DOMAIN queue
    BY <1>2, <2>1, <2>3
  <2>4. QED
    BY <2>2, <2>3
<1>4. QED
  BY <1>2, <1>3

-----------------------------------------------------------------------------
(***************************************************************************)
(* Types.                                                                  *)
(***************************************************************************)
LEMMA SectionTypes ==
  ASSUME TypeOK
  PROVE  /\ IgnoreSupl \in Seq(Section)
         /\ \A n \in Nat, a \in Responses : AnswerSections(n, a) \in Seq(Section)
<1>1. ASSUME NEW s \in Sessions, NEW a \in Responses, rawRequest[s] # None
      PROVE  [session |-> s, answer |-> a, r |-> rawRequest[s]] \in Section
  BY <1>1 DEF TypeOK, Section
<1>2. IgnoreSupl \in Seq(Section)
  <2>1. CASE rawRequest["session"] = None
    BY <2>1 DEF IgnoreSupl
  <2>2. CASE rawRequest["session"] # None
    <3>1. "session" \in Sessions /\ "ignore" \in Responses
      BY DEF Sessions, Responses
    <3>2. [session |-> "session", answer |-> "ignore", r |-> rawRequest["session"]] \in Section
      BY <1>1, <2>2, <3>1
    <3>3. QED
      BY <2>2, <3>2 DEF IgnoreSupl
  <2>3. QED
    BY <2>1, <2>2
<1>3. ASSUME NEW n \in Nat, NEW a \in Responses
      PROVE  AnswerSections(n, a) \in Seq(Section)
  <2>1. ASSUME NEW s \in Sessions, Active(s, n) PROVE Answered(s, a) \in Seq(Section)
    BY <1>1, <2>1 DEF Active, Answered
  <2>2. QED
    BY <1>2, <2>1 DEF AnswerSections, Sessions
<1>4. QED
  BY <1>2, <1>3

LEMMA AtTypes ==
  ASSUME thread \in [Requests -> Thread], NEW r \in Requests, NEW at \in ThreadStates
  PROVE  [thread EXCEPT ![r].at = at] \in [Requests -> Thread]
<1> DEFINE moved == [thread[r] EXCEPT !.at = at]
<1>1. moved \in Thread
  BY DEF Thread
<1>2. [thread EXCEPT ![r].at = at] = [thread EXCEPT ![r] = moved]
  OBVIOUS
<1> HIDE DEF moved
<1>3. QED
  BY <1>1, <1>2

LEMMA TakeTypes ==
  ASSUME TypeOK, NEW r \in Requests, NEW s \in Sessions, NEW a \in Responses, Take(r, s, a)
  PROVE  /\ rawRequest' \in [Sessions -> Requests \cup {None}]
         /\ respRecvd' \in [Sessions -> BOOLEAN]
         /\ resp' \in [Sessions -> Responses]
         /\ thread' \in [Requests -> Thread]
         /\ disposed' \in [Requests -> Nat]
         /\ told' \in [Requests -> SUBSET Responses]
<1>1. /\ rawRequest' \in [Sessions -> Requests \cup {None}]
      /\ respRecvd' \in [Sessions -> BOOLEAN]
      /\ resp' \in [Sessions -> Responses]
  BY DEF Take, TypeOK
<1>2. thread' \in [Requests -> Thread]
  BY DEF Take, TypeOK, Thread, ThreadStates
<1>3. /\ disposed' \in [Requests -> Nat]
      /\ told' \in [Requests -> SUBSET Responses]
  <2>1. CASE a = "ignore" /\ rawRequest[s] # None
    <3>1. rawRequest[s] \in Requests
      BY <2>1 DEF TypeOK
    <3>2. Free(rawRequest[s])
      BY <2>1 DEF Take
    <3>3. disposed \in [Requests -> Nat] /\ told \in [Requests -> SUBSET Responses]
      BY DEF TypeOK
    <3>4. QED
      BY <3>1, <3>2, <3>3 DEF Free
  <2>2. CASE ~(a = "ignore" /\ rawRequest[s] # None)
    BY <2>2 DEF Take, TypeOK
  <2>3. QED
    BY <2>1, <2>2
<1>4. QED
  BY <1>1, <1>2, <1>3

LEMMA InformTypes ==
  ASSUME TypeOK, NEW r \in Requests, NEW a \in Responses, InformNiResponse(r, a)
  PROVE  disposed' \in [Requests -> Nat] /\ told' \in [Requests -> SUBSET Responses]
BY DEF InformNiResponse, TypeOK

\* What requestNiNotify() leaves of the types.
LEMMA NotifyTypes ==
  ASSUME TypeOK, NEW r \in Requests, NEW t \in Types, RequestNiNotify(r, t)
  PROVE  /\ rawRequest' \in [Sessions -> Requests \cup {None}]
         /\ reqID' \in [Sessions -> Nat] /\ reqIDCounter' \in Nat
         /\ thread' \in [Requests -> Thread]
         /\ id' \in [Requests -> Nat]
         /\ disposed' \in [Requests -> Nat]
         /\ told' \in [Requests -> SUBSET Responses]
         /\ toSignal' \in Seq(Section)
<1>1. CASE ~registered /\ t = "suplEs" /\ InformNiResponse(r, "accept") /\ toSignal' = IgnoreSupl
           /\ UNCHANGED <<rawRequest, reqID, reqIDCounter, thread, id>>
  <2>1. "accept" \in Responses
    BY DEF Responses
  <2>2. disposed' \in [Requests -> Nat] /\ told' \in [Requests -> SUBSET Responses]
    BY <1>1, <2>1, InformTypes
  <2>3. QED
    BY <1>1, <2>2, SectionTypes DEF TypeOK
<1>2. CASE UNCHANGED <<rawRequest, reqID, reqIDCounter, thread, id, disposed, told, toSignal>>
  BY <1>2 DEF TypeOK
<1>3. CASE Free(r) /\ UNCHANGED <<rawRequest, reqID, reqIDCounter, thread, id, toSignal>>
  BY <1>3 DEF TypeOK, Free
<1>4. CASE StartSession(r, SessionFor(t))
  <2>1. SessionFor(t) \in Sessions
    BY DEF SessionFor, Sessions
  <2>2. PICK at \in {"start", "failed"} :
          thread' = [thread EXCEPT ![r] = [NoThread EXCEPT !.at = at, !.session = SessionFor(t)]]
    BY <1>4 DEF StartSession
  <2>3. [NoThread EXCEPT !.at = at, !.session = SessionFor(t)] \in Thread
    BY <2>1 DEF NoThread, Thread, ThreadStates, Responses
  <2>4. thread' \in [Requests -> Thread]
    BY <2>2, <2>3 DEF TypeOK
  <2>5. QED
    BY <1>4, <2>1, <2>4 DEF StartSession, TypeOK
<1>5. QED
  BY <1>1, <1>2, <1>3, <1>4 DEF RequestNiNotify

LEMMA NextTypeOK == TypeOK /\ [Next]_vars => TypeOK'
<1> SUFFICES ASSUME TypeOK, [Next]_vars PROVE TypeOK'
  OBVIOUS
<1> USE DEF sessionVars, modemVars, userVars
<1>0. queue \in Seq(Message)
  BY DEF TypeOK
<1>1. ASSUME NEW r \in Requests, RequestNiNotifyEvent(r) PROVE TypeOK'
  <2>1. PICK t \in Types, e \in BOOLEAN : queue' = Append(queue, Notify(r, t, e))
    BY <1>1 DEF RequestNiNotifyEvent
  <2>2. queue' \in Seq(Message)
    BY <1>0, <2>1, Sent, MessageTypes
  <2>3. QED
    BY <1>1, <2>2 DEF RequestNiNotifyEvent, TypeOK
<1>2. ASSUME NEW r \in Requests, NEW a \in UserResponses, GnssNiResponseCommand(r, a)
      PROVE  TypeOK'
  <2>1. id[r] \in Nat /\ a \in Responses
    BY ResponsesAssumption DEF TypeOK
  <2>2. queue' \in Seq(Message)
    BY <1>0, <1>2, <2>1, Sent, MessageTypes DEF GnssNiResponseCommand
  <2>3. replies' \in 0..MaxReplies
    BY <1>2, BoundAssumption DEF GnssNiResponseCommand, TypeOK
  <2>4. QED
    BY <1>2, <2>2, <2>3 DEF GnssNiResponseCommand, TypeOK
<1>3. CASE UpdateClients
  BY <1>3 DEF UpdateClients, TypeOK
<1>4. CASE HandleNotify
  <2> DEFINE m == Head(queue)
  <2>1. m \in Message /\ m.op = "notify" /\ queue' \in Seq(Message)
    BY <1>0, <1>4, Received DEF HandleNotify
  <2>2. m.r \in Requests /\ m.type \in Types
    BY <2>1, MessageFields
  <2>3. {"accept", "deny"} \subseteq Responses
    BY DEF Responses
  <2>4. /\ rawRequest' \in [Sessions -> Requests \cup {None}]
        /\ reqID' \in [Sessions -> Nat] /\ reqIDCounter' \in Nat
        /\ thread' \in [Requests -> Thread]
        /\ id' \in [Requests -> Nat]
        /\ disposed' \in [Requests -> Nat]
        /\ told' \in [Requests -> SUBSET Responses]
        /\ toSignal' \in Seq(Section)
    <3>1. CASE /\ InformNiResponse(m.r, "deny") \/ InformNiResponse(m.r, "accept")
               /\ UNCHANGED <<rawRequest, reqID, reqIDCounter, thread, id, toSignal>>
      <4>1. disposed' \in [Requests -> Nat] /\ told' \in [Requests -> SUBSET Responses]
        BY <2>2, <2>3, <3>1, InformTypes
      <4>2. QED
        BY <3>1, <4>1 DEF TypeOK
    <3>2. CASE RequestNiNotify(m.r, m.type)
      BY <2>2, <3>2, NotifyTypes
    <3>3. QED
      BY <1>4, <3>1, <3>2 DEF HandleNotify
  <2>5. QED
    BY <1>4, <2>1, <2>4 DEF HandleNotify, TypeOK
<1>5. CASE HandleReply
  <2> DEFINE m == Head(queue)
  <2>1. m \in Message /\ m.op = "reply" /\ queue' \in Seq(Message)
    BY <1>0, <1>5, Received DEF HandleReply
  <2>2. m.id \in Nat /\ m.answer \in Responses
    BY <2>1, MessageFields
  <2>3. toSignal' \in Seq(Section)
    BY <1>5, <2>2, SectionTypes DEF HandleReply
  <2>4. QED
    BY <1>5, <2>1, <2>3 DEF HandleReply, TypeOK
<1>6. CASE SignalSession
  <2>1. /\ toSignal \in Seq(Section) /\ toSignal # <<>>
    BY <1>6 DEF SignalSession, TypeOK
  <2>2. Head(toSignal) \in Section /\ toSignal' \in Seq(Section)
    BY <1>6, <2>1 DEF SignalSession
  <2>3. Head(toSignal).session \in Sessions /\ Head(toSignal).answer \in Responses
    BY <2>2 DEF Section
  <2>4. resp' \in [Sessions -> Responses] /\ respRecvd' \in [Sessions -> BOOLEAN]
    BY <1>6, <2>3 DEF SignalSession, TypeOK
  <2>5. overtaken' \in BOOLEAN
    BY <1>6 DEF SignalSession, TypeOK
  <2>6. QED
    BY <1>6, <2>2, <2>4, <2>5 DEF SignalSession, TypeOK
<1>7. CASE HandleInform
  <2> DEFINE m == Head(queue)
  <2>1. m \in Message /\ m.op = "inform" /\ queue' \in Seq(Message)
    BY <1>0, <1>7, Received DEF HandleInform
  <2>2. m.r \in Requests /\ m.answer \in Responses
    BY <2>1, MessageFields
  <2>3. disposed' \in [Requests -> Nat] /\ told' \in [Requests -> SUBSET Responses]
    BY <1>7, <2>2, InformTypes DEF HandleInform
  <2>4. QED
    BY <1>7, <2>1, <2>3 DEF HandleInform, TypeOK
<1>8. ASSUME NEW r \in Requests, NiThread(r) PROVE TypeOK'
  <2> USE DEF threadFrame
  <2>1. /\ thread[r] \in Thread /\ thread[r].session \in Sessions
        /\ thread[r].raw \in Requests \cup {None} /\ thread[r].answer \in Responses
    BY DEF TypeOK, Thread
  <2>2. CASE NiThreadWaits(r)
    <3>1. thread' = [thread EXCEPT ![r].at = "wait"] /\ thread \in [Requests -> Thread]
      BY <2>2 DEF NiThreadWaits, TypeOK
    <3>3. thread' \in [Requests -> Thread]
      BY <3>1, AtTypes DEF ThreadStates
    <3>2. QED
      BY <2>2, <3>3 DEF NiThreadWaits, TypeOK
  <2>3. CASE NiThreadAnswered(r)
    <3>1. resp[thread[r].session] \in Responses
      BY <2>1 DEF TypeOK
    <3>2. QED
      BY <2>1, <2>3, <3>1, TakeTypes DEF NiThreadAnswered, TypeOK
  <2>4. CASE NiThreadTimesOut(r)
    <3>1. "noResponse" \in Responses
      BY DEF Responses
    <3>2. QED
      BY <2>1, <2>4, <3>1, TakeTypes DEF NiThreadTimesOut, TypeOK
  <2>5. CASE NiThreadResets(r)
    <3>1. thread' = [thread EXCEPT ![r].at = "send"] /\ thread \in [Requests -> Thread]
      BY <2>5 DEF NiThreadResets, TypeOK
    <3>3. thread' \in [Requests -> Thread]
      BY <3>1, AtTypes DEF ThreadStates
    <3>2. QED
      BY <2>1, <2>5, <3>3 DEF NiThreadResets, TypeOK
  <2>6. CASE NiThreadSends(r)
    <3>4. [thread[r] EXCEPT !.at = "done", !.raw = None] \in Thread
      BY <2>1 DEF Thread, ThreadStates
    <3>5. /\ thread \in [Requests -> Thread]
          /\ thread' = [thread EXCEPT ![r] = [thread[r] EXCEPT !.at = "done", !.raw = None]]
      BY <2>6 DEF NiThreadSends, TypeOK
    <3>1. thread' \in [Requests -> Thread]
      BY <3>4, <3>5
    <3>2. queue' \in Seq(Message)
      BY <1>0, <2>1, <2>6, Sent, MessageTypes DEF NiThreadSends
    <3>3. QED
      BY <2>6, <3>1, <3>2 DEF NiThreadSends, TypeOK
  <2>7. QED
    BY <1>8, <2>2, <2>3, <2>4, <2>5, <2>6 DEF NiThread
<1>9. CASE UNCHANGED vars
  BY <1>9 DEF vars, TypeOK
<1>10. QED
  BY <1>1, <1>2, <1>3, <1>4, <1>5, <1>6, <1>7, <1>8, <1>9 DEF Next, Handle

LEMMA InitTypeOK == Init => TypeOK
<1> SUFFICES ASSUME Init PROVE TypeOK
  OBVIOUS
<1>1. NoThread \in Thread
  BY DEF NoThread, Thread, ThreadStates, Sessions, Responses
<1>2. registered \in BOOLEAN /\ overtaken \in BOOLEAN
  BY Zenon DEF Init
<1>3. respRecvd \in [Sessions -> BOOLEAN]
  BY DEF Init
<1>4. QED
  BY <1>1, <1>2, <1>3, BoundAssumption DEF Init, TypeOK, Responses

\* Every variable keeps its type.
THEOREM TypeCorrect == Spec => []TypeOK
BY InitTypeOK, NextTypeOK, PTL DEF Spec


-----------------------------------------------------------------------------
(***************************************************************************)
(* What a step leaves alone.                                               *)
(***************************************************************************)
LEMMA MessageStays ==
  ASSUME TypeOK, NEW m \in Message, MessageOK(m),
         m.op \in {"notify", "inform"} =>
           thread'[m.r].at = thread[m.r].at /\ disposed'[m.r] = disposed[m.r],
         unasked' \subseteq unasked, consented \subseteq consented',
         overtaken => overtaken',
         \A r \in Requests : id[r] # 0 => id'[r] = id[r]
  PROVE  MessageOK(m)'
<1>1. consented \subseteq Requests
  BY DEF TypeOK
<1>2. QED
  BY <1>1 DEF MessageOK, Justified

LEMMA QueueKeeps ==
  ASSUME \A i \in DOMAIN queue' : \E k \in Message : k = queue'[i] /\ MessageOK(k)'
  PROVE  QueueOK'
<1>1. SUFFICES ASSUME NEW i \in DOMAIN queue' PROVE MessageOK(queue[i])'
  BY DEF QueueOK
<1>2. PICK k \in Message : k = queue'[i] /\ MessageOK(k)'
  OBVIOUS
<1>3. QED
  BY <1>2 DEF MessageOK, Justified

LEMMA SessionsStay ==
  ASSUME IInv, UNCHANGED <<rawRequest, reqID, respRecvd, resp, thread, id>>,
         consented \subseteq consented', overtaken => overtaken'
  PROVE  \A s \in Sessions : SessionOK(s)'
<1>1. SUFFICES ASSUME NEW s \in Sessions PROVE SessionOK(s)'
  OBVIOUS
<1>2. SessionOK(s)
  BY DEF IInv
<1>3. QED
  BY <1>2 DEF SessionOK, Held

LEMMA PlaceStays ==
  ASSUME NEW r \in Requests, PlaceOK(r), ToldOK(r),
         UNCHANGED <<rawRequest, thread, id, disposed, told>>,
         unasked' \subseteq unasked, consented \subseteq consented', overtaken => overtaken'
  PROVE  PlaceOK(r)' /\ ToldOK(r)'
BY DEF PlaceOK, ToldOK, Held, Justified

-----------------------------------------------------------------------------
(***************************************************************************)
(* One lemma for each action.                                              *)
(***************************************************************************)
LEMMA EventKeeps ==
  ASSUME IInv, NEW r \in Requests, RequestNiNotifyEvent(r)
  PROVE  IInv'
<1> USE DEF sessionVars, userVars
<1>1. TypeOK /\ TypeOK'
  <2>1. Next
    BY DEF Next
  <2>2. QED
    BY <2>1, NextTypeOK DEF IInv
<1>2. PICK t \in Types, e \in BOOLEAN : queue' = Append(queue, Notify(r, t, e))
  BY DEF RequestNiNotifyEvent
<1> DEFINE m == Notify(r, t, e)
<1>3. m \in Message /\ m.op = "notify" /\ m.r = r
  BY MessageTypes DEF Notify
<1> HIDE DEF m
<1>4. /\ r \in unasked /\ unasked' = unasked \ {r}
      /\ UNCHANGED <<rawRequest, reqID, respRecvd, resp, thread, id, disposed, told,
                     consented, overtaken, toSignal, reqIDCounter>>
  BY DEF RequestNiNotifyEvent
<1>5. thread[r].at = "none" /\ disposed[r] = 0
  BY <1>4 DEF IInv, PlaceOK
<1>6. \A i \in DOMAIN queue : queue[i] \in Message /\ MessageOK(queue[i])
  BY DEF IInv, QueueOK, TypeOK
<1>7. \A q \in Requests : Carries(m, q) => \A i \in DOMAIN queue : ~Carries(queue[i], q)
  BY <1>3, <1>4, <1>6 DEF Carries, MessageOK
<1>8. /\ UniqueOK'
      /\ \A i \in DOMAIN queue' : (i \in DOMAIN queue /\ queue'[i] = queue[i]) \/ queue'[i] = m
  BY <1>2, <1>3, <1>7, Queued DEF m
<1>9. MessageOK(m)'
  BY <1>3, <1>4, <1>5 DEF MessageOK
<1>10. QueueOK'
  <2>1. \A k \in Message : MessageOK(k) => MessageOK(k)'
    BY <1>1, <1>4, MessageStays
  <2>2. QED
    BY <1>3, <1>6, <1>8, <1>9, <2>1, QueueKeeps
<1>11. \A q \in Requests : PlaceOK(q)' /\ ToldOK(q)'
  BY <1>4, PlaceStays DEF IInv
<1>12. \A s \in Sessions : SessionOK(s)'
  BY <1>4, SessionsStay
<1>13. IdsOK' /\ SectionsOK'
  BY <1>4 DEF IInv, IdsOK, SectionsOK
<1>14. QED
  BY <1>1, <1>8, <1>10, <1>11, <1>12, <1>13 DEF IInv

LEMMA CommandKeeps ==
  ASSUME IInv, NEW r \in Requests, NEW a \in UserResponses, GnssNiResponseCommand(r, a)
  PROVE  IInv'
<1> USE DEF sessionVars, modemVars
<1>1. TypeOK /\ TypeOK'
  <2>1. Next
    BY DEF Next
  <2>2. QED
    BY <2>1, NextTypeOK DEF IInv
<1>2. id[r] # 0 /\ id[r] \in Nat /\ a \in Responses
  BY <1>1, ResponsesAssumption DEF GnssNiResponseCommand, TypeOK
<1>3. PICK m \in Message : /\ m.op = "reply" /\ m.id = id[r] /\ m.answer = a
                           /\ m = Reply(id[r], a)
  BY <1>2, MessageTypes DEF Reply
<1>4. /\ queue' = Append(queue, m)
      /\ consented \subseteq consented' /\ (a = "accept" => r \in consented')
      /\ UNCHANGED <<rawRequest, reqID, respRecvd, resp, thread, id, disposed, told,
                     unasked, overtaken, toSignal, reqIDCounter>>
  BY <1>3 DEF GnssNiResponseCommand
<1>5. \A i \in DOMAIN queue : queue[i] \in Message /\ MessageOK(queue[i])
  BY DEF IInv, QueueOK, TypeOK
<1>6. /\ UniqueOK'
      /\ \A i \in DOMAIN queue' : (i \in DOMAIN queue /\ queue'[i] = queue[i]) \/ queue'[i] = m
  <2>1. \A q \in Requests : ~Carries(m, q)
    BY <1>3 DEF Carries
  <2>2. QED
    BY <1>3, <1>4, <2>1, Queued
<1>7. MessageOK(m)'
  <2>1. id'[r] = m.id /\ m.id # 0
    BY <1>2, <1>3, <1>4
  <2>2. m.answer = "accept" => r \in consented'
    BY <1>3, <1>4
  <2>3. QED
    BY <1>3, <2>1, <2>2 DEF MessageOK
<1>8. QueueOK'
  <2>1. \A k \in Message : MessageOK(k) => MessageOK(k)'
    BY <1>1, <1>4, MessageStays
  <2>2. QED
    BY <1>3, <1>5, <1>6, <1>7, <2>1, QueueKeeps
<1>9. \A q \in Requests : PlaceOK(q)' /\ ToldOK(q)'
  BY <1>4, PlaceStays DEF IInv
<1>10. \A s \in Sessions : SessionOK(s)'
  BY <1>4, SessionsStay
<1>11. IdsOK' /\ SectionsOK'
  BY <1>4 DEF IInv, IdsOK, SectionsOK
<1>12. QED
  BY <1>1, <1>6, <1>8, <1>9, <1>10, <1>11 DEF IInv

\* A message that is handled, for a handler that leaves the other requests alone.
LEMMA RestStays ==
  ASSUME IInv, queue # <<>>, queue' = Tail(queue),
         \A q \in Requests : ~Carries(Head(queue), q) =>
           thread'[q].at = thread[q].at /\ disposed'[q] = disposed[q],
         unasked' \subseteq unasked, consented \subseteq consented',
         overtaken => overtaken',
         \A r \in Requests : id[r] # 0 => id'[r] = id[r]
  PROVE  QueueOK' /\ UniqueOK'
<1>1. /\ UniqueOK'
      /\ \A i \in DOMAIN queue' :
           /\ queue'[i] \in Message /\ MessageOK(queue'[i])
           /\ \A r \in Requests : Carries(queue'[i], r) => ~Carries(Head(queue), r)
  BY Handled
<1>2. ASSUME NEW m \in Message, MessageOK(m),
             \A r \in Requests : Carries(m, r) => ~Carries(Head(queue), r)
      PROVE  MessageOK(m)'
  <2>1. m.op \in {"notify", "inform"} =>
          thread'[m.r].at = thread[m.r].at /\ disposed'[m.r] = disposed[m.r]
    BY <1>2, MessageFields DEF Carries
  <2>2. QED
    BY <1>2, <2>1, MessageStays DEF IInv
<1>3. QED
  BY <1>1, <1>2, QueueKeeps


\* A payload that is handed back or freed by a handler.
LEMMA DisposedOnce ==
  ASSUME IInv, NEW r \in Requests, r \notin unasked, disposed[r] = 0,
         thread[r].at \in {"none", "done"},
         \/ \E a \in Responses :
              InformNiResponse(r, a) /\ (id[r] # 0 /\ a = "accept" => Justified(r))
         \/ Free(r),
         UNCHANGED <<rawRequest, thread, id, unasked, consented, overtaken>>
  PROVE  \A q \in Requests : PlaceOK(q)' /\ ToldOK(q)'
<1>1. ASSUME NEW q \in Requests PROVE PlaceOK(q)' /\ ToldOK(q)'
  <2>1. /\ disposed \in [Requests -> Nat] /\ told \in [Requests -> SUBSET Responses]
        /\ PlaceOK(q) /\ ToldOK(q)
    BY DEF IInv, TypeOK
  <2>2. CASE q # r
    <3>1. disposed'[q] = disposed[q] /\ told'[q] = told[q]
      BY <2>1, <2>2 DEF InformNiResponse, Free
    <3>2. QED
      BY <2>1, <3>1 DEF PlaceOK, ToldOK, Held, Justified
  <2>3. CASE q = r
    <3>1. told[r] = {}
      BY <2>1, <2>3 DEF ToldOK
    <3>2. PlaceOK(q)'
      BY <2>1, <2>3 DEF PlaceOK, Held
    <3>3. disposed'[r] = 1
      BY <2>1 DEF InformNiResponse, Free
    <3>4. \/ told'[r] = {}
          \/ \E a \in Responses :
               told'[r] = {a} /\ (id[r] # 0 /\ a = "accept" => Justified(r))
      BY <2>1, <3>1 DEF InformNiResponse, Free
    <3>5. ToldOK(q)'
      BY <2>3, <3>3, <3>4 DEF ToldOK, Justified
    <3>6. QED
      BY <3>2, <3>5
  <2>4. QED
    BY <2>2, <2>3
<1>2. QED
  BY <1>1

LEMMA InformKeeps == IInv /\ HandleInform => IInv'
<1> SUFFICES ASSUME IInv, HandleInform PROVE IInv'
  OBVIOUS
<1> USE DEF sessionVars, userVars
<1>1. TypeOK /\ TypeOK'
  <2>1. Next
    BY DEF Next, Handle
  <2>2. QED
    BY <2>1, NextTypeOK DEF IInv
<1>2. PICK m \in Message : m = Head(queue) /\ MessageOK(m)
  BY Handled DEF HandleInform
<1>3. m.op = "inform" /\ m.r \in Requests /\ m.answer \in Responses
  BY <1>2, MessageFields DEF HandleInform
<1>4. /\ queue # <<>> /\ queue' = Tail(queue)
      /\ InformNiResponse(m.r, m.answer)
      /\ UNCHANGED <<rawRequest, reqID, respRecvd, resp, thread, id, unasked, consented,
                     overtaken, toSignal, reqIDCounter>>
  BY <1>2 DEF HandleInform
<1>5. QueueOK' /\ UniqueOK'
  <2>1. ASSUME NEW q \in Requests, ~Carries(m, q) PROVE disposed'[q] = disposed[q]
    <3>1. q # m.r
      BY <1>3, <2>1 DEF Carries
    <3>2. QED
      BY <1>1, <1>4, <3>1 DEF InformNiResponse, TypeOK
  <2>2. QED
    BY <1>2, <1>4, <2>1, RestStays
<1>6. \A q \in Requests : PlaceOK(q)' /\ ToldOK(q)'
  <2>1. /\ m.r \notin unasked /\ thread[m.r].at = "done" /\ disposed[m.r] = 0
        /\ m.answer = "accept" => Justified(m.r)
    BY <1>2, <1>3 DEF MessageOK
  <2>2. QED
    BY <1>3, <1>4, <2>1, DisposedOnce
<1>7. \A s \in Sessions : SessionOK(s)'
  BY <1>4, SessionsStay
<1>8. IdsOK' /\ SectionsOK'
  BY <1>4 DEF IInv, IdsOK, SectionsOK
<1>9. QED
  BY <1>1, <1>5, <1>6, <1>7, <1>8 DEF IInv

LEMMA ReplyKeeps == IInv /\ HandleReply => IInv'
<1> SUFFICES ASSUME IInv, HandleReply PROVE IInv'
  OBVIOUS
<1> USE DEF sessionVars, userVars, modemVars
<1>1. TypeOK /\ TypeOK'
  <2>1. Next
    BY DEF Next, Handle
  <2>2. QED
    BY <2>1, NextTypeOK DEF IInv
<1>2. PICK m \in Message : m = Head(queue) /\ MessageOK(m)
  BY Handled DEF HandleReply
<1>3. m.op = "reply" /\ m.id \in Nat /\ m.answer \in Responses
  BY <1>2, MessageFields DEF HandleReply
<1>4. /\ queue # <<>> /\ queue' = Tail(queue)
      /\ toSignal' \in {<<>>, AnswerSections(m.id, m.answer)}
      /\ UNCHANGED <<rawRequest, reqID, respRecvd, resp, thread, id, unasked, disposed, told,
                     consented, overtaken, reqIDCounter>>
  BY <1>2 DEF HandleReply
<1>5. QueueOK' /\ UniqueOK'
  BY <1>4, RestStays
<1>6. \A q \in Requests : PlaceOK(q)' /\ ToldOK(q)'
  BY <1>4, PlaceStays DEF IInv
<1>7. \A s \in Sessions : SessionOK(s)'
  BY <1>4, SessionsStay
<1>8. IdsOK'
  BY <1>4 DEF IInv, IdsOK
<1>9. SectionsOK'
  <2>1. ASSUME NEW s \in Sessions, Active(s, m.id), m.answer = "accept"
        PROVE  rawRequest[s] \in consented
    <3>1. PICK r \in consented : id[r] = m.id
      BY <1>2, <1>3, <2>1 DEF MessageOK
    <3>2. rawRequest[s] \in Requests /\ reqID[s] = m.id /\ m.id # 0
      BY <1>1, <1>2, <1>3, <2>1 DEF Active, TypeOK, MessageOK
    <3>3. reqID[s] \in {0, id[rawRequest[s]]}
      BY <2>1, <3>2 DEF IInv, SessionOK, Active
    <3>4. r \in Requests
      BY <1>1 DEF TypeOK
    <3>5. QED
      BY <3>1, <3>2, <3>3, <3>4 DEF IInv, IdsOK
  <2>2. \A k \in DOMAIN IgnoreSupl : IgnoreSupl[k].answer # "accept"
    BY DEF IgnoreSupl
  <2>3. ASSUME NEW s \in Sessions, Active(s, m.id)
        PROVE  \A k \in DOMAIN Answered(s, m.answer) :
                 Answered(s, m.answer)[k].answer = "accept"
                   => Answered(s, m.answer)[k].r \in consented
    BY <2>1, <2>3 DEF Answered
  <2>4. \A k \in DOMAIN AnswerSections(m.id, m.answer) :
          AnswerSections(m.id, m.answer)[k].answer = "accept"
            => AnswerSections(m.id, m.answer)[k].r \in consented
    <3>1. CASE Active("sessionEs", m.id)
      <4> DEFINE p == IF m.answer = "accept" THEN IgnoreSupl ELSE <<>>
                 q == Answered("sessionEs", m.answer)
      <4>1. AnswerSections(m.id, m.answer) = p \o q
        BY <3>1 DEF AnswerSections
      <4>2. p \in Seq(Section) /\ \A k \in DOMAIN p : p[k].answer # "accept"
        BY <1>1, <2>2, SectionTypes
      <4>3. /\ q \in Seq(Section)
            /\ \A k \in DOMAIN q : q[k].answer = "accept" => q[k].r \in consented
        <5>1. "sessionEs" \in Sessions
          BY DEF Sessions
        <5>2. [session |-> "sessionEs", answer |-> m.answer, r |-> rawRequest["sessionEs"]]
                \in Section
          BY <1>1, <1>3, <3>1, <5>1 DEF Section, TypeOK, Active
        <5>3. QED
          BY <2>3, <3>1, <5>1, <5>2 DEF Answered
      <4> HIDE DEF p, q
      <4>4. \A k \in DOMAIN (p \o q) :
              \/ k \in DOMAIN p /\ (p \o q)[k] = p[k]
              \/ k - Len(p) \in DOMAIN q /\ (p \o q)[k] = q[k - Len(p)]
        BY <4>2, <4>3
      <4>5. QED
        BY <4>1, <4>2, <4>3, <4>4
    <3>2. CASE ~Active("sessionEs", m.id) /\ Active("session", m.id)
      BY <2>3, <3>2 DEF AnswerSections, Sessions
    <3>3. CASE ~Active("sessionEs", m.id) /\ ~Active("session", m.id)
      BY <3>3 DEF AnswerSections
    <3>4. QED
      BY <3>1, <3>2, <3>3
  <2>5. QED
    BY <1>4, <2>4 DEF SectionsOK
<1>10. QED
  BY <1>1, <1>5, <1>6, <1>7, <1>8, <1>9 DEF IInv


LEMMA SignalKeeps == IInv /\ SignalSession => IInv'
<1> SUFFICES ASSUME IInv, SignalSession PROVE IInv'
  OBVIOUS
<1> USE DEF userVars, modemVars
<1>1. TypeOK /\ TypeOK'
  <2>1. Next
    BY DEF Next, Handle
  <2>2. QED
    BY <2>1, NextTypeOK DEF IInv
<1>2. toSignal \in Seq(Section) /\ toSignal # <<>>
  BY <1>1 DEF SignalSession, TypeOK
<1>3. PICK c \in Section : c = Head(toSignal) /\ c = toSignal[1] /\ 1 \in DOMAIN toSignal
  BY <1>2
<1>4. c.session \in Sessions /\ c.answer \in Responses /\ c.r \in Requests
  BY DEF Section
<1>5. /\ resp' = [resp EXCEPT ![c.session] = c.answer]
      /\ respRecvd' = [respRecvd EXCEPT ![c.session] = TRUE]
      /\ overtaken' = (overtaken \/ rawRequest[c.session] # c.r)
      /\ toSignal' = Tail(toSignal)
      /\ UNCHANGED <<rawRequest, reqID, thread, id, unasked, disposed, told, consented,
                     queue, reqIDCounter>>
  BY <1>3 DEF SignalSession
<1>6. overtaken => overtaken'
  BY <1>5
<1>7. QueueOK' /\ UniqueOK'
  <2>1. \A k \in Message : MessageOK(k) => MessageOK(k)'
    BY <1>1, <1>5, <1>6, MessageStays
  <2>2. \A i \in DOMAIN queue : queue[i] \in Message /\ MessageOK(queue[i])
    BY DEF IInv, QueueOK, TypeOK
  <2>3. QueueOK'
    BY <1>5, <2>1, <2>2, QueueKeeps
  <2>4. QED
    BY <1>5, <2>3 DEF IInv, UniqueOK
<1>8. \A q \in Requests : PlaceOK(q)' /\ ToldOK(q)'
  BY <1>5, <1>6, PlaceStays DEF IInv
<1>9. ASSUME NEW s \in Sessions PROVE SessionOK(s)'
  <2>1. SessionOK(s)
    BY DEF IInv
  <2>2. CASE s # c.session
    <3>1. resp'[s] = resp[s] /\ respRecvd'[s] = respRecvd[s]
      BY <1>1, <1>5, <2>2 DEF TypeOK
    <3>2. QED
      BY <1>5, <1>6, <2>1, <3>1 DEF SessionOK, Held
  <2>3. CASE s = c.session
    <3>1. resp'[s] = c.answer
      BY <1>1, <1>5, <2>3 DEF TypeOK
    <3>2. c.answer = "accept" => c.r \in consented
      BY <1>3 DEF IInv, SectionsOK
    <3>3. \/ overtaken'
          \/ /\ rawRequest[s] # None
             /\ resp'[s] = "accept" => rawRequest[s] \in consented
      BY <1>4, <1>5, <2>3, <3>1, <3>2, NoneAssumption
    <3>4. QED
      BY <1>5, <2>1, <3>3 DEF SessionOK, Held
  <2>4. QED
    BY <2>2, <2>3
<1>10. SectionsOK'
  <2>1. \A k \in DOMAIN Tail(toSignal) :
          k + 1 \in DOMAIN toSignal /\ Tail(toSignal)[k] = toSignal[k + 1]
    BY <1>2
  <2>2. QED
    BY <1>5, <2>1 DEF IInv, SectionsOK
<1>11. IdsOK'
  BY <1>5 DEF IInv, IdsOK
<1>12. QED
  BY <1>1, <1>7, <1>8, <1>9, <1>10, <1>11 DEF IInv

LEMMA UpdateKeeps == IInv /\ (UpdateClients \/ UNCHANGED vars) => IInv'
<1> SUFFICES ASSUME IInv, UpdateClients \/ UNCHANGED vars PROVE IInv'
  OBVIOUS
<1>1. TypeOK /\ TypeOK'
  BY NextTypeOK DEF IInv, Next
<1>2. UNCHANGED <<rawRequest, reqID, respRecvd, resp, thread, id, unasked, disposed, told,
                  consented, overtaken, queue, toSignal, reqIDCounter>>
  BY DEF UpdateClients, vars, sessionVars, modemVars, userVars
<1>3. QueueOK' /\ UniqueOK'
  <2>1. \A k \in Message : MessageOK(k) => MessageOK(k)'
    BY <1>1, <1>2, MessageStays
  <2>2. \A i \in DOMAIN queue : queue[i] \in Message /\ MessageOK(queue[i])
    BY DEF IInv, QueueOK, TypeOK
  <2>3. QueueOK'
    BY <1>2, <2>1, <2>2, QueueKeeps
  <2>4. QED
    BY <1>2, <2>3 DEF IInv, UniqueOK
<1>4. \A q \in Requests : PlaceOK(q)' /\ ToldOK(q)'
  BY <1>2, PlaceStays DEF IInv
<1>5. \A s \in Sessions : SessionOK(s)'
  BY <1>2, SessionsStay
<1>6. IdsOK' /\ SectionsOK'
  BY <1>2 DEF IInv, IdsOK, SectionsOK
<1>7. QED
  BY <1>1, <1>3, <1>4, <1>5, <1>6 DEF IInv

LEMMA NotifyKeeps == IInv /\ HandleNotify => IInv'
<1> SUFFICES ASSUME IInv, HandleNotify PROVE IInv'
  OBVIOUS
<1>1. TypeOK /\ TypeOK'
  <2>1. Next
    BY DEF Next, Handle
  <2>2. QED
    BY <2>1, NextTypeOK DEF IInv
<1>2. PICK m \in Message : m = Head(queue) /\ MessageOK(m)
  BY Handled DEF HandleNotify
<1>3. m.op = "notify" /\ m.r \in Requests /\ m.type \in Types
  BY <1>2, MessageFields DEF HandleNotify
<1>4. /\ queue # <<>> /\ queue' = Tail(queue)
      /\ UNCHANGED <<respRecvd, resp, unasked, consented, overtaken>>
  BY DEF HandleNotify
<1>5. m.r \notin unasked /\ thread[m.r].at = "none" /\ disposed[m.r] = 0 /\ id[m.r] = 0
  BY <1>2, <1>3 DEF MessageOK, IInv, PlaceOK
<1>6. \/ /\ InformNiResponse(m.r, "deny") \/ InformNiResponse(m.r, "accept") \/ Free(m.r)
         /\ UNCHANGED <<rawRequest, reqID, reqIDCounter, thread, id>>
         /\ toSignal' = toSignal \/ toSignal' = IgnoreSupl
      \/ UNCHANGED <<rawRequest, reqID, reqIDCounter, thread, id, disposed, told, toSignal>>
      \/ ~Busy(m.type) /\ StartSession(m.r, SessionFor(m.type))
  BY <1>2 DEF HandleNotify, RequestNiNotify
<1>7. CASE /\ InformNiResponse(m.r, "deny") \/ InformNiResponse(m.r, "accept") \/ Free(m.r)
           /\ UNCHANGED <<rawRequest, reqID, reqIDCounter, thread, id>>
           /\ toSignal' = toSignal \/ toSignal' = IgnoreSupl
  <2>1. QueueOK' /\ UniqueOK'
    <3>1. ASSUME NEW q \in Requests, ~Carries(m, q) PROVE disposed'[q] = disposed[q]
      <4>1. q # m.r
        BY <1>3, <3>1 DEF Carries
      <4>2. QED
        BY <1>1, <1>7, <4>1 DEF InformNiResponse, Free, TypeOK
    <3>2. QED
      BY <1>2, <1>4, <1>7, <3>1, RestStays
  <2>2. \A q \in Requests : PlaceOK(q)' /\ ToldOK(q)'
    <3>1. \/ \E a \in Responses :
               InformNiResponse(m.r, a) /\ (id[m.r] # 0 /\ a = "accept" => Justified(m.r))
          \/ Free(m.r)
      <4>1. {"accept", "deny"} \subseteq Responses
        BY DEF Responses
      <4>2. QED
        BY <1>5, <1>7, <4>1
    <3>2. QED
      BY <1>3, <1>4, <1>5, <1>7, <3>1, DisposedOnce
  <2>3. \A s \in Sessions : SessionOK(s)'
    BY <1>4, <1>7, SessionsStay
  <2>4. SectionsOK'
    BY <1>4, <1>7 DEF IInv, SectionsOK, IgnoreSupl
  <2>5. IdsOK'
    BY <1>7 DEF IInv, IdsOK
  <2>6. QED
    BY <1>1, <2>1, <2>2, <2>3, <2>4, <2>5 DEF IInv
<1>8. CASE UNCHANGED <<rawRequest, reqID, reqIDCounter, thread, id, disposed, told, toSignal>>
  <2>1. QueueOK' /\ UniqueOK'
    BY <1>4, <1>8, RestStays
  <2>2. \A q \in Requests : PlaceOK(q)' /\ ToldOK(q)'
    BY <1>4, <1>8, PlaceStays DEF IInv
  <2>3. \A s \in Sessions : SessionOK(s)'
    BY <1>4, <1>8, SessionsStay
  <2>4. IdsOK' /\ SectionsOK'
    BY <1>4, <1>8 DEF IInv, IdsOK, SectionsOK
  <2>5. QED
    BY <1>1, <2>1, <2>2, <2>3, <2>4 DEF IInv
<1>9. CASE ~Busy(m.type) /\ StartSession(m.r, SessionFor(m.type))
  <2>1. PICK s \in Sessions : s = SessionFor(m.type)
    BY DEF SessionFor, Sessions
  <2>2. rawRequest[s] = None
    BY <1>9, <2>1 DEF Busy, SessionFor
  <2>3. PICK at \in {"start", "failed"} :
          thread' = [thread EXCEPT ![m.r] = [NoThread EXCEPT !.at = at, !.session = s]]
    BY <1>9, <2>1 DEF StartSession
  <2>4. /\ rawRequest' = [rawRequest EXCEPT ![s] = m.r]
        /\ reqIDCounter' = reqIDCounter + 1
        /\ reqID' = [reqID EXCEPT ![s] = reqIDCounter + 1]
        /\ id' = [id EXCEPT ![m.r] = reqIDCounter + 1]
        /\ UNCHANGED <<disposed, told, toSignal>>
    BY <1>9, <2>1 DEF StartSession
  <2>5. /\ rawRequest \in [Sessions -> Requests \cup {None}]
        /\ reqID \in [Sessions -> Nat]
        /\ thread \in [Requests -> Thread]
        /\ id \in [Requests -> Nat]
        /\ reqIDCounter \in Nat
    BY <1>1 DEF TypeOK
  <2>6. /\ rawRequest'[s] = m.r /\ reqID'[s] = reqIDCounter + 1
        /\ id'[m.r] = reqIDCounter + 1
        /\ thread'[m.r].at = at /\ thread'[m.r].session = s /\ thread'[m.r].raw = None
    BY <1>3, <2>3, <2>4, <2>5 DEF NoThread
  <2>7. \A q \in Requests : q # m.r => thread'[q] = thread[q] /\ id'[q] = id[q]
    BY <2>3, <2>4, <2>5
  <2>8. \A q \in Requests : id[q] <= reqIDCounter
    BY DEF IInv, IdsOK
  <2>9. QueueOK' /\ UniqueOK'
    <3>1. \A q \in Requests : ~Carries(m, q) => q # m.r
      BY <1>3 DEF Carries
    <3>2. \A q \in Requests : ~Carries(Head(queue), q) =>
            thread'[q].at = thread[q].at /\ disposed'[q] = disposed[q]
      BY <1>2, <2>4, <2>7, <3>1
    <3>3. \A q \in Requests : id[q] # 0 => id'[q] = id[q]
      BY <1>5, <2>7
    <3>4. QED
      BY <1>4, <3>2, <3>3, RestStays
  <2>10. ASSUME NEW q \in Requests PROVE PlaceOK(q)' /\ ToldOK(q)'
    <3>1. PlaceOK(q) /\ ToldOK(q)
      BY DEF IInv
    <3>2. CASE q = m.r
      <4>1. PlaceOK(q)'
        BY <1>4, <1>5, <2>4, <2>5, <2>6, <3>2 DEF PlaceOK, Held
      <4>2. ToldOK(q)'
        BY <1>5, <2>4, <3>1, <3>2 DEF ToldOK
      <4>3. QED
        BY <4>1, <4>2
    <3>3. CASE q # m.r
      <4>1. thread'[q] = thread[q] /\ id'[q] = id[q]
        BY <2>7, <3>3
      <4>2. Held(q) => thread[q].session # s
        BY <2>2, <3>1, NoneAssumption DEF PlaceOK
      <4>3. Held(q) => rawRequest'[thread[q].session] = rawRequest[thread[q].session]
        BY <2>4, <2>5, <4>2 DEF Thread
      <4>4. PlaceOK(q)'
        BY <1>4, <2>4, <3>1, <4>1, <4>3 DEF PlaceOK, Held, Justified
      <4>5. ToldOK(q)'
        BY <1>4, <2>4, <3>1, <4>1 DEF ToldOK, Justified
      <4>6. QED
        BY <4>4, <4>5
    <3>4. QED
      BY <3>2, <3>3
  <2>11. ASSUME NEW t \in Sessions PROVE SessionOK(t)'
    <3>1. SessionOK(t)
      BY DEF IInv
    <3>2. CASE t = s
      <4>1. respRecvd[s] => overtaken
        BY <2>2, <3>1, <3>2 DEF SessionOK
      <4>2. Held(m.r)'
        BY <2>6 DEF Held
      <4>3. QED
        BY <1>4, <2>6, <3>2, <4>1, <4>2 DEF SessionOK, Held
    <3>3. CASE t # s
      <4>1. rawRequest'[t] = rawRequest[t] /\ reqID'[t] = reqID[t]
        BY <2>4, <2>5, <3>3
      <4>2. rawRequest[t] # None => rawRequest[t] \in Requests /\ rawRequest[t] # m.r
        BY <1>5, <2>5, <3>1 DEF SessionOK, Held
      <4>3. rawRequest[t] # None =>
              thread'[rawRequest[t]] = thread[rawRequest[t]]
                /\ id'[rawRequest[t]] = id[rawRequest[t]]
        BY <2>7, <4>2
      <4>4. QED
        BY <1>4, <3>1, <4>1, <4>3 DEF SessionOK, Held
    <3>4. QED
      BY <3>2, <3>3
  <2>12. IdsOK'
    BY <2>4, <2>5, <2>6, <2>7, <2>8 DEF IInv, IdsOK
  <2>13. SectionsOK'
    BY <1>4, <2>4 DEF IInv, SectionsOK
  <2>14. QED
    BY <1>1, <2>9, <2>10, <2>11, <2>12, <2>13 DEF IInv
<1>10. QED
  BY <1>6, <1>7, <1>8, <1>9


\* A step of r's thread, which no queued message is about, leaves the queue good.
LEMMA QueueKept ==
  ASSUME IInv, TypeOK', NEW r \in Requests, thread[r].at \notin {"none", "done"},
         \A q \in Requests : q # r =>
           thread'[q].at = thread[q].at /\ disposed'[q] = disposed[q],
         UNCHANGED <<unasked, consented, overtaken, id, queue>>
  PROVE  QueueOK' /\ UniqueOK'
<1>1. \A i \in DOMAIN queue : queue[i] \in Message /\ MessageOK(queue[i])
  BY DEF IInv, QueueOK, TypeOK
<1>2. ASSUME NEW m \in Message, MessageOK(m) PROVE MessageOK(m)'
  <2>1. m.op \in {"notify", "inform"} =>
          thread'[m.r].at = thread[m.r].at /\ disposed'[m.r] = disposed[m.r]
    BY <1>2, MessageFields DEF MessageOK
  <2>2. QED
    BY <1>2, <2>1, MessageStays DEF IInv
<1>3. QueueOK'
  BY <1>1, <1>2, QueueKeeps
<1>4. QED
  BY <1>3 DEF IInv, UniqueOK

LEMMA TakeKeeps ==
  ASSUME IInv, TypeOK', NEW r \in Requests, Awake(r), NEW a \in Responses,
         Take(r, thread[r].session, a), UNCHANGED threadFrame,
         a = "accept" => overtaken \/ r \in consented
  PROVE  IInv'
<1> USE DEF userVars
<1>1. PICK s \in Sessions : s = thread[r].session
  BY DEF IInv, TypeOK, Thread
<1>2. /\ rawRequest \in [Sessions -> Requests \cup {None}]
      /\ respRecvd \in [Sessions -> BOOLEAN] /\ resp \in [Sessions -> Responses]
      /\ thread \in [Requests -> Thread]
      /\ disposed \in [Requests -> Nat]
  BY DEF IInv, TypeOK
<1>3. rawRequest[s] = r /\ disposed[r] = 0 /\ told[r] = {} /\ r \notin unasked /\ id[r] # 0
  BY <1>1 DEF IInv, PlaceOK, ToldOK, Held, Awake
<1>4. /\ respRecvd' = [respRecvd EXCEPT ![s] = FALSE]
      /\ resp' = [resp EXCEPT ![s] = a]
      /\ rawRequest' = [rawRequest EXCEPT ![s] = None]
      /\ thread' = [thread EXCEPT ![r] =
           [at |-> "reset", session |-> s, answer |-> a,
            raw |-> IF a = "ignore" THEN None ELSE r]]
      /\ UNCHANGED <<reqID, id, unasked, consented, overtaken, toSignal, queue, reqIDCounter>>
  BY <1>1, <1>3 DEF Take, threadFrame
<1>5. told' = told /\ \/ a = "ignore" /\ disposed' = [disposed EXCEPT ![r] = @ + 1]
                      \/ a # "ignore" /\ disposed' = disposed
  BY <1>1, <1>3, NoneAssumption DEF Take, Free
<1>6. /\ thread'[r].at = "reset" /\ thread'[r].answer = a
      /\ thread'[r].raw = IF a = "ignore" THEN None ELSE r
      /\ \A q \in Requests : q # r => thread'[q] = thread[q] /\ disposed'[q] = disposed[q]
  BY <1>2, <1>4, <1>5
<1>7. \A q \in Requests : q # r /\ Held(q) => thread[q].session # s
  BY <1>3 DEF IInv, PlaceOK
<1>8. QueueOK' /\ UniqueOK'
  BY <1>4, <1>6, QueueKept DEF Awake
<1>9. ASSUME NEW q \in Requests PROVE PlaceOK(q)' /\ ToldOK(q)'
  <2>1. PlaceOK(q) /\ ToldOK(q)
    BY DEF IInv
  <2>2. CASE q = r
    <3>1. \/ a = "ignore" /\ disposed'[r] = 1
          \/ a # "ignore" /\ disposed'[r] = 0
      BY <1>2, <1>3, <1>5
    <3>2. PlaceOK(q)'
      BY <1>3, <1>4, <1>6, <2>2, <3>1 DEF PlaceOK, Held, Justified
    <3>3. ToldOK(q)'
      BY <1>3, <1>5, <2>2, <3>1 DEF ToldOK
    <3>4. QED
      BY <3>2, <3>3
  <2>3. CASE q # r
    <3>1. thread'[q] = thread[q] /\ disposed'[q] = disposed[q]
      BY <1>6, <2>3
    <3>2. Held(q) => rawRequest'[thread[q].session] = rawRequest[thread[q].session]
      BY <1>2, <1>4, <1>7, <2>3 DEF Thread
    <3>3. PlaceOK(q)'
      BY <1>4, <2>1, <3>1, <3>2 DEF PlaceOK, Held, Justified
    <3>4. ToldOK(q)'
      BY <1>4, <1>5, <2>1, <3>1 DEF ToldOK, Justified
    <3>5. QED
      BY <3>3, <3>4
  <2>4. QED
    BY <2>2, <2>3
<1>10. ASSUME NEW t \in Sessions PROVE SessionOK(t)'
  <2>1. SessionOK(t)
    BY DEF IInv
  <2>2. CASE t = s
    BY <1>2, <1>4, <2>2 DEF SessionOK
  <2>3. CASE t # s
    <3>1. /\ rawRequest'[t] = rawRequest[t] /\ respRecvd'[t] = respRecvd[t]
          /\ resp'[t] = resp[t]
      BY <1>2, <1>4, <2>3
    <3>2. rawRequest[t] # None => rawRequest[t] \in Requests /\ rawRequest[t] # r
      BY <1>1, <1>2, <2>1, <2>3 DEF SessionOK
    <3>3. rawRequest[t] # None => thread'[rawRequest[t]] = thread[rawRequest[t]]
      BY <1>6, <3>2
    <3>4. QED
      BY <1>4, <2>1, <3>1, <3>3 DEF SessionOK, Held
  <2>4. QED
    BY <2>2, <2>3
<1>11. IdsOK' /\ SectionsOK'
  BY <1>4 DEF IInv, IdsOK, SectionsOK
<1>12. QED
  BY <1>8, <1>9, <1>10, <1>11 DEF IInv

LEMMA ThreadKeeps ==
  ASSUME IInv, NEW r \in Requests, NiThread(r)
  PROVE  IInv'
<1> USE DEF sessionVars, modemVars, userVars
<1>1. TypeOK /\ TypeOK'
  <2>1. Next
    BY DEF Next
  <2>2. QED
    BY <2>1, NextTypeOK DEF IInv
<1>2. /\ thread \in [Requests -> Thread] /\ thread[r] \in Thread
      /\ thread[r].session \in Sessions
      /\ thread[r].raw \in Requests \cup {None} /\ thread[r].answer \in Responses
  BY <1>1 DEF TypeOK, Thread
<1>3. PlaceOK(r) /\ ToldOK(r)
  BY DEF IInv
<1>4. CASE NiThreadAnswered(r)
  <2> DEFINE s == thread[r].session
  <2>1. resp[s] \in Responses
    BY <1>1, <1>2 DEF TypeOK
  <2>2. resp[s] = "accept" => overtaken \/ r \in consented
    <3>1. rawRequest[s] = r /\ respRecvd[s]
      BY <1>3, <1>4 DEF NiThreadAnswered, PlaceOK, Held, Awake
    <3>2. QED
      BY <1>2, <3>1 DEF IInv, SessionOK
  <2>3. QED
    BY <1>1, <1>4, <2>1, <2>2, TakeKeeps DEF NiThreadAnswered
<1>5. CASE NiThreadTimesOut(r)
  <2>1. "noResponse" \in Responses
    BY DEF Responses
  <2>2. QED
    BY <1>1, <1>5, <2>1, TakeKeeps DEF NiThreadTimesOut, Awake
<1>6. ASSUME NEW at, thread[r].at \notin {"none", "done"},
             \/ Held(r) /\ at \in {"start", "wait", "failed"}
             \/ thread[r].at = "reset" /\ at = "send",
             thread' = [thread EXCEPT ![r].at = at],
             UNCHANGED <<rawRequest, respRecvd, resp, disposed, told, id, unasked, consented,
                         overtaken, toSignal, queue, reqIDCounter>>,
             \/ reqID' = reqID
             \/ reqID' = [reqID EXCEPT ![thread[r].session] = 0]
      PROVE  IInv'
  <2>1. /\ thread'[r].at = at /\ thread'[r].session = thread[r].session
        /\ thread'[r].raw = thread[r].raw /\ thread'[r].answer = thread[r].answer
        /\ \A q \in Requests : q # r => thread'[q] = thread[q]
    BY <1>2, <1>6 DEF Thread
  <2>2. \A q \in Requests : thread'[q].session = thread[q].session /\ (Held(q)' <=> Held(q))
    BY <1>6, <2>1 DEF Held
  <2>3. QueueOK' /\ UniqueOK'
    BY <1>1, <1>6, <2>1, QueueKept
  <2>4. ASSUME NEW q \in Requests PROVE PlaceOK(q)' /\ ToldOK(q)'
    <3>1. PlaceOK(q) /\ ToldOK(q)
      BY DEF IInv
    <3>2. CASE q = r
      <4>1. PlaceOK(q)'
        BY <1>6, <2>1, <2>2, <3>1, <3>2 DEF PlaceOK, Held, Justified
      <4>2. ToldOK(q)'
        BY <1>6, <3>1 DEF ToldOK, Justified
      <4>3. QED
        BY <4>1, <4>2
    <3>3. CASE q # r
      BY <1>6, <2>1, <3>1, <3>3 DEF PlaceOK, ToldOK, Held, Justified
    <3>4. QED
      BY <3>2, <3>3
  <2>5. ASSUME NEW t \in Sessions PROVE SessionOK(t)'
    <3>1. SessionOK(t) /\ rawRequest[t] \in Requests \cup {None}
      BY <1>1 DEF IInv, TypeOK
    <3>2. reqID'[t] \in {0, reqID[t]}
      BY <1>1, <1>2, <1>6 DEF TypeOK
    <3>3. QED
      BY <1>6, <2>2, <3>1, <3>2 DEF SessionOK
  <2>6. IdsOK' /\ SectionsOK'
    BY <1>6 DEF IInv, IdsOK, SectionsOK
  <2>7. QED
    BY <1>1, <2>3, <2>4, <2>5, <2>6 DEF IInv
<1>7. CASE NiThreadWaits(r)
  BY <1>6, <1>7 DEF NiThreadWaits, threadFrame, Held
<1>8. CASE NiThreadResets(r)
  BY <1>6, <1>8 DEF NiThreadResets, Held
<1>9. CASE NiThreadSends(r)
  <2>1. /\ thread[r].at = "send"
        /\ thread' = [thread EXCEPT ![r].at = "done", ![r].raw = None]
        /\ UNCHANGED <<rawRequest, reqID, respRecvd, resp, disposed, told, id, unasked,
                       consented, overtaken, toSignal, reqIDCounter>>
    BY <1>9 DEF NiThreadSends
  <2>2. /\ thread'[r].at = "done" /\ thread'[r].raw = None
        /\ \A q \in Requests : q # r => thread'[q] = thread[q]
    BY <1>2, <2>1 DEF Thread
  <2>3. \A q \in Requests : Held(q)' <=> Held(q)
    BY <2>1, <2>2 DEF Held
  <2>4. ASSUME NEW q \in Requests PROVE PlaceOK(q)' /\ ToldOK(q)'
    <3>1. PlaceOK(q) /\ ToldOK(q)
      BY DEF IInv
    <3>2. CASE q = r
      <4>1. PlaceOK(q)'
        BY <2>1, <2>2, <3>1, <3>2 DEF PlaceOK, Held, Justified
      <4>2. ToldOK(q)'
        BY <2>1, <3>1 DEF ToldOK, Justified
      <4>3. QED
        BY <4>1, <4>2
    <3>3. CASE q # r
      BY <2>1, <2>2, <3>1, <3>3 DEF PlaceOK, ToldOK, Held, Justified
    <3>4. QED
      BY <3>2, <3>3
  <2>5. ASSUME NEW t \in Sessions PROVE SessionOK(t)'
    <3>1. SessionOK(t) /\ rawRequest[t] \in Requests \cup {None}
      BY <1>1 DEF IInv, TypeOK
    <3>2. rawRequest[t] # None => rawRequest[t] # r
      BY <2>1, <3>1 DEF SessionOK, Held
    <3>3. QED
      BY <2>1, <2>2, <2>3, <3>1, <3>2 DEF SessionOK
  <2>6. IdsOK' /\ SectionsOK'
    BY <2>1 DEF IInv, IdsOK, SectionsOK
  <2>7. \A i \in DOMAIN queue : queue[i] \in Message /\ MessageOK(queue[i])
    BY DEF IInv, QueueOK, TypeOK
  <2>8. ASSUME NEW m \in Message, MessageOK(m) PROVE MessageOK(m)'
    <3>1. m.op \in {"notify", "inform"} =>
            thread'[m.r].at = thread[m.r].at /\ disposed'[m.r] = disposed[m.r]
      BY <2>1, <2>2, <2>8, MessageFields DEF MessageOK
    <3>2. QED
      BY <1>1, <2>1, <2>8, <3>1, MessageStays
  <2>9. CASE thread[r].raw = None
    <3>1. queue' = queue
      BY <1>9, <2>9 DEF NiThreadSends
    <3>2. QueueOK'
      BY <2>7, <2>8, <3>1, QueueKeeps
    <3>3. UniqueOK'
      BY <3>1 DEF IInv, UniqueOK
    <3>4. QED
      BY <1>1, <2>4, <2>5, <2>6, <3>2, <3>3 DEF IInv
  <2>10. CASE thread[r].raw # None
    <3>1. thread[r].raw = r /\ disposed[r] = 0 /\ (thread[r].answer = "accept" => Justified(r))
      BY <1>3, <2>1, <2>10 DEF PlaceOK
    <3>2. PICK m \in Message :
            /\ m = Inform(r, thread[r].answer)
            /\ m.op = "inform" /\ m.r = r /\ m.answer = thread[r].answer
      BY <1>2, MessageTypes DEF Inform
    <3>3. queue' = Append(queue, m)
      BY <1>9, <2>10, <3>1, <3>2 DEF NiThreadSends
    <3>4. \A q \in Requests : Carries(m, q) => \A i \in DOMAIN queue : ~Carries(queue[i], q)
      BY <2>1, <2>7, <3>2 DEF Carries, MessageOK
    <3>5. /\ UniqueOK'
          /\ \A i \in DOMAIN queue' :
               (i \in DOMAIN queue /\ queue'[i] = queue[i]) \/ queue'[i] = m
      BY <3>3, <3>4, Queued
    <3>6. MessageOK(m)'
      <4>1. r \notin unasked
        BY <1>3, <2>1 DEF PlaceOK
      <4>2. QED
        BY <2>1, <2>2, <3>1, <3>2, <4>1 DEF MessageOK, Justified
    <3>7. QueueOK'
      BY <2>7, <2>8, <3>5, <3>6, QueueKeeps
    <3>8. QED
      BY <1>1, <2>4, <2>5, <2>6, <3>5, <3>7 DEF IInv
  <2>11. QED
    BY <2>9, <2>10
<1>10. QED
  BY <1>4, <1>5, <1>7, <1>8, <1>9 DEF NiThread

-----------------------------------------------------------------------------
(***************************************************************************)
(* The theorems.                                                           *)
(***************************************************************************)
LEMMA InitIInv == Init => IInv
<1> SUFFICES ASSUME Init PROVE IInv
  OBVIOUS
<1>1. queue = <<>> /\ toSignal = <<>> /\ \A r \in Requests : thread[r] = NoThread
  BY DEF Init
<1>2. QueueOK /\ UniqueOK /\ SectionsOK
  BY <1>1 DEF QueueOK, UniqueOK, SectionsOK
<1>3. ASSUME NEW r \in Requests PROVE PlaceOK(r) /\ ToldOK(r)
  <2>1. /\ thread[r].at = "none" /\ thread[r].raw = None
        /\ id[r] = 0 /\ disposed[r] = 0 /\ told[r] = {}
    BY <1>1 DEF Init, NoThread
  <2>2. QED
    BY <2>1 DEF PlaceOK, ToldOK, Held
<1>4. IdsOK /\ \A s \in Sessions : SessionOK(s)
  BY DEF Init, IdsOK, SessionOK
<1>5. QED
  BY <1>2, <1>3, <1>4, InitTypeOK DEF IInv

LEMMA NextIInv == IInv /\ [Next]_vars => IInv'
BY EventKeeps, CommandKeeps, UpdateKeeps, NotifyKeeps, ReplyKeeps, SignalKeeps, InformKeeps,
   ThreadKeeps DEF Next, Handle

LEMMA Invariance == Spec => []IInv
BY InitIInv, NextIInv, PTL DEF Spec

\* A payload is handed back or freed at most once, and the modem told one thing.
THEOREM DisposedOnceOnly == Spec => []PayloadIsDisposedOnce
<1>1. IInv => PayloadIsDisposedOnce
  BY DEF IInv, ToldOK, PayloadIsDisposedOnce
<1>2. QED
  BY <1>1, Invariance, PTL

\* A session with a request has the thread of that request, and no other, to end it.
THEOREM HeldAwaited == Spec => []HeldRequestIsAwaited
<1>1. IInv => HeldRequestIsAwaited
  <2> SUFFICES ASSUME IInv, NEW s \in Sessions, NEW r \in Requests
               PROVE  /\ Awake(r) /\ thread[r].session = s => rawRequest[s] = r
                      /\ rawRequest[s] = r =>
                           thread[r].session = s /\ (Awake(r) \/ thread[r].at = "failed")
    BY DEF HeldRequestIsAwaited
  <2>1. PlaceOK(r) /\ SessionOK(s)
    BY DEF IInv
  <2>2. QED
    BY <2>1, NoneAssumption DEF PlaceOK, SessionOK, Held, Awake
<1>2. QED
  BY <1>1, Invariance, PTL

\* Acceptance is told with the user's consent, unless an answer was overtaken.
THEOREM Consent == Spec => []AcceptNeedsConsent
<1>1. IInv => AcceptNeedsConsent
  BY DEF IInv, ToldOK, Justified, AcceptNeedsConsent
<1>2. QED
  BY <1>1, Invariance, PTL

=============================================================================
