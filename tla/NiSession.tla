----------------------------- MODULE NiSession ------------------------------
(***************************************************************************)
(* Network-initiated requests (gps/gnss/GnssAdapter.cpp).                  *)
(*                                                                         *)
(* The modem asks whether somebody may know the position; the adapter asks *)
(* the user through the first client with an NI callback and has a thread  *)
(* of its own wait for the answer or for a time-out.  There is one         *)
(* NiSession for emergency requests and one for all others.  The handlers  *)
(* of the adapter's MsgTask (see Mailbox) and the thread share a session:  *)
(* the answer, its flag and the thread's wait are under its lock, while    *)
(* the handlers read and write rawRequest and reqID without it, and the    *)
(* thread resets reqID after it has released it.                           *)
(*                                                                         *)
(* The payload of a request is owned by the session, then by the thread,   *)
(* then by the message that hands it to LocApiBase::informNiResponse().    *)
(* How long the thread waits is left out: a time-out may come at any time. *)
(***************************************************************************)
EXTENDS Naturals, Sequences

CONSTANTS
  Requests,       \* the payloads, one for each request of the modem
  None,           \* NULL
  UserResponses,  \* what users answer
  SuplEs,         \* mGps_conf.SUPL_ES is not GNSS_CONFIG_SUPL_EMERGENCY_SERVICES_NO
  CpMtlrEs,       \* mGps_conf.CP_MTLR_ES is 1
  MaxReplies      \* bound on the answers of users

Types     == {"suplEs", "controlPlane", "supl"}  \* the last one stands for the rest
Sessions  == {"session", "sessionEs"}
Responses == {"accept", "deny", "noResponse", "ignore"}

ASSUME NoneAssumption == None \notin Requests
ASSUME ResponsesAssumption == UserResponses \subseteq Responses
ASSUME FlagsAssumption == SuplEs \in BOOLEAN /\ CpMtlrEs \in BOOLEAN
ASSUME BoundAssumption == MaxReplies \in Nat

VARIABLES
  registered,    \* some client has a gnssNiCb
  rawRequest,    \* NiSession::rawRequest
  reqID,         \* NiSession::reqID
  respRecvd,     \* NiSession::respRecvd
  resp,          \* NiSession::resp
  reqIDCounter,  \* NiData::reqIDCounter
  queue,         \* the messages of the adapter's MsgTask
  toSignal,      \* critical sections the handler of the last message has still to run
  thread,        \* the thread spawned for each request
  id,            \* the id each request was shown to the user with, or 0
  unasked,       \* requests the modem has not made yet
  disposed,      \* how often each payload has been handed back or freed
  told,          \* what the modem has been told about each request
  consented,     \* requests a user has accepted
  overtaken,     \* an answer was stored in a session whose request had changed
  replies        \* answers of users so far

sessionVars == <<rawRequest, reqID, respRecvd, resp>>
modemVars   == <<unasked, disposed, told>>
userVars    == <<id, consented, replies>>
vars == <<registered, sessionVars, reqIDCounter, queue, toSignal, thread, modemVars,
          userVars, overtaken>>

-----------------------------------------------------------------------------
Notify(r, t, e)   == [op |-> "notify", r |-> r, type |-> t, emergency |-> e]
Reply(n, answer)  == [op |-> "reply", id |-> n, answer |-> answer]
Inform(r, answer) == [op |-> "inform", r |-> r, answer |-> answer]

Message ==
  [op : {"notify"}, r : Requests, type : Types, emergency : BOOLEAN]
    \cup [op : {"reply"}, id : Nat, answer : Responses]
    \cup [op : {"inform"}, r : Requests, answer : Responses]

\* Where a thread is: not created, at its first lock, waiting, past its critical
\* section with the answer it took, done; or its creation failed.
ThreadStates == {"none", "start", "wait", "reset", "send", "done", "failed"}
Thread == [at : ThreadStates, session : Sessions, raw : Requests \cup {None},
           answer : Responses]

\* A critical section of a handler: store the answer, set the flag, signal.  The
\* request is the one the handler has seen in the session.
Section == [session : Sessions, answer : Responses, r : Requests]

Awake(r) == thread[r].at \in {"start", "wait"}

TypeOK ==
  /\ registered \in BOOLEAN
  /\ rawRequest \in [Sessions -> Requests \cup {None}]
  /\ reqID \in [Sessions -> Nat]
  /\ respRecvd \in [Sessions -> BOOLEAN]
  /\ resp \in [Sessions -> Responses]
  /\ reqIDCounter \in Nat
  /\ queue \in Seq(Message)
  /\ toSignal \in Seq(Section)
  /\ thread \in [Requests -> Thread]
  /\ id \in [Requests -> Nat]
  /\ unasked \subseteq Requests
  /\ disposed \in [Requests -> Nat]
  /\ told \in [Requests -> SUBSET Responses]
  /\ consented \subseteq Requests
  /\ overtaken \in BOOLEAN
  /\ replies \in 0..MaxReplies

NoThread == [at |-> "none", session |-> "session", raw |-> None, answer |-> "noResponse"]

\* The adapter is value-initialized: no request, all ids 0.
Init ==
  /\ registered = FALSE
  /\ rawRequest = [s \in Sessions |-> None]
  /\ reqID = [s \in Sessions |-> 0]
  /\ respRecvd = [s \in Sessions |-> FALSE]
  /\ resp = [s \in Sessions |-> "noResponse"]
  /\ reqIDCounter = 0
  /\ queue = <<>> /\ toSignal = <<>>
  /\ thread = [r \in Requests |-> NoThread]
  /\ id = [r \in Requests |-> 0]
  /\ unasked = Requests
  /\ disposed = [r \in Requests |-> 0]
  /\ told = [r \in Requests |-> {}]
  /\ consented = {} /\ overtaken = FALSE /\ replies = 0

-----------------------------------------------------------------------------
(***************************************************************************)
(* What becomes of a payload: the modem is told, and its owner gone.       *)
(***************************************************************************)
InformNiResponse(r, answer) ==
  /\ disposed' = [disposed EXCEPT ![r] = @ + 1]
  /\ told' = [told EXCEPT ![r] = @ \cup {answer}]

Free(r) ==
  /\ disposed' = [disposed EXCEPT ![r] = @ + 1]
  /\ UNCHANGED told

-----------------------------------------------------------------------------
(***************************************************************************)
(* The modem and the users.                                                *)
(***************************************************************************)

\* requestNiNotifyEvent() puts the request in the adapter's queue.
RequestNiNotifyEvent(r) ==
  /\ r \in unasked
  /\ unasked' = unasked \ {r}
  /\ \E t \in Types, e \in BOOLEAN : queue' = Append(queue, Notify(r, t, e))
  /\ UNCHANGED <<registered, sessionVars, reqIDCounter, toSignal, thread, disposed, told,
                 userVars, overtaken>>

\* A user answers a request that was shown: gnssNiResponseCommand().
GnssNiResponseCommand(r, answer) ==
  /\ id[r] # 0 /\ replies < MaxReplies
  /\ replies' = replies + 1
  /\ consented' = IF answer = "accept" THEN consented \cup {r} ELSE consented
  /\ queue' = Append(queue, Reply(id[r], answer))
  /\ UNCHANGED <<registered, sessionVars, reqIDCounter, toSignal, thread, modemVars, id,
                 overtaken>>

\* The handlers that add, update and remove clients change whether one of
\* them has a gnssNiCb.
UpdateClients ==
  /\ toSignal = <<>>
  /\ registered' = ~registered
  /\ UNCHANGED <<sessionVars, reqIDCounter, queue, toSignal, thread, modemVars, userVars,
                 overtaken>>

-----------------------------------------------------------------------------
(***************************************************************************)
(* requestNiNotify(), in the handler of a notification: the payload goes   *)
(* to a free session, whose thread is created and detached, and the user   *)
(* is asked; or it is freed.  Without a client the emergency request is    *)
(* accepted at once, any other is forgotten.                               *)
(***************************************************************************)
IgnoreSupl ==
  IF rawRequest["session"] = None
  THEN <<>>
  ELSE <<[session |-> "session", answer |-> "ignore", r |-> rawRequest["session"]]>>

SessionFor(type) == IF type = "suplEs" THEN "sessionEs" ELSE "session"

\* A new emergency request only waits for an earlier one, others for both.
\* Mutated form: an emergency request does not wait.
BusyUnlessEmergency(type) == type # "suplEs" /\ \E s \in Sessions : rawRequest[s] # None

Busy(type) ==
  \/ rawRequest["sessionEs"] # None
  \/ type # "suplEs" /\ rawRequest["session"] # None

StartSession(r, s) ==
  /\ rawRequest' = [rawRequest EXCEPT ![s] = r]
  /\ reqIDCounter' = reqIDCounter + 1
  /\ reqID' = [reqID EXCEPT ![s] = reqIDCounter + 1]
  /\ \E at \in {"start", "failed"} :
       thread' = [thread EXCEPT ![r] = [NoThread EXCEPT !.at = at, !.session = s]]
  /\ id' = [id EXCEPT ![r] = reqIDCounter + 1]
  /\ UNCHANGED <<disposed, told, toSignal>>

RequestNiNotify(r, type) ==
  \/ /\ ~registered /\ type = "suplEs"
     /\ InformNiResponse(r, "accept")
     /\ toSignal' = IgnoreSupl
     /\ UNCHANGED <<rawRequest, reqID, reqIDCounter, thread, id>>
  \/ /\ ~registered /\ type # "suplEs"
     /\ UNCHANGED <<rawRequest, reqID, reqIDCounter, thread, id, disposed, told, toSignal>>
  \/ /\ registered /\ Busy(type)
     /\ Free(r)
     /\ UNCHANGED <<rawRequest, reqID, reqIDCounter, thread, id, toSignal>>
  \/ /\ registered /\ ~Busy(type)
     /\ StartSession(r, SessionFor(type))

\* MsgReportNiNotify::proc(): who is asked depends on the type, the emergency
\* and the configuration.
Denied(m)   == m.type = "suplEs" /\ ~m.emergency /\ SuplEs
Accepted(m) == m.type = "controlPlane" /\ m.emergency /\ CpMtlrEs

HandleNotify ==
  /\ queue # <<>> /\ toSignal = <<>>
  /\ LET m == Head(queue) IN
     /\ m.op = "notify"
     /\ \/ /\ Denied(m)
           /\ InformNiResponse(m.r, "deny")
           /\ UNCHANGED <<rawRequest, reqID, reqIDCounter, thread, id, toSignal>>
        \/ /\ Accepted(m)
           /\ InformNiResponse(m.r, "accept")
           /\ UNCHANGED <<rawRequest, reqID, reqIDCounter, thread, id, toSignal>>
        \/ /\ ~Denied(m) /\ ~Accepted(m)
           /\ RequestNiNotify(m.r, m.type)
  /\ queue' = Tail(queue)
  /\ UNCHANGED <<registered, respRecvd, resp, unasked, consented, replies, overtaken>>

-----------------------------------------------------------------------------
(***************************************************************************)
(* MsgGnssNiResponse::proc() of a user's answer: the session is looked up  *)
(* without its lock; the critical sections follow.  An emergency request   *)
(* that is accepted has the other one ignored.                             *)
(***************************************************************************)
Active(s, n) == reqID[s] = n /\ rawRequest[s] # None

Answered(s, answer) == <<[session |-> s, answer |-> answer, r |-> rawRequest[s]]>>

\* Mutated form: the id is not compared.
AnswerSectionsAny(n, answer) ==
  IF rawRequest["sessionEs"] # None THEN Answered("sessionEs", answer)
  ELSE IF rawRequest["session"] # None THEN Answered("session", answer)
  ELSE <<>>

AnswerSections(n, answer) ==
  IF Active("sessionEs", n)
  THEN (IF answer = "accept" THEN IgnoreSupl ELSE <<>>) \o Answered("sessionEs", answer)
  ELSE IF Active("session", n) THEN Answered("session", answer)
  ELSE <<>>

HandleReply ==
  /\ queue # <<>> /\ toSignal = <<>>
  /\ LET m == Head(queue) IN
     /\ m.op = "reply"
     /\ toSignal' = IF registered THEN AnswerSections(m.id, m.answer) ELSE <<>>
  /\ queue' = Tail(queue)
  /\ UNCHANGED <<registered, sessionVars, reqIDCounter, thread, modemVars, userVars,
                 overtaken>>

\* One critical section of a handler.
SignalSession ==
  /\ toSignal # <<>>
  /\ LET c == Head(toSignal) IN
     /\ resp' = [resp EXCEPT ![c.session] = c.answer]
     /\ respRecvd' = [respRecvd EXCEPT ![c.session] = TRUE]
     /\ overtaken' = (overtaken \/ rawRequest[c.session] # c.r)
  /\ toSignal' = Tail(toSignal)
  /\ UNCHANGED <<registered, rawRequest, reqID, reqIDCounter, queue, thread, modemVars,
                 userVars>>

\* MsgGnssNiResponse::proc() of the thread's answer.
HandleInform ==
  /\ queue # <<>> /\ toSignal = <<>>
  /\ LET m == Head(queue) IN
     /\ m.op = "inform"
     /\ InformNiResponse(m.r, m.answer)
  /\ queue' = Tail(queue)
  /\ UNCHANGED <<registered, sessionVars, reqIDCounter, toSignal, thread, unasked, userVars,
                 overtaken>>

-----------------------------------------------------------------------------
(***************************************************************************)
(* niThreadProc().  The critical section is left with the answer, which a  *)
(* time-out replaces by "no response", even one that has come meanwhile.   *)
(***************************************************************************)

\* The end of the critical section of r's thread.  Mutated forms: the thread takes
\* a payload it has freed; a payload to be ignored is not freed.
TakeFreed(r, s, answer) ==
  /\ respRecvd' = [respRecvd EXCEPT ![s] = FALSE]
  /\ resp' = [resp EXCEPT ![s] = answer]
  /\ thread' = [thread EXCEPT ![r] =
       [at |-> "reset", session |-> s, answer |-> answer, raw |-> rawRequest[s]]]
  /\ IF answer = "ignore" /\ rawRequest[s] # None
     THEN Free(rawRequest[s])
     ELSE UNCHANGED <<disposed, told>>
  /\ rawRequest' = [rawRequest EXCEPT ![s] = None]

TakeLeak(r, s, answer) ==
  /\ respRecvd' = [respRecvd EXCEPT ![s] = FALSE]
  /\ resp' = [resp EXCEPT ![s] = answer]
  /\ thread' = [thread EXCEPT ![r] =
       [at |-> "reset", session |-> s, answer |-> answer,
        raw |-> IF answer = "ignore" THEN None ELSE rawRequest[s]]]
  /\ UNCHANGED <<disposed, told>>
  /\ rawRequest' = [rawRequest EXCEPT ![s] = None]

Take(r, s, answer) ==
  /\ respRecvd' = [respRecvd EXCEPT ![s] = FALSE]
  /\ resp' = [resp EXCEPT ![s] = answer]
  /\ thread' = [thread EXCEPT ![r] =
       [at |-> "reset", session |-> s, answer |-> answer,
        raw |-> IF answer = "ignore" THEN None ELSE rawRequest[s]]]
  /\ IF answer = "ignore" /\ rawRequest[s] # None
     THEN Free(rawRequest[s])
     ELSE UNCHANGED <<disposed, told>>
  /\ rawRequest' = [rawRequest EXCEPT ![s] = None]

threadFrame == <<registered, reqID, reqIDCounter, queue, toSignal, unasked, userVars,
                 overtaken>>

\* The first lock: the flag may be set already.
NiThreadWaits(r) ==
  /\ thread[r].at = "start" /\ ~respRecvd[thread[r].session]
  /\ thread' = [thread EXCEPT ![r].at = "wait"]
  /\ UNCHANGED <<rawRequest, respRecvd, resp, disposed, told, threadFrame>>

NiThreadAnswered(r) ==
  /\ Awake(r) /\ respRecvd[thread[r].session]
  /\ Take(r, thread[r].session, resp[thread[r].session])
  /\ UNCHANGED threadFrame

\* pthread_cond_timedwait() returns ETIMEDOUT.
NiThreadTimesOut(r) ==
  /\ thread[r].at = "wait"
  /\ Take(r, thread[r].session, "noResponse")
  /\ UNCHANGED threadFrame

\* After the unlock: reqID = 0, whoever the session belongs to by now.
NiThreadResets(r) ==
  /\ thread[r].at = "reset"
  /\ reqID' = [reqID EXCEPT ![thread[r].session] = 0]
  /\ thread' = [thread EXCEPT ![r].at = "send"]
  /\ UNCHANGED <<registered, rawRequest, respRecvd, resp, reqIDCounter, queue, toSignal,
                 modemVars, userVars, overtaken>>

NiThreadSends(r) ==
  /\ thread[r].at = "send"
  /\ thread' = [thread EXCEPT ![r].at = "done", ![r].raw = None]
  /\ queue' = IF thread[r].raw = None THEN queue
              ELSE Append(queue, Inform(thread[r].raw, thread[r].answer))
  /\ UNCHANGED <<registered, sessionVars, reqIDCounter, toSignal, modemVars, userVars,
                 overtaken>>

-----------------------------------------------------------------------------
Handle == HandleNotify \/ HandleReply \/ SignalSession \/ HandleInform

NiThread(r) ==
  \/ NiThreadWaits(r) \/ NiThreadAnswered(r) \/ NiThreadTimesOut(r)
  \/ NiThreadResets(r) \/ NiThreadSends(r)

Next ==
  \/ \E r \in Requests : RequestNiNotifyEvent(r) \/ NiThread(r)
  \/ \E r \in Requests, answer \in UserResponses : GnssNiResponseCommand(r, answer)
  \/ UpdateClients
  \/ Handle

\* The MsgTask and the threads run; waits end at the latest by a time-out.
Fairness == WF_vars(Handle) /\ \A r \in Requests : WF_vars(NiThread(r))

Spec == Init /\ [][Next]_vars /\ Fairness

-----------------------------------------------------------------------------
(***************************************************************************)
(* Properties.                                                             *)
(***************************************************************************)

\* A payload has one owner: although handlers free it, the session holds it and
\* the thread takes, frees or sends it in a message, it is handed back or freed
\* at most once, and the modem is told one thing.
PayloadIsDisposedOnce ==
  \A r \in Requests :
    disposed[r] <= 1 /\ \A a, b \in told[r] : a = b

\* A session with a request has the thread of that request to end it, and the
\* thread of no other request may take the payload; unless the thread could not
\* be created, which blocks the session for good.
HeldRequestIsAwaited ==
  \A s \in Sessions, r \in Requests :
    /\ Awake(r) /\ thread[r].session = s => rawRequest[s] = r
    /\ rawRequest[s] = r => thread[r].session = s /\ (Awake(r) \/ thread[r].at = "failed")

\* The modem is told that a request is accepted only if a user has accepted that
\* request, an emergency spares the question, or an answer has been stored in a
\* session that was not, or no longer, its own.
AcceptNeedsConsent ==
  \A r \in Requests :
    "accept" \in told[r] /\ id[r] # 0 => r \in consented \/ overtaken

\* A request the user was asked about is settled in the end: answered, timed out
\* or freed, however answers, time-outs and other requests interleave.
HeldRequestIsSettled ==
  \A r \in Requests : thread[r].at \in ThreadStates \ {"none", "failed"} ~> disposed[r] = 1

\* The same without the exception: the comment at line 3775 has the flag reset for
\* the next session, but an answer may be stored after the thread has reset it, and
\* the next request is then accepted at once, before the user has been heard.
AcceptAlwaysNeedsConsent ==
  \A r \in Requests : "accept" \in told[r] /\ id[r] # 0 => r \in consented

\* A pending request can be answered under the id it was shown with: violated by the
\* thread of the request before, which resets reqID after the unlock (line 3798).
PendingIsAnswerable ==
  \A s \in Sessions : rawRequest[s] # None => reqID[s] = id[rawRequest[s]]
=============================================================================
