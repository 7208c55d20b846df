-------------------------- MODULE RequesterOrderProofs -------------------------
(***************************************************************************)
(* While the connection is used as intended (Orderly), and no request is   *)
(* cancelled from inside its own handler, the requester keeps its          *)
(* promises about ids and handlers, for every number of ids and requests,  *)
(* through exceptions, cancellations of open requests and UnknownType.  A   *)
(* handler or disconnect_ that throws leaves the entry of an answered       *)
(* request behind; `failures.left' counts how often.                        *)
(***************************************************************************)
EXTENDS RequesterImplProofs

-----------------------------------------------------------------------------
(* The invariant                                                            *)

UsedIds == {id \in RequestIds : InUse(id)}
IsEndingId(id) == \E i \in DOMAIN ending : ending[i].id = id
IsResult(i) == incoming[i].type = "GetValuesResult"

\* The server is asked for its limits once for each connection, so that an answer
\* is on its way at most once, and only while the connection is being opened.
AskedOnce ==
  /\ getValuesOwed > 0 =>
       /\ getValuesOwed = 1 /\ connectionState = "ConnectionInProgress"
       /\ \A i \in DOMAIN incoming : ~IsResult(i)
  /\ \A i \in DOMAIN incoming : IsResult(i) =>
       /\ connectionState = "ConnectionInProgress"
       /\ \A j \in DOMAIN incoming : IsResult(j) => i = j

\* Until the connection is open one request waits at most, and none has an id.
OpensOnce ==
  /\ connectionState = "ConnectionInProgress" =>
       pendingRequest # 0 /\ requests[pendingRequest].outcomes = <<>>
  /\ connectionState # "Connected" =>
       /\ ending = <<>> /\ cancelHandler.does = Opening
       /\ \A id \in RequestIds : ~InUse(id)

\* Afterwards each id the server allows is available or in use.
IdsPart ==
  connectionState = "Connected" =>
    requestIdPool \cap UsedIds = {} /\ requestIdPool \cup UsedIds = AllIds(cfg)

\* An id stands for a request of its own, whose handler was not called before
\* doEndRequest began, but by calls of it that an exception has left.
ContextsPart ==
  \A id \in RequestIds : InUse(id) =>
    /\ responseMap[id].request \in DOMAIN requests
    /\ \/ Len(requests[responseMap[id].request].outcomes) <= failures.left[responseMap[id].request]
       \/ IsEndingId(id)
    /\ \A i \in RequestIds :
         InUse(i) /\ responseMap[i].request = responseMap[id].request => i = id

\* The calls of doEndRequest that are in progress have their contexts still.
EndingPart ==
  \A i \in DOMAIN ending :
    /\ InUse(ending[i].id)
    /\ responseMap[ending[i].id].request = ending[i].context.request
    /\ requests[ending[i].context.request].outcomes # <<>>
    /\ \A j \in DOMAIN ending : ending[i].id = ending[j].id => i = j

\* The handle of the first request was redirected to that request's id.
HandlePart ==
  cancelHandler.does # Opening /\ cancelHandler.request # 0 =>
    \A id \in IdsOf(cancelHandler.request) : id = cancelHandler.does

\* What the application sees of a request.
OutcomesPart ==
  \A k \in DOMAIN requests :
    /\ Len(requests[k].outcomes) <= 1 + failures.left[k]
    /\ requests[k].sends > 0 /\ requests[k].outcomes = <<>> => IdsOf(k) # {}
    /\ \A i \in DOMAIN requests[k].outcomes :
         requests[k].outcomes[i].status = "Cancelled" => requests[k].cancelled # "no"

ClientInv == OpensOnce /\ IdsPart /\ ContextsPart /\ EndingPart /\ HandlePart /\ OutcomesPart
OrderInv == Orderly => AskedOnce /\ ClientInv

-----------------------------------------------------------------------------
(* What a step does to the history of a request                             *)

\* A handler is called: only this request's outcomes change.
LEMMA CallEffect ==
  ASSUME NEW history \in Seq(RequestHistory), NEW k \in DOMAIN history, NEW outcome,
         NEW called, called = CallsHandler(history, k, outcome)
  PROVE  /\ DOMAIN called = DOMAIN history
         /\ called[k].outcomes = Append(history[k].outcomes, outcome)
         /\ called[k].sends = history[k].sends /\ called[k].cancelled = history[k].cancelled
         /\ called[k].keep = history[k].keep
         /\ \A j \in DOMAIN history : j # k => called[j] = history[j]
<1> DEFINE changed == [history[k] EXCEPT !.outcomes = Append(@, outcome)]
<1>1. called = [history EXCEPT ![k] = changed]
  BY DEF CallsHandler
<1>2. history[k] \in RequestHistory
  BY HistoryFields
<1>3. /\ changed.outcomes = Append(history[k].outcomes, outcome)
      /\ changed.sends = history[k].sends /\ changed.cancelled = history[k].cancelled
      /\ changed.keep = history[k].keep
  BY <1>2 DEF RequestHistory
<1> HIDE DEF changed
<1>4. called[k] = changed /\ DOMAIN called = DOMAIN history
      /\ \A j \in DOMAIN history : j # k => called[j] = history[j]
  BY <1>1
<1> QED
  BY <1>3, <1>4

\* The first call of a handler.
LEMMA FirstCall ==
  ASSUME NEW history \in Seq(RequestHistory), NEW k \in DOMAIN history, NEW outcome \in Outcome,
         history[k].outcomes = <<>>, NEW called, called = CallsHandler(history, k, outcome)
  PROVE  /\ DOMAIN called = DOMAIN history
         /\ called[k].outcomes # <<>> /\ Len(called[k].outcomes) <= 1
         /\ \A i \in DOMAIN called[k].outcomes : called[k].outcomes[i] = outcome
         /\ called[k].sends = history[k].sends /\ called[k].cancelled = history[k].cancelled
         /\ \A j \in DOMAIN history : j # k => called[j] = history[j]
<1>1. called[k].outcomes = Append(<<>>, outcome)
  BY CallEffect
<1>2. Append(<<>>, outcome) = <<outcome>>
  OBVIOUS
<1>3. called[k].outcomes = <<outcome>>
  BY <1>1, <1>2
<1>4. called[k].outcomes # <<>> /\ Len(called[k].outcomes) = 1 /\ DOMAIN called[k].outcomes = 1..1
      /\ called[k].outcomes[1] = outcome
  BY <1>3
<1> QED
  BY <1>4, CallEffect

\* The request is sent.
LEMMA SendEffect ==
  ASSUME NEW history \in Seq(RequestHistory), NEW k \in DOMAIN history,
         NEW sent, sent = [history EXCEPT ![k].sends = @ + 1]
  PROVE  /\ DOMAIN sent = DOMAIN history
         /\ sent[k].outcomes = history[k].outcomes /\ sent[k].cancelled = history[k].cancelled
         /\ sent[k].keep = history[k].keep
         /\ \A j \in DOMAIN history : j # k => sent[j] = history[j]
<1> DEFINE changed == [history[k] EXCEPT !.sends = @ + 1]
<1>1. sent = [history EXCEPT ![k] = changed]
  OBVIOUS
<1>2. history[k] \in RequestHistory
  BY HistoryFields
<1>3. changed.outcomes = history[k].outcomes /\ changed.cancelled = history[k].cancelled
      /\ changed.keep = history[k].keep
  BY <1>2 DEF RequestHistory
<1> HIDE DEF changed
<1>4. sent[k] = changed /\ DOMAIN sent = DOMAIN history
      /\ \A j \in DOMAIN history : j # k => sent[j] = history[j]
  BY <1>1
<1> QED
  BY <1>3, <1>4

\* sendRequest adds a request that was neither sent nor answered.
LEMMA NewRequest ==
  ASSUME TypeOK, Len(requests) < MaxRequests, NEW keep \in KeepModes,
         NEW handle \in {"none", "opening", "context"}, NEW history,
         history = Append(requests, [keep |-> keep, handle |-> handle, cancelled |-> "no",
                                     sends |-> 0, outcomes |-> <<>>])
  PROVE  /\ history \in Seq(RequestHistory)
         /\ Len(requests) + 1 \in DOMAIN history /\ Len(requests) + 1 \notin DOMAIN requests
         /\ DOMAIN history = DOMAIN requests \cup {Len(requests) + 1}
         /\ history[Len(requests) + 1].outcomes = <<>>
         /\ history[Len(requests) + 1].sends = 0
         /\ \A k \in DOMAIN requests : history[k] = requests[k]
<1> DEFINE request == [keep |-> keep, handle |-> handle, cancelled |-> "no",
                       sends |-> 0, outcomes |-> <<>>]
<1>1. /\ history \in Seq(RequestHistory) /\ Len(history) = Len(requests) + 1
      /\ history[Len(requests) + 1] = request
      /\ \A k \in DOMAIN requests : history[k] = requests[k]
  BY NewRequestType
<1>2. request.outcomes = <<>> /\ request.sends = 0
  OBVIOUS
<1>3. Len(requests) \in Nat /\ DOMAIN requests = 1..Len(requests)
      /\ DOMAIN history = 1..(Len(requests) + 1)
  BY <1>1 DEF TypeOK
<1>4. DOMAIN history = DOMAIN requests \cup {Len(requests) + 1}
  BY <1>3
<1> HIDE DEF request
<1> QED
  BY <1>1, <1>2, <1>3, <1>4

-----------------------------------------------------------------------------
(* The invariant, one lemma per operation                                   *)

\* How often an exception has left doEndRequest for a request.
LEMMA LeftType ==
  ASSUME TypeOK
  PROVE  /\ DOMAIN requests \subseteq Requests /\ \A k \in Requests : failures.left[k] \in Nat
         /\ \A k \in DOMAIN requests : Len(requests[k].outcomes) \in Nat
<1>1. \A k \in Requests : failures.left[k] \in Nat
  BY DEF TypeOK
<1>2. DOMAIN requests \subseteq Requests
  <2>1. /\ Len(requests) \in Nat /\ DOMAIN requests = 1..Len(requests) /\ Len(requests) <= MaxRequests
        /\ MaxRequests \in Nat
    BY BoundsAssumption, LenProperties DEF TypeOK
  <2> QED
    BY <2>1 DEF Requests
<1>3. ASSUME NEW k \in DOMAIN requests PROVE Len(requests[k].outcomes) \in Nat
  BY HistoryFields, LenProperties DEF TypeOK
<1> QED
  BY <1>1, <1>2, <1>3

LEMMA NewRequestNumber ==
  ASSUME TypeOK, Len(requests) < MaxRequests
  PROVE  Len(requests) + 1 \in Requests /\ failures.left[Len(requests) + 1] \in Nat
<1>1. Len(requests) + 1 \in Requests
  BY BoundsAssumption, LenProperties DEF TypeOK, Requests
<1> QED
  BY <1>1, LeftType

\* What is counted in a step.
LEMMA FailureSteps ==
  ASSUME TypeOK, [Next]_vars
  PROVE  /\ \/ failures'.unasked = failures.unasked
            \/ AnswerGetValues /\ failures'.unasked = failures.unasked + 1
         /\ failures.lost \subseteq failures'.lost
         /\ ~LeaveEndRequest => failures'.left = failures.left
         /\ LeaveEndRequest => failures'.left = [failures.left EXCEPT ![Last(ending).context.request] = @ + 1]
<1> DEFINE k == Last(ending).context.request
           Stays == /\ failures'.left = failures.left /\ failures.lost \subseteq failures'.lost
                    /\ \/ failures'.unasked = failures.unasked
                       \/ AnswerGetValues /\ failures'.unasked = failures.unasked + 1
<1>0. failures \in FailureRecord /\ OneMoreException \in FailureRecord
  BY FailureTypes DEF TypeOK, FailureRecord, OneMoreException
<1>1. /\ OneMoreException.left = failures.left /\ OneMoreException.lost = failures.lost
      /\ OneMoreException.unasked = failures.unasked
  BY <1>0 DEF OneMoreException, FailureRecord
<1>2. ASSUME \/ failures' = failures
             \/ failures' = [failures EXCEPT !.exceptions = @ + 1]
             \/ failures' = [failures EXCEPT !.died = TRUE]
             \/ failures' = [failures EXCEPT !.threw = TRUE]
             \/ failures' = [failures EXCEPT !.extras = @ + 1]
      PROVE  Stays
  <2>1. failures'.unasked = failures.unasked
    BY <1>0, <1>2, FailureFields DEF FailureRecord
  <2>2. failures'.left = failures.left /\ failures'.lost = failures.lost
    BY <1>0, <1>2, FailureFields
  <2> QED
    BY <2>1, <2>2
<1>3. ASSUME NEW n, LosesRecords(n, failures) \/ LosesRecords(n, OneMoreException)
      PROVE  Stays
  BY <1>0, <1>1, <1>3, LossFields
<1>4. ASSUME AnswerGetValues PROVE Stays
  <2>1. failures' = failures \/ failures' = [failures EXCEPT !.unasked = @ + 1]
    BY <1>4 DEF AnswerGetValues
  <2> QED
    BY <1>0, <1>4, <2>1, FailureFields
<1> HIDE DEF Stays
<1>5. ASSUME OnRecordRead PROVE Stays
  BY <1>2, <1>3, <1>5
     DEF OnRecordRead, OnInvalidGetValuesResult, OnGetValuesResult, OnUnexpectedRecord, OnStdOut,
         OnStdErr, OnEndRequest, OnUnknownType, RedirectHandle, ReceiveAndThrow
<1>6. ASSUME UNCHANGED vars \/ FinishEndRequest PROVE Stays
  BY <1>2, <1>6 DEF FinishEndRequest, vars
<1>7. ASSUME ApplicationStep PROVE Stays
  BY <1>2, <1>7 DEF ApplicationStep, OpenConnection, SendRequest, RejectRequest, CancelRequest,
                    Throws, OneMoreException
<1>8. ASSUME ServerStep PROVE Stays
  BY <1>2, <1>4, <1>8 DEF ServerStep, EndServing, SendUnknownType, SendPiece
<1>9. CASE LeaveEndRequest
  <2> DEFINE counted == [OneMoreException EXCEPT !.left[k] = @ + 1]
  <2>1. PICK n : LosesRecords(n, counted)
    BY <1>9 DEF LeaveEndRequest
  <2>2. k \in Requests
    BY <1>9, PopType DEF LeaveEndRequest
  <2>3. counted \in FailureRecord
    BY <1>0, <2>2, FailureTypes
  <2>4. /\ counted.left = [failures.left EXCEPT ![k] = @ + 1] /\ counted.lost = failures.lost
        /\ counted.unasked = failures.unasked
    BY <1>0, <1>1 DEF FailureRecord
  <2> HIDE DEF counted, k
  <2>5. /\ failures'.left = [failures.left EXCEPT ![k] = @ + 1] /\ failures.lost \subseteq failures'.lost
        /\ failures'.unasked = failures.unasked
    BY <2>1, <2>3, <2>4, LossFields
  <2> QED
    BY <1>9, <2>5 DEF k
<1>10. LeaveEndRequest \/ Stays
  BY <1>4, <1>5, <1>6, <1>7, <1>8, <1>9 DEF Next
<1> QED
  BY <1>9, <1>10 DEF Stays

\* Steps of the server and records for ids nobody has change nothing here.
LEMMA ClientStays ==
  ClientInv /\ UNCHANGED requesterVars /\ failures'.left = failures.left => ClientInv'
BY DEF ClientInv, requesterVars, OpensOnce, IdsPart, ContextsPart, EndingPart, HandlePart,
       OutcomesPart, UsedIds, InUse, IsEndingId, IdsOf, AllIds, generateRequestIds

\* The calls on the stack.
LEMMA CallFields ==
  ASSUME TypeOK, NEW i \in DOMAIN ending
  PROVE  /\ ending[i].id \in RequestIds
         /\ ending[i].context \in ResponseContext /\ ending[i].context.request \in Requests
<1> DEFINE Call == [id : RequestIds, status : {"Successful", "Failed", "Cancelled"},
                    context : ResponseContext, rest : Nat]
<1>1. ending \in Seq(Call)
  BY DEF TypeOK
<1> HIDE DEF Call
<1>2. ending[i] \in Call
  BY <1>1, ElementOfSeq
<1>3. ending[i].id \in RequestIds /\ ending[i].context \in ResponseContext
  BY <1>2 DEF Call
<1> QED
  BY <1>3 DEF ResponseContext

\* A piece of a response is added to the context: the same ids stand for the
\* same requests.
LEMMA ClientKeepsIds ==
  ASSUME TypeOK, ClientInv,
         UNCHANGED <<connectionState, cfg, requestIdPool, pendingRequest, cancelHandler,
                     ending, requests>>, failures'.left = failures.left,
         \A id \in RequestIds :
           /\ InUse(id)' <=> InUse(id)
           /\ InUse(id) => responseMap'[id].request = responseMap[id].request
  PROVE  ClientInv'
<1>1. UsedIds' = UsedIds /\ \A k : IdsOf(k)' = IdsOf(k)
  BY DEF UsedIds, IdsOf
<1>2. OpensOnce' /\ IdsPart'
  BY <1>1 DEF ClientInv, OpensOnce, IdsPart, AllIds, generateRequestIds
<1>3. \A id : IsEndingId(id)' <=> IsEndingId(id)
  BY DEF IsEndingId
<1>4. ContextsPart'
  BY <1>3 DEF ClientInv, ContextsPart
<1>5. EndingPart'
  BY CallFields DEF ClientInv, EndingPart
<1> QED
  BY <1>1, <1>2, <1>4, <1>5 DEF ClientInv, HandlePart, OutcomesPart

\* sendRequest on a new connection.
LEMMA OpenClient ==
  ASSUME TypeOK, ClientInv, NEW keep \in KeepModes, OpenConnection(keep),
         failures'.left = failures.left
  PROVE  ClientInv'
<1> DEFINE k == Len(requests) + 1
<1>1. PICK handle \in {"none", "opening", "context"} :
        requests' = Append(requests, [keep |-> keep, handle |-> handle, cancelled |-> "no",
                                      sends |-> 0, outcomes |-> <<>>])
  BY DEF OpenConnection
<1>2. /\ DOMAIN requests' = DOMAIN requests \cup {k} /\ requests'[k].outcomes = <<>>
      /\ requests'[k].sends = 0 /\ \A j \in DOMAIN requests : requests'[j] = requests[j]
  BY <1>1, NewRequest DEF OpenConnection
<1>3. /\ connectionState = "NotConnected" /\ connectionState' = "ConnectionInProgress"
      /\ pendingRequest' = k /\ k # 0 /\ UNCHANGED <<responseMap, ending>>
      /\ cancelHandler'.does = Opening
  <2>1. connectionState # "Connected" /\ Len(requests) \in Nat
    BY DEF OpenConnection, TypeOK
  <2>2. cancelHandler.does = Opening
    BY <2>1 DEF ClientInv, OpensOnce
  <2>3. k # 0
    BY <2>1
  <2>4. cancelHandler' = cancelHandler \/ cancelHandler' = [request |-> k, does |-> Opening]
    BY DEF OpenConnection
  <2> QED
    BY <2>2, <2>3, <2>4 DEF OpenConnection
<1>4. ending = <<>> /\ \A id \in RequestIds : ~InUse(id) /\ ~InUse(id)'
  BY <1>3 DEF ClientInv, OpensOnce, InUse
<1>5. \A j : IdsOf(j)' = IdsOf(j)
  BY <1>3 DEF IdsOf, InUse
<1> HIDE DEF k
<1>6. OpensOnce' /\ IdsPart' /\ ContextsPart' /\ HandlePart'
  BY <1>2, <1>3, <1>4 DEF OpensOnce, IdsPart, ContextsPart, HandlePart
<1>7. EndingPart'
  BY <1>3, <1>4 DEF EndingPart
<1>8. OutcomesPart'
  <2>1. failures.left[k] \in Nat
    BY NewRequestNumber DEF OpenConnection, k
  <2>2. Len(requests'[k].outcomes) = 0 /\ DOMAIN requests'[k].outcomes = {}
    BY <1>2
  <2> QED
    BY <1>2, <1>5, <2>1, <2>2 DEF ClientInv, OutcomesPart
<1> QED
  BY <1>6, <1>7, <1>8 DEF ClientInv

\* sendRequest while the connection is being opened.
LEMMA RejectClient ==
  ASSUME TypeOK, ClientInv, NEW keep \in KeepModes, RejectRequest(keep),
         failures'.left = failures.left
  PROVE  ClientInv'
<1> DEFINE k == Len(requests) + 1
<1>1. /\ DOMAIN requests' = DOMAIN requests \cup {k} /\ requests'[k].outcomes = <<>>
      /\ requests'[k].sends = 0 /\ \A j \in DOMAIN requests : requests'[j] = requests[j]
  BY NewRequest DEF RejectRequest
<1>2. /\ connectionState = "ConnectionInProgress" /\ connectionState' = "ConnectionInProgress"
      /\ UNCHANGED <<pendingRequest, responseMap, ending, cancelHandler>>
  BY DEF RejectRequest
<1>3. /\ ending = <<>> /\ cancelHandler.does = Opening
      /\ \A id \in RequestIds : ~InUse(id) /\ ~InUse(id)'
      /\ pendingRequest # 0 /\ requests[pendingRequest].outcomes = <<>>
  BY <1>2 DEF ClientInv, OpensOnce, InUse
<1>4. pendingRequest \in DOMAIN requests
  BY <1>3 DEF TypeOK
<1>5. \A j : IdsOf(j)' = IdsOf(j)
  BY <1>2 DEF IdsOf, InUse
<1> HIDE DEF k
<1>6. OpensOnce' /\ IdsPart' /\ ContextsPart' /\ HandlePart'
  BY <1>1, <1>2, <1>3, <1>4 DEF OpensOnce, IdsPart, ContextsPart, HandlePart
<1>7. EndingPart'
  BY <1>2, <1>3 DEF EndingPart
<1>8. OutcomesPart'
  <2>1. failures.left[k] \in Nat
    BY NewRequestNumber DEF RejectRequest, k
  <2>2. Len(requests'[k].outcomes) = 0 /\ DOMAIN requests'[k].outcomes = {}
    BY <1>1
  <2> QED
    BY <1>1, <1>5, <2>1, <2>2 DEF ClientInv, OutcomesPart
<1> QED
  BY <1>6, <1>7, <1>8 DEF ClientInv

\* Where doSendRequest is called, for a request whose handler was not called and
\* that has no id, with a pool of ids that stand for nothing.
Sendable(k, pool, history) ==
  /\ history \in Seq(RequestHistory) /\ k \in DOMAIN history /\ k \in Requests
  /\ DOMAIN history = DOMAIN requests \cup {k}
  /\ \A j \in DOMAIN requests : j # k => history[j] = requests[j]
  /\ history[k].outcomes = <<>>
  /\ \A id \in RequestIds : InUse(id) => responseMap[id].request # k
  /\ pool \subseteq RequestIds /\ pool \cap UsedIds = {}

\* What it leaves.
Sent(k, pool) ==
  /\ ContextsPart' /\ EndingPart' /\ OutcomesPart'
  /\ requestIdPool' \cap UsedIds' = {} /\ requestIdPool' \cup UsedIds' = pool \cup UsedIds
  /\ \A id \in RequestIds : InUse(id)' =>
       \/ InUse(id) /\ responseMap'[id].request = responseMap[id].request
       \/ responseMap'[id].request = k
  /\ \A i, j \in RequestIds : InUse(i)' /\ InUse(j)' /\ ~InUse(i) /\ ~InUse(j) => i = j

LEMMA RefusedClient ==
  ASSUME TypeOK, ClientInv, NEW k, NEW pool, NEW history, Sendable(k, pool, history),
         Refuses(k, pool, history), UNCHANGED ending,
         failures'.left = failures.left
  PROVE  Sent(k, pool)
<1>1. /\ DOMAIN requests' = DOMAIN history /\ requests'[k].outcomes # <<>>
      /\ Len(requests'[k].outcomes) <= 1
      /\ \A i \in DOMAIN requests'[k].outcomes :
           requests'[k].outcomes[i] = NoResponse("Failed", 0)
      /\ \A j \in DOMAIN history : j # k => requests'[j] = history[j]
  BY FirstCall, NoResponseType DEF Refuses, Sendable
<1>2. /\ pool = {} /\ requestIdPool' = {} /\ responseMap' = responseMap
      /\ \A id : IsEndingId(id)' <=> IsEndingId(id)
  BY DEF Refuses, IsEndingId
<1>3. /\ \A id : InUse(id)' <=> InUse(id)
      /\ UsedIds' = UsedIds /\ \A j : IdsOf(j)' = IdsOf(j)
  BY <1>2 DEF UsedIds, InUse, IdsOf
<1>4. \A j \in DOMAIN requests' : j = k \/ (j \in DOMAIN requests /\ requests'[j] = requests[j])
  BY <1>1 DEF Sendable
<1>5. \A j \in DOMAIN requests : j # k => requests'[j] = requests[j] /\ j \in DOMAIN requests'
  BY <1>1 DEF Sendable
<1>6. ContextsPart'
  BY <1>2, <1>3, <1>5 DEF ClientInv, ContextsPart, Sendable
<1>7. EndingPart'
  BY <1>2, <1>3, <1>5, CallFields DEF ClientInv, EndingPart, ContextsPart, Sendable
<1>8. NoResponse("Failed", 0).status = "Failed"
  BY DEF NoResponse
<1>9. OutcomesPart'
  <2>1. Len(requests'[k].outcomes) <= 1 + failures.left[k]
    <3>1. failures.left[k] \in Nat /\ Len(requests'[k].outcomes) \in Nat
      <4>1. requests' \in Seq(RequestHistory) /\ k \in DOMAIN requests'
        BY CallType, NoResponseType DEF Refuses, Sendable
      <4> QED
        BY <4>1, LeftType, HistoryFields, LenProperties DEF Sendable
    <3> QED
      BY <1>1, <3>1
  <2> QED
    BY <1>1, <1>3, <1>4, <1>8, <2>1 DEF ClientInv, OutcomesPart
<1> QED
  BY <1>2, <1>3, <1>6, <1>7, <1>9 DEF Sent

LEMMA SentClient ==
  ASSUME TypeOK, ClientInv, NEW k, NEW pool, NEW history, Sendable(k, pool, history),
         NEW id \in pool, SendsUnder(id, k, pool, history), UNCHANGED ending,
         failures'.left = failures.left
  PROVE  Sent(k, pool)
<1> DEFINE context == NewContext(k, history[k].keep)
<1>1. /\ DOMAIN requests' = DOMAIN history
      /\ requests'[k].outcomes = <<>> /\ requests'[k].cancelled = history[k].cancelled
      /\ \A j \in DOMAIN history : j # k => requests'[j] = history[j]
  BY SendEffect DEF SendsUnder, Sendable
<1>2. context.request = k /\ context # NoContext
  <2>1. context \in ResponseContext
    BY HistoryFields DEF NewContext, ResponseContext, Sendable
  <2> QED
    BY <2>1, NoContextAssumption DEF NewContext
<1>3. id \in RequestIds /\ ~InUse(id)
  BY DEF Sendable, UsedIds
<1>4. /\ requestIdPool' = pool \ {id} /\ responseMap' = [responseMap EXCEPT ![id] = context]
      /\ \A i : IsEndingId(i)' <=> IsEndingId(i)
  BY <1>3 DEF SendsUnder, IsEndingId
<1> HIDE DEF context
<1>5. /\ InUse(id)' /\ responseMap'[id].request = k
      /\ \A i \in RequestIds : i # id =>
           (InUse(i)' <=> InUse(i)) /\ responseMap'[i].request = responseMap[i].request
  BY <1>2, <1>3, <1>4 DEF InUse, TypeOK
<1>6. UsedIds' = UsedIds \cup {id}
  BY <1>3, <1>5 DEF UsedIds
<1>7. \A j : IdsOf(j) \subseteq IdsOf(j)'
  BY <1>3, <1>5 DEF IdsOf
<1>8. \A j \in DOMAIN requests' : j = k \/ (j \in DOMAIN requests /\ requests'[j] = requests[j])
  BY <1>1 DEF Sendable
<1>9. /\ k \in DOMAIN requests'
      /\ \A j \in DOMAIN requests : j # k => requests'[j] = requests[j] /\ j \in DOMAIN requests'
  BY <1>1 DEF Sendable
<1>10. ContextsPart'
  <2>1. ASSUME NEW i \in RequestIds, InUse(i)', i # id
        PROVE  /\ responseMap'[i].request \in DOMAIN requests' /\ responseMap'[i].request # k
               /\ \/ Len(requests'[responseMap'[i].request].outcomes) <=
                       failures.left[responseMap'[i].request]
                  \/ IsEndingId(i)'
               /\ \A j \in RequestIds : InUse(j)' /\ j # id /\
                    responseMap'[j].request = responseMap'[i].request => j = i
    <3>1. InUse(i) /\ responseMap'[i].request = responseMap[i].request
      BY <1>5, <2>1
    <3>2. responseMap[i].request # k /\ responseMap[i].request \in DOMAIN requests
      BY <3>1 DEF Sendable, ClientInv, ContextsPart
    <3>3. requests'[responseMap[i].request] = requests[responseMap[i].request]
      BY <1>9, <3>2
    <3> QED
      BY <1>4, <1>5, <1>9, <3>1, <3>2, <3>3 DEF ClientInv, ContextsPart
  <2>2. Len(requests'[k].outcomes) <= failures.left[k]
    BY <1>1, LeftType DEF Sendable
  <2> QED
    BY <1>1, <1>5, <1>9, <2>1, <2>2 DEF ContextsPart
<1>11. EndingPart'
  <2>1. ASSUME NEW i \in DOMAIN ending
        PROVE  /\ InUse(ending[i].id)'
               /\ responseMap'[ending[i].id].request = ending[i].context.request
               /\ requests'[ending[i].context.request].outcomes # <<>>
    <3>1. /\ InUse(ending[i].id) /\ ending[i].id \in RequestIds
          /\ responseMap[ending[i].id].request = ending[i].context.request
          /\ requests[ending[i].context.request].outcomes # <<>>
      BY CallFields DEF ClientInv, EndingPart
    <3>2. /\ ending[i].context.request \in DOMAIN requests
          /\ ending[i].context.request # k /\ ending[i].id # id
      BY <1>3, <3>1 DEF ClientInv, ContextsPart, Sendable
    <3> QED
      BY <1>5, <1>9, <3>1, <3>2
  <2> QED
    BY <2>1 DEF ClientInv, EndingPart
<1>12. OutcomesPart'
  <2>1. IdsOf(k)' # {}
    BY <1>3, <1>5 DEF IdsOf
  <2>2. Len(requests'[k].outcomes) <= 1 + failures.left[k] /\ DOMAIN requests'[k].outcomes = {}
    BY <1>1, LeftType DEF Sendable
  <2> QED
    BY <1>7, <1>8, <2>1, <2>2 DEF ClientInv, OutcomesPart
<1>13. requestIdPool' \cap UsedIds' = {} /\ requestIdPool' \cup UsedIds' = pool \cup UsedIds
  BY <1>4, <1>6 DEF Sendable
<1> QED
  BY <1>3, <1>5, <1>10, <1>11, <1>12, <1>13 DEF Sent

LEMMA DoSendClient ==
  ASSUME TypeOK, ClientInv, NEW k, NEW pool, NEW history, Sendable(k, pool, history),
         NEW completes, DoSendRequest(k, pool, history, completes), UNCHANGED ending,
         failures'.left = failures.left
  PROVE  Sent(k, pool)
<1>1. pool \subseteq RequestIds
  BY DEF Sendable
<1> QED
  BY <1>1, SendCases, RefusedClient, SentClient

\* sendRequest on an open connection.
LEMMA SendClient ==
  ASSUME TypeOK, ClientInv, NEW keep \in KeepModes, SendRequest(keep),
         failures'.left = failures.left
  PROVE  ClientInv'
<1> DEFINE k == Len(requests) + 1
           new(handle) == [keep |-> keep, handle |-> handle, cancelled |-> "no",
                           sends |-> 0, outcomes |-> <<>>]
<1>1. \E handle \in {"none", "opening", "context"}, completes \in BOOLEAN :
        DoSendRequest(k, requestIdPool, Append(requests, new(handle)), completes)
  BY DEF SendRequest
<1>2. PICK handle \in {"none", "opening", "context"}, completes \in BOOLEAN :
        DoSendRequest(k, requestIdPool, Append(requests, new(handle)), completes)
  BY <1>1
<1> DEFINE history == Append(requests, new(handle))
<1>3. /\ history \in Seq(RequestHistory) /\ k \in DOMAIN history /\ k \notin DOMAIN requests
      /\ DOMAIN history = DOMAIN requests \cup {k} /\ history[k].outcomes = <<>>
      /\ \A j \in DOMAIN requests : history[j] = requests[j]
  BY NewRequest, ZenonT(60) DEF SendRequest
<1>4. DoSendRequest(k, requestIdPool, history, completes)
  BY <1>2
<1>5. k \in Requests
  BY BoundsAssumption DEF SendRequest, TypeOK, Requests
<1>6. \A id \in RequestIds : InUse(id) => responseMap[id].request # k
  BY <1>3 DEF ClientInv, ContextsPart
<1>7. cancelHandler.request # k
  BY DEF TypeOK
<1> HIDE DEF history, new, k
<1>8. /\ connectionState = "Connected" /\ connectionState' = "Connected"
      /\ UNCHANGED <<cfg, ending, cancelHandler, pendingRequest>>
  BY DEF SendRequest
<1>9. Sendable(k, requestIdPool, history)
  BY <1>3, <1>5, <1>6, <1>8 DEF Sendable, ClientInv, IdsPart, TypeOK
<1>10. Sent(k, requestIdPool)
  BY <1>4, <1>8, <1>9, DoSendClient
<1>11. requestIdPool \cup UsedIds = AllIds(cfg) /\ AllIds(cfg)' = AllIds(cfg)
  BY <1>8 DEF ClientInv, IdsPart, AllIds, generateRequestIds
<1>12. IdsPart' /\ OpensOnce'
  BY <1>8, <1>10, <1>11 DEF IdsPart, OpensOnce, Sent
<1>13. HandlePart'
  BY <1>7, <1>8, <1>10 DEF HandlePart, ClientInv, Sent, IdsOf
<1> QED
  BY <1>10, <1>12, <1>13 DEF ClientInv, Sent

\* The first record is the server's limits.
LEMMA ReceivedHead ==
  ASSUME TypeOK, NEW r, OnGetValuesResult(r) \/ OnInvalidGetValuesResult(r)
  PROVE  r \in ServerRecord /\ 1 \in DOMAIN incoming /\ IsResult(1)
<1>1. IsNext(r) /\ r.type = "GetValuesResult"
  BY DEF OnGetValuesResult, OnInvalidGetValuesResult, Receive, ReceiveAndThrow
<1>2. r \in ServerRecord /\ r = incoming[1] /\ Len(incoming) \in Nat \ {0}
  BY <1>1, HeadOfIncoming DEF IsNext
<1> QED
  BY <1>1, <1>2, LenProperties DEF IsResult, TypeOK

\* GetValuesResult: the request that waits is sent.
LEMMA ResultClient ==
  ASSUME TypeOK, ClientInv, AskedOnce, NEW r, OnGetValuesResult(r), failures'.left = failures.left
  PROVE  ClientInv'
<1> DEFINE k == pendingRequest
           pool == AllIds(LimitsOf(r))
<1>1. connectionState = "ConnectionInProgress" /\ r \in ServerRecord
  BY ReceivedHead DEF AskedOnce
<1>2. /\ k # 0 /\ requests[k].outcomes = <<>> /\ ending = <<>> /\ cancelHandler.does = Opening
      /\ \A id \in RequestIds : ~InUse(id)
  BY <1>1 DEF ClientInv, OpensOnce
<1>3. k \in DOMAIN requests /\ k \in Requests /\ requests \in Seq(RequestHistory)
  BY <1>2, BoundsAssumption DEF TypeOK, Requests
<1>4. LimitsOf(r) \in [maxRequestsNumber : Int, multiplexingEnabled : BOOLEAN]
  BY <1>1, ServerRecordFields DEF OnGetValuesResult, TypeOK, LimitsOf
<1>5. pool \subseteq RequestIds
  BY <1>4, AllIdsType
<1>6. /\ connectionState' = "Connected" /\ cfg' = LimitsOf(r) /\ UNCHANGED ending
      /\ \E completes : DoSendRequest(k, pool, requests, completes)
      /\ \/ RedirectHandle({id \in RequestIds : responseMap'[id] # NoContext})
         \/ UNCHANGED cancelHandler
  BY <1>2, ResultCases DEF OnGetValuesResult
<1>7. UsedIds = {}
  BY <1>2 DEF UsedIds
<1> HIDE DEF k, pool
<1>8. Sendable(k, pool, requests)
  BY <1>2, <1>3, <1>5, <1>7 DEF Sendable, k
<1>9. Sent(k, pool)
  BY <1>6, <1>8, DoSendClient
<1>10. AllIds(cfg)' = pool
  BY <1>6 DEF AllIds, generateRequestIds, pool
<1>11. OpensOnce' /\ IdsPart'
  BY <1>6, <1>7, <1>9, <1>10 DEF OpensOnce, IdsPart, Sent
<1>12. HandlePart'
  <2>1. CASE cancelHandler' = cancelHandler
    BY <1>2, <2>1 DEF HandlePart
  <2>2. CASE UsedIds' # {} /\ cancelHandler'.does = SmallestOf(UsedIds')
    <3>1. SmallestOf(UsedIds') \in UsedIds'
      BY <2>2, SmallestId DEF UsedIds
    <3>2. \A i, j \in UsedIds' : i = j
      BY <1>2, <1>9 DEF Sent, UsedIds
    <3> QED
      BY <2>2, <3>1, <3>2 DEF HandlePart, IdsOf, UsedIds
  <2>3. {id \in RequestIds : responseMap'[id] # NoContext} = UsedIds'
    BY DEF UsedIds, InUse
  <2>4. cancelHandler \in [request : 0..Len(requests), does : RequestIds \cup {Opening}]
    BY DEF TypeOK
  <2> QED
    BY <1>6, <2>1, <2>2, <2>3, <2>4 DEF RedirectHandle
<1> QED
  BY <1>9, <1>11, <1>12 DEF ClientInv, Sent

\* GetValuesResult that cannot be read: the request that waits is told.
LEMMA InvalidResultClient ==
  ASSUME TypeOK, ClientInv, AskedOnce, NEW r, OnInvalidGetValuesResult(r), failures'.left = failures.left
  PROVE  ClientInv'
<1> DEFINE k == pendingRequest
<1>1. connectionState = "ConnectionInProgress"
  BY ReceivedHead DEF AskedOnce
<1>2. /\ k # 0 /\ requests[k].outcomes = <<>> /\ ending = <<>> /\ cancelHandler.does = Opening
      /\ \A id \in RequestIds : ~InUse(id)
  BY <1>1 DEF ClientInv, OpensOnce
<1>3. k \in DOMAIN requests /\ requests \in Seq(RequestHistory)
  BY <1>2 DEF TypeOK
<1>4. /\ connectionState' = "NotConnected"
      /\ requests' = CallsHandler(requests, k, NoResponse("Failed", 0))
      /\ UNCHANGED <<responseMap, pendingRequest, cancelHandler, ending>>
  BY <1>2 DEF OnInvalidGetValuesResult, ConnectionFails
<1> HIDE DEF k
<1>5. /\ DOMAIN requests' = DOMAIN requests
      /\ Len(requests'[k].outcomes) <= 1 /\ requests'[k].outcomes # <<>>
      /\ \A i \in DOMAIN requests'[k].outcomes :
           requests'[k].outcomes[i] = NoResponse("Failed", 0)
      /\ \A j \in DOMAIN requests : j # k => requests'[j] = requests[j]
  BY <1>2, <1>3, <1>4, FirstCall, NoResponseType DEF k
<1>6. /\ \A id \in RequestIds : ~InUse(id)'
      /\ \A j : IdsOf(j)' = IdsOf(j)
  BY <1>2, <1>4 DEF InUse, IdsOf
<1>7. NoResponse("Failed", 0).status = "Failed"
  BY DEF NoResponse
<1>8. OutcomesPart'
  <2>1. Len(requests'[k].outcomes) <= 1 + failures.left[k]
    <3>1. failures.left[k] \in Nat /\ Len(requests'[k].outcomes) \in Nat
      <4>1. requests' \in Seq(RequestHistory)
        BY <1>3, <1>4, CallType, NoResponseType
      <4> QED
        BY <1>3, <1>5, <4>1, LeftType, HistoryFields, LenProperties
    <3> QED
      BY <1>5, <3>1
  <2> QED
    BY <1>5, <1>6, <1>7, <2>1 DEF ClientInv, OutcomesPart
<1>9. OpensOnce' /\ IdsPart' /\ ContextsPart' /\ EndingPart' /\ HandlePart'
  BY <1>2, <1>4, <1>6 DEF OpensOnce, IdsPart, ContextsPart, EndingPart, HandlePart
<1> QED
  BY <1>8, <1>9 DEF ClientInv

LEMMA PieceClient ==
  ASSUME TypeOK, ClientInv, NEW r, OnStdOut(r) \/ OnStdErr(r), failures'.left = failures.left
  PROVE  ClientInv'
<1> DEFINE context == responseMap[r.id]
           more == IF OnStdOut(r) THEN [context EXCEPT !.data = Append(@, r.piece)]
                   ELSE [context EXCEPT !.errorMsg = Append(@, r.piece)]
<1>1. r \in ServerRecord /\ r.id \in RequestIds /\ InUse(r.id) /\ r.piece \in Piece
  BY HeadOfIncoming, ServerRecordFields DEF OnStdOut, OnStdErr, Receive, IsNext, StreamTypes
<1>2. context \in ResponseContext /\ context.data \in Seq(Piece) /\ context.errorMsg \in Seq(Piece)
  BY <1>1, ContextFields
<1>3. Append(context.data, r.piece) \in Seq(Piece) /\ Append(context.errorMsg, r.piece) \in Seq(Piece)
  BY <1>1, <1>2, AppendProperties
<1>4. more \in ResponseContext /\ more.request = context.request
  BY <1>2, <1>3 DEF ResponseContext
<1>5. responseMap' = [responseMap EXCEPT ![r.id] = more]
  BY DEF OnStdOut, OnStdErr
<1> HIDE DEF more
<1>6. \A id \in RequestIds :
        /\ InUse(id)' <=> InUse(id)
        /\ InUse(id) => responseMap'[id].request = responseMap[id].request
  BY <1>1, <1>4, <1>5, NoContextAssumption DEF InUse, TypeOK
<1> QED
  BY <1>6, ClientKeepsIds DEF OnStdOut, OnStdErr

-----------------------------------------------------------------------------
(* doEndRequest and cancellation                                            *)

\* Only what the application did with its handles differs.
SameButCancelled(history) ==
  /\ history \in Seq(RequestHistory) /\ DOMAIN history = DOMAIN requests
  /\ \A j \in DOMAIN requests :
       /\ history[j].outcomes = requests[j].outcomes /\ history[j].sends = requests[j].sends
       /\ requests[j].cancelled # "no" => history[j].cancelled # "no"

\* doEndRequest calls the handler of an open request.
LEMMA BeginEndClient ==
  ASSUME TypeOK, ClientInv, NEW id \in RequestIds, InUse(id), ~IsEndingId(id),
         NEW status \in {"Successful", "Failed", "Cancelled"}, NEW answers \in Nat,
         NEW history, SameButCancelled(history),
         status = "Cancelled" => history[responseMap[id].request].cancelled # "no",
         NEW rest \in Nat, BeginEndRequest(id, status, answers, history, rest),
         UNCHANGED <<connectionState, cfg, requestIdPool, responseMap, pendingRequest, cancelHandler>>,
         failures'.left = failures.left
  PROVE  ClientInv'
<1> DEFINE context == responseMap[id]
           k == context.request
           outcome == IF status = "Successful"
                      THEN [status |-> status, answers |-> answers, data |-> context.data,
                            errorMsg |-> context.errorMsg]
                      ELSE NoResponse(status, answers)
           call == [id |-> id, status |-> status, context |-> context, rest |-> rest]
           n == Len(ending) + 1
<1>1. /\ k \in DOMAIN requests /\ Len(requests[k].outcomes) <= failures.left[k]
      /\ connectionState = "Connected"
  BY DEF ClientInv, ContextsPart, OpensOnce
<1>2. outcome \in Outcome /\ outcome.status = status
  BY ContextFields, NoResponseType DEF Outcome, NoResponse
<1>3. /\ requests' = CallsHandler(history, k, outcome) /\ ending' = Append(ending, call)
      /\ call.id = id /\ call.context.request = k
  BY DEF BeginEndRequest
<1> HIDE DEF outcome, call
<1>4. /\ DOMAIN requests' = DOMAIN requests
      /\ requests'[k].outcomes # <<>> /\ Len(requests'[k].outcomes) <= 1 + failures.left[k]
      /\ \A i \in DOMAIN requests'[k].outcomes :
           \/ requests'[k].outcomes[i] = outcome
           \/ /\ i \in DOMAIN requests[k].outcomes
              /\ requests'[k].outcomes[i] = requests[k].outcomes[i]
      /\ requests'[k].cancelled = history[k].cancelled
      /\ \A j \in DOMAIN requests : j # k => requests'[j] = history[j]
  <2> HIDE DEF k
  <2>1. history \in Seq(RequestHistory) /\ k \in DOMAIN history
        /\ history[k].outcomes = requests[k].outcomes /\ DOMAIN history = DOMAIN requests
    BY <1>1 DEF SameButCancelled
  <2>2. /\ DOMAIN requests' = DOMAIN requests
        /\ requests'[k].outcomes = Append(requests[k].outcomes, outcome)
        /\ requests'[k].cancelled = history[k].cancelled
        /\ \A j \in DOMAIN requests : j # k => requests'[j] = history[j]
    <3>1. requests' = CallsHandler(history, k, outcome)
      BY <1>3 DEF k
    <3> QED
      BY <2>1, <3>1, CallEffect
  <2>3. requests[k].outcomes \in Seq(Outcome) /\ Len(requests[k].outcomes) \in Nat
    BY <1>1, HistoryFields, LenProperties DEF TypeOK
  <2>4. /\ Len(requests'[k].outcomes) = Len(requests[k].outcomes) + 1
        /\ DOMAIN requests'[k].outcomes = 1..(Len(requests[k].outcomes) + 1)
        /\ requests'[k].outcomes[Len(requests[k].outcomes) + 1] = outcome
        /\ \A i \in 1..Len(requests[k].outcomes) :
             i \in DOMAIN requests[k].outcomes /\ requests'[k].outcomes[i] = requests[k].outcomes[i]
    BY <1>2, <2>2, <2>3, AppendProperties, LenProperties
  <2>5. requests'[k].outcomes # <<>>
    BY <2>3, <2>4
  <2>6. \A i \in 1..(Len(requests[k].outcomes) + 1) :
          i \in 1..Len(requests[k].outcomes) \/ i = Len(requests[k].outcomes) + 1
    BY <2>3
  <2>7. Len(requests[k].outcomes) + 1 <= 1 + failures.left[k]
    BY <1>1, <2>3, LeftType
  <2> QED
    BY <2>2, <2>4, <2>5, <2>6, <2>7
<1>5. /\ DOMAIN ending' = 1..n /\ DOMAIN ending = 1..(n - 1) /\ n \in Nat \ {0}
      /\ ending'[n] = call /\ \A i \in DOMAIN ending : ending'[i] = ending[i]
  <2> DEFINE Call == [id : RequestIds, status : {"Successful", "Failed", "Cancelled"},
                      context : ResponseContext, rest : Nat]
  <2>1. ending \in Seq(Call) /\ call \in Call
    BY ContextFields DEF TypeOK, call
  <2> HIDE DEF Call
  <2> QED
    BY <1>3, <2>1, AppendProperties, LenProperties
<1>6. \A i \in RequestIds : IsEndingId(i)' <=> (IsEndingId(i) \/ i = id)
  BY <1>3, <1>5 DEF IsEndingId
<1>7. /\ \A i : InUse(i)' <=> InUse(i)
      /\ UsedIds' = UsedIds /\ \A j : IdsOf(j)' = IdsOf(j)
  BY DEF UsedIds, InUse, IdsOf
<1>8. OpensOnce' /\ IdsPart' /\ HandlePart'
  BY <1>1, <1>7 DEF ClientInv, OpensOnce, IdsPart, HandlePart, AllIds, generateRequestIds
<1>9. ContextsPart'
  <2>1. ASSUME NEW i \in RequestIds, InUse(i), i # id
        PROVE  /\ responseMap[i].request \in DOMAIN requests
               /\ \/ Len(requests'[responseMap[i].request].outcomes) <=
                       failures.left[responseMap[i].request]
                  \/ IsEndingId(i)
    <3>1. responseMap[i].request \in DOMAIN requests /\ responseMap[i].request # k
      BY <2>1 DEF ClientInv, ContextsPart
    <3>2. requests'[responseMap[i].request].outcomes = requests[responseMap[i].request].outcomes
      BY <1>4, <3>1 DEF SameButCancelled
    <3> QED
      BY <2>1, <3>1, <3>2 DEF ClientInv, ContextsPart
  <2> QED
    BY <1>1, <1>4, <1>6, <1>7, <2>1 DEF ClientInv, ContextsPart
<1>10. EndingPart'
  <2>1. ASSUME NEW i \in DOMAIN ending
        PROVE  /\ InUse(ending[i].id) /\ ending[i].id # id
               /\ responseMap[ending[i].id].request = ending[i].context.request
               /\ requests'[ending[i].context.request].outcomes # <<>>
    <3>1. /\ InUse(ending[i].id) /\ ending[i].id \in RequestIds /\ ending[i].id # id
          /\ responseMap[ending[i].id].request = ending[i].context.request
          /\ requests[ending[i].context.request].outcomes # <<>>
      BY CallFields DEF ClientInv, EndingPart, IsEndingId
    <3>2. ending[i].context.request \in DOMAIN requests
      BY <3>1 DEF ClientInv, ContextsPart
    <3> QED
      BY <1>1, <1>4, <3>1, <3>2 DEF SameButCancelled
  <2>2. ASSUME NEW i \in DOMAIN ending, NEW j \in DOMAIN ending, ending[i].id = ending[j].id
        PROVE  i = j
    BY <2>2 DEF ClientInv, EndingPart
  <2>3. \A i \in 1..n : i \in DOMAIN ending \/ i = n
    BY <1>5
  <2>4. ASSUME NEW i \in DOMAIN ending', NEW c, c = ending'[i]
        PROVE  /\ InUse(c.id)
               /\ responseMap[c.id].request = c.context.request
               /\ requests'[c.context.request].outcomes # <<>>
    <3>1. CASE i \in DOMAIN ending
      BY <1>5, <2>1, <2>4, <3>1
    <3>2. CASE i = n
      BY <1>3, <1>4, <1>5, <2>4, <3>2
    <3> QED
      BY <1>5, <2>3, <3>1, <3>2
  <2>5. ASSUME NEW i \in DOMAIN ending', NEW j \in DOMAIN ending', ending'[i].id = ending'[j].id
        PROVE  i = j
    <3>1. CASE i \in DOMAIN ending /\ j \in DOMAIN ending
      BY <1>5, <2>2, <2>5, <3>1
    <3>2. CASE i = n /\ j = n
      BY <3>2
    <3>3. CASE i \in DOMAIN ending /\ j = n
      BY <1>3, <1>5, <2>1, <2>5, <3>3
    <3>4. CASE i = n /\ j \in DOMAIN ending
      BY <1>3, <1>5, <2>1, <2>5, <3>4
    <3> QED
      BY <1>5, <2>3, <3>1, <3>2, <3>3, <3>4
  <2> QED
    BY <1>7, <2>4, <2>5 DEF EndingPart
<1>11. OutcomesPart'
  <2>1. ASSUME NEW j \in DOMAIN requests, j # k
        PROVE  /\ requests'[j].outcomes = requests[j].outcomes
               /\ requests'[j].sends = requests[j].sends
               /\ requests[j].cancelled # "no" => requests'[j].cancelled # "no"
    BY <1>4, <2>1 DEF SameButCancelled
  <2>2. ASSUME NEW i \in DOMAIN requests'[k].outcomes,
               requests'[k].outcomes[i].status = "Cancelled"
        PROVE  requests'[k].cancelled # "no"
    <3>1. CASE requests'[k].outcomes[i] = outcome
      BY <1>2, <1>4, <2>2, <3>1
    <3>2. CASE i \in DOMAIN requests[k].outcomes
               /\ requests'[k].outcomes[i] = requests[k].outcomes[i]
      <4>1. requests[k].cancelled # "no"
        BY <1>1, <2>2, <3>2 DEF ClientInv, OutcomesPart
      <4> QED
        BY <1>1, <1>4, <4>1 DEF SameButCancelled
    <3> QED
      BY <1>4, <2>2, <3>1, <3>2
  <2> QED
    BY <1>4, <1>7, <2>1, <2>2 DEF ClientInv, OutcomesPart
<1> QED
  BY <1>8, <1>9, <1>10, <1>11 DEF ClientInv

LEMMA EndRequestClient ==
  ASSUME TypeOK, ClientInv, NEW r, OnEndRequest(r), failures'.left = failures.left
  PROVE  ClientInv'
<1>1. /\ r \in ServerRecord /\ r.id \in RequestIds /\ r.request \in Nat /\ InUse(r.id)
      /\ ending = <<>>
  BY HeadOfIncoming, ServerRecordFields, BoundsAssumption
     DEF OnEndRequest, Receive, IsNext, Receives, StreamTypes, Requests
<1>2. PICK status \in {"Successful", "Failed"}, rest \in Nat :
        BeginEndRequest(r.id, status, r.request, requests, rest)
  <2>1. Len(Tail(incoming)) \in Nat
    BY HeadOfIncoming DEF OnEndRequest, Receive, IsNext
  <2> QED
    BY <2>1 DEF OnEndRequest
<1>3. SameButCancelled(requests) /\ ~IsEndingId(r.id)
  BY <1>1 DEF SameButCancelled, TypeOK, IsEndingId
<1>4. status # "Cancelled" /\ status \in {"Successful", "Failed", "Cancelled"}
  OBVIOUS
<1>5. UNCHANGED <<connectionState, cfg, requestIdPool, responseMap, pendingRequest, cancelHandler>>
  BY DEF OnEndRequest
<1> QED
  BY <1>1, <1>2, <1>3, <1>4, <1>5, BeginEndClient

\* The call of doEndRequest that runs on is taken off the stack.
LEMMA FinishedCall ==
  ASSUME TypeOK, FinishEndRequest \/ LeaveEndRequest
  PROVE  \E n \in Nat \ {0}, id \in RequestIds :
           /\ n = Len(ending) /\ DOMAIN ending = 1..n /\ id = ending[n].id
           /\ DOMAIN ending' = 1..(n - 1) /\ \A i \in 1..(n - 1) : ending'[i] = ending[i]
<1> DEFINE n == Len(ending)
           Call == [id : RequestIds, status : {"Successful", "Failed", "Cancelled"},
                    context : ResponseContext, rest : Nat]
<1>1. ending \in Seq(Call) /\ ending # <<>> /\ ending' = SubSeq(ending, 1, n - 1)
  BY DEF TypeOK, FinishEndRequest, LeaveEndRequest
<1> HIDE DEF Call
<1>2. n \in Nat \ {0} /\ DOMAIN ending = 1..n /\ \A i \in 1..(n - 1) : ending[i] \in Call
  BY <1>1, EmptySeq, LenProperties, ElementOfSeq
<1>3. Len(ending') = n - 1 /\ DOMAIN ending' = 1..(n - 1)
      /\ \A i \in 1..(n - 1) : ending'[i] = ending[i]
  BY <1>1, <1>2, SubSeqProperties
<1>4. ending[n].id \in RequestIds
  BY <1>2, CallFields
<1> QED
  BY <1>2, <1>3, <1>4

\* The rest of doEndRequest.
LEMMA FinishClient ==
  ASSUME TypeOK, ClientInv, FinishEndRequest, failures'.left = failures.left
  PROVE  ClientInv'
<1>2. PICK n \in Nat \ {0}, id \in RequestIds :
        /\ n = Len(ending) /\ DOMAIN ending = 1..n /\ id = ending[n].id
        /\ DOMAIN ending' = 1..(n - 1) /\ \A i \in 1..(n - 1) : ending'[i] = ending[i]
  BY FinishedCall
<1>3. /\ InUse(id) /\ requests[responseMap[id].request].outcomes # <<>>
      /\ \A i \in 1..(n - 1) : ending[i].id # id
  BY <1>2 DEF ClientInv, EndingPart
<1>4. /\ responseMap' = [responseMap EXCEPT ![id] = NoContext]
      /\ requestIdPool' = requestIdPool \cup {id}
      /\ UNCHANGED <<connectionState, cfg, pendingRequest, cancelHandler, requests>>
  BY <1>2 DEF FinishEndRequest, EraseContext, Last
<1>5. connectionState = "Connected"
  BY <1>2, <1>3 DEF ClientInv, OpensOnce
<1>6. /\ ~InUse(id)'
      /\ \A i \in RequestIds : i # id => (InUse(i)' <=> InUse(i)) /\ responseMap'[i] = responseMap[i]
  BY <1>2, <1>4 DEF InUse, TypeOK
<1>7. \A i \in RequestIds : i # id => (IsEndingId(i)' <=> IsEndingId(i))
  <2>1. \A i \in 1..n : i \in 1..(n - 1) \/ i = n
    BY <1>2
  <2>2. \A i \in 1..(n - 1) : i \in 1..n
    BY <1>2
  <2> QED
    BY <1>2, <2>1, <2>2 DEF IsEndingId
<1>8. UsedIds' = UsedIds \ {id} /\ id \in UsedIds
  BY <1>2, <1>3, <1>6 DEF UsedIds
<1>9. OpensOnce' /\ IdsPart'
  BY <1>4, <1>5, <1>8 DEF ClientInv, OpensOnce, IdsPart, AllIds, generateRequestIds
<1>10. ContextsPart'
  BY <1>4, <1>6, <1>7 DEF ClientInv, ContextsPart
<1>11. EndingPart'
  <2>1. ASSUME NEW i \in 1..(n - 1)
        PROVE  /\ responseMap'[ending[i].id] # NoContext
               /\ responseMap'[ending[i].id].request = ending[i].context.request
               /\ requests[ending[i].context.request].outcomes # <<>>
               /\ \A j \in 1..(n - 1) : ending[i].id = ending[j].id => i = j
    <3>1. i \in DOMAIN ending /\ \A j \in 1..(n - 1) : j \in DOMAIN ending
      BY <1>2
    <3>2. ending[i].id \in RequestIds /\ ending[i].id # id
      BY <1>3, <3>1, CallFields
    <3> QED
      BY <1>6, <3>1, <3>2 DEF ClientInv, EndingPart, InUse
  <2> QED
    BY <1>2, <1>4, <2>1 DEF EndingPart, InUse
<1>12. HandlePart'
  BY <1>4, <1>6 DEF ClientInv, HandlePart, IdsOf
<1>13. OutcomesPart'
  <2>1. ASSUME NEW k \in DOMAIN requests, requests[k].outcomes = <<>>, IdsOf(k) # {}
        PROVE  IdsOf(k)' # {}
    BY <1>3, <1>6, <2>1 DEF IdsOf
  <2> QED
    BY <1>4, <2>1 DEF ClientInv, OutcomesPart
<1> QED
  BY <1>9, <1>10, <1>11, <1>12, <1>13 DEF ClientInv

\* An exception leaves doEndRequest: its request keeps the id.
LEMMA LeaveClient ==
  ASSUME TypeOK, ClientInv, LeaveEndRequest, [Next]_vars
  PROVE  ClientInv'
<1>1. PICK n \in Nat \ {0}, id \in RequestIds :
        /\ n = Len(ending) /\ DOMAIN ending = 1..n /\ id = ending[n].id
        /\ DOMAIN ending' = 1..(n - 1) /\ \A i \in 1..(n - 1) : ending'[i] = ending[i]
  BY FinishedCall
<1> DEFINE k == ending[n].context.request
<1>2. /\ InUse(id) /\ responseMap[id].request = k /\ k \in DOMAIN requests /\ k \in Requests
      /\ connectionState = "Connected"
  BY <1>1, CallFields DEF ClientInv, EndingPart, ContextsPart, OpensOnce
<1>3. /\ failures'.left = [failures.left EXCEPT ![k] = @ + 1]
      /\ UNCHANGED <<connectionState, cfg, requestIdPool, pendingRequest, cancelHandler, requests>>
  BY <1>1, FailureSteps DEF LeaveEndRequest, Last
<1> HIDE DEF k
<1>4. \A i \in RequestIds :
        /\ InUse(i)' <=> InUse(i)
        /\ InUse(i) => responseMap'[i].request = responseMap[i].request
  <2> DEFINE emptied == [responseMap[id] EXCEPT !.data = <<>>, !.errorMsg = <<>>]
  <2>1. responseMap' = responseMap \/ responseMap' = [responseMap EXCEPT ![id] = emptied]
    BY <1>1 DEF LeaveEndRequest, Last
  <2>2. emptied.request = responseMap[id].request /\ emptied # NoContext
    <3>1. responseMap[id] \in ResponseContext
      BY <1>2, ContextFields
    <3>2. emptied.request = responseMap[id].request
      BY <3>1 DEF ResponseContext
    <3>3. emptied \in ResponseContext
      <4>1. <<>> \in Seq(Piece)
        OBVIOUS
      <4> DEFINE Lists == Seq(Piece)
      <4>2. ResponseContext = [request : Requests, keepConnection : BOOLEAN, data : Lists,
                               errorMsg : Lists]
        BY DEF ResponseContext
      <4>3. <<>> \in Lists
        BY <4>1
      <4> HIDE DEF Lists
      <4> QED
        BY <3>1, <4>2, <4>3
    <3> HIDE DEF emptied
    <3> QED
      BY <3>2, <3>3, NoContextAssumption
  <2> HIDE DEF emptied
  <2> QED
    BY <1>2, <2>1, <2>2 DEF InUse, TypeOK
<1>5. UsedIds' = UsedIds /\ \A j : IdsOf(j)' = IdsOf(j)
  BY <1>4 DEF UsedIds, IdsOf
<1>6. OpensOnce' /\ IdsPart' /\ HandlePart'
  BY <1>2, <1>3, <1>5 DEF ClientInv, OpensOnce, IdsPart, HandlePart, AllIds, generateRequestIds
<1>7. /\ \A j \in Requests : failures.left[j] \in Nat /\ failures'.left[j] \in Nat
      /\ \A j \in Requests : failures.left[j] <= failures'.left[j]
      /\ failures'.left[k] = failures.left[k] + 1
  <2>1. failures.left \in [Requests -> Nat]
    BY DEF TypeOK
  <2> QED
    BY <1>2, <1>3, <2>1
<1>8. \A j \in DOMAIN requests : j \in Requests /\ Len(requests[j].outcomes) \in Nat
  BY LeftType
<1>9. \A i \in RequestIds : i # id => (IsEndingId(i)' <=> IsEndingId(i))
  <2>1. \A i \in 1..n : i \in 1..(n - 1) \/ i = n
    BY <1>1
  <2>2. \A i \in 1..(n - 1) : i \in 1..n
    BY <1>1
  <2> QED
    BY <1>1, <2>1, <2>2 DEF IsEndingId
<1>10. \A j \in DOMAIN requests : Len(requests[j].outcomes) <= 1 + failures.left[j]
  BY DEF ClientInv, OutcomesPart
<1>11. ContextsPart'
  <2>1. ASSUME NEW i \in RequestIds, InUse(i)
        PROVE  \/ Len(requests[responseMap[i].request].outcomes) <=
                    failures'.left[responseMap[i].request]
               \/ IsEndingId(i)'
    <3> DEFINE j == responseMap[i].request
    <3>1. j \in DOMAIN requests /\ (Len(requests[j].outcomes) <= failures.left[j] \/ IsEndingId(i))
      BY <2>1 DEF ClientInv, ContextsPart
    <3>2. CASE i = id
      <4>1. j = k
        BY <1>2, <3>2
      <4> HIDE DEF j
      <4>2. Len(requests[k].outcomes) <= failures'.left[k]
        BY <1>2, <1>7, <1>8, <1>10
      <4> QED
        BY <4>1, <4>2 DEF j
    <3>3. CASE i # id
      <4>1. IsEndingId(i)' <=> IsEndingId(i)
        BY <1>9, <3>3
      <4> HIDE DEF j
      <4>2. Len(requests[j].outcomes) <= failures.left[j] => Len(requests[j].outcomes) <= failures'.left[j]
        BY <1>7, <1>8, <3>1
      <4> QED
        BY <3>1, <4>1, <4>2 DEF j
    <3> QED
      BY <3>2, <3>3
  <2> QED
    BY <1>3, <1>4, <2>1 DEF ClientInv, ContextsPart
<1>12. EndingPart'
  <2>1. ASSUME NEW i \in 1..(n - 1)
        PROVE  /\ responseMap'[ending[i].id] # NoContext
               /\ responseMap'[ending[i].id].request = ending[i].context.request
               /\ requests[ending[i].context.request].outcomes # <<>>
               /\ \A j \in 1..(n - 1) : ending[i].id = ending[j].id => i = j
    <3>1. i \in DOMAIN ending /\ \A j \in 1..(n - 1) : j \in DOMAIN ending
      BY <1>1
    <3>2. ending[i].id \in RequestIds
      BY <3>1, CallFields
    <3>3. /\ InUse(ending[i].id) /\ responseMap[ending[i].id].request = ending[i].context.request
          /\ requests[ending[i].context.request].outcomes # <<>>
          /\ \A j \in 1..(n - 1) : ending[i].id = ending[j].id => i = j
      BY <3>1 DEF ClientInv, EndingPart
    <3> QED
      BY <1>4, <3>2, <3>3 DEF InUse
  <2> QED
    BY <1>1, <1>3, <2>1 DEF EndingPart, InUse
<1>13. OutcomesPart'
  <2>1. \A j \in DOMAIN requests : Len(requests[j].outcomes) <= 1 + failures'.left[j]
    BY <1>7, <1>8, <1>10
  <2> QED
    BY <1>3, <1>5, <2>1 DEF ClientInv, OutcomesPart
<1> QED
  BY <1>6, <1>11, <1>12, <1>13 DEF ClientInv

\* A handle that leads nowhere.
LEMMA SameClient ==
  ASSUME TypeOK, ClientInv, NEW history, SameButCancelled(history), requests' = history,
         UNCHANGED <<connectionState, cfg, requestIdPool, responseMap, pendingRequest,
                     cancelHandler, ending>>,
         failures'.left = failures.left
  PROVE  ClientInv'
<1>1. /\ \A i : (InUse(i)' <=> InUse(i)) /\ (IsEndingId(i)' <=> IsEndingId(i))
      /\ UsedIds' = UsedIds /\ \A j : IdsOf(j)' = IdsOf(j)
  BY DEF UsedIds, InUse, IdsOf, IsEndingId
<1>2. /\ DOMAIN requests' = DOMAIN requests
      /\ \A j \in DOMAIN requests :
           /\ requests'[j].outcomes = requests[j].outcomes /\ requests'[j].sends = requests[j].sends
           /\ requests[j].cancelled # "no" => requests'[j].cancelled # "no"
  BY DEF SameButCancelled
<1>3. connectionState = "ConnectionInProgress" => pendingRequest \in DOMAIN requests
  BY DEF ClientInv, OpensOnce, TypeOK
<1>4. OpensOnce' /\ IdsPart' /\ HandlePart'
  BY <1>1, <1>2, <1>3 DEF ClientInv, OpensOnce, IdsPart, HandlePart, AllIds, generateRequestIds
<1>5. ContextsPart' /\ OutcomesPart'
  BY <1>1, <1>2 DEF ClientInv, ContextsPart, OutcomesPart
<1>6. EndingPart'
  <2>1. \A i \in DOMAIN ending :
          InUse(ending[i].id) => ending[i].id \in RequestIds
            /\ responseMap[ending[i].id].request \in DOMAIN requests
    BY CallFields DEF ClientInv, ContextsPart
  <2> QED
    BY <1>1, <1>2, <2>1 DEF ClientInv, EndingPart
<1> QED
  BY <1>4, <1>5, <1>6 DEF ClientInv

\* RequestHandle::cancelRequest, before the connection is open (~Orderly), for a
\* request that has ended (~Orderly), from inside its handler (not done), or for
\* an open request: its handle leads to the id that stands for it.
LEMMA CancelClient ==
  ASSUME TypeOK, ClientInv, "ending" \notin Cancels, NEW k \in DOMAIN requests,
         CancelRequest(k), Orderly', failures'.left = failures.left
  PROVE  ClientInv' /\ UNCHANGED connectionState
<1> DEFINE history == [requests EXCEPT ![k].cancelled = Phase(k)]
<1>1. /\ history \in Seq(RequestHistory) /\ DOMAIN history = DOMAIN requests
      /\ history[k] = [requests[k] EXCEPT !.cancelled = Phase(k)]
      /\ \A j \in DOMAIN requests : j # k => history[j] = requests[j]
  BY CancelledHistory
<1>2. requests[k] \in RequestHistory
  BY HistoryFields DEF TypeOK
<1>3. /\ history[k].outcomes = requests[k].outcomes /\ history[k].sends = requests[k].sends
      /\ history[k].cancelled = Phase(k) /\ Phase(k) # "no"
  BY <1>1, <1>2 DEF RequestHistory, Phase
<1> HIDE DEF history
<1>4. SameButCancelled(history)
  BY <1>1, <1>3 DEF SameButCancelled
<1>5. \/ requests' = history /\ UNCHANGED ending
      \/ requests' = CallsHandler(history, k, NoResponse("Cancelled", 0))
      \/ \E id \in CancelTargets(k) \ {Opening} :
           InUse(id) /\ BeginEndRequest(id, "Cancelled", 0, history, 0)
  BY DEF CancelRequest, history
<1>6. \A id \in CancelTargets(k) \ {Opening} : id \in RequestIds
  BY TargetsType
<1>7. k \in DOMAIN requests' /\ requests'[k].cancelled = Phase(k)
  <2>1. ASSUME NEW j \in DOMAIN history, NEW outcome, requests' = CallsHandler(history, j, outcome)
        PROVE  k \in DOMAIN requests' /\ requests'[k].cancelled = Phase(k)
    <3>1. /\ DOMAIN requests' = DOMAIN history /\ requests'[j].cancelled = history[j].cancelled
          /\ \A i \in DOMAIN history : i # j => requests'[i] = history[i]
      BY <1>1, <2>1, CallEffect
    <3> QED
      BY <1>1, <1>3, <3>1
  <2>2. ASSUME NEW id \in RequestIds, InUse(id), BeginEndRequest(id, "Cancelled", 0, history, 0)
        PROVE  k \in DOMAIN requests' /\ requests'[k].cancelled = Phase(k)
    <3>1. responseMap[id].request \in DOMAIN history
      BY <1>1, <2>2 DEF ClientInv, ContextsPart
    <3>2. requests' = CallsHandler(history, responseMap[id].request, NoResponse("Cancelled", 0))
      BY <2>2 DEF BeginEndRequest
    <3> QED
      BY <2>1, <3>1, <3>2
  <2>3. CASE requests' = history
    BY <1>1, <1>3, <2>3
  <2>4. CASE requests' = CallsHandler(history, k, NoResponse("Cancelled", 0))
    BY <1>1, <2>1, <2>4
  <2> QED
    BY <1>5, <1>6, <2>2, <2>3, <2>4
<1>8. Phase(k) = "open"
  <2>1. Phase(k) \in {"opening", "open", "finished"}
    BY DEF CancelRequest, Phase
  <2> QED
    BY <1>7, <2>1 DEF Orderly, CancelledIn
<1>9. /\ ~IsEnding(k) /\ Opening \notin CancelTargets(k)
      /\ IdsOf(k) # {} \/ connectionState = "ConnectionInProgress"
  BY <1>8 DEF Phase
<1>10. /\ UNCHANGED <<connectionState, cfg, requestIdPool, responseMap, pendingRequest, cancelHandler>>
       /\ \/ requests' = history /\ UNCHANGED ending
          \/ \E id \in CancelTargets(k) \ {Opening} :
               InUse(id) /\ BeginEndRequest(id, "Cancelled", 0, history, 0)
  BY <1>9 DEF CancelRequest, history
<1>11. CASE requests' = history /\ UNCHANGED ending
  BY <1>4, <1>10, <1>11, SameClient
<1>12. ASSUME NEW id \in CancelTargets(k) \ {Opening}, InUse(id),
              BeginEndRequest(id, "Cancelled", 0, history, 0)
       PROVE  ClientInv'
  <2>1. id \in RequestIds /\ IdsOf(k) # {}
    BY <1>6, <1>9, <1>12 DEF ClientInv, OpensOnce
  <2>2. responseMap[id].request = k
    <3>1. PICK i \in RequestIds : InUse(i) /\ responseMap[i].request = k
      BY <2>1 DEF IdsOf
    <3>2. CASE requests[k].handle = "context"
      BY <1>12, <3>2 DEF CancelTargets, IdsOf
    <3>3. CASE requests[k].handle # "context"
      <4>1. cancelHandler.request = k /\ cancelHandler.does = id
        BY <1>12, <3>3 DEF CancelTargets
      <4>2. k # 0 /\ cancelHandler.does # Opening
        BY <1>12, <4>1 DEF TypeOK
      <4>3. i = id
        BY <3>1, <4>1, <4>2 DEF ClientInv, HandlePart, IdsOf
      <4> QED
        BY <3>1, <4>3
    <3> QED
      BY <3>2, <3>3
  <2>3. ~IsEndingId(id)
    BY <1>9, <2>2 DEF IsEndingId, IsEnding, ClientInv, EndingPart
  <2>4. history[responseMap[id].request].cancelled # "no"
    BY <1>3, <2>2
  <2> QED
    BY <1>4, <1>10, <1>12, <2>1, <2>3, <2>4, BeginEndClient
<1> QED
  BY <1>10, <1>11, <1>12

-----------------------------------------------------------------------------
(* GetValues, and the invariant as a whole                                  *)

\* Requests stay in the history, and all but those of `now' as they are: cancelled
\* before, or not cancelled.
Remembers(history, now) ==
  /\ history \in Seq(RequestHistory) /\ DOMAIN requests \subseteq DOMAIN history
  /\ \A k \in DOMAIN requests :
       \/ history[k].cancelled = requests[k].cancelled
       \/ k \in now /\ requests[k].cancelled = "no"
  /\ \A k \in DOMAIN history : k \in DOMAIN requests \/ history[k].cancelled = "no"

LEMMA CallRemembers ==
  ASSUME NEW history, NEW now, Remembers(history, now), NEW k, NEW outcome \in Outcome
  PROVE  Remembers(CallsHandler(history, k, outcome), now)
<1> DEFINE called == CallsHandler(history, k, outcome)
<1>1. called \in Seq(RequestHistory) /\ DOMAIN called = DOMAIN history
  BY CallType DEF Remembers
<1>2. ASSUME NEW j \in DOMAIN history PROVE called[j].cancelled = history[j].cancelled
  <2>1. CASE k \in DOMAIN history
    BY <2>1, <1>2, CallEffect DEF Remembers
  <2>2. CASE k \notin DOMAIN history
    <3>1. j # k
      BY <2>2
    <3> QED
      BY <3>1 DEF CallsHandler
  <2> QED
    BY <2>1, <2>2
<1> HIDE DEF called
<1>3. Remembers(called, now)
  BY <1>1, <1>2 DEF Remembers
<1> QED
  BY <1>3 DEF called

LEMMA SendRemembers ==
  ASSUME NEW history, NEW now, Remembers(history, now), NEW k \in DOMAIN history,
         NEW pool, pool \subseteq RequestIds, NEW completes,
         DoSendRequest(k, pool, history, completes)
  PROVE  Remembers(requests', now)
<1>1. CASE Refuses(k, pool, history)
  <2>1. requests' = CallsHandler(history, k, NoResponse("Failed", 0))
    BY <1>1 DEF Refuses
  <2>2. NoResponse("Failed", 0) \in Outcome
    BY NoResponseType
  <2> QED
    BY <2>1, <2>2, CallRemembers
<1>2. ASSUME NEW id \in pool, SendsUnder(id, k, pool, history)
      PROVE  Remembers(requests', now)
  <2>1. requests' = [history EXCEPT ![k].sends = @ + 1] /\ history \in Seq(RequestHistory)
    BY <1>2 DEF SendsUnder, Remembers
  <2>2. requests' \in Seq(RequestHistory) /\ DOMAIN requests' = DOMAIN history
    BY <2>1, SendsType
  <2>3. \A j \in DOMAIN history : requests'[j].cancelled = history[j].cancelled
    BY <2>1, SendEffect
  <2> QED
    BY <2>2, <2>3 DEF Remembers
<1> QED
  BY <1>1, <1>2, SendCases

LEMMA NewRemembers ==
  ASSUME TypeOK, Len(requests) < MaxRequests, NEW keep \in KeepModes,
         NEW handle \in {"none", "opening", "context"}, NEW history,
         history = Append(requests, [keep |-> keep, handle |-> handle, cancelled |-> "no",
                                     sends |-> 0, outcomes |-> <<>>])
  PROVE  Remembers(history, {}) /\ Len(requests) + 1 \in DOMAIN history
<1> DEFINE request == [keep |-> keep, handle |-> handle, cancelled |-> "no",
                       sends |-> 0, outcomes |-> <<>>]
<1>1. history[Len(requests) + 1] = request /\ request.cancelled = "no"
  BY NewRequestType
<1>2. /\ history \in Seq(RequestHistory) /\ Len(requests) + 1 \in DOMAIN history
      /\ DOMAIN history = DOMAIN requests \cup {Len(requests) + 1}
      /\ \A k \in DOMAIN requests : history[k] = requests[k]
  BY NewRequest, ZenonT(60)
<1> HIDE DEF request
<1> QED
  BY <1>1, <1>2 DEF Remembers

LEMMA NextRemembers ==
  ASSUME TypeOK, [Next]_vars
  PROVE  \/ Remembers(requests', {})
         \/ \E k \in DOMAIN requests : CancelRequest(k) /\ Remembers(requests', {k})
<1>0. Remembers(requests, {})
  BY DEF Remembers, TypeOK
<1>1. CASE requests' = requests
  BY <1>0, <1>1
<1>2. ASSUME NEW keep \in KeepModes, OpenConnection(keep) \/ RejectRequest(keep)
      PROVE  Remembers(requests', {})
  <2>1. \E handle \in {"none", "opening", "context"} :
          requests' = Append(requests, [keep |-> keep, handle |-> handle, cancelled |-> "no",
                                        sends |-> 0, outcomes |-> <<>>])
    BY <1>2 DEF OpenConnection, RejectRequest
  <2>2. Len(requests) < MaxRequests
    BY <1>2 DEF OpenConnection, RejectRequest
  <2> QED
    BY <2>1, <2>2, NewRemembers
<1>3. ASSUME NEW keep \in KeepModes, SendRequest(keep)
      PROVE  Remembers(requests', {})
  <2> DEFINE k == Len(requests) + 1
             new(handle) == [keep |-> keep, handle |-> handle, cancelled |-> "no",
                             sends |-> 0, outcomes |-> <<>>]
  <2>1. \E handle \in {"none", "opening", "context"}, completes \in BOOLEAN :
          DoSendRequest(k, requestIdPool, Append(requests, new(handle)), completes)
    BY <1>3 DEF SendRequest
  <2>2. PICK handle \in {"none", "opening", "context"}, completes \in BOOLEAN :
          DoSendRequest(k, requestIdPool, Append(requests, new(handle)), completes)
    BY <2>1
  <2> DEFINE history == Append(requests, new(handle))
  <2>3. Remembers(history, {}) /\ k \in DOMAIN history
    BY <1>3, NewRemembers DEF SendRequest
  <2>4. DoSendRequest(k, requestIdPool, history, completes) /\ requestIdPool \subseteq RequestIds
    BY <2>2 DEF TypeOK
  <2> HIDE DEF history, k
  <2> QED
    BY <2>3, <2>4, SendRemembers
<1>4. ASSUME NEW k \in DOMAIN requests, CancelRequest(k)
      PROVE  Remembers(requests', {k})
  <2> DEFINE history == [requests EXCEPT ![k].cancelled = Phase(k)]
  <2>1. /\ history \in Seq(RequestHistory) /\ DOMAIN history = DOMAIN requests
        /\ \A j \in DOMAIN requests : j # k => history[j] = requests[j]
    BY CancelledHistory
  <2>2. requests[k].cancelled = "no"
    BY <1>4 DEF CancelRequest
  <2>3. Remembers(history, {k})
    BY <2>1, <2>2 DEF Remembers
  <2>4. requests' = history \/ \E j : requests' = CallsHandler(history, j, NoResponse("Cancelled", 0))
    BY <1>4 DEF CancelRequest, BeginEndRequest
  <2> HIDE DEF history
  <2> QED
    BY <2>3, <2>4, CallRemembers, NoResponseType
<1>5. ASSUME NEW r, OnInvalidGetValuesResult(r) PROVE Remembers(requests', {})
  BY <1>0, <1>5, CallRemembers, NoResponseType DEF OnInvalidGetValuesResult, ConnectionFails
<1>6. ASSUME NEW r, OnGetValuesResult(r) PROVE Remembers(requests', {})
  <2>1. r \in ServerRecord
    BY <1>6, HeadOfIncoming DEF OnGetValuesResult, Receive, ReceiveAndThrow, IsNext
  <2>2. LimitsOf(r) \in [maxRequestsNumber : Int, multiplexingEnabled : BOOLEAN]
    BY <1>6, <2>1, ServerRecordFields DEF OnGetValuesResult, TypeOK, LimitsOf
  <2>3. AllIds(LimitsOf(r)) \subseteq RequestIds
    BY <2>2, AllIdsType
  <2>4. pendingRequest # 0 => pendingRequest \in DOMAIN requests
    BY DEF TypeOK
  <2> QED
    BY <1>0, <1>1, <1>6, <2>3, <2>4, ResultCases, SendRemembers
<1>7. ASSUME NEW r, OnEndRequest(r) PROVE Remembers(requests', {})
  <2>1. /\ r \in ServerRecord /\ r.id \in RequestIds /\ r.request \in Nat /\ InUse(r.id)
    BY <1>7, HeadOfIncoming, ServerRecordFields, BoundsAssumption
       DEF OnEndRequest, Receive, IsNext, StreamTypes, Requests
  <2>2. PICK status \in {"Successful", "Failed"} : \E rest :
          BeginEndRequest(r.id, status, r.request, requests, rest)
    BY <1>7 DEF OnEndRequest
  <2> DEFINE context == responseMap[r.id]
             outcome == IF status = "Successful"
                        THEN [status |-> status, answers |-> r.request, data |-> context.data,
                              errorMsg |-> context.errorMsg]
                        ELSE NoResponse(status, r.request)
  <2>3. outcome \in Outcome
    BY <2>1, ContextFields, NoResponseType DEF Outcome
  <2>4. requests' = CallsHandler(requests, context.request, outcome)
    BY <2>2 DEF BeginEndRequest
  <2> HIDE DEF outcome, context
  <2> QED
    BY <1>0, <2>3, <2>4, CallRemembers
<1>8. CASE OnRecordRead
  BY <1>1, <1>5, <1>6, <1>7, <1>8
     DEF OnRecordRead, OnUnexpectedRecord, OnStdOut, OnStdErr, OnUnknownType, requesterVars
<1>9. CASE FinishEndRequest \/ LeaveEndRequest \/ ServerStep \/ UNCHANGED vars
  BY <1>1, <1>9 DEF FinishEndRequest, LeaveEndRequest, ServerStep, AnswerGetValues, EndServing, SendUnknownType,
                    SendPiece, vars, requesterVars
<1> QED
  BY <1>2, <1>3, <1>4, <1>8, <1>9 DEF Next, ApplicationStep

\* What was not in order stays so: nothing makes up for it.
LEMMA OrderlyBefore ==
  ASSUME TypeOK, [Next]_vars, Orderly'
  PROVE  Orderly /\ failures'.unasked = failures.unasked
<1>1. failures \in FailureRecord
  BY DEF TypeOK, FailureRecord
<1>2. failures.unasked \in Nat /\ failures'.unasked = 0
  BY <1>1 DEF Orderly, FailureRecord
<1>3. failures'.unasked = failures.unasked \/ failures'.unasked = failures.unasked + 1
  BY FailureSteps
<1>4. failures'.unasked = failures.unasked /\ failures.unasked = 0
  BY <1>2, <1>3
<1>5. \A phase \in {"opening", "finished"} : CancelledIn(phase)' = {} => CancelledIn(phase) = {}
  BY NextRemembers DEF Remembers, CancelledIn
<1> QED
  BY <1>4, <1>5 DEF Orderly

\* Only the server's limits make a GetValuesResult, and it is asked for them once.
LEMMA NextAsked ==
  ASSUME TypeOK, ClientInv, AskedOnce, "ending" \notin Cancels, [Next]_vars, Orderly'
  PROVE  AskedOnce'
<1> DEFINE owed == getValuesOwed
<1>0. owed \in Nat /\ incoming \in Seq(ServerRecord)
  BY DEF TypeOK
<1>1. CASE UNCHANGED <<getValuesOwed, connectionState, incoming>>
  BY <1>1 DEF AskedOnce, IsResult
<1>2. ASSUME NEW n \in Nat, getValuesOwed' = getValuesOwed,
             \A i \in DOMAIN incoming' : i + n \in DOMAIN incoming /\ incoming'[i] = incoming[i + n],
             incoming' \in Seq(ServerRecord),
             \/ connectionState' = connectionState
             \/ n > 0 /\ 1 \in DOMAIN incoming /\ IsResult(1)
      PROVE  AskedOnce'
  <2>1. DOMAIN incoming' \subseteq Nat \ {0}
    BY <1>2, LenProperties
  <2>2. \A i \in DOMAIN incoming' : i + n \in DOMAIN incoming /\ (IsResult(i)' <=> IsResult(i + n))
    BY <1>2 DEF IsResult
  <2>3. CASE n > 0 /\ 1 \in DOMAIN incoming /\ IsResult(1)
    <3>1. \A i \in DOMAIN incoming' : i + n # 1
      BY <2>1, <2>3
    <3>2. \A i \in DOMAIN incoming' : ~IsResult(i)'
      BY <2>2, <2>3, <3>1 DEF AskedOnce
    <3> QED
      BY <1>0, <1>2, <2>3, <3>2 DEF AskedOnce
  <2>4. CASE connectionState' = connectionState
    <3>1. \A i, j \in DOMAIN incoming' : i + n = j + n => i = j
      BY <2>1
    <3> QED
      BY <1>2, <2>2, <2>4, <3>1 DEF AskedOnce
  <2> QED
    BY <1>2, <2>3, <2>4
<1>3. ASSUME NEW queue \in Seq(ServerRecord), NEW r,
             queue = incoming \/ (incoming # <<>> /\ queue = Tail(incoming)),
             incoming' = Append(queue, r), r.type # "GetValuesResult",
             UNCHANGED <<getValuesOwed, connectionState>>
      PROVE  AskedOnce'
  <2>1. /\ Len(queue) \in Nat /\ DOMAIN queue = 1..Len(queue)
        /\ DOMAIN incoming' = 1..(Len(queue) + 1) /\ incoming'[Len(queue) + 1] = r
        /\ \A i \in 1..Len(queue) : incoming'[i] = queue[i]
    BY <1>3, AppendProperties, LenProperties
  <2>2. \E d \in {0, 1} : \A i \in 1..Len(queue) :
          i + d \in DOMAIN incoming /\ queue[i] = incoming[i + d]
    <3>1. CASE queue = incoming
      <4>1. \A i \in 1..Len(queue) : i + 0 \in DOMAIN incoming /\ queue[i] = incoming[i + 0]
        BY <2>1, <3>1
      <4> QED
        BY <4>1
    <3>2. CASE incoming # <<>> /\ queue = Tail(incoming)
      <4>1. \A i \in 1..Len(queue) : i + 1 \in DOMAIN incoming /\ queue[i] = incoming[i + 1]
        BY <3>2, HeadOfIncoming
      <4> QED
        BY <4>1
    <3> QED
      BY <1>3, <3>1, <3>2
  <2>3. PICK d \in {0, 1} : \A i \in 1..Len(queue) :
          i + d \in DOMAIN incoming /\ queue[i] = incoming[i + d]
    BY <2>2
  <2>4. \A i \in DOMAIN incoming' : IsResult(i)' => i \in 1..Len(queue) /\ IsResult(i + d)
    <3>1. ASSUME NEW i \in DOMAIN incoming', IsResult(i)'
          PROVE  i \in 1..Len(queue) /\ IsResult(i + d)
      <4>1. i # Len(queue) + 1
        BY <1>3, <2>1, <3>1 DEF IsResult
      <4>2. i \in 1..Len(queue)
        BY <2>1, <4>1
      <4> QED
        BY <2>1, <2>3, <3>1, <4>2 DEF IsResult
    <3> QED
      BY <3>1
  <2>5. \A i, j \in 1..Len(queue) : i + d = j + d => i = j
    BY <2>1
  <2> QED
    BY <1>3, <2>3, <2>4, <2>5 DEF AskedOnce
<1>4. ASSUME NEW keep \in KeepModes, OpenConnection(keep)
      PROVE  AskedOnce'
  <2>1. /\ connectionState = "NotConnected" /\ connectionState' = "ConnectionInProgress"
        /\ incoming' = incoming /\ (getValuesOwed' = owed \/ getValuesOwed' = owed + 1)
    BY <1>4 DEF OpenConnection
  <2>2. owed = 0 /\ \A i \in DOMAIN incoming : ~IsResult(i)
    BY <1>0, <2>1 DEF AskedOnce
  <2> QED
    BY <2>1, <2>2 DEF AskedOnce, IsResult
<1>5. CASE AnswerGetValues
  <2>1. PICK r : incoming' = Append(incoming, r)
    BY <1>5 DEF AnswerGetValues, ServerSends
  <2>2. failures'.unasked = failures.unasked /\ failures \in FailureRecord
    BY OrderlyBefore DEF TypeOK, FailureRecord
  <2>3. owed > 0 /\ getValuesOwed' = owed - 1 /\ connectionState' = connectionState
    BY <1>5, <2>2 DEF AnswerGetValues, FailureRecord, requesterVars
  <2>4. /\ Len(incoming) \in Nat /\ DOMAIN incoming = 1..Len(incoming)
        /\ DOMAIN incoming' = 1..(Len(incoming) + 1)
        /\ \A i \in 1..Len(incoming) : incoming'[i] = incoming[i]
    BY <1>0, <2>1, AppendProperties, LenProperties
  <2>5. owed = 1 /\ connectionState = "ConnectionInProgress"
        /\ \A i \in DOMAIN incoming : ~IsResult(i)
    BY <2>3 DEF AskedOnce
  <2>6. \A i \in DOMAIN incoming' : IsResult(i)' => i = Len(incoming) + 1
    BY <2>4, <2>5 DEF IsResult
  <2> QED
    BY <2>3, <2>5, <2>6 DEF AskedOnce
<1>6. CASE OnRecordRead
  <2>1. PICK r : /\ incoming # <<>> /\ r = Head(incoming)
                 /\ \/ OnInvalidGetValuesResult(r)
                    \/ OnGetValuesResult(r)
                    \/ OnUnexpectedRecord(r)
                    \/ OnStdOut(r)
                    \/ OnStdErr(r)
                    \/ OnEndRequest(r)
                    \/ OnUnknownType(r)
    BY <1>6 DEF OnRecordRead
  <2>2. failures \in FailureRecord /\ OneMoreException \in FailureRecord
    BY FailureTypes DEF TypeOK, FailureRecord, OneMoreException
  <2>3. CASE Receive(r) \/ ReceiveAndThrow(r, failures) \/ ReceiveAndThrow(r, OneMoreException)
    <3>1. /\ r = incoming[1] /\ Len(incoming) > 0 /\ incoming' \in Seq(ServerRecord)
          /\ \E n \in 1..Len(incoming) : \A i \in DOMAIN incoming' :
               i + n \in DOMAIN incoming /\ incoming'[i] = incoming[i + n]
      BY <2>2, <2>3, ReceivedType
    <3>2. PICK n \in 1..Len(incoming) : \A i \in DOMAIN incoming' :
            i + n \in DOMAIN incoming /\ incoming'[i] = incoming[i + n]
      BY <3>1
    <3>3. n \in Nat /\ n > 0 /\ 1 \in DOMAIN incoming
      BY <1>0, <3>1, <3>2
    <3>4. r.type = "GetValuesResult" \/ connectionState' = connectionState
      BY <2>1 DEF OnInvalidGetValuesResult, OnGetValuesResult, OnUnexpectedRecord, OnStdOut,
                  OnStdErr, OnEndRequest, OnUnknownType, requesterVars
    <3>5. getValuesOwed' = getValuesOwed
      BY <2>1 DEF OnInvalidGetValuesResult, OnGetValuesResult, OnUnexpectedRecord, OnStdOut,
                  OnStdErr, OnEndRequest, OnUnknownType, serverVars
    <3>6. connectionState' = connectionState \/ IsResult(1)
      BY <3>1, <3>4 DEF IsResult
    <3> QED
      BY <1>2, <3>1, <3>2, <3>3, <3>5, <3>6
  <2>4. CASE OnUnknownType(r) /\ ~Receive(r) /\ ~ReceiveAndThrow(r, OneMoreException)
    <3> DEFINE end == [type |-> "EndRequest", id |-> r.id, status |-> "RequestComplete",
                       request |-> serving[r.id]]
    <3>1. UNCHANGED <<getValuesOwed, connectionState>> /\ Tail(incoming) \in Seq(ServerRecord)
      BY <2>1, <2>4, HeadOfIncoming DEF OnUnknownType, requesterVars
    <3>2. incoming' = Append(Tail(incoming), end) /\ end.type # "GetValuesResult"
      BY <2>4 DEF OnUnknownType
    <3> HIDE DEF end
    <3> QED
      BY <1>3, <2>1, <3>1, <3>2
  <2>5. \/ Receive(r) \/ ReceiveAndThrow(r, failures) \/ ReceiveAndThrow(r, OneMoreException)
        \/ OnUnknownType(r)
    BY <2>1 DEF OnInvalidGetValuesResult, OnGetValuesResult, OnUnexpectedRecord, OnStdOut,
                OnStdErr, OnEndRequest
  <2> QED
    BY <2>3, <2>4, <2>5
<1>7. CASE ServerStep
  <2>1. CASE ~AnswerGetValues
    <3>1. UNCHANGED <<getValuesOwed, connectionState>>
      BY <1>7, <2>1 DEF ServerStep, EndServing, SendUnknownType, SendPiece, requesterVars, serverVars
    <3>2. \E r : r.type # "GetValuesResult" /\ incoming' = Append(incoming, r)
      <4>1. ASSUME NEW id \in RequestIds, EndServing(id)
            PROVE  \E r : r.type # "GetValuesResult" /\ incoming' = Append(incoming, r)
        <5>1. PICK status \in Statuses : incoming' = Append(incoming,
                [type |-> "EndRequest", id |-> id, status |-> status, request |-> serving[id]])
          BY <4>1 DEF EndServing, ServerSends
        <5>2. [type |-> "EndRequest", id |-> id, status |-> status,
               request |-> serving[id]].type # "GetValuesResult"
          OBVIOUS
        <5> QED
          BY <5>1, <5>2
      <4>2. ASSUME NEW id \in RequestIds, SendUnknownType(id)
            PROVE  \E r : r.type # "GetValuesResult" /\ incoming' = Append(incoming, r)
        <5>1. incoming' = Append(incoming, [type |-> "UnknownType", id |-> id])
          BY <4>2 DEF SendUnknownType, ServerSends
        <5>2. [type |-> "UnknownType", id |-> id].type # "GetValuesResult"
          OBVIOUS
        <5> QED
          BY <5>1, <5>2
      <4>3. ASSUME NEW id \in RequestIds, NEW type \in StreamTypes, SendPiece(id, type)
            PROVE  \E r : r.type # "GetValuesResult" /\ incoming' = Append(incoming, r)
        <5>1. \E piece : incoming' = Append(incoming, [type |-> type, id |-> id, piece |-> piece])
          BY <4>3 DEF SendPiece, ServerSends
        <5>2. \A piece : [type |-> type, id |-> id, piece |-> piece].type # "GetValuesResult"
          BY DEF StreamTypes
        <5> QED
          BY <5>1, <5>2
      <4> QED
        BY <1>7, <2>1, <4>1, <4>2, <4>3 DEF ServerStep
    <3> QED
      BY <1>0, <1>3, <3>1, <3>2
  <2> QED
    BY <1>5, <2>1
<1>10. ASSUME NEW k \in DOMAIN requests, CancelRequest(k)
       PROVE  failures'.left = failures.left
  <2>1. failures' = failures \/ failures' = [failures EXCEPT !.threw = TRUE]
    BY <1>10 DEF CancelRequest
  <2>2. failures \in FailureRecord
    BY DEF TypeOK, FailureRecord
  <2> QED
    BY <2>1, <2>2, FailureFields
<1>8. CASE ApplicationStep
  <2>1. ASSUME NEW keep \in KeepModes, SendRequest(keep) \/ RejectRequest(keep)
        PROVE  AskedOnce'
    <3>1. UNCHANGED <<getValuesOwed, connectionState, incoming>>
      BY <2>1 DEF SendRequest, RejectRequest, serverVars
    <3> QED
      BY <1>1, <3>1
  <2>2. ASSUME NEW k \in DOMAIN requests, CancelRequest(k)
        PROVE  AskedOnce'
    <3>1. connectionState' = connectionState
      BY <1>10, <2>2, CancelClient
    <3>2. UNCHANGED <<getValuesOwed, connectionState, incoming>>
      BY <2>2, <3>1 DEF CancelRequest, serverVars
    <3> QED
      BY <1>1, <3>2
  <2> QED
    BY <1>4, <1>8, <2>1, <2>2 DEF ApplicationStep
<1>9. CASE FinishEndRequest \/ UNCHANGED vars
  <2>1. UNCHANGED <<getValuesOwed, connectionState, incoming>>
    BY <1>9 DEF FinishEndRequest, vars, requesterVars, serverVars
  <2> QED
    BY <1>1, <2>1
<1>11. CASE LeaveEndRequest
  <2> DEFINE counted == [OneMoreException EXCEPT !.left[Last(ending).context.request] = @ + 1]
  <2>1. PICK n \in 0..Last(ending).rest : LosesRecords(n, counted)
    BY <1>11 DEF LeaveEndRequest
  <2>2. n \in Nat /\ Last(ending).context.request \in Requests
    BY <1>11, <2>1, PopType DEF LeaveEndRequest
  <2>3. counted \in FailureRecord
    <3>1. OneMoreException \in FailureRecord
      BY FailureTypes DEF TypeOK, FailureRecord, OneMoreException
    <3> QED
      BY <2>2, <3>1, FailureTypes
  <2> HIDE DEF counted
  <2>4. /\ incoming' \in Seq(ServerRecord)
        /\ \A i \in DOMAIN incoming' : i + n \in DOMAIN incoming /\ incoming'[i] = incoming[i + n]
    BY <2>1, <2>2, <2>3, LossType
  <2>5. UNCHANGED <<getValuesOwed, connectionState>>
    BY <1>11 DEF LeaveEndRequest, serverVars
  <2> QED
    BY <1>2, <2>2, <2>4, <2>5
<1> QED
  BY <1>6, <1>7, <1>8, <1>9, <1>11 DEF Next

\* Every step that is in order keeps the client's part.
LEMMA NextClient ==
  ASSUME TypeOK, ClientInv, AskedOnce, "ending" \notin Cancels, [Next]_vars, Orderly'
  PROVE  ClientInv'
<1>1. ~LeaveEndRequest => failures'.left = failures.left
  BY FailureSteps
<1>2. CASE LeaveEndRequest
  BY <1>2, LeaveClient
<1>3. CASE OnRecordRead /\ failures'.left = failures.left
  BY <1>3, InvalidResultClient, ResultClient, PieceClient, EndRequestClient, ClientStays
     DEF OnRecordRead, OnUnexpectedRecord, OnUnknownType
<1>4. CASE ApplicationStep /\ failures'.left = failures.left
  BY <1>4, OpenClient, SendClient, RejectClient, CancelClient DEF ApplicationStep
<1>5. CASE (ServerStep \/ UNCHANGED vars) /\ failures'.left = failures.left
  BY <1>5, ServerAdds, ClientStays DEF vars
<1> QED
  BY <1>1, <1>2, <1>3, <1>4, <1>5, FinishClient DEF Next

\* The invariant holds from the start and as long as the use is orderly.
THEOREM OrderInvariant ==
  ASSUME "ending" \notin Cancels
  PROVE  Spec => []OrderInv
<1>1. Init => OrderInv
  BY DEF Init, OrderInv, AskedOnce, ClientInv, OpensOnce, IdsPart, ContextsPart, EndingPart,
         HandlePart, OutcomesPart, InUse, IsResult
<1>2. TypeOK /\ OrderInv /\ [Next]_vars => OrderInv'
  BY OrderlyBefore, NextAsked, NextClient DEF OrderInv
<1> QED
  BY <1>1, <1>2, RequesterTypes, PTL DEF Spec

-----------------------------------------------------------------------------
(* The promises                                                             *)

\* A request's handler is called once at most, whatever is cancelled while it is
\* open, refused or answered late, and once more each time an exception has left
\* doEndRequest for that request.
THEOREM HandlerTheorem ==
  ASSUME "ending" \notin Cancels
  PROVE  Spec => []HandlerCalledOnce
<1>1. OrderInv => HandlerCalledOnce
  BY DEF OrderInv, ClientInv, OutcomesPart, HandlerCalledOnce
<1> QED
  BY <1>1, OrderInvariant, PTL

\* The context of a request that was sent is kept until its handler is called.
THEOREM ForgottenTheorem ==
  ASSUME "ending" \notin Cancels
  PROVE  Spec => []NoRequestForgotten
<1>1. OrderInv => NoRequestForgotten
  BY DEF OrderInv, ClientInv, OutcomesPart, NoRequestForgotten
<1> QED
  BY <1>1, OrderInvariant, PTL

\* A handler is told about the cancellation of its own request only.
THEOREM CancelTheorem ==
  ASSUME "ending" \notin Cancels
  PROVE  Spec => []CancelledByOwnHandle
<1>1. OrderInv => CancelledByOwnHandle
  BY DEF OrderInv, ClientInv, OutcomesPart, CancelledByOwnHandle
<1> QED
  BY <1>1, OrderInvariant, PTL

\* Each id the server allows is available or in use, never both and never lost,
\* and availableRequestsNumber is what the limit leaves.
THEOREM IdsTheorem ==
  ASSUME "ending" \notin Cancels
  PROVE  Spec => []IdsAccountedFor
<1>1. ASSUME TypeOK, OrderInv, Orderly, connectionState = "Connected"
      PROVE  IdsAccountedFor
  <2>1. requestIdPool \cap UsedIds = {} /\ requestIdPool \cup UsedIds = AllIds(cfg)
    BY <1>1 DEF OrderInv, ClientInv, IdsPart
  <2>2. IsFiniteSet(RequestIds)
    BY FS_Interval, IdAssumption DEF RequestIds
  <2>3. requestIdPool \subseteq RequestIds /\ UsedIds \subseteq RequestIds
    BY <1>1 DEF TypeOK, UsedIds
  <2>4. IsFiniteSet(requestIdPool) /\ IsFiniteSet(UsedIds)
    BY <2>2, <2>3, FS_Subset
  <2>5. Cardinality(requestIdPool) \in Nat /\ Cardinality(UsedIds) \in Nat
    BY <2>4, FS_CardinalityType
  <2>6. Cardinality(requestIdPool \cup UsedIds) = Cardinality(requestIdPool) + Cardinality(UsedIds)
    <3>1. Cardinality(requestIdPool \cap UsedIds) = 0
      BY <2>1, FS_EmptySet
    <3>2. Cardinality(requestIdPool \cup UsedIds) =
            Cardinality(requestIdPool) + Cardinality(UsedIds) - Cardinality(requestIdPool \cap UsedIds)
      BY <2>4, FS_Union
    <3> QED
      BY <2>5, <3>1, <3>2
  <2>7. Cardinality(requestIdPool) = Cardinality(AllIds(cfg)) - Cardinality(UsedIds)
    <3>1. Cardinality(AllIds(cfg)) = Cardinality(requestIdPool \cup UsedIds)
      BY <2>1
    <3> QED
      BY <2>5, <2>6, <3>1
  <2> QED
    BY <1>1, <2>1, <2>7 DEF IdsAccountedFor, availableRequestsNumber, UsedIds
<1>2. TypeOK /\ OrderInv => IdsAccountedFor
  BY <1>1 DEF IdsAccountedFor
<1> QED
  BY <1>2, OrderInvariant, RequesterTypes, PTL
=============================================================================
