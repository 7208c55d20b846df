---------------------------- MODULE RequesterImpl ----------------------------
(***************************************************************************)
(* The web-server side of a FastCGI connection: class RequesterImpl        *)
(* (src/requesterimpl.cpp) and the RequestHandle objects it returns        *)
(* (src/requester.cpp).                                                    *)
(*                                                                         *)
(* The application that makes requests and the FastCGI server that answers *)
(* them are the environment.  Requests are numbered in the order of the    *)
(* calls of sendRequest.  What the requester sends reaches the server at   *)
(* once; what the server sends waits in `incoming' until the application   *)
(* passes it to receiveData, so that everything the requester does can     *)
(* overtake it.  A handler of the application may call the requester       *)
(* again, so doEndRequest, which works on after its handler has returned,  *)
(* is two steps, with the calls that run at the moment on a stack.         *)
(***************************************************************************)
EXTENDS Integers, Sequences, FiniteSets

CONSTANTS
  IdLimit,            \* the number of ids: 2^16
  MaxReqsValues,      \* values of MaxReqs that the server may report
  MultiplexingModes,  \* values of MpxsConns that the server may report
  KeepModes,          \* arguments keepConnection of sendRequest
  ResultKinds,        \* what GetValuesResult holds, see ServerRecord
  Statuses            \* protocol statuses of EndRequest

CONSTANTS             \* what the environment may do
  Cancels,            \* phases of a request in which it is cancelled
  SendsUnknownTypes,  \* the server sends UnknownType for open requests
  Volunteers          \* the server sends GetValuesResult without GetValues

CONSTANTS             \* bounds of the model
  MaxRequests,        \* calls of sendRequest
  MaxPieces,          \* StdOut and StdErr records the server sends per request
  MaxFaults,          \* unusual events, see Faults
  NoContext           \* "no entry in responseMap"

VARIABLES
  connectionState, cfg, requestIdPool, responseMap,
  pendingRequest,     \* the request captured by onConnectionSuccess_ and
                      \*   onConnectionFail_, 0 while they are empty
  cancelHandler,      \* what connectionOpeningRequestCancelHandler_ points to:
                      \*   the request it was made for (0: nullptr), and what
                      \*   a call does: Opening, or the id it ends
  ending,             \* stack of the calls of doEndRequest whose handler runs
  requests,           \* history: the requests, as the application sees them
  incoming,           \* records sent by the server and not received yet
  serving,            \* the server: the request it serves under each id, or 0
  output,             \* history: the records the server sent for a request
  getValuesOwed,      \* GetValues records the server has not answered
  closed,             \* disconnect was called
  failures            \* [extras, unasked, exceptions: counters, died: undefined
                      \*   behaviour ended the process, threw: cancelRequest did,
                      \*   left: how often an exception left doEndRequest for a
                      \*   request, lost: the pieces lost through exceptions]

requesterVars == <<connectionState, cfg, requestIdPool, responseMap,
                   pendingRequest, cancelHandler, ending, requests>>
serverVars == <<serving, output, getValuesOwed>>
vars == <<requesterVars, serverVars, incoming, closed, failures>>

-----------------------------------------------------------------------------
RequestIds == 0..(IdLimit - 1)
Requests == 1..MaxRequests
Opening == -1

ASSUME IdAssumption == IdLimit \in Nat /\ IdLimit > 1
ASSUME ValuesAssumption ==
  MaxReqsValues \subseteq Int /\ MultiplexingModes \subseteq BOOLEAN
  /\ KeepModes \subseteq BOOLEAN
  /\ ResultKinds \subseteq {"valid", "empty", "badMaxReqs", "badMpxsConns"}
  /\ Statuses \subseteq {"RequestComplete", "Overloaded", "CantMpxConn", "UnknownRole"}
ASSUME BoundsAssumption == MaxRequests \in Nat
Phases == {"opening", "open", "ending", "finished"}
ASSUME CancelsAssumption == Cancels \subseteq Phases

\* A piece of a response: the n-th record the server sent for a request
Piece == [request : Requests, n : Nat]
StreamTypes == {"StdOut", "StdErr"}

ResponseContext ==
  [request : Requests, keepConnection : BOOLEAN, data : Seq(Piece), errorMsg : Seq(Piece)]
ASSUME NoContextAssumption == NoContext \notin ResponseContext

\* A call of a response handler.  A response is passed if `status' is
\* "Successful"; `answers' is the request the server ended, a ghost.
Outcome == [status : {"Successful", "Failed", "Cancelled"}, answers : Nat,
            data : Seq(Piece), errorMsg : Seq(Piece)]

RequestHistory ==
  [keep : BOOLEAN, handle : {"none", "opening", "context"}, cancelled : Phases \cup {"no"},
   sends : Nat, outcomes : Seq(Outcome)]

\* The values in GetValuesResult: both, none, or one that std::stoi cannot read
ServerRecord ==
       [type : {"GetValuesResult"}, kind : ResultKinds, maxReqs : MaxReqsValues,
        mpxs : MultiplexingModes]
  \cup [type : StreamTypes, id : RequestIds, piece : Piece]
  \cup [type : {"EndRequest"}, id : RequestIds, status : Statuses \cup {"RequestComplete"},
        request : Requests]
  \cup [type : {"UnknownType"}, id : RequestIds]

NoResponse(status, answers) ==
  [status |-> status, answers |-> answers, data |-> <<>>, errorMsg |-> <<>>]

InUse(id) == responseMap[id] # NoContext
Last(s) == s[Len(s)]
Running == ~failures.died

\* The application runs: either no call of the library is in progress, or
\* one of its response handlers
ApplicationRuns == Running
\* Records are only received between the calls of the library
Receives == Running /\ ending = <<>>

\* The faults the bound MaxFaults counts: records the server sends unasked,
\* exceptions, and cancellations of requests that are not open
CancelledIn(phase) == {k \in DOMAIN requests : requests[k].cancelled = phase}
Faults == failures.extras + failures.unasked + failures.exceptions
          + Cardinality(CancelledIn("opening") \cup CancelledIn("finished"))

\* The application's handler of request k is called
CallsHandler(history, k, outcome) ==
  [history EXCEPT ![k].outcomes = Append(@, outcome)]

\* Mutant: ids are not cut to 16 bits
WideRequestIds(maxRequestsNumber) == 1..maxRequestsNumber

\* Mutant: the loop starts at 0
GenerateOneMore(maxRequestsNumber) == {i % IdLimit : i \in 0..maxRequestsNumber}

\* std::set<uint16_t> of the numbers up to maxRequestsNumber
generateRequestIds(maxRequestsNumber) == {i % IdLimit : i \in 1..maxRequestsNumber}
AllIds(limits) ==
  IF limits.multiplexingEnabled THEN generateRequestIds(limits.maxRequestsNumber) ELSE {1}

availableRequestsNumber ==
  CASE connectionState = "NotConnected" -> 1
    [] connectionState = "ConnectionInProgress" -> 0
    [] connectionState = "Connected" -> Cardinality(requestIdPool)

SmallestOf(ids) == CHOOSE i \in ids : \A j \in ids : i <= j

-----------------------------------------------------------------------------
(* Sending                                                                  *)

\* BeginRequest, Params and StdIn of request k reach the server, which ignores
\* a BeginRequest for an id it serves (ResponderImpl::isRecordExpected)
ServerGets(k, id) ==
  serving' = IF ~closed /\ serving[id] = 0 THEN [serving EXCEPT ![id] = k] ELSE serving

\* Mutant: the id is not taken out of the pool
LeaveId(pool, id) == pool

TakeId(pool, id) == pool \ {id}

\* doSendRequest for request k, with the ids of `pool' available, in a call
\* that has changed the history to `history' so far.  If sendData or the handler
\* throws, some of the records were sent and the rest of the calling function
\* does not run: `completes' is FALSE.
DoSendRequest(k, pool, history, completes) ==
  LET id == SmallestOf(pool)
      context == [request |-> k, keepConnection |-> history[k].keep,
                  data |-> <<>>, errorMsg |-> <<>>]
  IN  \/ /\ pool = {}
         /\ requests' = CallsHandler(history, k, NoResponse("Failed", 0))
         /\ requestIdPool' = pool
         /\ UNCHANGED <<responseMap, serving>>
      \/ /\ pool # {}
         /\ requestIdPool' = TakeId(pool, id)
         \* emplace keeps an entry that exists
         /\ responseMap' = IF InUse(id) THEN responseMap
                           ELSE [responseMap EXCEPT ![id] = context]
         /\ \/ completes /\ ServerGets(k, id)
            \/ ~completes /\ (ServerGets(k, id) \/ UNCHANGED serving)
         /\ requests' = [history EXCEPT ![k].sends = @ + 1]

OneMoreException == [failures EXCEPT !.exceptions = @ + 1]
Throws == Faults < MaxFaults /\ failures' = OneMoreException

\* sendRequest on a new connection: initConnection asks the server for its
\* limits and the request waits
OpenConnection(keep) ==
  LET k == Len(requests) + 1
      request(handle) == [keep |-> keep, handle |-> handle, cancelled |-> "no",
                          sends |-> 0, outcomes |-> <<>>]
  IN  /\ ApplicationRuns
      /\ Len(requests) < MaxRequests
      /\ connectionState = "NotConnected"
      /\ connectionState' = "ConnectionInProgress"
      /\ pendingRequest' = k
      /\ \/ /\ requests' = Append(requests, request("opening"))
            /\ cancelHandler' = [request |-> k, does |-> Opening]
            /\ getValuesOwed' = IF closed THEN getValuesOwed ELSE getValuesOwed + 1
            /\ UNCHANGED failures
         \/ /\ Throws
            /\ requests' = Append(requests, request("none"))
            /\ UNCHANGED <<cancelHandler, getValuesOwed>>
      /\ UNCHANGED <<cfg, requestIdPool, responseMap, ending, serving, output,
                     incoming, closed>>

\* sendRequest on an open connection
SendRequest(keep) ==
  LET k == Len(requests) + 1
      sent == requestIdPool # {}
      history(returns) ==
        Append(requests, [keep |-> keep, handle |-> IF returns THEN "context" ELSE "none",
                          cancelled |-> "no", sends |-> 0, outcomes |-> <<>>])
  IN  /\ ApplicationRuns
      /\ Len(requests) < MaxRequests
      /\ connectionState = "Connected"
      /\ \/ DoSendRequest(k, requestIdPool, history(sent), TRUE) /\ UNCHANGED failures
         \/ DoSendRequest(k, requestIdPool, history(FALSE), FALSE) /\ Throws
      /\ UNCHANGED <<connectionState, cfg, pendingRequest, cancelHandler, ending,
                     output, getValuesOwed, incoming, closed>>

\* sendRequest while the connection is being opened: nothing happens
RejectRequest(keep) ==
  /\ ApplicationRuns
  /\ Len(requests) < MaxRequests
  /\ connectionState = "ConnectionInProgress"
  /\ requests' = Append(requests, [keep |-> keep, handle |-> "none", cancelled |-> "no",
                                   sends |-> 0, outcomes |-> <<>>])
  /\ UNCHANGED <<connectionState, cfg, requestIdPool, responseMap, pendingRequest,
                 cancelHandler, ending, serverVars, incoming, closed, failures>>

-----------------------------------------------------------------------------
(* Ending a request                                                         *)

\* doEndRequest up to the call of the handler.  Up to `rest' records may follow
\* in the chunk that RecordReader works on.
BeginEndRequest(id, status, answers, history, rest) ==
  LET context == responseMap[id]
      outcome == IF status = "Successful"
                 THEN [status |-> status, answers |-> answers, data |-> context.data,
                       errorMsg |-> context.errorMsg]
                 ELSE NoResponse(status, answers)
  IN  /\ requests' = CallsHandler(history, context.request, outcome)
      /\ ending' = Append(ending, [id |-> id, status |-> status, context |-> context,
                                    rest |-> rest])

\* Mutant: the context stays
KeepContext(id) == UNCHANGED responseMap

\* Mutant: all contexts are erased
EraseContexts(id) == responseMap' = [i \in RequestIds |-> NoContext]

EraseContext(id) == responseMap' = [responseMap EXCEPT ![id] = NoContext]

\* The entry of the request whose handler runs is still there.  If the handler
\* has ended the request itself, keepConnection is read from freed memory.
HasEntry(call) == InUse(call.id) /\ responseMap[call.id].request = call.context.request
KeepRead(call) == IF HasEntry(call) THEN {responseMap[call.id].keepConnection} ELSE BOOLEAN

\* The handler returns, and the rest of doEndRequest runs.
FinishEndRequest ==
  LET call == Last(ending)
  IN  /\ Running
      /\ ending # <<>>
      /\ ending' = SubSeq(ending, 1, Len(ending) - 1)
      /\ \E keep \in KeepRead(call) :
           closed' = (closed \/ (call.status # "Cancelled" /\ ~keep))
      /\ EraseContext(call.id)
      /\ requestIdPool' = requestIdPool \cup {call.id}
      /\ UNCHANGED <<connectionState, cfg, pendingRequest, cancelHandler, requests,
                     serverVars, incoming, failures>>

\* An exception reaches RecordReader::doRead, which gives up the rest of the
\* chunk: the next n records.  The chunk is taken to end with a whole record.
LosesRecords(n, counted) ==
  /\ incoming' = SubSeq(incoming, n + 1, Len(incoming))
  /\ LET given == {i \in DOMAIN incoming : i <= n /\ incoming[i].type \in StreamTypes}
     IN  failures' = [counted EXCEPT !.lost = @ \cup {incoming[i].piece : i \in given}]

\* The handler or disconnect_ throws out of doEndRequest: the request keeps its
\* id and its entry, without the response, which was moved to the handler.
LeaveEndRequest ==
  LET call == Last(ending)
      k == call.context.request
  IN  /\ Running
      /\ ending # <<>>
      /\ Faults < MaxFaults
      /\ ending' = SubSeq(ending, 1, Len(ending) - 1)
      /\ \E n \in 0..call.rest :
           LosesRecords(n, [OneMoreException EXCEPT !.left[k] = @ + 1])
      /\ \E keep \in KeepRead(call) :
           closed' \in {closed, closed \/ (call.status # "Cancelled" /\ ~keep)}
      /\ responseMap' = IF call.status = "Successful" /\ HasEntry(call)
                        THEN [responseMap EXCEPT ![call.id].data = <<>>,
                                                 ![call.id].errorMsg = <<>>]
                        ELSE responseMap
      /\ UNCHANGED <<connectionState, cfg, requestIdPool, pendingRequest, cancelHandler,
                     requests, serverVars>>

-----------------------------------------------------------------------------
(* RequestHandle::cancelRequest                                             *)

IdsOf(k) == {id \in RequestIds : InUse(id) /\ responseMap[id].request = k}
IsEnding(k) == \E i \in DOMAIN ending : ending[i].context.request = k

\* Mutant: a handle leads to the first context
FirstEntryTargets(k) ==
  LET used == {id \in RequestIds : InUse(id)}
  IN  IF used = {} THEN {} ELSE {SmallestOf(used)}

\* What the weak_ptr of the handle leads to, if it has not expired: the handler
\* of the context, or the one made when the connection was opened
CancelTargets(k) ==
  IF requests[k].handle = "context" THEN IdsOf(k)
  ELSE IF requests[k].handle = "opening" /\ cancelHandler.request = k
    THEN {cancelHandler.does}
  ELSE {}

\* Where request k is when the application cancels it.  If sendData threw out of
\* onConnectionSuccess_, the handle still is the one of the opening.
Phase(k) ==
  IF IsEnding(k) THEN "ending"
  ELSE IF IdsOf(k) = {} /\ ~(connectionState = "ConnectionInProgress" /\ pendingRequest = k)
    THEN "finished"
  ELSE IF Opening \in CancelTargets(k) THEN "opening"
  ELSE "open"

CancelRequest(k) ==
  LET history == [requests EXCEPT ![k].cancelled = Phase(k)]
  IN  /\ ApplicationRuns
      /\ requests[k].handle # "none"
      /\ requests[k].cancelled = "no"
      /\ Phase(k) \in Cancels
      /\ Phase(k) \in {"opening", "finished"} => Faults < MaxFaults
      /\ \/ /\ CancelTargets(k) = {}
            /\ requests' = history
            /\ UNCHANGED <<connectionState, ending, failures>>
         \/ /\ Opening \in CancelTargets(k)
            /\ connectionState' = "NotConnected"
            /\ requests' = CallsHandler(history, k, NoResponse("Cancelled", 0))
            /\ UNCHANGED <<ending, failures>>
         \/ \E id \in CancelTargets(k) \ {Opening} :
              \/ /\ InUse(id)
                 /\ BeginEndRequest(id, "Cancelled", 0, history, 0)
                 /\ UNCHANGED <<connectionState, failures>>
              \/ /\ ~InUse(id)      \* responseMap_.at throws
                 /\ failures' = [failures EXCEPT !.threw = TRUE]
                 /\ requests' = history
                 /\ UNCHANGED <<connectionState, ending>>
      /\ UNCHANGED <<cfg, requestIdPool, responseMap, pendingRequest, cancelHandler,
                     serverVars, incoming, closed>>

-----------------------------------------------------------------------------
(* Handlers of received records                                             *)

IsNext(r) == Receives /\ incoming # <<>> /\ r = Head(incoming)
Receive(r) == IsNext(r) /\ incoming' = Tail(incoming)

\* ... and an exception leaves onRecordRead
ReceiveAndThrow(r, counted) ==
  IsNext(r) /\ \E n \in 1..Len(incoming) : LosesRecords(n, counted)

\* Mutant: onConnectionFail_ does not call the handler
FailSilently == connectionState' = "NotConnected" /\ UNCHANGED requests

\* onConnectionFail_
ConnectionFails ==
  /\ connectionState' = "NotConnected"
  /\ requests' = CallsHandler(requests, pendingRequest, NoResponse("Failed", 0))

\* A value std::stoi cannot read; what was read before it is kept.  The handler
\* may throw, an empty onConnectionFail_ always does.
OnInvalidGetValuesResult(r) ==
  /\ r.type = "GetValuesResult" /\ r.kind \in {"badMaxReqs", "badMpxsConns"}
  /\ cfg' = IF r.kind = "badMpxsConns" THEN [cfg EXCEPT !.maxRequestsNumber = r.maxReqs]
            ELSE cfg
  /\ \/ /\ pendingRequest # 0
        /\ ConnectionFails
        /\ \/ Receive(r) /\ UNCHANGED failures
           \/ Faults < MaxFaults /\ ReceiveAndThrow(r, OneMoreException)
     \/ /\ pendingRequest = 0
        /\ ReceiveAndThrow(r, failures)
        /\ UNCHANGED <<connectionState, requests>>
  /\ UNCHANGED <<requestIdPool, responseMap, pendingRequest, cancelHandler, ending,
                 serverVars, closed>>

\* The end of onConnectionSuccess_: the handle of the pending request is made to
\* cancel the first entry of responseMap_, through two pointers that may be null
RedirectHandle(used) ==
  \/ /\ used # {} /\ cancelHandler.request # 0
     /\ cancelHandler' = [cancelHandler EXCEPT !.does = SmallestOf(used)]
     /\ UNCHANGED failures
  \/ /\ used = {} \/ cancelHandler.request = 0
     /\ failures' = [failures EXCEPT !.died = TRUE]
     /\ UNCHANGED cancelHandler

\* onConnectionSuccess_: the server's limits are taken over and the pending
\* request is sent.  RecordReader catches what is thrown.
OnGetValuesResult(r) ==
  LET limits == IF r.kind = "empty" THEN cfg
                ELSE [maxRequestsNumber |-> r.maxReqs, multiplexingEnabled |-> r.mpxs]
      pool == AllIds(limits)
  IN  /\ r.type = "GetValuesResult" /\ r.kind \in {"valid", "empty"}
      /\ cfg' = limits
      /\ \/ /\ pendingRequest = 0     \* the empty function throws
            /\ ReceiveAndThrow(r, failures)
            /\ UNCHANGED <<connectionState, requestIdPool, responseMap, cancelHandler,
                           requests, serving>>
         \/ /\ pendingRequest # 0
            /\ connectionState' = "Connected"
            /\ \/ /\ Receive(r)
                  /\ DoSendRequest(pendingRequest, pool, requests, TRUE)
                  /\ RedirectHandle({id \in RequestIds : responseMap'[id] # NoContext})
               \/ /\ Faults < MaxFaults
                  /\ ReceiveAndThrow(r, OneMoreException)
                  /\ DoSendRequest(pendingRequest, pool, requests, FALSE)
                  /\ UNCHANGED cancelHandler
      /\ UNCHANGED <<pendingRequest, ending, output, getValuesOwed, closed>>

OnUnexpectedRecord(r) ==
  /\ Receive(r)
  /\ r.type # "GetValuesResult" /\ ~InUse(r.id)
  /\ UNCHANGED <<requesterVars, serverVars, closed, failures>>

OnStdOut(r) ==
  /\ Receive(r)
  /\ r.type = "StdOut" /\ InUse(r.id)
  /\ responseMap' = [responseMap EXCEPT ![r.id].data = Append(@, r.piece)]
  /\ UNCHANGED <<connectionState, cfg, requestIdPool, pendingRequest, cancelHandler,
                 ending, requests, serverVars, closed, failures>>

\* Mutant: StdErr is mixed into the data
OnStdErrAsData(r) ==
  /\ Receive(r)
  /\ r.type = "StdErr" /\ InUse(r.id)
  /\ responseMap' = [responseMap EXCEPT ![r.id].data = Append(@, r.piece)]
  /\ UNCHANGED <<connectionState, cfg, requestIdPool, pendingRequest, cancelHandler,
                 ending, requests, serverVars, closed, failures>>

OnStdErr(r) ==
  /\ Receive(r)
  /\ r.type = "StdErr" /\ InUse(r.id)
  /\ responseMap' = [responseMap EXCEPT ![r.id].errorMsg = Append(@, r.piece)]
  /\ UNCHANGED <<connectionState, cfg, requestIdPool, pendingRequest, cancelHandler,
                 ending, requests, serverVars, closed, failures>>

OnEndRequest(r) ==
  /\ Receive(r)
  /\ r.type = "EndRequest" /\ InUse(r.id)
  /\ BeginEndRequest(r.id, IF r.status = "RequestComplete" THEN "Successful" ELSE "Failed",
                     r.request, requests, Len(Tail(incoming)))
  /\ UNCHANGED <<connectionState, cfg, requestIdPool, responseMap, pendingRequest,
                 cancelHandler, serverVars, closed, failures>>

\* Mutant: the id is given back without waiting for EndRequest
FreeOnUnknownType(r) ==
  /\ Receive(r)
  /\ r.type = "UnknownType" /\ InUse(r.id)
  /\ responseMap' = [responseMap EXCEPT ![r.id] = NoContext]
  /\ requestIdPool' = requestIdPool \cup {r.id}
  /\ UNCHANGED <<connectionState, cfg, pendingRequest, cancelHandler, ending, requests,
                 serverVars, closed, failures>>

\* AbortRequest is sent, and the server ends what it serves under the id; or
\* sendData throws
OnUnknownType(r) ==
  /\ r.type = "UnknownType" /\ InUse(r.id)
  /\ \/ /\ IsNext(r)
        /\ ~closed /\ serving[r.id] # 0
        /\ incoming' = Append(Tail(incoming),
             [type |-> "EndRequest", id |-> r.id, status |-> "RequestComplete",
              request |-> serving[r.id]])
        /\ serving' = [serving EXCEPT ![r.id] = 0]
        /\ UNCHANGED failures
     \/ /\ Receive(r)
        /\ closed \/ serving[r.id] = 0
        /\ UNCHANGED <<serving, failures>>
     \/ /\ Faults < MaxFaults
        /\ ReceiveAndThrow(r, OneMoreException)
        /\ UNCHANGED serving
  /\ UNCHANGED <<requesterVars, output, getValuesOwed, closed>>

OnRecordRead ==
  \E r \in {Head(s) : s \in {incoming} \ {<<>>}} :
    \/ OnInvalidGetValuesResult(r)
    \/ OnGetValuesResult(r)
    \/ OnUnexpectedRecord(r)
    \/ OnStdOut(r)
    \/ OnStdErr(r)
    \/ OnEndRequest(r)
    \/ OnUnknownType(r)

-----------------------------------------------------------------------------
(* The server                                                               *)

ServerSends(r) == ~closed /\ Running /\ incoming' = Append(incoming, r)

AnswerGetValues ==
  /\ \E kind \in ResultKinds, maxReqs \in MaxReqsValues, mpxs \in MultiplexingModes :
       ServerSends([type |-> "GetValuesResult", kind |-> kind, maxReqs |-> maxReqs,
                    mpxs |-> mpxs])
  /\ \/ /\ getValuesOwed > 0
        /\ getValuesOwed' = getValuesOwed - 1
        /\ UNCHANGED failures
     \/ /\ Volunteers
        /\ Faults < MaxFaults
        /\ failures' = [failures EXCEPT !.unasked = @ + 1]
        /\ UNCHANGED getValuesOwed
  /\ UNCHANGED <<requesterVars, serving, output, closed>>

SendPiece(id, type) ==
  LET k == serving[id]
  IN  /\ k # 0
      /\ Len(output[k]) < MaxPieces
      /\ ServerSends([type |-> type, id |-> id,
                      piece |-> [request |-> k, n |-> Len(output[k]) + 1]])
      /\ output' = [output EXCEPT ![k] = Append(@, type)]
      /\ UNCHANGED <<requesterVars, serving, getValuesOwed, closed, failures>>

EndServing(id) ==
  /\ serving[id] # 0
  /\ \E status \in Statuses :
       ServerSends([type |-> "EndRequest", id |-> id, status |-> status,
                    request |-> serving[id]])
  /\ serving' = [serving EXCEPT ![id] = 0]
  /\ UNCHANGED <<requesterVars, output, getValuesOwed, closed, failures>>

SendUnknownType(id) ==
  /\ SendsUnknownTypes
  /\ serving[id] # 0
  /\ Faults < MaxFaults
  /\ failures' = [failures EXCEPT !.extras = @ + 1]
  /\ ServerSends([type |-> "UnknownType", id |-> id])
  /\ UNCHANGED <<requesterVars, serverVars, closed>>

ServerStep ==
  \/ AnswerGetValues
  \/ \E id \in RequestIds :
       EndServing(id) \/ SendUnknownType(id) \/ \E type \in StreamTypes : SendPiece(id, type)

-----------------------------------------------------------------------------
ApplicationStep ==
  \/ \E keep \in KeepModes : OpenConnection(keep) \/ SendRequest(keep) \/ RejectRequest(keep)
  \/ \E k \in DOMAIN requests : CancelRequest(k)

Init ==
  /\ connectionState = "NotConnected"
  /\ cfg = [maxRequestsNumber |-> 10, multiplexingEnabled |-> TRUE]
  /\ requestIdPool = {}
  /\ responseMap = [id \in RequestIds |-> NoContext]
  /\ pendingRequest = 0
  /\ cancelHandler = [request |-> 0, does |-> Opening]
  /\ ending = <<>>
  /\ requests = <<>>
  /\ incoming = <<>>
  /\ serving = [id \in RequestIds |-> 0]
  /\ output = [k \in Requests |-> <<>>]
  /\ getValuesOwed = 0
  /\ closed = FALSE
  /\ failures = [extras |-> 0, unasked |-> 0, exceptions |-> 0, died |-> FALSE, threw |-> FALSE,
                  left |-> [k \in Requests |-> 0], lost |-> {}]

Next == OnRecordRead \/ FinishEndRequest \/ LeaveEndRequest \/ ApplicationStep \/ ServerStep

Spec == Init /\ [][Next]_vars

\* Received records are processed and handlers return; the server answers
Fairness ==
  /\ WF_vars(OnRecordRead)
  /\ WF_vars(FinishEndRequest)
  /\ WF_vars(AnswerGetValues)
  /\ \A id \in RequestIds : WF_vars(EndServing(id))

FairSpec == Spec /\ Fairness

-----------------------------------------------------------------------------
(* Properties                                                               *)

TypeOK ==
  /\ connectionState \in {"NotConnected", "ConnectionInProgress", "Connected"}
  /\ cfg \in [maxRequestsNumber : Int, multiplexingEnabled : BOOLEAN]
  /\ requestIdPool \subseteq RequestIds
  /\ responseMap \in [RequestIds -> ResponseContext \cup {NoContext}]
  /\ pendingRequest \in 0..Len(requests)
  /\ cancelHandler \in [request : 0..Len(requests), does : RequestIds \cup {Opening}]
  /\ ending \in Seq([id : RequestIds, status : {"Successful", "Failed", "Cancelled"},
                     context : ResponseContext, rest : Nat])
  /\ requests \in Seq(RequestHistory) /\ Len(requests) <= MaxRequests
  /\ incoming \in Seq(ServerRecord)
  /\ serving \in [RequestIds -> 0..Len(requests)]
  /\ output \in [Requests -> Seq(StreamTypes)]
  /\ getValuesOwed \in Nat
  /\ closed \in BOOLEAN
  /\ failures \in [extras : Nat, unasked : Nat, exceptions : Nat, died : BOOLEAN,
                   threw : BOOLEAN, left : [Requests -> Nat], lost : SUBSET Piece]

\* Without these three the application and the server use the connection as
\* intended; each of them breaks the promises below.  UnknownType and exceptions
\* out of sendData do not.
Orderly ==
  failures.unasked = 0 /\ CancelledIn("opening") = {} /\ CancelledIn("finished") = {}

\* A request's handler is called once at most, whatever is cancelled, refused
\* or answered late (doEndRequest, onConnectionFail_, the cancel handlers); and
\* once more each time an exception has left doEndRequest for that request.
HandlerCalledOnce ==
  Orderly => \A k \in DOMAIN requests : Len(requests[k].outcomes) <= 1 + failures.left[k]

\* Pieces of a response, in order: what the server sent as `type' for request k
ArePieces(pieces, k, type) ==
  /\ \A i \in DOMAIN pieces :
       /\ pieces[i].request = k
       /\ pieces[i].n \in DOMAIN output[k] /\ output[k][pieces[i].n] = type
  /\ \A i, j \in DOMAIN pieces : i < j => pieces[i].n < pieces[j].n

\* ... and none is missing but those an exception has lost
AreAllPieces(pieces, k, type) ==
  /\ ArePieces(pieces, k, type)
  /\ \A n \in DOMAIN output[k] :
       output[k][n] = type =>
         [request |-> k, n |-> n] \in failures.lost \/ \E i \in DOMAIN pieces : pieces[i].n = n

\* The response passed to a request's handler is what the server sent for that
\* request: all of it, in order, with StdOut and StdErr apart, and nothing of
\* another request that uses or used the same id (onStdOut, onStdErr, the pool).
\* Only records RecordReader gave up because of an exception are missing.
ResponseIsOwnAndWhole ==
  \A k \in DOMAIN requests : \A i \in DOMAIN requests[k].outcomes :
    LET outcome == requests[k].outcomes[i]
    IN  outcome.status = "Successful" =>
          /\ outcome.answers = k
          /\ AreAllPieces(outcome.data, k, "StdOut")
          /\ AreAllPieces(outcome.errorMsg, k, "StdErr")

IsFor(r, id) == r.type # "GetValuesResult" /\ r.id = id

\* requester.h:56 "number of available requests": no id in the pool is used
\* by the server, and no record for it is on its way, so that a request sent
\* under it is answered on its own.
AvailableIdsAreFree ==
  connectionState = "Connected" =>
    \A id \in requestIdPool :
      serving[id] = 0 /\ \A i \in DOMAIN incoming : ~IsFor(incoming[i], id)

\* Each id the server allows is available or in use, never both and never
\* lost: availableRequestsNumber is what the server's limit leaves.
IdsAccountedFor ==
  Orderly /\ connectionState = "Connected" =>
    /\ requestIdPool \cap {id \in RequestIds : InUse(id)} = {}
    /\ requestIdPool \cup {id \in RequestIds : InUse(id)} = AllIds(cfg)
    /\ availableRequestsNumber =
         Cardinality(AllIds(cfg)) - Cardinality({id \in RequestIds : InUse(id)})

\* The context of a request that was sent is kept until its handler is called.
NoRequestForgotten ==
  Orderly => \A k \in DOMAIN requests :
    requests[k].sends > 0 /\ requests[k].outcomes = <<>> => IdsOf(k) # {}

\* A handler is told about a cancellation if its own request was cancelled, and
\* not because of another one's handle (the two kinds of cancel handlers).
CancelledByOwnHandle ==
  Orderly => \A k \in DOMAIN requests : \A i \in DOMAIN requests[k].outcomes :
    requests[k].outcomes[i].status = "Cancelled" => requests[k].cancelled # "no"

\* A request for which sendRequest returned a handle has its handler called,
\* unless the connection was closed for another one, or an exception left
\* sendRequest or a handler of records half-way.
EveryRequestIsAnswered ==
  \A k \in Requests :
    (k \in DOMAIN requests /\ requests[k].handle # "none") ~>
      \/ closed \/ failures.exceptions > 0
      \/ k \in DOMAIN requests /\ requests[k].outcomes # <<>>

-----------------------------------------------------------------------------
(* What the comments of the public headers say                              *)

\* requester.h:38 "object which can be used to cancel request": of the handles
\* the application keeps, each cancels its own request only.
HandleCancelsOwnRequest ==
  \A k \in DOMAIN requests : \A i \in DOMAIN requests[k].outcomes :
    requests[k].outcomes[i].status = "Cancelled" => requests[k].cancelled # "no"
=============================================================================
