------------------------------- MODULE Session -------------------------------
(***************************************************************************)
(* A whole connection: a web server that makes its requests with a         *)
(* Requester, and an application that answers them with a Responder, joined *)
(* by a local socket as in examples/qt_requester_example and               *)
(* examples/qt_example.                                                    *)
(*                                                                         *)
(* Every step of either side is one of RequesterImpl or ResponderImpl.     *)
(* Each direction of the socket is a queue of records that the other side  *)
(* has not read yet, of any length: what one side does crosses with all    *)
(* that is on its way.  A socket that was closed loses what is written to  *)
(* it.  The requester of RequesterImpl has a server of its own; here that  *)
(* server is what the socket and the responder show of themselves, and     *)
(* RequesterSpec says that they are no worse.                              *)
(***************************************************************************)
EXTENDS Integers, Sequences, FiniteSetsExt

CONSTANTS
  IdLimit,            \* the number of ids: 2^16
  KeepModes,          \* arguments keepConnection of sendRequest
  ConnectionLimits,   \* arguments of setMaximumConnectionsNumber
  Limits,             \* arguments of setMaximumRequestsNumber
  MultiplexingModes,  \* arguments of setMultiplexingEnabled
  MaxRequests,        \* bound: calls of sendRequest
  MaxPieces,          \* bound: non-empty records of a StdOut or StdErr stream
  NoContext, Unregistered

\* A server that takes no request at all is not a partner for a Requester: it
\* writes through a null pointer then (RequesterImpl!RedirectHandle)
ASSUME LimitsAssumption == Limits \subseteq Nat \ {0}
ASSUME ModesAssumption ==
  KeepModes \subseteq BOOLEAN /\ MultiplexingModes \subseteq BOOLEAN /\ ConnectionLimits \subseteq Int
ASSUME BoundsAssumption ==
  IdLimit \in Nat /\ IdLimit > 1 /\ MaxRequests \in Nat /\ MaxPieces \in Nat

VARIABLES
  connectionState, requesterCfg, requestIdPool, responseMap, pendingRequest,
  cancelHandler, ending, requests, incoming, closed, failures,
  responderCfg, requestRegistry, alive, received, handed, wire, exceptions,
  sent,               \* history: what the requester wrote to its socket,
                      \*   [record, request]
  taken               \* the number of elements of `wire' that have crossed

requesterVars == <<connectionState, requesterCfg, requestIdPool, responseMap,
                   pendingRequest, cancelHandler, ending, requests, closed, failures>>
responderVars == <<responderCfg, requestRegistry, alive, received, handed, wire, exceptions>>
vars == <<requesterVars, responderVars, incoming, sent, taken>>

Ids == 0..(IdLimit - 1)
Requests == 1..MaxRequests

-----------------------------------------------------------------------------
(* What the requester writes: a request k has one parameter and one byte of *)
(* data, both called k                                                      *)

GetValues == <<[record |-> [type |-> "GetValues"], request |-> 0]>>

\* Mutant: the parameters are not terminated, and the data comes first
DataBeforeParams(k, id, keep) ==
  LET records == <<[type |-> "BeginRequest", id |-> id, role |-> "Responder", keep |-> keep],
                   [type |-> "StdIn", id |-> id, content |-> <<k>>],
                   [type |-> "StdIn", id |-> id, content |-> <<>>],
                   [type |-> "Params", id |-> id, content |-> <<k>>]>>
  IN  [i \in DOMAIN records |-> [record |-> records[i], request |-> k]]

\* doSendRequest
RequestRecords(k, id, keep) ==
  LET records == <<[type |-> "BeginRequest", id |-> id, role |-> "Responder", keep |-> keep],
                   [type |-> "Params", id |-> id, content |-> <<k>>],
                   [type |-> "Params", id |-> id, content |-> <<>>],
                   [type |-> "StdIn", id |-> id, content |-> <<k>>],
                   [type |-> "StdIn", id |-> id, content |-> <<>>]>>
  IN  [i \in DOMAIN records |-> [record |-> records[i], request |-> k]]

Contents == {<<>>} \cup {<<k>> : k \in Requests}

Responder ==
  INSTANCE ResponderImpl
    WITH cfg <- responderCfg,
         RequestIds <- Ids, Params <- Requests, Bytes <- Requests,
         ParamLists <- Contents, StdInData <- Contents, Roles <- {"Responder"},
         OtherTypes <- {}, ManagementTypes <- {"GetValues"},
         AbortsProcessing <- FALSE, ReconfiguresWhileBusy <- FALSE,
         DropsResponses <- FALSE, CopiesResponses <- FALSE, DestroysResponder <- FALSE,
         MaxReceived <- 1 + 5 * MaxRequests, MaxStreamRecords <- MaxPieces,
         MaxExceptions <- 0

-----------------------------------------------------------------------------
(* The server, as the requester sees it                                     *)

\* The numbers of a set in ascending order
InOrder(numbers) ==
  [n \in 1..Cardinality(numbers) |->
     CHOOSE i \in numbers : Cardinality({j \in numbers : j <= i}) = n]

Crossed(type) == {i \in 1..taken : wire[i].type = type}
RequestOf(answer) == sent[handed[answer].begin].request
IsPiece(e) == e.type \in {"StdOut", "StdErr"} /\ ~e.last

\* The request that was written first and whose EndRequest has not crossed yet
Serving ==
  [id \in Ids |->
     LET ended == {wire[i].begin : i \in Crossed("EndRequest")}
         begun == {i \in DOMAIN sent : sent[i].record.type = "BeginRequest"
                                        /\ sent[i].record.id = id} \ ended
     IN  IF begun = {} THEN 0 ELSE sent[Min(begun)].request]

Output ==
  [k \in Requests |->
     LET places == InOrder({i \in 1..taken : IsPiece(wire[i]) /\ RequestOf(wire[i].answer) = k})
     IN  [n \in DOMAIN places |-> wire[places[n]].type]]

GetValuesOwed ==
  Cardinality({i \in DOMAIN sent : sent[i].request = 0}) - Cardinality(Crossed("GetValuesResult"))

Requester ==
  INSTANCE RequesterImpl
    WITH cfg <- requesterCfg, serving <- Serving, output <- Output,
         getValuesOwed <- GetValuesOwed,
         MaxReqsValues <- Limits \cup {10}, MultiplexingModes <- MultiplexingModes \cup {TRUE},
         ResultKinds <- {"valid"},
         Statuses <- {"RequestComplete", "Overloaded", "CantMpxConn", "UnknownRole"},
         Cancels <- {}, SendsUnknownTypes <- FALSE, Volunteers <- FALSE,
         MaxPieces <- 2 * MaxPieces, MaxFaults <- 0

ASSUME NoContextAssumption == NoContext \notin Requester!ResponseContext
ASSUME UnregisteredAssumption == Unregistered \notin Responder!RequestData

-----------------------------------------------------------------------------
(* The requester's side                                                     *)

\* Client::sendData
SendData(records) == sent' = sent \o (IF closed THEN <<>> ELSE records)

\* Requester::sendRequest
CallSendRequest ==
  /\ UNCHANGED <<responderVars, taken>>
  /\ \E keep \in KeepModes :
       \/ SendData(GetValues) /\ Requester!OpenConnection(keep)
       \/ /\ requestIdPool # {}
          /\ SendData(RequestRecords(Len(requests) + 1, Requester!SmallestOf(requestIdPool), keep))
          /\ Requester!SendRequest(keep)
       \/ requestIdPool = {} /\ UNCHANGED sent /\ Requester!SendRequest(keep)
       \/ UNCHANGED sent /\ Requester!RejectRequest(keep)

\* What the requester writes while it handles a record: onConnectionSuccess_ sends
\* the request that opened the connection
WrittenFor(r) ==
  LET pool == Requester!AllIds([maxRequestsNumber |-> r.maxReqs, multiplexingEnabled |-> r.mpxs])
  IN  IF r.type = "GetValuesResult"
      THEN RequestRecords(pendingRequest, Requester!SmallestOf(pool), requests[pendingRequest].keep)
      ELSE <<>>

\* Client::onReadyRead, for one record of what it passes to receiveData
RequesterReceives ==
  /\ UNCHANGED <<responderVars, taken>>
  /\ incoming # <<>>
  /\ SendData(WrittenFor(Head(incoming)))
  /\ Requester!OnRecordRead

\* A response handler returns; the end of doEndRequest may call Client::disconnect
HandlerReturns ==
  /\ UNCHANGED <<responderVars, sent, taken>>
  /\ Requester!FinishEndRequest

\* The record the requester reads from what the responder has written; an empty
\* record adds nothing to a response
RecordsFrom(e) ==
  IF e.type = "GetValuesResult"
    THEN <<[type |-> e.type, kind |-> "valid", maxReqs |-> e.maxReqs, mpxs |-> e.mpxs]>>
  ELSE IF e.type = "EndRequest"
    THEN <<[type |-> e.type, id |-> e.id, status |-> e.status, request |-> sent[e.begin].request]>>
  ELSE IF IsPiece(e)
    THEN <<[type |-> e.type, id |-> e.id,
            piece |-> [request |-> RequestOf(e.answer), n |-> Len(Output[RequestOf(e.answer)]) + 1]]>>
  ELSE <<>>

HungUp == Crossed("disconnect") # {}

\* The next thing the responder wrote crosses, up to its disconnect
Cross ==
  /\ ~closed /\ ~HungUp
  /\ taken < Len(wire)
  /\ taken' = taken + 1
  /\ incoming' = incoming \o RecordsFrom(wire[taken + 1])
  /\ UNCHANGED <<requesterVars, responderVars, sent>>

-----------------------------------------------------------------------------
(* The responder's side                                                     *)

\* FCGIGreeter::onReadyRead, for one record of what it passes to receiveData.
\* Records behind the one that led to disconnect may still be in that chunk.
ResponderReceives ==
  /\ Len(received) < Len(sent)
  /\ Responder!HandleRecord(sent[Len(received) + 1].record)
  /\ UNCHANGED <<requesterVars, incoming, sent, taken>>

\* FCGIGreeter::processRequest, or any later time
AnswerRequest(k) ==
  /\ Responder!SendResponse(k)
  /\ UNCHANGED <<requesterVars, incoming, sent, taken>>

\* The setters of Responder, before the connection is used
Configure ==
  /\ received = <<>>
  /\ \/ \E value \in ConnectionLimits : Responder!SetMaximumConnectionsNumber(value)
     \/ \E value \in Limits : Responder!SetMaximumRequestsNumber(value)
     \/ \E state \in MultiplexingModes : Responder!SetMultiplexingEnabled(state)
  /\ UNCHANGED <<requesterVars, incoming, sent, taken>>

-----------------------------------------------------------------------------
Init ==
  /\ sent = <<>>
  /\ taken = 0
  /\ Responder!Init
  /\ Requester!Init

Next ==
  \/ CallSendRequest
  \/ RequesterReceives
  \/ HandlerReturns
  \/ Cross
  \/ ResponderReceives
  \/ \E k \in DOMAIN handed : AnswerRequest(k)
  \/ Configure

Spec == Init /\ [][Next]_vars

\* What is written to an open socket is read, handlers return, and every request
\* is answered
Fairness ==
  /\ WF_vars(RequesterReceives)
  /\ WF_vars(HandlerReturns)
  /\ WF_vars(Cross)
  /\ WF_vars((\A i \in DOMAIN wire : wire[i].type # "disconnect") /\ ResponderReceives)
  /\ \A k \in Requests : WF_vars(k \in DOMAIN handed /\ AnswerRequest(k))

FairSpec == Spec /\ Fairness

-----------------------------------------------------------------------------
(* Properties                                                               *)

\* The responder and the socket are a server as RequesterImpl takes it for
\* granted: it serves one request under an id, answers under that id with the
\* request's own records, ends it once and is silent about it from then on,
\* however requests and answers cross.
RequesterSpec == Requester!Spec

\* A requester that keeps to the limits it was told is never refused: an id is
\* not used again before the responder has forgotten its last request
\* (requestIdPool_ against requestRegistry_, doEndRequest, endRequest).
NeverRefused ==
  \A i \in DOMAIN wire : wire[i].type = "EndRequest" => wire[i].status = "RequestComplete"

PiecesOf(answer, type) ==
  LET pieces == InOrder({i \in DOMAIN wire : IsPiece(wire[i]) /\ wire[i].answer = answer})
      places == InOrder({n \in DOMAIN pieces : wire[pieces[n]].type = type})
  IN  [i \in DOMAIN places |-> [request |-> RequestOf(answer), n |-> places[i]]]

\* From sendRequest over processRequest and Response::send to the response
\* handler: a response handler is given all that the application answered to
\* this request, and the application was given this request's own parameters
\* and data.
AnswersReachTheirRequests ==
  \A k \in DOMAIN requests : \A i \in DOMAIN requests[k].outcomes :
    LET outcome == requests[k].outcomes[i]
    IN  outcome.status = "Successful" =>
          \E a \in DOMAIN handed :
            /\ handed[a].response = "sent" /\ RequestOf(a) = k
            /\ handed[a].params = <<k>> /\ handed[a].stdIn = <<k>>
            /\ outcome.data = PiecesOf(a, "StdOut")
            /\ outcome.errorMsg = PiecesOf(a, "StdErr")

\* Each request is answered in the end, unless one that did not ask to keep the
\* connection has closed it (endRequest's and doEndRequest's disconnect).
EveryRequestIsAnswered == Requester!EveryRequestIsAnswered
=============================================================================
