---------------------------- MODULE ResponderImpl ----------------------------
(***************************************************************************)
(* The responder side of a FastCGI connection: class ResponderImpl         *)
(* (src/responderimpl.cpp), the RequestData it keeps for every open        *)
(* request (src/requestdata.cpp) and the Response objects it hands to the  *)
(* application (src/response.cpp).                                         *)
(*                                                                         *)
(* The web server and the application are the environment.  Records reach  *)
(* onRecordRead one at a time (RecordReader.tla models how they are cut    *)
(* out of the byte stream), in any order the web server likes.  The        *)
(* application answers the requests it holds in any order, from inside     *)
(* processRequest or later, and may change the configuration at any time.  *)
(* The library is single-threaded, so each handler is one action; the only *)
(* way to leave a handler half way is an exception thrown by sendData or   *)
(* disconnect, the two callbacks the application implements.               *)
(***************************************************************************)
EXTENDS Integers, Sequences, FiniteSets

CONSTANTS
  RequestIds,         \* ids the web server uses (std::uint16_t)
  Params,             \* name-value pairs
  Bytes,              \* what StdIn carries
  ParamLists,         \* contents of Params records: sequences of pairs
  StdInData,          \* contents of StdIn records: sequences of bytes
  Roles,              \* roles asked for by BeginRequest records
  KeepModes,          \* values of the keep-connection flag of BeginRequest
  OtherTypes,         \* record types without a handler (StdOut, Data, ...)
  ManagementTypes,    \* records without a request: "GetValues" and "Invalid",
                      \*   one whose type the protocol does not have
  ConnectionLimits,   \* arguments of setMaximumConnectionsNumber
  Limits,             \* arguments of setMaximumRequestsNumber
  MultiplexingModes   \* arguments of setMultiplexingEnabled

CONSTANTS             \* what the environment may do
  AbortsProcessing,       \* abort a request the application already holds
  ReconfiguresWhileBusy,  \* call the setters while requests are open
  DropsResponses,         \* destroy a Response without sending it
  CopiesResponses,        \* send a Response of which there is a copy
  DestroysResponder       \* destroy the Responder

CONSTANTS             \* bounds of the model
  MaxReceived,        \* records received on the connection
  MaxStreamRecords,   \* non-empty records of a StdOut or StdErr stream
  MaxExceptions,      \* exceptions out of a callback, and stale Responses sent
  Unregistered        \* "no entry in the registry"

VARIABLES
  cfg,                \* ResponderImpl::cfg_
  requestRegistry,    \* ResponderImpl::requestRegistry_
  alive,              \* the ResponderImpl, and its responseSender_, exist
  received,           \* history: the records passed to onRecordRead
  handed,             \* history: requests passed to processRequest, and
                      \*   the state of their Response objects
  wire,               \* history: records given to sendData, disconnects
  exceptions          \* number of exceptions out of sendData or disconnect

vars == <<cfg, requestRegistry, alive, received, handed, wire, exceptions>>

-----------------------------------------------------------------------------
(* Records                                                                  *)

IncomingRecord ==
       [type : {"BeginRequest"}, id : RequestIds, role : Roles, keep : KeepModes]
  \cup [type : {"AbortRequest"}, id : RequestIds]
  \cup [type : {"Params"}, id : RequestIds, content : ParamLists]
  \cup [type : {"StdIn"}, id : RequestIds, content : StdInData]
  \cup [type : OtherTypes, id : RequestIds]
  \cup [type : ManagementTypes]

\* `begin' is a ghost: the position in `received' of the BeginRequest that is
\* answered, 0 if there is none.  `answer' tells whose data a record carries.
OutgoingRecord ==
       [type : {"EndRequest"}, id : RequestIds, status :
          {"RequestComplete", "UnknownRole", "CantMpxConn", "Overloaded"},
        begin : Nat]
  \cup [type : {"StdOut", "StdErr"}, id : RequestIds, answer : Nat, last : BOOLEAN]
  \cup [type : {"GetValuesResult"}, maxConns : Int, maxReqs : Int, mpxs : BOOLEAN]
  \cup [type : {"UnknownType"}]

Disconnect == [type |-> "disconnect"]
OutgoingEvent == OutgoingRecord \cup {Disconnect}

RequestData ==
  [keepConnection : BOOLEAN, usedInRequest : BOOLEAN,
   params : Seq(Params), stdIn : Seq(Bytes), begin : Nat]

HandedRequest ==
  [id : RequestIds, begin : Nat, end : Nat, params : Seq(Params),
   stdIn : Seq(Bytes), response : {"valid", "sent", "dropped"}]

\* Mutant: the id is lost, as in sendMessage(0, ...)
EndRequestRecordWithoutId(id, status, begin) ==
  [type |-> "EndRequest", id |-> 0, status |-> status, begin |-> begin]

\* MsgEndRequest for `id', ending the request opened by received[begin]
EndRequestRecord(id, status, begin) ==
  [type |-> "EndRequest", id |-> id, status |-> status, begin |-> begin]

\* Mutant: a stream is not terminated
UnterminatedStream(type, id, answer, n) ==
  [j \in 1..n |-> [type |-> type, id |-> id, answer |-> answer, last |-> FALSE]]

\* makeStream: the non-empty records of a stream and its terminator
MakeStream(type, id, answer, n) ==
  [j \in 1..(n + 1) |->
     [type |-> type, id |-> id, answer |-> answer, last |-> j = n + 1]]

ASSUME ContentAssumption == ParamLists \subseteq Seq(Params)
                            /\ StdInData \subseteq Seq(Bytes)
ASSUME ModesAssumption == KeepModes \subseteq BOOLEAN
                          /\ MultiplexingModes \subseteq BOOLEAN
                          /\ Limits \subseteq Int /\ ConnectionLimits \subseteq Int
ASSUME TypesAssumption ==
  /\ OtherTypes \cap {"BeginRequest", "AbortRequest", "Params", "StdIn", "GetValues",
                      "Invalid"} = {}
  /\ ManagementTypes \subseteq {"GetValues", "Invalid"}
ASSUME RegistryAssumption == IsFiniteSet(RequestIds) /\ Unregistered \notin RequestData
ASSUME BoundsAssumption == MaxStreamRecords \in Nat

-----------------------------------------------------------------------------
(* The registry and the two callbacks that can throw                        *)

Registered(id) == requestRegistry[id] # Unregistered
RegisteredIds == {id \in RequestIds : Registered(id)}
RegistrySize == Cardinality(RegisteredIds)

\* The handler runs to its end and makes these calls
Emit(events) == wire' = wire \o events /\ UNCHANGED exceptions

\* sendData or disconnect throws out of one of the calls: the rest of the
\* handler does not run
EmitThrows(events) ==
  /\ exceptions < MaxExceptions
  /\ exceptions' = exceptions + 1
  /\ \E n \in 0..(Len(events) - 1) : wire' = wire \o SubSeq(events, 1, n)

\* Mutant: keepConnection is not looked at
AlwaysDisconnects(id) ==
  <<EndRequestRecord(id, "RequestComplete", requestRegistry[id].begin), Disconnect>>

\* ResponderImpl::endRequest tells the web server and closes the connection
\* unless it was asked to keep it; the entry is erased last
EndEvents(id) ==
  <<EndRequestRecord(id, "RequestComplete", requestRegistry[id].begin)>>
  \o (IF requestRegistry[id].keepConnection THEN <<>> ELSE <<Disconnect>>)

\* Mutant: the entry stays
KeepsEntry(id) == UNCHANGED requestRegistry

DeleteRequest(id) ==
  requestRegistry' = [requestRegistry EXCEPT ![id] = Unregistered]

-----------------------------------------------------------------------------
(* Handlers of received records                                             *)

\* Mutant: a BeginRequest may replace an entry
ExpectsAnyBeginRequest(r) ==
  r.type \in {"GetValues", "BeginRequest"} \/ Registered(r.id)

IsRecordExpected(r) ==
  r.type = "GetValues" \/ (r.type = "BeginRequest" <=> ~Registered(r.id))

Receive(r) ==
  /\ alive
  /\ Len(received) < MaxReceived
  /\ received' = Append(received, r)

OnUnexpectedRecord(r) ==
  /\ Receive(r)
  /\ r.type \notin ManagementTypes
  /\ ~IsRecordExpected(r)
  /\ UNCHANGED <<cfg, requestRegistry, alive, handed, wire, exceptions>>

\* Mutant: the request itself is counted twice
RefusesTooLate(r) ==
  IF r.role # "Responder" THEN "UnknownRole"
  ELSE IF ~cfg.multiplexingEnabled /\ RegisteredIds # {} THEN "CantMpxConn"
  ELSE IF RegistrySize > cfg.maxRequestsNumber THEN "Overloaded"
  ELSE "none"

\* Mutant: multiplexing is not looked at
IgnoresMultiplexing(r) ==
  IF r.role # "Responder" THEN "UnknownRole"
  ELSE IF RegistrySize = cfg.maxRequestsNumber THEN "Overloaded"
  ELSE "none"

\* The status with which a BeginRequest is turned down
Refusal(r) ==
  IF r.role # "Responder" THEN "UnknownRole"
  ELSE IF ~cfg.multiplexingEnabled /\ RegisteredIds # {} THEN "CantMpxConn"
  ELSE IF RegistrySize = cfg.maxRequestsNumber THEN "Overloaded"
  ELSE "none"

OnBeginRequest(r) ==
  LET refusal == Refusal(r)
      begin == Len(received) + 1
      refuse == <<EndRequestRecord(r.id, refusal, begin)>>
                \o (IF r.keep THEN <<>> ELSE <<Disconnect>>)
  IN  /\ Receive(r)
      /\ r.type = "BeginRequest"
      /\ IsRecordExpected(r)
      /\ \/ /\ refusal = "none"
            /\ requestRegistry' = [requestRegistry EXCEPT ![r.id] =
                 [keepConnection |-> r.keep, usedInRequest |-> FALSE,
                  params |-> <<>>, stdIn |-> <<>>, begin |-> begin]]
            /\ UNCHANGED <<wire, exceptions>>
         \/ /\ refusal # "none"
            /\ Emit(refuse) \/ EmitThrows(refuse)
            /\ UNCHANGED requestRegistry
      /\ UNCHANGED <<cfg, alive, handed>>

OnAbortRequest(r) ==
  /\ Receive(r)
  /\ r.type = "AbortRequest"
  /\ IsRecordExpected(r)
  /\ \/ Emit(EndEvents(r.id)) /\ DeleteRequest(r.id)
     \/ EmitThrows(EndEvents(r.id)) /\ UNCHANGED requestRegistry
  /\ UNCHANGED <<cfg, alive, handed>>

OnGetValues(r) ==
  LET result == <<[type |-> "GetValuesResult", maxConns |-> cfg.maxConnectionsNumber,
                   maxReqs |-> cfg.maxRequestsNumber, mpxs |-> cfg.multiplexingEnabled]>>
  IN  /\ Receive(r)
      /\ r.type = "GetValues"
      /\ Emit(result) \/ EmitThrows(result)
      /\ UNCHANGED <<cfg, requestRegistry, alive, handed>>

\* The reader's second handler, for a record whose type is unknown
OnInvalidRecordType(r) ==
  /\ Receive(r)
  /\ r.type = "Invalid"
  /\ Emit(<<[type |-> "UnknownType"]>>) \/ EmitThrows(<<[type |-> "UnknownType"]>>)
  /\ UNCHANGED <<cfg, requestRegistry, alive, handed>>

\* Mutant: later parameters come first
PrependParams(data, content) == [data EXCEPT !.params = content \o @]

\* RequestData::addMessage.  The names within one Params record are distinct:
\* of equal names in a record the code reads the first one's value each time.
AddParams(data, content) == [data EXCEPT !.params = @ \o content]
AddStdIn(data, content) == [data EXCEPT !.stdIn = @ \o content]

OnParams(r) ==
  /\ Receive(r)
  /\ r.type = "Params"
  /\ IsRecordExpected(r)
  /\ requestRegistry' =
       [requestRegistry EXCEPT ![r.id] = AddParams(@, r.content)]
  /\ UNCHANGED <<cfg, alive, handed, wire, exceptions>>

\* Mutant: usedInRequest_ is not looked at
MakesRequestAgain(data, content) == content = <<>>

\* An empty StdIn record ends the request, which RequestData::makeRequest lets
\* out once
MakesRequest(data, content) == content = <<>> /\ ~data.usedInRequest

OnStdIn(r) ==
  LET data == requestRegistry[r.id]
      makeRequest == MakesRequest(data, r.content)
      request == [id |-> r.id, begin |-> data.begin, end |-> Len(received) + 1,
                  params |-> data.params, stdIn |-> data.stdIn, response |-> "valid"]
  IN  /\ Receive(r)
      /\ r.type = "StdIn"
      /\ IsRecordExpected(r)
      /\ \/ /\ ~makeRequest
            /\ requestRegistry' =
                 [requestRegistry EXCEPT ![r.id] = AddStdIn(@, r.content)]
            /\ UNCHANGED handed
         \/ /\ makeRequest
            /\ requestRegistry' = [requestRegistry EXCEPT ![r.id] =
                 [data EXCEPT !.usedInRequest = TRUE, !.params = <<>>, !.stdIn = <<>>]]
            /\ handed' = Append(handed, request)
      /\ UNCHANGED <<cfg, alive, wire, exceptions>>

\* onRecordRead's default branch
OnOtherRecord(r) ==
  /\ Receive(r)
  /\ r.type \in OtherTypes
  /\ IsRecordExpected(r)
  /\ UNCHANGED <<cfg, requestRegistry, alive, handed, wire, exceptions>>

\* What the web server is assumed to send
WebServerSends(r) ==
  r.type = "AbortRequest" /\ Registered(r.id) /\ requestRegistry[r.id].usedInRequest
    => AbortsProcessing

HandleRecord(r) ==
  \/ OnUnexpectedRecord(r)
  \/ OnBeginRequest(r)
  \/ OnAbortRequest(r)
  \/ OnGetValues(r)
  \/ OnInvalidRecordType(r)
  \/ OnParams(r)
  \/ OnStdIn(r)
  \/ OnOtherRecord(r)

OnRecordRead == \E r \in IncomingRecord : WebServerSends(r) /\ HandleRecord(r)

-----------------------------------------------------------------------------
(* Calls of the application                                                 *)

ResponseState(k, state) == handed' = [handed EXCEPT ![k].response = state]

\* Mutant: Response::send forgets its sender before the call
ForgetsSender(k) == ResponseState(k, "sent") /\ UNCHANGED requestRegistry

\* Mutant: endRequest erases the entry before it sends
ErasesFirst(k) == DeleteRequest(handed[k].id) /\ UNCHANGED handed

\* Response::send empties the sender_ of the object it is called for; a copy of
\* the object keeps its own
AfterSend(k) ==
  \/ ResponseState(k, "sent")
  \/ CopiesResponses /\ UNCHANGED handed

\* What an exception out of sendData or disconnect leaves behind
AfterException(k) == UNCHANGED <<requestRegistry, handed>>

\* The EndRequests sent for Responses whose request was gone
StaleEnds == {i \in DOMAIN wire : wire[i].type = "EndRequest" /\ wire[i].begin = 0}

\* Response::send while the Responder exists: sendResponse.  The two streams go
\* out before endRequest looks the request up; if it is gone, `at' throws
\* after EndRequest was sent.  An exception leaves the Response valid.
SendResponse(k) ==
  LET id == handed[k].id
  IN  /\ alive
      /\ handed[k].response = "valid"
      /\ \E nOut, nErr \in 0..MaxStreamRecords :
           LET streams == MakeStream("StdOut", id, k, nOut)
                          \o MakeStream("StdErr", id, k, nErr)
               stale == streams \o <<EndRequestRecord(id, "RequestComplete", 0)>>
           IN  \/ /\ Registered(id)
                  /\ \/ /\ Emit(streams \o EndEvents(id))
                        /\ DeleteRequest(id)
                        /\ AfterSend(k)
                     \/ EmitThrows(streams \o EndEvents(id)) /\ AfterException(k)
               \/ /\ ~Registered(id)
                  /\ \/ Cardinality(StaleEnds) < MaxExceptions /\ Emit(stale)
                     \/ EmitThrows(stale)
                  /\ AfterException(k)
      /\ UNCHANGED <<cfg, alive, received>>

\* Response::send after the Responder is gone: the weak_ptr to its sender has
\* expired, nothing is sent
SendOrphanedResponse(k) ==
  /\ ~alive
  /\ handed[k].response = "valid"
  /\ ResponseState(k, "sent")
  /\ UNCHANGED <<cfg, requestRegistry, alive, received, wire, exceptions>>

\* The application destroys a Response it did not send: ~Response does nothing
DropResponse(k) ==
  /\ DropsResponses
  /\ handed[k].response = "valid"
  /\ ResponseState(k, "dropped")
  /\ UNCHANGED <<cfg, requestRegistry, alive, received, wire, exceptions>>

MayReconfigure == alive /\ (ReconfiguresWhileBusy \/ RegisteredIds = {})

SetMaximumConnectionsNumber(value) ==
  /\ MayReconfigure
  /\ cfg' = [cfg EXCEPT !.maxConnectionsNumber = value]
  /\ UNCHANGED <<requestRegistry, alive, received, handed, wire, exceptions>>

SetMaximumRequestsNumber(value) ==
  /\ MayReconfigure
  /\ cfg' = [cfg EXCEPT !.maxRequestsNumber = value]
  /\ UNCHANGED <<requestRegistry, alive, received, handed, wire, exceptions>>

SetMultiplexingEnabled(state) ==
  /\ MayReconfigure
  /\ cfg' = [cfg EXCEPT !.multiplexingEnabled = state]
  /\ UNCHANGED <<requestRegistry, alive, received, handed, wire, exceptions>>

DestroyResponder ==
  /\ DestroysResponder
  /\ alive
  /\ alive' = FALSE
  /\ UNCHANGED <<cfg, requestRegistry, received, handed, wire, exceptions>>

ApplicationStep ==
  \/ \E k \in DOMAIN handed :
       SendResponse(k) \/ SendOrphanedResponse(k) \/ DropResponse(k)
  \/ \E value \in ConnectionLimits : SetMaximumConnectionsNumber(value)
  \/ \E value \in Limits : SetMaximumRequestsNumber(value)
  \/ \E state \in MultiplexingModes : SetMultiplexingEnabled(state)
  \/ DestroyResponder

-----------------------------------------------------------------------------
Init ==
  /\ cfg = [maxConnectionsNumber |-> 1, maxRequestsNumber |-> 10, multiplexingEnabled |-> TRUE]
  /\ requestRegistry = [id \in RequestIds |-> Unregistered]
  /\ alive = TRUE
  /\ received = <<>>
  /\ handed = <<>>
  /\ wire = <<>>
  /\ exceptions = 0

Next == OnRecordRead \/ ApplicationStep

Spec == Init /\ [][Next]_vars

\* The application sends every Response it holds
Fairness == \A k \in 1..MaxReceived :
              WF_vars(k \in DOMAIN handed /\ SendResponse(k))

FairSpec == Spec /\ Fairness

-----------------------------------------------------------------------------
(* Properties                                                               *)

TypeOK ==
  /\ cfg \in [maxConnectionsNumber : Int, maxRequestsNumber : Int,
             multiplexingEnabled : BOOLEAN]
  /\ requestRegistry \in [RequestIds -> RequestData \cup {Unregistered}]
  /\ alive \in BOOLEAN
  /\ received \in Seq(IncomingRecord)
  /\ handed \in Seq(HandedRequest)
  /\ wire \in Seq(OutgoingEvent)
  /\ exceptions \in Nat

\* A BeginRequest leads to at most one call of processRequest, however many
\* empty StdIn records follow it (RequestData::usedInRequest_).
ProcessedOnce ==
  \A j, k \in DOMAIN handed : handed[j].begin = handed[k].begin => j = k

\* What the records[lo..hi] of one type carry for request `id'
ContentOf(records, type, id, lo, hi) ==
  LET content[n \in Nat] ==
        IF n < lo THEN <<>>
        ELSE IF records[n].type = type /\ records[n].id = id
          THEN content[n - 1] \o records[n].content
          ELSE content[n - 1]
  IN  content[hi]

\* The application gets exactly the parameters and the data that the web
\* server sent under the request's id between its BeginRequest and the end of
\* its StdIn, whatever is multiplexed in between and whatever the id was used
\* for earlier (onParams, onStdIn, RequestData::makeRequest, deleteRequest).
ProcessedContentIsOwn ==
  \A k \in DOMAIN handed :
    LET h == handed[k]
    IN  /\ received[h.begin].type = "BeginRequest"
        /\ received[h.begin].id = h.id
        /\ h.params = ContentOf(received, "Params", h.id, h.begin, h.end)
        /\ h.stdIn = ContentOf(received, "StdIn", h.id, h.begin, h.end)

\* The registry never holds more requests than the configured maximum
\* (onBeginRequest's Overloaded branch).
RequestsWithinLimit == RegistrySize <= cfg.maxRequestsNumber

\* With multiplexing disabled one request at most is open (onBeginRequest's
\* CantMpxConn branch).
SingleRequestWithoutMultiplexing ==
  ~cfg.multiplexingEnabled => RegistrySize <= 1

\* A request that was passed to the application and is still open can be
\* answered: a Response for it exists that was not sent yet.
OpenRequestIsAnswerable ==
  \A id \in RequestIds :
    alive /\ Registered(id) /\ requestRegistry[id].usedInRequest =>
      \E k \in DOMAIN handed : /\ handed[k].begin = requestRegistry[id].begin
                               /\ handed[k].response = "valid"

\* A Response that is valid stands for a request that is open: sending it ends
\* that request and no other.
ValidResponseCanBeSent ==
  \A k \in DOMAIN handed : handed[k].response = "valid" =>
    /\ Registered(handed[k].id)
    /\ requestRegistry[handed[k].id].begin = handed[k].begin

IsEnd(i) == wire[i].type = "EndRequest"
IsStream(e) == e.type \in {"StdOut", "StdErr"}

\* EndRequest is only sent for a request the web server has open, and once
\* for each BeginRequest, over refusals, aborts and answers.
EndsOpenRequestOnce ==
  \A i \in DOMAIN wire : IsEnd(i) =>
    /\ wire[i].begin # 0
    /\ received[wire[i].begin].id = wire[i].id
    /\ \A j \in DOMAIN wire : IsEnd(j) /\ wire[j].begin = wire[i].begin => i = j

\* As long as no callback throws, EndRequest closes a request for good: under the
\* id of its BeginRequest, with its entry gone, and once, however the
\* web server aborts what the application holds, copies of Responses are sent and
\* stale ones meet another request with their id (endRequest, deleteRequest).
EndRequestIsFinal ==
  exceptions = 0 =>
    \A i \in DOMAIN wire : IsEnd(i) /\ wire[i].begin # 0 =>
      /\ received[wire[i].begin].id = wire[i].id
      /\ \A id \in RegisteredIds : requestRegistry[id].begin # wire[i].begin
      /\ \A j \in DOMAIN wire : IsEnd(j) /\ wire[j].begin = wire[i].begin => i = j

\* disconnect is called right after the EndRequest of a request whose
\* BeginRequest did not ask to keep the connection, and after each of those.
KeepConnectionIsHonoured ==
  /\ \A i \in DOMAIN wire : wire[i] = Disconnect => i > 1 /\ IsEnd(i - 1)
  /\ \A i \in DOMAIN wire : IsEnd(i) /\ wire[i].begin # 0 =>
       (received[wire[i].begin].keep
          <=> ~(i < Len(wire) /\ wire[i + 1] = Disconnect))

\* wire[first..split] is a whole StdOut stream and what follows it up to wire[end]
\* a whole StdErr stream, of the answer that wire[end] ends
IsAnswer(first, split, end) ==
  /\ IsEnd(end)
  /\ \A i \in first..(end - 1) :
       /\ wire[i].type = IF i <= split THEN "StdOut" ELSE "StdErr"
       /\ wire[i].id = wire[end].id
       /\ wire[i].answer = wire[first].answer
       /\ wire[i].last <=> i \in {split, end - 1}

\* Every stream record is part of one complete answer: both streams are
\* terminated, in order, not mixed with those of another answer, and its
\* EndRequest follows (sendResponse, makeStream).
EndFollowsWholeAnswer ==
  \A i \in DOMAIN wire : IsStream(wire[i]) =>
    \E end \in (i + 1)..Len(wire) : \E first \in 1..i, split \in 1..(end - 2) :
      first <= split /\ IsAnswer(first, split, end)

\* The data of a Response only goes out under an id while that id stands for
\* the request the Response was made for.
AnswersOwnRequest ==
  [][\A i \in (Len(wire) + 1)..Len(wire') : IsStream(wire'[i]) =>
       /\ Registered(wire'[i].id)
       /\ requestRegistry[wire'[i].id].begin = handed[wire'[i].answer].begin]_vars

\* A request leaves the registry only in a step that completes its EndRequest
\* and, if the web server asked for it, the disconnect: no exception thrown by
\* the application's callbacks loses an open request.
LeavesWithEndRequest ==
  [][\A id \in RequestIds :
       Registered(id) /\ requestRegistry'[id] # requestRegistry[id]
         /\ requestRegistry'[id] = Unregistered =>
       LET begin == requestRegistry[id].begin
           end == IF received[begin].keep THEN Len(wire') ELSE Len(wire') - 1
       IN  /\ end > Len(wire)
           /\ wire'[end] = EndRequestRecord(id, "RequestComplete", begin)]_vars

-----------------------------------------------------------------------------
(* The abstract view                                                        *)

OpenRequests ==
  [id \in RequestIds |-> IF Registered(id) THEN requestRegistry[id].begin ELSE 0]
HandedRequests == {handed[k].begin : k \in DOMAIN handed}
EndedRequests == {wire[i].begin : i \in {j \in DOMAIN wire : IsEnd(j)}} \ {0}

\* Each request goes through its life as RequestLifecycle says: it gets an id
\* that no open request has, is handed out once while it is open, and gives
\* its id back with its EndRequest, through exceptions, aborts, copied and stale
\* Responses, and only while the Responder exists.  An application that sends
\* its Responses sees every request it was given ended: an exception out of
\* sendData leaves the Response in a state from which the next send completes.
Lifecycle ==
  INSTANCE RequestLifecycle
    WITH Ids <- RequestIds, Requests <- 1..MaxReceived, records <- Len(received), open <- OpenRequests,
         handed <- HandedRequests, ended <- EndedRequests, closed <- ~alive
LifecycleSpec == Lifecycle!Spec

-----------------------------------------------------------------------------
(* What the comments of the public headers say                              *)

\* responder.h:27 "Incoming requests are dropped when their number exceeds
\* this limit": no request is accepted beyond the limit in force.
IncomingRequestsDropped ==
  [][\A id \in RequestIds : ~Registered(id) /\ Registered(id)' =>
       RegistrySize' <= cfg.maxRequestsNumber]_vars
=============================================================================
