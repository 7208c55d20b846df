------------------------- MODULE ResponderImplProofs --------------------------
(***************************************************************************)
(* For every set of request ids, every content, every limit and every      *)
(* bound: types, the limits on the registry, that a request is processed   *)
(* once, and that an answer goes out under the id of its own request.      *)
(***************************************************************************)
EXTENDS ResponderImpl, TLAPS, SequenceTheorems, FiniteSetTheorems

-----------------------------------------------------------------------------
(* Types                                                                    *)

\* What the handlers rely on: the fields each type of record has.
LEMMA RecordFields ==
  ASSUME NEW r \in IncomingRecord
  PROVE  /\ r.type = "BeginRequest" => r.id \in RequestIds /\ r.keep \in BOOLEAN
         /\ r.type = "AbortRequest" => r.id \in RequestIds
         /\ r.type = "Params" => r.id \in RequestIds /\ r.content \in Seq(Params)
         /\ r.type = "StdIn" => r.id \in RequestIds /\ r.content \in Seq(Bytes)
BY ContentAssumption, ModesAssumption, TypesAssumption DEF IncomingRecord

\* Every call of a callback is one the model's history can hold.
LEMMA EventTypes ==
  /\ Disconnect \in OutgoingEvent
  /\ \A id \in RequestIds, begin \in Nat :
       \A status \in {"RequestComplete", "UnknownRole", "CantMpxConn", "Overloaded"} :
         EndRequestRecord(id, status, begin) \in OutgoingEvent
BY DEF Disconnect, OutgoingEvent, OutgoingRecord, EndRequestRecord

\* An entry of the registry that is there has all its fields.
LEMMA EntryType ==
  ASSUME TypeOK, NEW id \in RequestIds, Registered(id)
  PROVE  /\ requestRegistry[id] \in RequestData
         /\ requestRegistry[id].keepConnection \in BOOLEAN
         /\ requestRegistry[id].usedInRequest \in BOOLEAN
         /\ requestRegistry[id].params \in Seq(Params)
         /\ requestRegistry[id].stdIn \in Seq(Bytes)
         /\ requestRegistry[id].begin \in Nat
<1>1. requestRegistry[id] \in RequestData
  BY DEF TypeOK, Registered
<1> QED
  BY <1>1 DEF RequestData

\* The calls that endRequest makes.
LEMMA EndEventsType ==
  ASSUME TypeOK, NEW id \in RequestIds, Registered(id)
  PROVE  EndEvents(id) \in Seq(OutgoingEvent)
<1> DEFINE end == EndRequestRecord(id, "RequestComplete", requestRegistry[id].begin)
<1>1. end \in OutgoingEvent
  BY EntryType, EventTypes
<1> HIDE DEF end
<1>2. <<end>> \in Seq(OutgoingEvent)
  BY <1>1
<1>3. <<>> \in Seq(OutgoingEvent) /\ <<Disconnect>> \in Seq(OutgoingEvent)
  BY EventTypes
<1>4. <<end>> \o <<>> \in Seq(OutgoingEvent) /\ <<end>> \o <<Disconnect>> \in Seq(OutgoingEvent)
  BY <1>2, <1>3, ConcatProperties
<1> QED
  BY <1>4 DEF EndEvents, end

\* The records of a stream.
LEMMA MakeStreamType ==
  ASSUME NEW type \in {"StdOut", "StdErr"}, NEW id \in RequestIds,
         NEW k \in Nat, NEW n \in Nat
  PROVE  MakeStream(type, id, k, n) \in Seq(OutgoingEvent)
<1>1. \A j \in 1..(n + 1) :
        [type |-> type, id |-> id, answer |-> k, last |-> j = n + 1] \in OutgoingEvent
  BY DEF OutgoingEvent, OutgoingRecord
<1>2. n + 1 \in Nat
  OBVIOUS
<1> QED
  BY <1>1, <1>2 DEF MakeStream

\* Whatever part of the calls is made before an exception, the wire holds events.
LEMMA EmitType ==
  ASSUME TypeOK, NEW events \in Seq(OutgoingEvent), Emit(events) \/ EmitThrows(events)
  PROVE  wire' \in Seq(OutgoingEvent) /\ exceptions' \in Nat
<1>1. CASE Emit(events)
  BY <1>1, ConcatProperties DEF Emit, TypeOK
<1>2. CASE EmitThrows(events)
  <2>1. PICK n \in 0..(Len(events) - 1) : wire' = wire \o SubSeq(events, 1, n)
    BY <1>2 DEF EmitThrows
  <2>2. Len(events) \in Nat /\ \A i \in 1..n : events[i] \in OutgoingEvent
    BY LenProperties, ElementOfSeq
  <2>3. SubSeq(events, 1, n) \in Seq(OutgoingEvent)
    BY <2>2, SubSeqProperties
  <2> QED
    BY <1>2, <2>1, <2>3, ConcatProperties DEF EmitThrows, TypeOK
<1> QED
  BY <1>1, <1>2

\* The history of received records.
LEMMA ReceiveType ==
  ASSUME TypeOK, NEW r \in IncomingRecord, Receive(r)
  PROVE  received' \in Seq(IncomingRecord) /\ Len(received) \in Nat
BY AppendProperties, LenProperties DEF Receive, TypeOK

\* The types hold in a new Responder.
LEMMA InitTypeOK == Init => TypeOK
<1> SUFFICES ASSUME Init PROVE TypeOK
  OBVIOUS
<1>1. <<>> \in Seq(IncomingRecord) /\ <<>> \in Seq(HandedRequest) /\ <<>> \in Seq(OutgoingEvent)
  BY EmptySeq
<1> QED
  BY <1>1 DEF Init, TypeOK

\* onBeginRequest keeps the types, on each of its four ways out.
LEMMA BeginRequestType ==
  ASSUME TypeOK, NEW r \in IncomingRecord, OnBeginRequest(r)
  PROVE  TypeOK'
<1>1. r.type = "BeginRequest" /\ r.id \in RequestIds /\ r.keep \in BOOLEAN /\ Receive(r)
  BY RecordFields DEF OnBeginRequest, Refusal
<1>2. received' \in Seq(IncomingRecord) /\ Len(received) + 1 \in Nat
  BY <1>1, ReceiveType
<1> DEFINE refusal == IF r.role # "Responder" THEN "UnknownRole"
                      ELSE IF ~cfg.multiplexingEnabled /\ RegisteredIds # {} THEN "CantMpxConn"
                      ELSE IF RegistrySize = cfg.maxRequestsNumber THEN "Overloaded"
                      ELSE "none"
           refuse == <<EndRequestRecord(r.id, refusal, Len(received) + 1)>>
                       \o (IF r.keep THEN <<>> ELSE <<Disconnect>>)
           entry == [keepConnection |-> r.keep, usedInRequest |-> FALSE,
                     params |-> <<>>, stdIn |-> <<>>, begin |-> Len(received) + 1]
<1>3. CASE refusal = "none"
  <2>1. requestRegistry' = [requestRegistry EXCEPT ![r.id] = entry]
        /\ UNCHANGED <<wire, exceptions, cfg, alive, handed>>
    BY <1>3 DEF OnBeginRequest, Refusal
  <2>2. entry \in RequestData
    BY <1>1, <1>2, EmptySeq DEF RequestData
  <2> QED
    BY <1>2, <2>1, <2>2 DEF TypeOK
<1>4. CASE refusal # "none"
  <2>1. /\ Emit(refuse) \/ EmitThrows(refuse)
        /\ UNCHANGED <<requestRegistry, cfg, alive, handed>>
    BY <1>4 DEF OnBeginRequest, Refusal
  <2>2. EndRequestRecord(r.id, refusal, Len(received) + 1) \in OutgoingEvent
    BY <1>1, <1>2, <1>4, EventTypes
  <2>3. refuse \in Seq(OutgoingEvent)
    <3> HIDE DEF refusal
    <3>1. <<EndRequestRecord(r.id, refusal, Len(received) + 1)>> \in Seq(OutgoingEvent)
      BY <2>2
    <3>2. (IF r.keep THEN <<>> ELSE <<Disconnect>>) \in Seq(OutgoingEvent)
      BY EventTypes
    <3> QED
      BY <3>1, <3>2, ConcatProperties
  <2>4. wire' \in Seq(OutgoingEvent) /\ exceptions' \in Nat
    BY <2>1, <2>3, EmitType
  <2> QED
    BY <1>2, <2>1, <2>4 DEF TypeOK
<1> QED
  BY <1>3, <1>4

\* An abort keeps the types.
LEMMA AbortRequestType ==
  ASSUME TypeOK, NEW r \in IncomingRecord, OnAbortRequest(r)
  PROVE  TypeOK'
<1>1. r.id \in RequestIds /\ Receive(r) /\ Registered(r.id)
  BY RecordFields DEF OnAbortRequest, IsRecordExpected
<1>2. received' \in Seq(IncomingRecord)
  BY <1>1, ReceiveType
<1>3. wire' \in Seq(OutgoingEvent) /\ exceptions' \in Nat
  BY <1>1, EndEventsType, EmitType DEF OnAbortRequest
<1>4. requestRegistry' \in [RequestIds -> RequestData \cup {Unregistered}]
  BY DEF OnAbortRequest, DeleteRequest, TypeOK
<1> QED
  BY <1>2, <1>3, <1>4 DEF OnAbortRequest, TypeOK

\* The answers to management records keep the types.
LEMMA ManagementType ==
  ASSUME TypeOK, NEW r \in IncomingRecord, OnGetValues(r) \/ OnInvalidRecordType(r)
  PROVE  TypeOK'
<1> DEFINE result == [type |-> "GetValuesResult", maxConns |-> cfg.maxConnectionsNumber,
                      maxReqs |-> cfg.maxRequestsNumber, mpxs |-> cfg.multiplexingEnabled]
<1>1. result \in OutgoingEvent /\ [type |-> "UnknownType"] \in OutgoingEvent
  BY DEF TypeOK, OutgoingEvent, OutgoingRecord
<1>2. <<result>> \in Seq(OutgoingEvent) /\ <<[type |-> "UnknownType"]>> \in Seq(OutgoingEvent)
  BY <1>1
<1>3. wire' \in Seq(OutgoingEvent) /\ exceptions' \in Nat
  BY <1>2, EmitType DEF OnGetValues, OnInvalidRecordType
<1>4. received' \in Seq(IncomingRecord)
  BY ReceiveType DEF OnGetValues, OnInvalidRecordType
<1>5. UNCHANGED <<cfg, requestRegistry, alive, handed>>
  BY DEF OnGetValues, OnInvalidRecordType
<1> QED
  BY <1>3, <1>4, <1>5 DEF TypeOK

\* Collecting the content of a request, and handing it over, keeps the types.
LEMMA ContentType ==
  ASSUME TypeOK, NEW r \in IncomingRecord, OnParams(r) \/ OnStdIn(r)
  PROVE  TypeOK'
<1>1. r.id \in RequestIds /\ Receive(r) /\ Registered(r.id)
  BY RecordFields DEF OnParams, OnStdIn, IsRecordExpected
<1>2. received' \in Seq(IncomingRecord) /\ Len(received) + 1 \in Nat
  BY <1>1, ReceiveType
<1> DEFINE data == requestRegistry[r.id]
<1>3. /\ data \in RequestData /\ data.params \in Seq(Params) /\ data.stdIn \in Seq(Bytes)
      /\ data.begin \in Nat
  BY <1>1, EntryType
<1>4. CASE OnParams(r)
  <2>1. data.params \o r.content \in Seq(Params)
    BY <1>3, <1>4, RecordFields, ConcatProperties DEF OnParams
  <2>2. [data EXCEPT !.params = @ \o r.content] \in RequestData
    BY <1>3, <2>1 DEF RequestData
  <2>3. requestRegistry' = [requestRegistry EXCEPT ![r.id] = [data EXCEPT !.params = @ \o r.content]]
    BY <1>4 DEF OnParams, AddParams
  <2> QED
    BY <1>1, <1>2, <1>4, <2>2, <2>3 DEF OnParams, TypeOK
<1>5. CASE OnStdIn(r)
  <2> DEFINE makeRequest == r.content = <<>> /\ ~data.usedInRequest
             request == [id |-> r.id, begin |-> data.begin, end |-> Len(received) + 1,
                         params |-> data.params, stdIn |-> data.stdIn, response |-> "valid"]
  <2>1. CASE ~makeRequest
    <3>1. data.stdIn \o r.content \in Seq(Bytes)
      BY <1>3, <1>5, RecordFields, ConcatProperties DEF OnStdIn
    <3>2. [data EXCEPT !.stdIn = @ \o r.content] \in RequestData
      BY <1>3, <3>1 DEF RequestData
    <3>3. requestRegistry' = [requestRegistry EXCEPT ![r.id] = [data EXCEPT !.stdIn = @ \o r.content]]
          /\ handed' = handed
      BY <1>5, <2>1 DEF OnStdIn, AddStdIn, MakesRequest
    <3> QED
      BY <1>1, <1>2, <1>5, <3>2, <3>3 DEF OnStdIn, TypeOK
  <2>2. CASE makeRequest
    <3>1. request \in HandedRequest
      BY <1>1, <1>2, <1>3 DEF HandedRequest
    <3>2. handed' = Append(handed, request)
      BY <1>5, <2>2 DEF OnStdIn, AddStdIn, MakesRequest
    <3>3. handed' \in Seq(HandedRequest)
      BY <3>1, <3>2, AppendProperties DEF TypeOK
    <3> DEFINE used == [data EXCEPT !.usedInRequest = TRUE, !.params = <<>>, !.stdIn = <<>>]
    <3>4. used \in RequestData
      BY <1>3, EmptySeq DEF RequestData
    <3>5. requestRegistry' = [requestRegistry EXCEPT ![r.id] = used]
      BY <1>5, <2>2 DEF OnStdIn, AddStdIn, MakesRequest
    <3> QED
      BY <1>1, <1>2, <1>5, <3>3, <3>4, <3>5 DEF OnStdIn, TypeOK
  <2> QED
    BY <2>1, <2>2
<1> QED
  BY <1>4, <1>5

\* Changing the state of one Response changes nothing else in the history.
LEMMA ResponseStateType ==
  ASSUME TypeOK, NEW k \in DOMAIN handed, NEW state \in {"valid", "sent", "dropped"},
         ResponseState(k, state)
  PROVE  /\ handed' \in Seq(HandedRequest)
         /\ DOMAIN handed' = DOMAIN handed
         /\ \A j \in DOMAIN handed : j # k => handed'[j] = handed[j]
         /\ handed'[k].response = state
         /\ handed'[k].id = handed[k].id
         /\ handed'[k].begin = handed[k].begin
<1>1. handed \in Seq(HandedRequest) /\ DOMAIN handed = 1..Len(handed)
  BY LenProperties DEF TypeOK
<1>2. handed[k] \in HandedRequest
  BY <1>1, ElementOfSeq
<1>3. [handed[k] EXCEPT !.response = state] \in HandedRequest
  BY <1>2 DEF HandedRequest
<1>4. handed' = [handed EXCEPT ![k] = [handed[k] EXCEPT !.response = state]]
  BY DEF ResponseState
<1>5. handed' \in Seq(HandedRequest)
  BY <1>1, <1>3, <1>4, ExceptSeq
<1> QED
  BY <1>1, <1>2, <1>4, <1>5 DEF HandedRequest

\* Sending a Response keeps the types, also when its request is gone.
LEMMA SendResponseType ==
  ASSUME TypeOK, NEW k \in DOMAIN handed, SendResponse(k)
  PROVE  TypeOK'
<1> DEFINE id == handed[k].id
<1>1. handed \in Seq(HandedRequest) /\ DOMAIN handed = 1..Len(handed) /\ Len(handed) \in Nat
  BY LenProperties DEF TypeOK
<1>2. handed[k] \in HandedRequest
  BY <1>1, ElementOfSeq
<1>3. id \in RequestIds /\ k \in Nat
  BY <1>1, <1>2 DEF HandedRequest
<1>4. PICK nOut \in 0..MaxStreamRecords, nErr \in 0..MaxStreamRecords :
        LET streams == MakeStream("StdOut", id, k, nOut) \o MakeStream("StdErr", id, k, nErr)
        IN  \/ /\ Registered(id)
               /\ \/ /\ Emit(streams \o EndEvents(id))
                     /\ DeleteRequest(id)
                     /\ AfterSend(k)
                  \/ /\ EmitThrows(streams \o EndEvents(id))
                     /\ UNCHANGED <<requestRegistry, handed>>
            \/ /\ ~Registered(id)
               /\ \/ Emit(streams \o <<EndRequestRecord(id, "RequestComplete", 0)>>)
                  \/ EmitThrows(streams \o <<EndRequestRecord(id, "RequestComplete", 0)>>)
               /\ UNCHANGED <<requestRegistry, handed>>
  BY DEF SendResponse, AfterException
<1> DEFINE streams == MakeStream("StdOut", id, k, nOut) \o MakeStream("StdErr", id, k, nErr)
<1>5. streams \in Seq(OutgoingEvent)
  <2>1. nOut \in Nat /\ nErr \in Nat
    BY BoundsAssumption
  <2>2. MakeStream("StdOut", id, k, nOut) \in Seq(OutgoingEvent)
        /\ MakeStream("StdErr", id, k, nErr) \in Seq(OutgoingEvent)
    BY <1>3, <2>1, MakeStreamType
  <2> QED
    BY <2>2, ConcatProperties
<1>6. UNCHANGED <<cfg, alive, received>>
  BY DEF SendResponse
<1> HIDE DEF streams, id
<1>7. CASE Registered(id)
  <2>1. streams \o EndEvents(id) \in Seq(OutgoingEvent)
    BY <1>3, <1>5, <1>7, EndEventsType, ConcatProperties
  <2>2. wire' \in Seq(OutgoingEvent) /\ exceptions' \in Nat
    <3>1. Emit(streams \o EndEvents(id)) \/ EmitThrows(streams \o EndEvents(id))
      BY <1>4, <1>7 DEF streams
    <3> QED
      BY <2>1, <3>1, EmitType
  <2>3. requestRegistry' \in [RequestIds -> RequestData \cup {Unregistered}]
    BY <1>4, <1>7 DEF DeleteRequest, TypeOK
  <2>4. handed' \in Seq(HandedRequest)
    BY <1>1, <1>4, <1>7, ResponseStateType DEF AfterSend, TypeOK
  <2> QED
    BY <1>6, <2>2, <2>3, <2>4 DEF TypeOK
<1>8. CASE ~Registered(id)
  <2>1. EndRequestRecord(id, "RequestComplete", 0) \in OutgoingEvent
    BY <1>3, EventTypes
  <2> DEFINE stale == streams \o <<EndRequestRecord(id, "RequestComplete", 0)>>
  <2>2. <<EndRequestRecord(id, "RequestComplete", 0)>> \in Seq(OutgoingEvent)
    BY <2>1
  <2>3. stale \in Seq(OutgoingEvent)
    BY <1>5, <2>2, ConcatProperties
  <2>4. Emit(stale) \/ EmitThrows(stale)
    BY <1>4, <1>8 DEF streams
  <2> HIDE DEF stale
  <2>5. wire' \in Seq(OutgoingEvent) /\ exceptions' \in Nat
    BY <2>3, <2>4, EmitType
  <2> QED
    BY <1>4, <1>6, <1>8, <2>5 DEF TypeOK
<1> QED
  BY <1>7, <1>8

\* Every step keeps the types.
LEMMA NextTypeOK ==
  ASSUME TypeOK, [Next]_vars
  PROVE  TypeOK'
<1>1. CASE UNCHANGED vars
  BY <1>1 DEF vars, TypeOK
<1>2. ASSUME NEW r \in IncomingRecord, OnUnexpectedRecord(r) \/ OnOtherRecord(r)
      PROVE  TypeOK'
  BY <1>2, ReceiveType DEF OnUnexpectedRecord, OnOtherRecord, TypeOK
<1>3. ASSUME OnRecordRead PROVE TypeOK'
  BY <1>2, <1>3, BeginRequestType, AbortRequestType, ManagementType, ContentType DEF OnRecordRead, HandleRecord
<1>4. ASSUME NEW k \in DOMAIN handed, SendOrphanedResponse(k) \/ DropResponse(k)
      PROVE  TypeOK'
  <2>1. handed' \in Seq(HandedRequest)
    BY <1>4, ResponseStateType DEF SendOrphanedResponse, DropResponse
  <2> QED
    BY <1>4, <2>1 DEF SendOrphanedResponse, DropResponse, TypeOK
<1>5. ASSUME NEW value \in Limits, SetMaximumRequestsNumber(value) PROVE TypeOK'
  <2>1. value \in Int
    BY ModesAssumption
  <2> QED
    BY <1>5, <2>1 DEF SetMaximumRequestsNumber, TypeOK
<1>9. ASSUME NEW value \in ConnectionLimits, SetMaximumConnectionsNumber(value) PROVE TypeOK'
  <2>1. value \in Int
    BY ModesAssumption
  <2> QED
    BY <1>9, <2>1 DEF SetMaximumConnectionsNumber, TypeOK
<1>6. ASSUME NEW state \in MultiplexingModes, SetMultiplexingEnabled(state) PROVE TypeOK'
  <2>1. state \in BOOLEAN
    BY ModesAssumption
  <2> QED
    BY <1>6, <2>1 DEF SetMultiplexingEnabled, TypeOK
<1>7. ASSUME DestroyResponder PROVE TypeOK'
  BY <1>7 DEF DestroyResponder, TypeOK
<1>8. ASSUME ApplicationStep PROVE TypeOK'
  BY <1>4, <1>5, <1>6, <1>7, <1>8, <1>9, SendResponseType DEF ApplicationStep
<1> QED
  BY <1>1, <1>3, <1>8 DEF Next

\* The types of the Responder's state.
THEOREM ResponderTypes == Spec => []TypeOK
<1> QED
  BY InitTypeOK, NextTypeOK, PTL DEF Spec
-----------------------------------------------------------------------------
(* A request is processed once                                              *)

\* What makes ProcessedOnce inductive: a BeginRequest that is in the registry or
\* was handed over has been received, is in the registry once, and is marked as
\* used if it was handed over.
OnceInv ==
  /\ \A id \in RequestIds : Registered(id) => requestRegistry[id].begin <= Len(received)
  /\ \A k \in DOMAIN handed : handed[k].begin <= Len(received)
  /\ \A id, jd \in RequestIds :
       Registered(id) /\ Registered(jd)
         /\ requestRegistry[id].begin = requestRegistry[jd].begin => id = jd
  /\ \A id \in RequestIds, k \in DOMAIN handed :
       Registered(id) /\ requestRegistry[id].begin = handed[k].begin =>
         requestRegistry[id].usedInRequest
  /\ ProcessedOnce

\* A step that opens no request, hands none over and marks none.
NothingBegun ==
  /\ \A id \in RequestIds : Registered(id)' =>
       /\ Registered(id)
       /\ requestRegistry'[id].begin = requestRegistry[id].begin
       /\ requestRegistry'[id].usedInRequest = requestRegistry[id].usedInRequest
  /\ DOMAIN handed' = DOMAIN handed
  /\ \A k \in DOMAIN handed : handed'[k].begin = handed[k].begin
                              /\ handed'[k].id = handed[k].id
  /\ Len(received) <= Len(received')

\* Such a step disturbs nothing of the invariant.
LEMMA NothingBegunKeeps ==
  ASSUME TypeOK, TypeOK', OnceInv, NothingBegun
  PROVE  OnceInv'
<1>1. Len(received) \in Nat /\ Len(received') \in Nat
  BY LenProperties DEF TypeOK
<1>2. \A id \in RequestIds : Registered(id)' =>
        requestRegistry'[id].begin <= Len(received')
  <2> SUFFICES ASSUME NEW id \in RequestIds, Registered(id)'
               PROVE  requestRegistry'[id].begin <= Len(received')
    OBVIOUS
  <2>1. Registered(id) /\ requestRegistry'[id].begin = requestRegistry[id].begin
        /\ requestRegistry[id].begin <= Len(received)
    BY DEF NothingBegun, OnceInv
  <2>2. requestRegistry[id].begin \in Nat
    BY <2>1, EntryType
  <2> QED
    BY <1>1, <2>1, <2>2 DEF NothingBegun
<1>3. \A k \in DOMAIN handed' : handed'[k].begin <= Len(received')
  <2> SUFFICES ASSUME NEW k \in DOMAIN handed PROVE handed'[k].begin <= Len(received')
    BY DEF NothingBegun
  <2>1. handed[k] \in HandedRequest
    BY ElementOfSeq, LenProperties DEF TypeOK
  <2>2. handed[k].begin \in Nat /\ handed[k].begin <= Len(received)
    BY <2>1 DEF HandedRequest, OnceInv
  <2> QED
    BY <1>1, <2>2 DEF NothingBegun
<1>4. ProcessedOnce'
  BY DEF OnceInv, ProcessedOnce, NothingBegun
<1>5. \A id, jd \in RequestIds :
        Registered(id)' /\ Registered(jd)'
          /\ requestRegistry'[id].begin = requestRegistry'[jd].begin => id = jd
  BY DEF OnceInv, NothingBegun
<1>6. \A id \in RequestIds, k \in DOMAIN handed' :
        Registered(id)' /\ requestRegistry'[id].begin = handed'[k].begin =>
          requestRegistry'[id].usedInRequest
  BY DEF OnceInv, NothingBegun
<1> QED
  BY <1>2, <1>3, <1>4, <1>5, <1>6 DEF OnceInv

\* A record that is received makes the history one longer.
LEMMA ReceiveLength ==
  ASSUME TypeOK, NEW r \in IncomingRecord, Receive(r)
  PROVE  Len(received') = Len(received) + 1 /\ Len(received) \in Nat
BY AppendProperties, LenProperties DEF Receive, TypeOK

\* Erasing an entry of the registry begins nothing.
LEMMA DeletedEntries ==
  ASSUME TypeOK, NEW id \in RequestIds, DeleteRequest(id) \/ UNCHANGED requestRegistry
  PROVE  \A jd \in RequestIds : Registered(jd)' =>
           /\ Registered(jd)
           /\ requestRegistry'[jd] = requestRegistry[jd]
BY DEF DeleteRequest, Registered, TypeOK

\* The records that only add content, end a request or are not for one.
LEMMA OtherRecordsBeginNothing ==
  ASSUME TypeOK, NEW r \in IncomingRecord,
         \/ OnUnexpectedRecord(r)
         \/ OnAbortRequest(r)
         \/ OnGetValues(r)
         \/ OnInvalidRecordType(r)
         \/ OnParams(r)
         \/ OnOtherRecord(r)
  PROVE  NothingBegun
<1>1. Receive(r) /\ handed' = handed
  BY DEF OnUnexpectedRecord, OnAbortRequest, OnGetValues, OnInvalidRecordType, OnParams,
         OnOtherRecord
<1>2. Len(received) <= Len(received')
  BY <1>1, ReceiveLength
<1>3. \A id \in RequestIds : Registered(id)' =>
        /\ Registered(id)
        /\ requestRegistry'[id].begin = requestRegistry[id].begin
        /\ requestRegistry'[id].usedInRequest = requestRegistry[id].usedInRequest
  <2>1. CASE UNCHANGED requestRegistry
    BY <2>1 DEF Registered
  <2>2. CASE OnAbortRequest(r)
    <3>1. r.id \in RequestIds
      BY <2>2, RecordFields DEF OnAbortRequest
    <3>2. DeleteRequest(r.id) \/ UNCHANGED requestRegistry
      BY <2>2 DEF OnAbortRequest
    <3> QED
      BY <3>1, <3>2, DeletedEntries
  <2>3. CASE OnParams(r)
    <3>1. r.id \in RequestIds /\ Registered(r.id)
      BY <2>3, RecordFields DEF OnParams, IsRecordExpected
    <3>2. requestRegistry[r.id] \in RequestData
      BY <3>1, EntryType
    <3>3. requestRegistry' = [requestRegistry EXCEPT ![r.id] =
            [requestRegistry[r.id] EXCEPT !.params = @ \o r.content]]
      BY <2>3 DEF OnParams, AddParams
    <3> QED
      BY <3>1, <3>2, <3>3 DEF Registered, TypeOK, RequestData
  <2> QED
    BY <2>1, <2>2, <2>3 DEF OnUnexpectedRecord, OnAbortRequest, OnGetValues,
       OnInvalidRecordType, OnParams, OnOtherRecord
<1> QED
  BY <1>1, <1>2, <1>3 DEF NothingBegun

\* A refused BeginRequest leaves the registry alone; an accepted one is new.
LEMMA BeginRequestOnce ==
  ASSUME TypeOK, TypeOK', OnceInv, NEW r \in IncomingRecord, OnBeginRequest(r)
  PROVE  OnceInv'
<1> DEFINE begin == Len(received) + 1
<1>1. r.id \in RequestIds /\ Receive(r) /\ ~Registered(r.id) /\ handed' = handed
  BY RecordFields DEF OnBeginRequest, IsRecordExpected
<1>2. Len(received') = begin /\ Len(received) \in Nat
  BY <1>1, ReceiveLength
<1>3. CASE UNCHANGED requestRegistry
  BY <1>1, <1>2, <1>3, NothingBegunKeeps DEF NothingBegun, Registered
<1>4. CASE requestRegistry' = [requestRegistry EXCEPT ![r.id] =
             [keepConnection |-> r.keep, usedInRequest |-> FALSE,
              params |-> <<>>, stdIn |-> <<>>, begin |-> begin]]
  <2>1. requestRegistry'[r.id].begin = begin
        /\ \A id \in RequestIds \ {r.id} : requestRegistry'[id] = requestRegistry[id]
    BY <1>1, <1>4 DEF TypeOK
  <2>2. \A id \in RequestIds \ {r.id} : Registered(id)' =>
          /\ Registered(id)
          /\ requestRegistry[id].begin <= Len(received)
          /\ requestRegistry[id].begin \in Nat
    BY <2>1, EntryType DEF Registered, OnceInv
  <2>3. \A id \in RequestIds \ {r.id} : Registered(id)' =>
          requestRegistry'[id].begin < begin
    <3> HIDE DEF OnceInv
    <3> QED
      BY <1>2, <2>1, <2>2
  <2>4. \A k \in DOMAIN handed : handed[k].begin \in Nat /\ handed[k].begin <= Len(received)
    <3>1. \A k \in DOMAIN handed : handed[k] \in HandedRequest
      BY ElementOfSeq, LenProperties DEF TypeOK
    <3> QED
      BY <3>1 DEF HandedRequest, OnceInv
  <2>5. \A k \in DOMAIN handed : handed[k].begin < begin
    BY <1>2, <2>4
  <2>6. \A id \in RequestIds : Registered(id)' => requestRegistry'[id].begin <= Len(received')
    <3>1. \A id \in RequestIds \ {r.id} : Registered(id)' => requestRegistry'[id].begin \in Nat
      BY <2>1, <2>2
    <3> QED
      BY <1>2, <2>1, <2>3, <3>1
  <2>7. \A k \in DOMAIN handed' : handed'[k].begin <= Len(received')
    BY <1>1, <1>2, <2>4
  <2>8. \A id, jd \in RequestIds :
          Registered(id)' /\ Registered(jd)'
            /\ requestRegistry'[id].begin = requestRegistry'[jd].begin => id = jd
    <3> SUFFICES ASSUME NEW id \in RequestIds, NEW jd \in RequestIds,
                        Registered(id)', Registered(jd)',
                        requestRegistry'[id].begin = requestRegistry'[jd].begin
                 PROVE  id = jd
      OBVIOUS
    <3>1. CASE id # r.id /\ jd # r.id
      BY <2>1, <2>2, <3>1 DEF OnceInv
    <3>2. CASE (id = r.id \/ jd = r.id) /\ id # jd
      <4>1. ~(begin < begin)
        BY <1>2
      <4> QED
        BY <2>1, <2>3, <3>2, <4>1
    <3> QED
      BY <3>1, <3>2
  <2>9. \A id \in RequestIds, k \in DOMAIN handed' :
          Registered(id)' /\ requestRegistry'[id].begin = handed'[k].begin =>
            requestRegistry'[id].usedInRequest
    <3> SUFFICES ASSUME NEW id \in RequestIds, NEW k \in DOMAIN handed,
                        Registered(id)', requestRegistry'[id].begin = handed[k].begin
                 PROVE  requestRegistry'[id].usedInRequest
      BY <1>1
    <3>1. id # r.id
      <4>1. ~(begin < begin)
        BY <1>2
      <4> QED
        BY <2>1, <2>5, <4>1
    <3> QED
      BY <2>1, <2>2, <3>1 DEF OnceInv
  <2> QED
    BY <1>1, <2>6, <2>7, <2>8, <2>9 DEF OnceInv, ProcessedOnce
<1> QED
  BY <1>3, <1>4 DEF OnBeginRequest, Refusal
\* The end of StdIn hands a request over and marks it; other StdIn records and
\* repeated ends do not.
LEMMA StdInOnce ==
  ASSUME TypeOK, TypeOK', OnceInv, NEW r \in IncomingRecord, OnStdIn(r)
  PROVE  OnceInv'
<1> DEFINE data == requestRegistry[r.id]
           makeRequest == r.content = <<>> /\ ~data.usedInRequest
           request == [id |-> r.id, begin |-> data.begin, end |-> Len(received) + 1,
                       params |-> data.params, stdIn |-> data.stdIn, response |-> "valid"]
           used == [data EXCEPT !.usedInRequest = TRUE, !.params = <<>>, !.stdIn = <<>>]
<1>1. r.id \in RequestIds /\ Receive(r) /\ Registered(r.id)
  BY RecordFields DEF OnStdIn, IsRecordExpected
<1>2. Len(received') = Len(received) + 1 /\ Len(received) \in Nat
  BY <1>1, ReceiveLength
<1>3. data \in RequestData /\ data.begin \in Nat
  BY <1>1, EntryType
<1>4. CASE ~makeRequest
  <2>1. requestRegistry' = [requestRegistry EXCEPT ![r.id] =
          [data EXCEPT !.stdIn = @ \o r.content]] /\ handed' = handed
    BY <1>4 DEF OnStdIn, AddStdIn, MakesRequest
  <2>2. \A id \in RequestIds : Registered(id)' =>
          /\ Registered(id)
          /\ requestRegistry'[id].begin = requestRegistry[id].begin
          /\ requestRegistry'[id].usedInRequest = requestRegistry[id].usedInRequest
    BY <1>1, <1>3, <2>1 DEF Registered, TypeOK, RequestData
  <2>3. Len(received) <= Len(received')
    BY <1>2
  <2>4. NothingBegun
    BY <2>1, <2>2, <2>3 DEF NothingBegun
  <2> QED
    BY <2>4, NothingBegunKeeps
<1>5. CASE makeRequest
  <2>1. requestRegistry' = [requestRegistry EXCEPT ![r.id] = used]
        /\ handed' = Append(handed, request)
    BY <1>5 DEF OnStdIn, AddStdIn, MakesRequest
  <2>2. /\ DOMAIN handed = 1..Len(handed) /\ Len(handed) \in Nat
        /\ Len(handed') = Len(handed) + 1
        /\ DOMAIN handed' = 1..(Len(handed) + 1)
        /\ handed'[Len(handed) + 1] = request
        /\ \A k \in 1..Len(handed) : handed'[k] = handed[k]
    BY <2>1, AppendProperties, LenProperties DEF TypeOK
  <2>3. DOMAIN handed' = DOMAIN handed \cup {Len(handed) + 1}
        /\ \A k \in DOMAIN handed : handed'[k].begin = handed[k].begin
    BY <2>2
  <2>4. handed'[Len(handed) + 1].begin = data.begin
    BY <2>2
  <2>5. used.begin = data.begin /\ used.usedInRequest
    BY <1>3 DEF RequestData
  <2>6. \A id \in RequestIds : Registered(id)' =>
          Registered(id) /\ requestRegistry'[id].begin = requestRegistry[id].begin
    BY <1>1, <2>1, <2>5 DEF Registered, TypeOK
  <2>7. requestRegistry'[r.id].usedInRequest
        /\ \A id \in RequestIds \ {r.id} : requestRegistry'[id] = requestRegistry[id]
    BY <1>1, <2>1, <2>5 DEF TypeOK
  <2>8. data.begin <= Len(received)
    BY <1>1 DEF OnceInv
  <2>9. \A id \in RequestIds : Registered(id)' => requestRegistry'[id].begin <= Len(received')
    <3> SUFFICES ASSUME NEW id \in RequestIds, Registered(id)'
                 PROVE  requestRegistry'[id].begin <= Len(received')
      OBVIOUS
    <3>1. requestRegistry[id].begin <= Len(received) /\ requestRegistry[id].begin \in Nat
      BY <2>6, EntryType DEF OnceInv
    <3> QED
      BY <1>2, <2>6, <3>1
  <2>10. \A k \in DOMAIN handed' : handed'[k].begin <= Len(received')
    <3>1. \A k \in DOMAIN handed : handed[k].begin \in Nat /\ handed[k].begin <= Len(received)
      <4>1. \A k \in DOMAIN handed : handed[k] \in HandedRequest
        BY ElementOfSeq, <2>2 DEF TypeOK
      <4> QED
        BY <4>1 DEF HandedRequest, OnceInv
    <3>2. \A k \in DOMAIN handed : handed'[k].begin <= Len(received')
      BY <1>2, <2>3, <3>1
    <3>3. data.begin <= Len(received')
      BY <1>2, <1>3, <2>8
    <3> QED
      BY <2>3, <2>4, <3>2, <3>3
  <2>11. \A k \in DOMAIN handed : handed[k].begin # data.begin
    BY <1>1, <1>5 DEF OnceInv
  <2>12. ProcessedOnce'
    BY <2>3, <2>4, <2>11 DEF ProcessedOnce, OnceInv
  <2>13. \A id, jd \in RequestIds :
          Registered(id)' /\ Registered(jd)'
            /\ requestRegistry'[id].begin = requestRegistry'[jd].begin => id = jd
    BY <2>6 DEF OnceInv
  <2>14. \A id \in RequestIds, k \in DOMAIN handed' :
           Registered(id)' /\ requestRegistry'[id].begin = handed'[k].begin =>
             requestRegistry'[id].usedInRequest
    <3> SUFFICES ASSUME NEW id \in RequestIds, NEW k \in DOMAIN handed', Registered(id)',
                        requestRegistry'[id].begin = handed'[k].begin, id # r.id
                 PROVE  requestRegistry'[id].usedInRequest
      BY <2>7
    <3>1. Registered(id) /\ requestRegistry[id].begin = handed'[k].begin
          /\ requestRegistry'[id] = requestRegistry[id]
      BY <2>6, <2>7
    <3>2. k \in DOMAIN handed
      BY <1>1, <2>3, <2>4, <3>1 DEF OnceInv
    <3> QED
      BY <2>3, <3>1, <3>2 DEF OnceInv
  <2> QED
    BY <2>9, <2>10, <2>12, <2>13, <2>14 DEF OnceInv
<1> QED
  BY <1>4, <1>5

\* The application's calls begin nothing.
LEMMA ApplicationBeginsNothing ==
  ASSUME TypeOK, ApplicationStep
  PROVE  NothingBegun
<1>1. Len(received) \in Nat
  BY LenProperties DEF TypeOK
<1>2. received' = received
  BY DEF ApplicationStep, SendResponse, SendOrphanedResponse, DropResponse,
     SetMaximumConnectionsNumber, SetMaximumRequestsNumber, SetMultiplexingEnabled, DestroyResponder
<1>3. ASSUME NEW k \in DOMAIN handed, SendResponse(k) PROVE NothingBegun
  <2>1. handed[k].id \in RequestIds
    <3>1. handed[k] \in HandedRequest
      BY ElementOfSeq, LenProperties DEF TypeOK
    <3> QED
      BY <3>1 DEF HandedRequest
  <2>2. /\ ResponseState(k, "sent") \/ UNCHANGED handed
        /\ DeleteRequest(handed[k].id) \/ UNCHANGED requestRegistry
    BY <1>3 DEF SendResponse, AfterSend, AfterException
  <2>3. \A id \in RequestIds : Registered(id)' =>
          Registered(id) /\ requestRegistry'[id] = requestRegistry[id]
    BY <2>1, <2>2, DeletedEntries DEF Registered
  <2>4. DOMAIN handed' = DOMAIN handed
        /\ \A j \in DOMAIN handed : handed'[j].begin = handed[j].begin
                                    /\ handed'[j].id = handed[j].id
    BY <2>2, ResponseStateType
  <2> QED
    BY <1>1, <1>2, <2>3, <2>4 DEF NothingBegun
<1>4. ASSUME NEW k \in DOMAIN handed, SendOrphanedResponse(k) \/ DropResponse(k)
      PROVE  NothingBegun
  <2>1. DOMAIN handed' = DOMAIN handed
        /\ \A j \in DOMAIN handed : handed'[j].begin = handed[j].begin
                                    /\ handed'[j].id = handed[j].id
    BY <1>4, ResponseStateType DEF SendOrphanedResponse, DropResponse
  <2>2. requestRegistry' = requestRegistry
    BY <1>4 DEF SendOrphanedResponse, DropResponse
  <2> QED
    BY <1>1, <1>2, <2>1, <2>2 DEF NothingBegun, Registered
<1>5. ASSUME UNCHANGED <<requestRegistry, handed>> PROVE NothingBegun
  BY <1>1, <1>2, <1>5 DEF NothingBegun, Registered
<1> QED
  BY <1>3, <1>4, <1>5 DEF ApplicationStep, SetMaximumConnectionsNumber, SetMaximumRequestsNumber,
     SetMultiplexingEnabled, DestroyResponder

\* Every step keeps the invariant.
LEMMA NextOnce ==
  ASSUME TypeOK, TypeOK', OnceInv, [Next]_vars
  PROVE  OnceInv'
<1>1. CASE UNCHANGED vars
  BY <1>1 DEF vars, OnceInv, ProcessedOnce, Registered
<1>2. CASE OnRecordRead
  BY <1>2, OtherRecordsBeginNothing, NothingBegunKeeps, BeginRequestOnce, StdInOnce
     DEF OnRecordRead, HandleRecord
<1>3. CASE ApplicationStep
  BY <1>3, ApplicationBeginsNothing, NothingBegunKeeps
<1> QED
  BY <1>1, <1>2, <1>3 DEF Next

\* The invariant holds from the start and forever.
THEOREM ResponderInvariant == Spec => [](TypeOK /\ OnceInv)
<1>1. Init => OnceInv
  BY DEF Init, OnceInv, ProcessedOnce, Registered
<1> QED
  BY <1>1, InitTypeOK, NextTypeOK, NextOnce, PTL DEF Spec

\* A BeginRequest is passed to processRequest once at most, for every mix of
\* ids, aborts, exceptions and reconfigurations.
THEOREM OnceTheorem == Spec => []ProcessedOnce
<1>1. OnceInv => ProcessedOnce
  BY DEF OnceInv
<1> QED
  BY <1>1, ResponderInvariant, PTL
-----------------------------------------------------------------------------
(* The limits, as long as they are only set while no request is open        *)

PoliteApplication == ~ReconfiguresWhileBusy /\ \A value \in Limits : value >= 0

\* The registry is finite, so that its size is a number.
LEMMA RegistryIsFinite ==
  /\ IsFiniteSet(RegisteredIds) /\ RegistrySize \in Nat
  /\ RegisteredIds = {} => RegistrySize = 0
<1>1. RegisteredIds \subseteq RequestIds
  BY DEF RegisteredIds
<1>2. IsFiniteSet(RegisteredIds)
  BY <1>1, RegistryAssumption, FS_Subset
<1> QED
  BY <1>2, FS_CardinalityType, FS_EmptySet DEF RegistrySize

\* A step after which the registry holds nothing new.
LEMMA FewerEntries ==
  ASSUME RegisteredIds' \subseteq RegisteredIds
  PROVE  RegistrySize' \in Nat /\ RegistrySize' <= RegistrySize
BY RegistryIsFinite, FS_Subset, FS_CardinalityType DEF RegistrySize

LimitsHold == RequestsWithinLimit /\ SingleRequestWithoutMultiplexing

\* Such a step that leaves the configuration alone keeps within the limits.
LEMMA FewerEntriesKeep ==
  ASSUME TypeOK, LimitsHold, RegisteredIds' \subseteq RegisteredIds, cfg' = cfg
  PROVE  LimitsHold'
<1>1. RegistrySize' \in Nat /\ RegistrySize' <= RegistrySize /\ RegistrySize \in Nat
  BY FewerEntries, RegistryIsFinite
<1>2. cfg.maxRequestsNumber \in Int
  BY DEF TypeOK
<1>3. RegistrySize' <= cfg.maxRequestsNumber
  BY <1>1, <1>2 DEF LimitsHold, RequestsWithinLimit
<1>4. ~cfg.multiplexingEnabled => RegistrySize' <= 1
  BY <1>1 DEF LimitsHold, SingleRequestWithoutMultiplexing
<1> QED
  BY <1>3, <1>4 DEF LimitsHold, RequestsWithinLimit, SingleRequestWithoutMultiplexing

\* onBeginRequest adds an entry only if there is room for it.
LEMMA BeginRequestLimits ==
  ASSUME TypeOK, LimitsHold, NEW r \in IncomingRecord, OnBeginRequest(r)
  PROVE  LimitsHold'
<1>1. r.id \in RequestIds /\ cfg' = cfg
  BY RecordFields DEF OnBeginRequest, Refusal
<1>2. CASE UNCHANGED requestRegistry
  BY <1>1, <1>2, FewerEntriesKeep DEF RegisteredIds, Registered
<1>3. CASE ~UNCHANGED requestRegistry
  <2>1. /\ ~cfg.multiplexingEnabled => RegisteredIds = {}
        /\ RegistrySize # cfg.maxRequestsNumber
        /\ \A id \in RequestIds \ {r.id} : requestRegistry'[id] = requestRegistry[id]
    BY <1>3 DEF OnBeginRequest, Refusal, TypeOK
  <2>2. RegisteredIds' \subseteq RegisteredIds \cup {r.id}
    BY <2>1 DEF RegisteredIds, Registered
  <2>3. /\ IsFiniteSet(RegisteredIds \cup {r.id})
        /\ Cardinality(RegisteredIds \cup {r.id}) \in Nat
        /\ Cardinality(RegisteredIds \cup {r.id}) <= RegistrySize + 1
    <3> DEFINE S == RegisteredIds
    <3>1. IsFiniteSet(S) /\ Cardinality(S) \in Nat /\ RegistrySize = Cardinality(S)
      BY RegistryIsFinite DEF RegistrySize
    <3> HIDE DEF S
    <3>2. IsFiniteSet(S \cup {r.id})
          /\ (Cardinality(S \cup {r.id}) = Cardinality(S)
              \/ Cardinality(S \cup {r.id}) = Cardinality(S) + 1)
      BY <3>1, FS_AddElement
    <3>3. Cardinality(S \cup {r.id}) \in Nat /\ Cardinality(S \cup {r.id}) <= Cardinality(S) + 1
      BY <3>1, <3>2
    <3> QED
      BY <3>1, <3>2, <3>3 DEF S
  <2>4. RegistrySize' <= Cardinality(RegisteredIds \cup {r.id}) /\ RegistrySize' \in Nat
    BY <2>2, <2>3, FS_Subset, FS_CardinalityType DEF RegistrySize
  <2>5. RegistrySize' <= RegistrySize + 1 /\ RegistrySize \in Nat
    BY <2>3, <2>4, RegistryIsFinite
  <2>6. cfg.maxRequestsNumber \in Int /\ RegistrySize <= cfg.maxRequestsNumber
    BY DEF TypeOK, LimitsHold, RequestsWithinLimit
  <2>7. RegistrySize' <= cfg.maxRequestsNumber
    BY <2>1, <2>4, <2>5, <2>6
  <2>8. ~cfg.multiplexingEnabled => RegistrySize' <= 1
    <3>1. ~cfg.multiplexingEnabled => RegistrySize = 0
      BY <2>1, RegistryIsFinite
    <3> QED
      BY <3>1, <2>4, <2>5
  <2> QED
    BY <1>1, <2>7, <2>8 DEF LimitsHold, RequestsWithinLimit, SingleRequestWithoutMultiplexing
<1> QED
  BY <1>2, <1>3

\* The setters run while the registry is empty.
LEMMA SettersKeepLimits ==
  ASSUME TypeOK, LimitsHold, PoliteApplication,
         \/ \E value \in ConnectionLimits : SetMaximumConnectionsNumber(value)
         \/ \E value \in Limits : SetMaximumRequestsNumber(value)
         \/ \E state \in MultiplexingModes : SetMultiplexingEnabled(state)
  PROVE  LimitsHold'
<1>1. RegisteredIds = {} /\ RegisteredIds' = RegisteredIds
  BY DEF SetMaximumConnectionsNumber, SetMaximumRequestsNumber, SetMultiplexingEnabled, MayReconfigure,
     PoliteApplication, RegisteredIds, Registered
<1>2. RegistrySize' = 0 /\ RegistrySize = 0
  BY <1>1, RegistryIsFinite DEF RegistrySize
<1>3. 0 <= cfg'.maxRequestsNumber
  <2>1. 0 <= cfg.maxRequestsNumber
    BY <1>2 DEF LimitsHold, RequestsWithinLimit
  <2>2. \A value \in Limits : 0 <= value
    <3>1. \A value \in Limits : value \in Int /\ value >= 0
      BY ModesAssumption DEF PoliteApplication
    <3> QED
      BY <3>1
  <2> QED
    BY <2>1, <2>2 DEF SetMaximumConnectionsNumber, SetMaximumRequestsNumber,
       SetMultiplexingEnabled, TypeOK
<1> QED
  BY <1>2, <1>3 DEF LimitsHold, RequestsWithinLimit, SingleRequestWithoutMultiplexing

\* Every step of a polite application keeps within the limits.
LEMMA NextLimits ==
  ASSUME TypeOK, LimitsHold, PoliteApplication, [Next]_vars
  PROVE  LimitsHold'
<1>1. ASSUME UNCHANGED <<requestRegistry, cfg>> PROVE LimitsHold'
  BY <1>1, FewerEntriesKeep DEF RegisteredIds, Registered
<1>2. ASSUME NEW r \in IncomingRecord, OnAbortRequest(r) PROVE LimitsHold'
  <2>1. r.id \in RequestIds /\ (DeleteRequest(r.id) \/ UNCHANGED requestRegistry) /\ cfg' = cfg
    BY <1>2, RecordFields DEF OnAbortRequest
  <2> QED
    BY <2>1, DeletedEntries, FewerEntriesKeep DEF RegisteredIds
<1>3. ASSUME NEW r \in IncomingRecord, OnParams(r) \/ OnStdIn(r) PROVE LimitsHold'
  <2>1. r.id \in RequestIds /\ Registered(r.id) /\ cfg' = cfg
    BY <1>3, RecordFields DEF OnParams, OnStdIn, IsRecordExpected
  <2>2. \A id \in RequestIds \ {r.id} : requestRegistry'[id] = requestRegistry[id]
    BY <1>3 DEF OnParams, OnStdIn, TypeOK
  <2> QED
    BY <2>1, <2>2, FewerEntriesKeep DEF RegisteredIds, Registered
<1>4. ASSUME NEW k \in DOMAIN handed, SendResponse(k) PROVE LimitsHold'
  <2>1. handed[k].id \in RequestIds
    <3>1. handed[k] \in HandedRequest
      BY ElementOfSeq, LenProperties DEF TypeOK
    <3> QED
      BY <3>1 DEF HandedRequest
  <2>2. (DeleteRequest(handed[k].id) \/ UNCHANGED requestRegistry) /\ cfg' = cfg
    BY <1>4 DEF SendResponse, AfterException
  <2> QED
    BY <2>1, <2>2, DeletedEntries, FewerEntriesKeep DEF RegisteredIds
<1>5. CASE OnRecordRead
  BY <1>1, <1>2, <1>3, <1>5, BeginRequestLimits
     DEF OnRecordRead, HandleRecord, OnUnexpectedRecord, OnGetValues, OnInvalidRecordType, OnOtherRecord
<1>6. CASE ApplicationStep
  <2>1. ASSUME NEW k \in DOMAIN handed, SendOrphanedResponse(k) \/ DropResponse(k)
        PROVE  LimitsHold'
    BY <1>1, <2>1 DEF SendOrphanedResponse, DropResponse
  <2>2. ASSUME DestroyResponder PROVE LimitsHold'
    BY <1>1, <2>2 DEF DestroyResponder
  <2> QED
    BY <1>4, <1>6, <2>1, <2>2, SettersKeepLimits DEF ApplicationStep
<1>7. CASE UNCHANGED vars
  BY <1>1, <1>7 DEF vars
<1> QED
  BY <1>5, <1>6, <1>7 DEF Next

\* Both limits hold at any time.
LEMMA LimitsInvariant == PoliteApplication => (Spec => []LimitsHold)
<1> SUFFICES ASSUME PoliteApplication PROVE Spec => []LimitsHold
  OBVIOUS
<1>1. Init => LimitsHold
  <2> SUFFICES ASSUME Init PROVE LimitsHold
    OBVIOUS
  <2>1. RegisteredIds = {} /\ cfg.maxRequestsNumber = 10 /\ cfg.multiplexingEnabled
    BY DEF Init, RegisteredIds, Registered
  <2>2. RegistrySize = 0
    BY <2>1, RegistryIsFinite
  <2> QED
    BY <2>1, <2>2 DEF LimitsHold, RequestsWithinLimit, SingleRequestWithoutMultiplexing
<1>2. TypeOK /\ LimitsHold /\ [Next]_vars => LimitsHold'
  BY NextLimits
<1> QED
  BY <1>1, <1>2, ResponderTypes, PTL DEF Spec

\* The registry stays within the configured maximum, for every application that
\* sets no negative limit and none while requests are open.
THEOREM LimitTheorem == PoliteApplication => (Spec => []RequestsWithinLimit)
<1>1. LimitsHold => RequestsWithinLimit
  BY DEF LimitsHold
<1> QED
  BY <1>1, LimitsInvariant, PTL

\* With multiplexing disabled one request at most is open.
THEOREM MultiplexingTheorem ==
  PoliteApplication => (Spec => []SingleRequestWithoutMultiplexing)
<1>1. LimitsHold => SingleRequestWithoutMultiplexing
  BY DEF LimitsHold
<1> QED
  BY <1>1, LimitsInvariant, PTL
-----------------------------------------------------------------------------
(* An answer goes out for its own request, as long as the web server aborts *)
(* no request that the application already holds                            *)

\* A step that changes neither Responses nor what their requests have in the
\* registry.
LEMMA UntouchedResponses ==
  ASSUME TypeOK, ValidResponseCanBeSent, handed' = handed,
         \A id \in RequestIds : Registered(id) /\ requestRegistry[id].usedInRequest =>
           Registered(id)' /\ requestRegistry'[id].begin = requestRegistry[id].begin,
         OnceInv
  PROVE  ValidResponseCanBeSent'
<1> SUFFICES ASSUME NEW k \in DOMAIN handed, handed[k].response = "valid"
             PROVE  Registered(handed[k].id)'
                    /\ requestRegistry'[handed[k].id].begin = handed[k].begin
  BY DEF ValidResponseCanBeSent
<1>1. handed[k].id \in RequestIds
  <2>1. handed[k] \in HandedRequest
    BY ElementOfSeq, LenProperties DEF TypeOK
  <2> QED
    BY <2>1 DEF HandedRequest
<1>2. Registered(handed[k].id) /\ requestRegistry[handed[k].id].begin = handed[k].begin
  BY DEF ValidResponseCanBeSent
<1>3. requestRegistry[handed[k].id].usedInRequest
  BY <1>1, <1>2 DEF OnceInv
<1> QED
  BY <1>1, <1>2, <1>3

\* The records of the web server leave the requests of valid Responses alone;
\* the end of StdIn makes a new one.
LEMMA RecordsKeepResponses ==
  ASSUME TypeOK, TypeOK', OnceInv, ValidResponseCanBeSent, ~AbortsProcessing, OnRecordRead
  PROVE  ValidResponseCanBeSent'
<1>1. PICK r \in IncomingRecord :
        /\ WebServerSends(r)
        /\ \/ OnUnexpectedRecord(r) \/ OnBeginRequest(r) \/ OnAbortRequest(r)
           \/ OnGetValues(r) \/ OnInvalidRecordType(r) \/ OnParams(r) \/ OnStdIn(r)
           \/ OnOtherRecord(r)
  BY DEF OnRecordRead, HandleRecord
<1>2. CASE OnUnexpectedRecord(r) \/ OnGetValues(r) \/ OnInvalidRecordType(r) \/ OnOtherRecord(r)
  <2>1. handed' = handed /\ requestRegistry' = requestRegistry
    BY <1>2 DEF OnUnexpectedRecord, OnGetValues, OnInvalidRecordType, OnOtherRecord
  <2> QED
    BY <2>1, UntouchedResponses DEF Registered
<1>3. CASE OnBeginRequest(r)
  <2>1. handed' = handed /\ r.id \in RequestIds /\ ~Registered(r.id)
    BY <1>3, RecordFields DEF OnBeginRequest, IsRecordExpected
  <2>2. \A id \in RequestIds \ {r.id} : requestRegistry'[id] = requestRegistry[id]
    BY <1>3, <2>1 DEF OnBeginRequest, TypeOK
  <2> QED
    BY <2>1, <2>2, UntouchedResponses DEF Registered
<1>4. CASE OnAbortRequest(r)
  <2>1. handed' = handed /\ r.id \in RequestIds /\ r.type = "AbortRequest" /\ Registered(r.id)
    BY <1>4, RecordFields DEF OnAbortRequest, IsRecordExpected
  <2>2. ~requestRegistry[r.id].usedInRequest
    BY <1>1, <2>1 DEF WebServerSends
  <2>3. \A id \in RequestIds \ {r.id} : requestRegistry'[id] = requestRegistry[id]
    BY <1>4 DEF OnAbortRequest, DeleteRequest, TypeOK
  <2> QED
    BY <2>1, <2>2, <2>3, UntouchedResponses DEF Registered
<1>5. CASE OnParams(r)
  <2>1. handed' = handed /\ r.id \in RequestIds /\ Registered(r.id)
        /\ requestRegistry' = [requestRegistry EXCEPT ![r.id] =
             [requestRegistry[r.id] EXCEPT !.params = @ \o r.content]]
    BY <1>5, RecordFields DEF OnParams, AddParams, IsRecordExpected
  <2>2. requestRegistry[r.id] \in RequestData /\ requestRegistry'[r.id] \in RequestData \cup {Unregistered}
    BY <2>1, EntryType DEF TypeOK
  <2>3. requestRegistry'[r.id].begin = requestRegistry[r.id].begin
        /\ \A id \in RequestIds \ {r.id} : requestRegistry'[id] = requestRegistry[id]
    BY <2>1, <2>2 DEF TypeOK, RequestData
  <2>4. Registered(r.id)'
    <3>1. requestRegistry'[r.id] \in RequestData
      <4>1. requestRegistry[r.id].params \o r.content \in Seq(Params)
        BY <1>5, <2>1, EntryType, RecordFields, ConcatProperties DEF OnParams
      <4> QED
        BY <2>1, <2>2, <4>1 DEF TypeOK, RequestData
    <3> QED
      BY <3>1, RegistryAssumption DEF Registered
  <2> QED
    BY <2>1, <2>3, <2>4, UntouchedResponses DEF Registered
<1>6. CASE OnStdIn(r)
  <2> DEFINE data == requestRegistry[r.id]
             makeRequest == r.content = <<>> /\ ~data.usedInRequest
             request == [id |-> r.id, begin |-> data.begin, end |-> Len(received) + 1,
                         params |-> data.params, stdIn |-> data.stdIn, response |-> "valid"]
             used == [data EXCEPT !.usedInRequest = TRUE, !.params = <<>>, !.stdIn = <<>>]
  <2>1. r.id \in RequestIds /\ Registered(r.id) /\ data \in RequestData
        /\ data.stdIn \in Seq(Bytes) /\ r.content \in Seq(Bytes)
    BY <1>6, RecordFields, EntryType DEF OnStdIn, IsRecordExpected
  <2>2. \/ /\ requestRegistry' = [requestRegistry EXCEPT ![r.id] =
               [data EXCEPT !.stdIn = @ \o r.content]]
           /\ handed' = handed
        \/ /\ requestRegistry' = [requestRegistry EXCEPT ![r.id] = used]
           /\ handed' = Append(handed, request)
    BY <1>6 DEF OnStdIn, AddStdIn, MakesRequest
  <2>3. [data EXCEPT !.stdIn = @ \o r.content] \in RequestData /\ used \in RequestData
        /\ used.begin = data.begin /\ [data EXCEPT !.stdIn = @ \o r.content].begin = data.begin
    <3>1. data.stdIn \o r.content \in Seq(Bytes)
      BY <2>1, ConcatProperties
    <3> QED
      BY <2>1, <3>1, EmptySeq DEF RequestData
  <2>4. \A id \in RequestIds : Registered(id) =>
          Registered(id)' /\ requestRegistry'[id].begin = requestRegistry[id].begin
    BY <2>1, <2>2, <2>3, RegistryAssumption DEF Registered, TypeOK
  <2>5. CASE handed' = handed
    BY <2>4, <2>5, UntouchedResponses
  <2>6. CASE handed' = Append(handed, request)
    <3>1. /\ DOMAIN handed' = DOMAIN handed \cup {Len(handed) + 1}
          /\ handed'[Len(handed) + 1] = request
          /\ \A k \in DOMAIN handed : handed'[k] = handed[k]
      <4>1. /\ DOMAIN handed = 1..Len(handed) /\ Len(handed) \in Nat
            /\ Len(handed') = Len(handed) + 1
            /\ DOMAIN handed' = 1..(Len(handed) + 1)
            /\ handed'[Len(handed) + 1] = request
            /\ \A k \in 1..Len(handed) : handed'[k] = handed[k]
        BY <2>6, AppendProperties, LenProperties DEF TypeOK
      <4> QED
        BY <4>1
    <3>2. \A k \in DOMAIN handed : handed[k].id \in RequestIds
      <4>1. \A k \in DOMAIN handed : handed[k] \in HandedRequest
        BY ElementOfSeq, LenProperties DEF TypeOK
      <4> QED
        BY <4>1 DEF HandedRequest
    <3>3. \A k \in DOMAIN handed : handed[k].response = "valid" =>
            /\ requestRegistry'[handed[k].id] # Unregistered
            /\ requestRegistry'[handed[k].id].begin = handed[k].begin
      BY <2>4, <3>2 DEF ValidResponseCanBeSent, Registered
    <3>4. requestRegistry'[request.id] # Unregistered
          /\ requestRegistry'[request.id].begin = request.begin
      BY <2>1, <2>4 DEF Registered
    <3> QED
      BY <3>1, <3>3, <3>4 DEF ValidResponseCanBeSent, Registered
  <2> QED
    BY <2>2, <2>5, <2>6
<1> QED
  BY <1>1, <1>2, <1>3, <1>4, <1>5, <1>6

\* A Response that is sent takes only its own request along.
LEMMA ApplicationKeepsResponses ==
  ASSUME TypeOK, OnceInv, ValidResponseCanBeSent, ~CopiesResponses, ApplicationStep
  PROVE  ValidResponseCanBeSent'
<1>1. \A k \in DOMAIN handed : handed[k].id \in RequestIds
  <2>1. \A k \in DOMAIN handed : handed[k] \in HandedRequest
    BY ElementOfSeq, LenProperties DEF TypeOK
  <2> QED
    BY <2>1 DEF HandedRequest
<1>2. ASSUME NEW k \in DOMAIN handed, SendResponse(k) PROVE ValidResponseCanBeSent'
  <2>1. CASE UNCHANGED <<requestRegistry, handed>>
    BY <2>1 DEF ValidResponseCanBeSent, Registered
  <2>2. CASE DeleteRequest(handed[k].id) /\ ResponseState(k, "sent")
    <3>1. /\ DOMAIN handed' = DOMAIN handed
          /\ handed'[k].response = "sent"
          /\ \A j \in DOMAIN handed : j # k => handed'[j] = handed[j]
      BY <2>2, ResponseStateType
    <3>2. handed[k].response = "valid"
      BY <1>2 DEF SendResponse
    <3>3. \A j \in DOMAIN handed : j # k /\ handed[j].response = "valid" =>
            handed[j].id # handed[k].id
      BY <3>2 DEF ValidResponseCanBeSent, OnceInv, ProcessedOnce
    <3>4. \A id \in RequestIds : id # handed[k].id => requestRegistry'[id] = requestRegistry[id]
      BY <2>2 DEF DeleteRequest, TypeOK
    <3> QED
      BY <1>1, <3>1, <3>3, <3>4 DEF ValidResponseCanBeSent, Registered
  <2> QED
    BY <1>2, <2>1, <2>2 DEF SendResponse, AfterSend, AfterException
<1>3. ASSUME NEW k \in DOMAIN handed, SendOrphanedResponse(k) \/ DropResponse(k)
      PROVE  ValidResponseCanBeSent'
  <2>1. PICK state \in {"sent", "dropped"} : ResponseState(k, state)
    BY <1>3 DEF SendOrphanedResponse, DropResponse
  <2>2. /\ DOMAIN handed' = DOMAIN handed
        /\ handed'[k].response = state
        /\ \A j \in DOMAIN handed : j # k => handed'[j] = handed[j]
    BY <2>1, ResponseStateType
  <2>3. requestRegistry' = requestRegistry
    BY <1>3 DEF SendOrphanedResponse, DropResponse
  <2> QED
    BY <2>2, <2>3 DEF ValidResponseCanBeSent, Registered
<1>4. ASSUME UNCHANGED <<requestRegistry, handed>> PROVE ValidResponseCanBeSent'
  BY <1>4 DEF ValidResponseCanBeSent, Registered
<1> QED
  BY <1>2, <1>3, <1>4 DEF ApplicationStep, SetMaximumConnectionsNumber, SetMaximumRequestsNumber,
     SetMultiplexingEnabled, DestroyResponder

LEMMA NextValid ==
  ASSUME TypeOK, TypeOK', OnceInv, ValidResponseCanBeSent, [Next]_vars,
         ~AbortsProcessing, ~CopiesResponses
  PROVE  ValidResponseCanBeSent'
<1>1. CASE UNCHANGED vars
  BY <1>1 DEF vars, ValidResponseCanBeSent, Registered
<1> QED
  BY <1>1, RecordsKeepResponses, ApplicationKeepsResponses DEF Next

\* A valid Response stands for an open request, whatever the application does
\* and however often its callbacks throw, if nothing that is processed is
\* aborted and no copy of a Response is sent.
THEOREM ValidResponseTheorem == ~AbortsProcessing /\ ~CopiesResponses => (Spec => []ValidResponseCanBeSent)
<1> SUFFICES ASSUME ~AbortsProcessing /\ ~CopiesResponses PROVE Spec => []ValidResponseCanBeSent
  OBVIOUS
<1>1. Init => ValidResponseCanBeSent
  BY DEF Init, ValidResponseCanBeSent
<1>2. TypeOK /\ TypeOK' /\ OnceInv /\ ValidResponseCanBeSent /\ [Next]_vars
        => ValidResponseCanBeSent'
  BY NextValid
<1> QED
  BY <1>1, <1>2, ResponderInvariant, PTL DEF Spec

\* What a handler adds to the wire is among the calls it makes.
LEMMA NewEvents ==
  ASSUME TypeOK, NEW S, S \subseteq OutgoingEvent, NEW events \in Seq(S),
         Emit(events) \/ EmitThrows(events), NEW i \in (Len(wire) + 1)..Len(wire')
  PROVE  wire'[i] \in S
<1>1. wire \in Seq(OutgoingEvent) /\ Len(wire) \in Nat /\ Len(events) \in Nat
  BY LenProperties DEF TypeOK
<1>2. PICK added \in Seq(S) : wire' = wire \o added
  <2>1. CASE Emit(events)
    <3>1. wire' = wire \o events
      BY <2>1 DEF Emit
    <3> QED
      BY <3>1
  <2>2. CASE EmitThrows(events)
    <3>1. PICK n \in 0..(Len(events) - 1) : wire' = wire \o SubSeq(events, 1, n)
      BY <2>2 DEF EmitThrows
    <3>2. \A j \in 1..n : events[j] \in S
      BY <1>1, ElementOfSeq
    <3>3. SubSeq(events, 1, n) \in Seq(S)
      BY <3>2, SubSeqProperties
    <3> QED
      BY <3>1, <3>3
  <2> QED
    BY <2>1, <2>2
<1>3. added \in Seq(OutgoingEvent) /\ Len(added) \in Nat
  <2>1. Seq(S) \subseteq Seq(OutgoingEvent)
    OBVIOUS
  <2> QED
    BY <2>1, LenProperties
<1>4. /\ Len(wire') = Len(wire) + Len(added)
      /\ \A j \in 1..(Len(wire) + Len(added)) :
           wire'[j] = IF j <= Len(wire) THEN wire[j] ELSE added[j - Len(wire)]
  BY <1>1, <1>2, <1>3, ConcatProperties
<1>5. i - Len(wire) \in 1..Len(added) /\ i \in 1..(Len(wire) + Len(added)) /\ ~(i <= Len(wire))
  BY <1>1, <1>3, <1>4
<1>6. wire'[i] = added[i - Len(wire)]
  BY <1>4, <1>5
<1> QED
  BY <1>5, <1>6, ElementOfSeq

\* The calls that send no stream.
NoStream == {e \in OutgoingEvent : ~IsStream(e)}

\* EndRequest and disconnect are no streams, alone or together.
LEMMA EndAndDisconnect ==
  ASSUME NEW id \in RequestIds, NEW begin \in Nat, NEW keep,
         NEW status \in {"RequestComplete", "UnknownRole", "CantMpxConn", "Overloaded"}
  PROVE  <<EndRequestRecord(id, status, begin)>>
           \o (IF keep THEN <<>> ELSE <<Disconnect>>) \in Seq(NoStream)
<1> DEFINE end == EndRequestRecord(id, status, begin)
<1>1. end \in NoStream /\ Disconnect \in NoStream
  BY EventTypes DEF NoStream, IsStream, EndRequestRecord, Disconnect
<1> HIDE DEF end
<1>2. <<end>> \in Seq(NoStream) /\ (IF keep THEN <<>> ELSE <<Disconnect>>) \in Seq(NoStream)
  BY <1>1
<1> QED
  BY <1>2, ConcatProperties DEF end

\* The calls that send streams only under one id and for one answer.
StreamsOnlyFor(id, k) ==
  {e \in OutgoingEvent : IsStream(e) => e.id = id /\ e.answer = k}

\* The streams of a Response are such calls.
LEMMA StreamsOfResponse ==
  ASSUME NEW id \in RequestIds, NEW k \in Nat, NEW type \in {"StdOut", "StdErr"}, NEW n \in Nat
  PROVE  MakeStream(type, id, k, n) \in Seq(StreamsOnlyFor(id, k))
<1>1. \A j \in 1..(n + 1) :
        [type |-> type, id |-> id, answer |-> k, last |-> j = n + 1] \in StreamsOnlyFor(id, k)
  BY DEF OutgoingEvent, OutgoingRecord, StreamsOnlyFor
<1>2. n + 1 \in Nat
  OBVIOUS
<1> QED
  BY <1>1, <1>2 DEF MakeStream

\* Only SendResponse sends a stream.
LEMMA RecordsSendNoStream ==
  ASSUME TypeOK, OnRecordRead, NEW i \in (Len(wire) + 1)..Len(wire')
  PROVE  ~IsStream(wire'[i])
<1>1. NoStream \subseteq OutgoingEvent
  BY DEF NoStream
<1>2. ASSUME NEW events \in Seq(NoStream), Emit(events) \/ EmitThrows(events)
      PROVE  ~IsStream(wire'[i])
  BY <1>1, <1>2, NewEvents DEF NoStream
<1>3. ~UNCHANGED wire
  BY LenProperties DEF TypeOK
<1>4. PICK r \in IncomingRecord :
        OnBeginRequest(r) \/ OnAbortRequest(r) \/ OnGetValues(r) \/ OnInvalidRecordType(r)
  BY <1>3 DEF OnRecordRead, HandleRecord, OnUnexpectedRecord, OnParams, OnStdIn, OnOtherRecord
<1>5. CASE OnBeginRequest(r)
  <2> DEFINE refusal == IF r.role # "Responder" THEN "UnknownRole"
                        ELSE IF ~cfg.multiplexingEnabled /\ RegisteredIds # {} THEN "CantMpxConn"
                        ELSE IF RegistrySize = cfg.maxRequestsNumber THEN "Overloaded"
                        ELSE "none"
             refuse == <<EndRequestRecord(r.id, refusal, Len(received) + 1)>>
                         \o (IF r.keep THEN <<>> ELSE <<Disconnect>>)
  <2>1. refusal # "none" /\ (Emit(refuse) \/ EmitThrows(refuse))
        /\ r.id \in RequestIds /\ Receive(r)
    BY <1>3, <1>5, RecordFields DEF OnBeginRequest, Refusal
  <2>2. Len(received) + 1 \in Nat
    BY <2>1, ReceiveLength
  <2>3. refusal \in {"UnknownRole", "CantMpxConn", "Overloaded"}
    BY <2>1
  <2> HIDE DEF refusal
  <2>4. refuse \in Seq(NoStream)
    BY <2>1, <2>2, <2>3, EndAndDisconnect
  <2> QED
    BY <1>2, <2>1, <2>4
<1>6. CASE OnAbortRequest(r)
  <2>1. r.id \in RequestIds /\ Registered(r.id)
        /\ (Emit(EndEvents(r.id)) \/ EmitThrows(EndEvents(r.id)))
    BY <1>6, RecordFields DEF OnAbortRequest, IsRecordExpected
  <2>2. EndEvents(r.id) \in Seq(NoStream)
    BY <2>1, EntryType, EndAndDisconnect DEF EndEvents
  <2> QED
    BY <1>2, <2>1, <2>2
<1>7. CASE OnGetValues(r)
  <2> DEFINE result == [type |-> "GetValuesResult", maxConns |-> cfg.maxConnectionsNumber,
                        maxReqs |-> cfg.maxRequestsNumber, mpxs |-> cfg.multiplexingEnabled]
  <2>1. result \in NoStream
    BY DEF TypeOK, OutgoingEvent, OutgoingRecord, IsStream, NoStream
  <2>2. Emit(<<result>>) \/ EmitThrows(<<result>>)
    BY <1>7 DEF OnGetValues
  <2> HIDE DEF result
  <2>3. <<result>> \in Seq(NoStream)
    BY <2>1
  <2> QED
    BY <1>2, <2>2, <2>3
<1>8. CASE OnInvalidRecordType(r)
  <2>1. [type |-> "UnknownType"] \in NoStream
    BY DEF OutgoingEvent, OutgoingRecord, IsStream, NoStream
  <2>2. <<[type |-> "UnknownType"]>> \in Seq(NoStream)
    BY <2>1
  <2> QED
    BY <1>2, <1>8, <2>2 DEF OnInvalidRecordType
<1> QED
  BY <1>4, <1>5, <1>6, <1>7, <1>8

\* Each step that sends a stream sends it for a request that is open and is the
\* one its Response was made for.
LEMMA StepAnswersOwn ==
  ASSUME TypeOK, ValidResponseCanBeSent, [Next]_vars,
         NEW i \in (Len(wire) + 1)..Len(wire'), IsStream(wire'[i])
  PROVE  /\ Registered(wire'[i].id)
         /\ requestRegistry[wire'[i].id].begin = handed[wire'[i].answer].begin
<1>1. ~UNCHANGED wire
  BY LenProperties DEF TypeOK
<1>2. PICK k \in DOMAIN handed : SendResponse(k)
  BY <1>1, RecordsSendNoStream DEF Next, vars, ApplicationStep, SendOrphanedResponse,
     DropResponse, SetMaximumConnectionsNumber, SetMaximumRequestsNumber,
     SetMultiplexingEnabled, DestroyResponder
<1> DEFINE id == handed[k].id
<1>3. Registered(id) /\ requestRegistry[id].begin = handed[k].begin
  BY <1>2 DEF SendResponse, ValidResponseCanBeSent
<1>4. id \in RequestIds /\ k \in Nat
  <2>1. DOMAIN handed = 1..Len(handed) /\ Len(handed) \in Nat /\ handed[k] \in HandedRequest
    BY ElementOfSeq, LenProperties DEF TypeOK
  <2> QED
    BY <2>1 DEF HandedRequest
<1>5. PICK nOut \in 0..MaxStreamRecords, nErr \in 0..MaxStreamRecords :
        LET streams == MakeStream("StdOut", id, k, nOut) \o MakeStream("StdErr", id, k, nErr)
        IN  Emit(streams \o EndEvents(id)) \/ EmitThrows(streams \o EndEvents(id))
  BY <1>2, <1>3 DEF SendResponse
<1> DEFINE S == StreamsOnlyFor(id, k)
           streams == MakeStream("StdOut", id, k, nOut) \o MakeStream("StdErr", id, k, nErr)
<1>6. S \subseteq OutgoingEvent /\ NoStream \subseteq S
  BY DEF StreamsOnlyFor, NoStream
<1>7. streams \in Seq(S)
  <2>1. nOut \in Nat /\ nErr \in Nat
    BY BoundsAssumption
  <2> QED
    BY <1>4, <2>1, StreamsOfResponse, ConcatProperties
<1>8. EndEvents(id) \in Seq(S)
  <2>1. EndEvents(id) \in Seq(NoStream)
    BY <1>3, <1>4, EntryType, EndAndDisconnect DEF EndEvents
  <2>2. Seq(NoStream) \subseteq Seq(S)
    BY <1>6
  <2> QED
    BY <2>1, <2>2
<1> HIDE DEF S, streams, id
<1>9. streams \o EndEvents(id) \in Seq(S)
  BY <1>7, <1>8, ConcatProperties
<1>10. wire'[i] \in S
  BY <1>5, <1>6, <1>9, NewEvents DEF streams
<1>11. wire'[i].id = id /\ wire'[i].answer = k
  BY <1>10 DEF S, StreamsOnlyFor
<1> QED
  BY <1>3, <1>11 DEF id

\* Data of a Response never goes out under the id of another request, under the
\* same assumptions.
THEOREM AnswersTheorem == ~AbortsProcessing /\ ~CopiesResponses => (Spec => AnswersOwnRequest)
<1> SUFFICES ASSUME ~AbortsProcessing /\ ~CopiesResponses PROVE Spec => AnswersOwnRequest
  OBVIOUS
<1> DEFINE Step == \A i \in (Len(wire) + 1)..Len(wire') : IsStream(wire'[i]) =>
                     /\ Registered(wire'[i].id)
                     /\ requestRegistry[wire'[i].id].begin = handed[wire'[i].answer].begin
<1>1. TypeOK /\ ValidResponseCanBeSent /\ [Next]_vars => [Step]_vars
  BY StepAnswersOwn
<1>2. Spec => [](TypeOK /\ ValidResponseCanBeSent)
  BY ResponderTypes, ValidResponseTheorem, PTL
<1>3. Spec => [][Step]_vars
  BY <1>1, <1>2, PTL DEF Spec
<1> QED
  BY <1>3 DEF AnswersOwnRequest
=============================================================================
