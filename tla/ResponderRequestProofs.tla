------------------------ MODULE ResponderRequestProofs -------------------------
(***************************************************************************)
(* What becomes of a request, in two parts.  ResponderImpl implements the  *)
(* safety part of RequestLifecycle: every step of the code is a step in    *)
(* the life of one request, or none, for every behaviour of the web server *)
(* and of the application that the model has, exceptions, aborts, copied   *)
(* and stale Responses included.  And the application gets exactly what    *)
(* the web server sent for a request.  What a sequence of records carries  *)
(* is defined by recursion, so there is an induction to be made first: the *)
(* provers are given it as the principle that a set of numbers that is not *)
(* empty has a least element.                                              *)
(***************************************************************************)
EXTENDS ResponderWireProofs, WellFoundedInduction, NaturalsInduction

-----------------------------------------------------------------------------
(* What a step does to the abstract variables                               *)

\* Who has an EndRequest.
LEMMA EndedElements ==
  /\ \A x : x \in EndedRequests <=> x # 0 /\ \E i \in DOMAIN wire : IsEnd(i) /\ wire[i].begin = x
  /\ \A x : x \in EndedRequests' <=>
       x # 0 /\ \E i \in DOMAIN wire' : IsEnd(i)' /\ wire'[i].begin = x
BY DEF EndedRequests

\* Without a new EndRequest the same requests are ended.
LEMMA NothingEnded ==
  ASSUME AddsNoEnd
  PROVE  EndedRequests' = EndedRequests
<1>1. \A i \in DOMAIN wire' : IsEnd(i)' => i \in DOMAIN wire /\ wire'[i] = wire[i] /\ IsEnd(i)
  BY DEF AddsNoEnd, IsEnd
<1>2. \A i \in DOMAIN wire : IsEnd(i) => i \in DOMAIN wire' /\ wire'[i] = wire[i] /\ IsEnd(i)'
  BY DEF AddsNoEnd, IsEnd
<1>3. \A x : x \in EndedRequests' <=> x \in EndedRequests
  BY <1>1, <1>2, EndedElements
<1> QED
  BY <1>3

\* With one, its request is ended, too, or, if it was not reached, none.
LEMMA OneEnded ==
  ASSUME NEW p, NEW e, AddsEnd(p, e), e.type = "EndRequest", e.begin # 0
  PROVE  /\ EndedRequests' = EndedRequests \/ EndedRequests' = EndedRequests \cup {e.begin}
         /\ p \in DOMAIN wire' /\ wire'[p] = e => EndedRequests' = EndedRequests \cup {e.begin}
<1>1. \A i \in DOMAIN wire' : IsEnd(i)' =>
        (i \in DOMAIN wire /\ wire'[i] = wire[i] /\ IsEnd(i)) \/ (i = p /\ wire'[p] = e)
  BY DEF AddsEnd, IsEnd
<1>2. \A i \in DOMAIN wire : IsEnd(i) => i \in DOMAIN wire' /\ wire'[i] = wire[i] /\ IsEnd(i)'
  BY DEF AddsEnd, IsEnd
<1>3. CASE p \in DOMAIN wire' /\ wire'[p] = e
  <2>1. IsEnd(p)' /\ wire'[p].begin = e.begin
    BY <1>3 DEF IsEnd
  <2>2. \A x : x \in EndedRequests' <=> x \in EndedRequests \cup {e.begin}
    BY <1>1, <1>2, <1>3, <2>1, EndedElements
  <2> QED
    BY <2>2
<1>4. CASE ~(p \in DOMAIN wire' /\ wire'[p] = e)
  <2>1. \A x : x \in EndedRequests' <=> x \in EndedRequests
    BY <1>1, <1>2, <1>4, EndedElements
  <2> QED
    BY <1>4, <2>1
<1> QED
  BY <1>3, <1>4

\* A handler that ends a request ends it, unless it throws before that.
LEMMA EndsEnds ==
  ASSUME TypeOK, TypeOK', BeginInv, NEW id \in RequestIds, EndsRequest(id)
  PROVE  /\ requestRegistry[id].begin \in Nat \ {0}
         /\ \/ EndedRequests' = EndedRequests /\ exceptions' # exceptions
            \/ EndedRequests' = EndedRequests \cup {requestRegistry[id].begin}
<1> DEFINE begin == requestRegistry[id].begin
           keep == requestRegistry[id].keepConnection
           e == EndRequestRecord(id, "RequestComplete", begin)
<1>1. Registered(id) /\ keep \in BOOLEAN /\ begin \in Nat \ {0}
  BY EntryType DEF EndsRequest, BeginInv, Begins
<1>2. PICK k \in Nat, split \in Nat, size \in Nat :
        SendsBlock(k, split, size, id, "RequestComplete", begin, keep)
  BY DEF EndsRequest
<1>3. PICK p \in Nat : AddsEnd(p, e) /\ (exceptions' = exceptions => p \in DOMAIN wire' /\ wire'[p] = e)
  BY <1>1, <1>2, BlockAddsEnd
<1>4. e.type = "EndRequest" /\ e.begin = begin
  BY DEF EndRequestRecord
<1> HIDE DEF e, begin, keep
<1>5. /\ EndedRequests' = EndedRequests \/ EndedRequests' = EndedRequests \cup {begin}
      /\ exceptions' = exceptions => EndedRequests' = EndedRequests \cup {begin}
  BY <1>1, <1>3, <1>4, OneEnded
<1> QED
  BY <1>1, <1>5 DEF begin

\* A refusal ends the request it refuses, unless it throws before that.
LEMMA RefusalEnds ==
  ASSUME TypeOK, TypeOK', NEW r \in IncomingRecord, Refuses(r)
  PROVE  EndedRequests' = EndedRequests \/ EndedRequests' = EndedRequests \cup {Len(received) + 1}
<1> DEFINE begin == Len(received) + 1
<1>1. r.keep \in BOOLEAN /\ begin # 0
  BY RecordFields, LenProperties DEF Refuses, TypeOK
<1>2. PICK status \in {"UnknownRole", "CantMpxConn", "Overloaded"} :
        SendsBlock(0, 0, 0, r.id, status, begin, r.keep)
  BY DEF Refuses
<1> DEFINE e == EndRequestRecord(r.id, status, begin)
<1>3. PICK p \in Nat : AddsEnd(p, e)
  BY <1>1, <1>2, BlockAddsEnd
<1>4. e.type = "EndRequest" /\ e.begin = begin
  BY DEF EndRequestRecord
<1> HIDE DEF e, begin
<1> QED
  BY <1>1, <1>3, <1>4, OneEnded DEF begin

\* The answers to management records end none.
LEMMA ReplyEndsNothing ==
  ASSUME TypeOK, TypeOK', Replies
  PROVE  EndedRequests' = EndedRequests
<1>1. /\ DOMAIN wire = 1..Len(wire) /\ Len(wire) \in Nat
      /\ DOMAIN wire' = 1..Len(wire') /\ Len(wire') \in Nat
  BY LenProperties DEF TypeOK
<1>2. PICK n \in {0, 1}, e \in {x \in OutgoingEvent : x.type \in {"GetValuesResult", "UnknownType"}} :
        SendsFirst(n, <<e>>)
  BY DEF Replies
<1>3. ASSUME NEW i \in DOMAIN wire', IsEnd(i)'
      PROVE  i \in DOMAIN wire /\ wire'[i] = wire[i]
  <2>1. CASE i \in 1..Len(wire)
    BY <1>1, <1>2, <2>1 DEF SendsFirst
  <2>2. CASE i \notin 1..Len(wire)
    <3>1. n = 1 /\ i = Len(wire) + 1
      BY <1>1, <1>2, <2>2 DEF SendsFirst
    <3>2. wire'[i] = e
      BY <1>2, <3>1 DEF SendsFirst
    <3> QED
      BY <1>2, <1>3, <3>2 DEF IsEnd
  <2> QED
    BY <2>1, <2>2
<1>4. AddsNoEnd
  BY <1>1, <1>2, <1>3 DEF AddsNoEnd, SendsFirst
<1> QED
  BY <1>4, NothingEnded

\* The EndRequest of a stale Response ends no request.
LEMMA UnclaimedEndsNothing ==
  ASSUME TypeOK, TypeOK', SendsUnclaimed
  PROVE  EndedRequests' = EndedRequests
<1>1. PICK id \in RequestIds, k \in Nat, split \in Nat, size \in Nat :
        SendsBlock(k, split, size, id, "RequestComplete", 0, TRUE)
  BY HandedFields DEF SendsUnclaimed
<1> DEFINE e == EndRequestRecord(id, "RequestComplete", 0)
<1>2. PICK p \in Nat : AddsEnd(p, e)
  BY <1>1, BlockAddsEnd
<1>3. e.begin = 0
  BY DEF EndRequestRecord
<1> HIDE DEF e
<1>4. \A i \in DOMAIN wire' : IsEnd(i)' /\ wire'[i].begin # 0 =>
        i \in DOMAIN wire /\ wire'[i] = wire[i] /\ IsEnd(i)
  BY <1>2, <1>3 DEF AddsEnd, IsEnd
<1>5. \A i \in DOMAIN wire : IsEnd(i) => i \in DOMAIN wire' /\ wire'[i] = wire[i] /\ IsEnd(i)'
  BY <1>2 DEF AddsEnd, IsEnd
<1>6. \A x : x \in EndedRequests' <=> x \in EndedRequests
  BY <1>4, <1>5, EndedElements
<1> QED
  BY <1>6

\* What is open follows the registry.
LEMMA OpenFollows ==
  ASSUME TypeOK
  PROVE  /\ OpenRequests \in [RequestIds -> Nat]
         /\ \A id \in RequestIds :
              OpenRequests[id] = IF Registered(id) THEN requestRegistry[id].begin ELSE 0
         /\ UNCHANGED requestRegistry => OpenRequests' = OpenRequests
BY EntryType DEF OpenRequests, Registered

\* A request that is erased is open no more.
LEMMA DeletedIsNotOpen ==
  ASSUME TypeOK, NEW id \in RequestIds, DeleteRequest(id)
  PROVE  OpenRequests' = [OpenRequests EXCEPT ![id] = 0]
BY DEF OpenRequests, DeleteRequest, Registered, TypeOK

\* What was handed over follows `handed', and does not depend on the state of the
\* Responses.
LEMMA HandedFollows ==
  ASSUME TypeOK
  PROVE  /\ UNCHANGED handed => HandedRequests' = HandedRequests
         /\ \A k \in DOMAIN handed, state \in {"sent", "dropped"} :
              ResponseState(k, state) => HandedRequests' = HandedRequests
         /\ \A h \in HandedRequest :
              handed' = Append(handed, h) => HandedRequests' = HandedRequests \cup {h.begin}
<1>1. UNCHANGED handed => HandedRequests' = HandedRequests
  BY DEF HandedRequests
<1>2. ASSUME NEW k \in DOMAIN handed, NEW state \in {"sent", "dropped"}, ResponseState(k, state)
      PROVE  HandedRequests' = HandedRequests
  <2>1. DOMAIN handed' = DOMAIN handed /\ \A j \in DOMAIN handed : handed'[j].begin = handed[j].begin
    BY <1>2, ResponseStateType
  <2> QED
    BY <2>1 DEF HandedRequests
<1>3. ASSUME NEW h \in HandedRequest, handed' = Append(handed, h)
      PROVE  HandedRequests' = HandedRequests \cup {h.begin}
  <2>1. /\ handed \in Seq(HandedRequest) /\ DOMAIN handed = 1..Len(handed) /\ Len(handed) \in Nat
    BY LenProperties DEF TypeOK
  <2>2. /\ handed' \in Seq(HandedRequest) /\ Len(handed') = Len(handed) + 1
        /\ \A j \in 1..Len(handed) : handed'[j] = handed[j]
        /\ handed'[Len(handed) + 1] = h
    BY <1>3, <2>1, AppendProperties
  <2>3. DOMAIN handed' = 1..(Len(handed) + 1)
    BY <2>2, LenProperties
  <2>4. \A x : x \in HandedRequests' <=> x \in HandedRequests \cup {h.begin}
    BY <2>1, <2>2, <2>3 DEF HandedRequests
  <2> QED
    BY <2>4
<1> QED
  BY <1>1, <1>2, <1>3
-----------------------------------------------------------------------------
(* Each step is a step of RequestLifecycle, or none                         *)

\* A record that arrives is counted.
LEMMA ReceiveRecords ==
  ASSUME TypeOK, NEW r \in IncomingRecord, Receive(r), UNCHANGED alive
  PROVE  Lifecycle!Receive /\ Len(received') = Len(received) + 1 /\ Len(received) \in Nat
BY ReceiveLength DEF Receive, Lifecycle!Receive

\* Records that neither begin, end nor hand out a request.
LEMMA ContinueStep ==
  ASSUME TypeOK, NEW r \in IncomingRecord, Receive(r),
         UNCHANGED <<alive, handed>>,
         OpenRequests' = OpenRequests, EndedRequests' = EndedRequests
  PROVE  Lifecycle!Next
<1>1. Lifecycle!Continue
  BY ReceiveRecords, HandedFollows DEF Lifecycle!Continue
<1> QED
  BY <1>1 DEF Lifecycle!Next

\* onBeginRequest accepts or refuses.
LEMMA BeginRequestStep ==
  ASSUME TypeOK, TypeOK', NEW r \in IncomingRecord, OnBeginRequest(r)
  PROVE  Lifecycle!Next
<1>1. Receive(r) /\ r.id \in RequestIds /\ ~Registered(r.id) /\ UNCHANGED <<alive, handed>>
  BY RecordFields DEF OnBeginRequest, IsRecordExpected
<1>2. Lifecycle!Receive /\ Len(received') = Len(received) + 1 /\ Len(received) \in Nat
  BY <1>1, ReceiveRecords
<1>3. HandedRequests' = HandedRequests
  BY <1>1, HandedFollows
<1>4. CASE Refusal(r) = "none"
  <2> DEFINE entry == [keepConnection |-> r.keep, usedInRequest |-> FALSE,
                       params |-> <<>>, stdIn |-> <<>>, begin |-> Len(received) + 1]
  <2>1. requestRegistry' = [requestRegistry EXCEPT ![r.id] = entry] /\ UNCHANGED wire
    BY <1>4 DEF OnBeginRequest
  <2>2. requestRegistry'[r.id] = entry /\ Registered(r.id)'
    <3>1. requestRegistry'[r.id] = entry
      BY <1>1, <2>1 DEF TypeOK
    <3>2. entry \in RequestData
      BY <1>2, RecordFields, EmptySeq DEF OnBeginRequest, RequestData
    <3> QED
      BY <3>1, <3>2, RegistryAssumption DEF Registered
  <2>3. OpenRequests[r.id] = 0
    BY <1>1, OpenFollows
  <2>4. OpenRequests' = [OpenRequests EXCEPT ![r.id] = Len(received')]
    <3>1. \A id \in RequestIds \ {r.id} : requestRegistry'[id] = requestRegistry[id]
      BY <2>1 DEF TypeOK
    <3>2. entry.begin = Len(received')
      BY <1>2
    <3> HIDE DEF entry
    <3> QED
      BY <1>1, <2>2, <3>1, <3>2 DEF OpenRequests, Registered
  <2>5. EndedRequests' = EndedRequests
    BY <2>1 DEF EndedRequests, IsEnd
  <2>6. Lifecycle!Accept(r.id)
    BY <1>2, <1>3, <2>3, <2>4, <2>5 DEF Lifecycle!Accept
  <2> QED
    BY <1>1, <2>6 DEF Lifecycle!Next
<1>5. CASE Refusal(r) # "none"
  <2>1. Refuses(r)
    BY <1>5, RefusalSends
  <2>2. OpenRequests' = OpenRequests
    BY <2>1, OpenFollows DEF Refuses
  <2>3. EndedRequests' = EndedRequests \/ EndedRequests' = EndedRequests \cup {Len(received')}
    BY <1>2, <2>1, RefusalEnds
  <2>4. CASE EndedRequests' = EndedRequests
    BY <1>1, <2>2, <2>4, ContinueStep
  <2>5. CASE EndedRequests' = EndedRequests \cup {Len(received')}
    <3>1. Lifecycle!Refuse
      BY <1>2, <1>3, <2>2, <2>5 DEF Lifecycle!Refuse
    <3> QED
      BY <3>1 DEF Lifecycle!Next
  <2> QED
    BY <2>3, <2>4, <2>5
<1> QED
  BY <1>4, <1>5

\* A handler that ends a request, with a record or without.
LEMMA EndStep ==
  ASSUME TypeOK, TypeOK', BeginInv, NEW id \in RequestIds, EndsRequest(id), alive,
         UNCHANGED alive, HandedRequests' = HandedRequests,
         Len(received') \in Len(received)..(Len(received) + 1)
  PROVE  Lifecycle!Next \/ (OpenRequests' = OpenRequests /\ EndedRequests' = EndedRequests)
<1>1. /\ requestRegistry[id].begin \in Nat \ {0}
      /\ \/ EndedRequests' = EndedRequests /\ exceptions' # exceptions
         \/ EndedRequests' = EndedRequests \cup {requestRegistry[id].begin}
  BY EndsEnds
<1>2. OpenRequests[id] = requestRegistry[id].begin
  BY OpenFollows DEF EndsRequest
<1>3. OpenRequests' \in {OpenRequests, [OpenRequests EXCEPT ![id] = 0]}
  BY OpenFollows, DeletedIsNotOpen DEF EndsRequest
<1>4. CASE EndedRequests' = EndedRequests \cup {requestRegistry[id].begin}
  <2>1. Lifecycle!End(id)
    BY <1>1, <1>2, <1>3, <1>4 DEF Lifecycle!End
  <2> QED
    BY <2>1 DEF Lifecycle!Next
<1>5. CASE EndedRequests' = EndedRequests /\ exceptions' # exceptions
  <2>1. UNCHANGED requestRegistry
    BY <1>5 DEF EndsRequest
  <2> QED
    BY <1>5, <2>1, OpenFollows
<1> QED
  BY <1>1, <1>4, <1>5

\* An abort.
LEMMA AbortStep ==
  ASSUME TypeOK, TypeOK', BeginInv, NEW r \in IncomingRecord, OnAbortRequest(r)
  PROVE  Lifecycle!Next
<1>1. Receive(r) /\ UNCHANGED <<alive, handed>> /\ alive
  BY DEF OnAbortRequest, Receive
<1>2. r.id \in RequestIds /\ EndsRequest(r.id)
  BY AbortSends
<1>3. Len(received') \in Len(received)..(Len(received) + 1)
  BY <1>1, ReceiveRecords
<1>4. HandedRequests' = HandedRequests
  BY <1>1, HandedFollows
<1>5. Lifecycle!Next \/ (OpenRequests' = OpenRequests /\ EndedRequests' = EndedRequests)
  BY <1>1, <1>2, <1>3, <1>4, EndStep
<1> QED
  BY <1>1, <1>5, ContinueStep

\* Params and StdIn collect, or hand the request out, which was not handed out
\* before.
LEMMA CollectStep ==
  ASSUME TypeOK, TypeOK', OnceInv, BeginInv, NEW r \in IncomingRecord, Collects(r)
  PROVE  Lifecycle!Next
<1>1. PICK data \in RequestData :
        /\ requestRegistry' = [requestRegistry EXCEPT ![r.id] = data]
        /\ data.begin = requestRegistry[r.id].begin
        /\ \/ handed' = handed
           \/ /\ ~requestRegistry[r.id].usedInRequest
              /\ \E h \in HandedRequest : handed' = Append(handed, h) /\ h.begin = data.begin
  BY DEF Collects
<1>2. Receive(r) /\ r.id \in RequestIds /\ Registered(r.id) /\ UNCHANGED <<wire, alive>>
  BY DEF Collects
<1>3. OpenRequests' = OpenRequests
  <2>1. \A id \in RequestIds : /\ Registered(id)' <=> Registered(id)
                               /\ requestRegistry'[id].begin = requestRegistry[id].begin
    BY <1>1, <1>2, RegistryAssumption DEF Registered, TypeOK
  <2>2. \A id \in RequestIds : (IF Registered(id)' THEN requestRegistry'[id].begin ELSE 0)
                             = (IF Registered(id) THEN requestRegistry[id].begin ELSE 0)
    BY <2>1
  <2> QED
    BY <2>2 DEF OpenRequests
<1>4. EndedRequests' = EndedRequests
  BY <1>2 DEF EndedRequests, IsEnd
<1>5. CASE handed' = handed
  BY <1>2, <1>3, <1>4, <1>5, ContinueStep
<1>6. ASSUME ~requestRegistry[r.id].usedInRequest, NEW h \in HandedRequest,
             handed' = Append(handed, h), h.begin = data.begin
      PROVE  Lifecycle!Next
  <2> DEFINE begin == requestRegistry[r.id].begin
  <2>1. OpenRequests[r.id] = begin /\ begin # 0
    BY <1>2, OpenFollows DEF BeginInv, Begins
  <2>2. begin \notin HandedRequests
    BY <1>2, <1>6 DEF OnceInv, HandedRequests
  <2>3. HandedRequests' = HandedRequests \cup {begin}
    BY <1>1, <1>6, HandedFollows
  <2> HIDE DEF begin
  <2>4. Lifecycle!Receive
    BY <1>2, ReceiveRecords
  <2>5. Lifecycle!HandOut(r.id)
    BY <1>3, <1>4, <2>1, <2>2, <2>3, <2>4 DEF Lifecycle!HandOut
  <2> QED
    BY <1>2, <2>5 DEF Lifecycle!Next
<1> QED
  BY <1>1, <1>5, <1>6

\* sendResponse ends the request, or does nothing to any.
LEMMA ResponseStep ==
  ASSUME TypeOK, TypeOK', BeginInv, NEW k \in DOMAIN handed, SendResponse(k)
  PROVE  [Lifecycle!Next]_<<Len(received), OpenRequests, HandedRequests, EndedRequests, ~alive>>
<1>1. UNCHANGED <<received, alive>> /\ alive
  BY DEF SendResponse
<1>2. UNCHANGED handed \/ ResponseState(k, "sent")
  BY DEF SendResponse, AfterSend, AfterException
<1>3. HandedRequests' = HandedRequests
  BY <1>2, HandedFollows
<1>4. CASE EndsRequest(handed[k].id)
  <2>1. Len(received') \in Len(received)..(Len(received) + 1)
    BY <1>1, LenProperties DEF TypeOK
  <2>2. handed[k].id \in RequestIds
    BY HandedFields
  <2>3. PICK id \in RequestIds : EndsRequest(id)
    BY <1>4, <2>2
  <2>4. Lifecycle!Next \/ (OpenRequests' = OpenRequests /\ EndedRequests' = EndedRequests)
    BY <1>1, <1>3, <2>1, <2>3, EndStep
  <2> QED
    BY <1>1, <1>3, <2>4
<1>5. CASE SendsUnclaimed
  <2>1. OpenRequests' = OpenRequests
    BY <1>5, OpenFollows DEF SendsUnclaimed
  <2> QED
    BY <1>1, <1>3, <1>5, <2>1, UnclaimedEndsNothing
<1> QED
  BY <1>4, <1>5, ResponseSends

\* Every step of the code.
LEMMA NextLifecycle ==
  ASSUME TypeOK, TypeOK', OnceInv, BeginInv, [Next]_vars
  PROVE  [Lifecycle!Next]_<<Len(received), OpenRequests, HandedRequests, EndedRequests, ~alive>>
<1>1. CASE UNCHANGED <<requestRegistry, received, handed, wire, alive>>
  BY <1>1 DEF OpenRequests, Registered, HandedRequests, EndedRequests, IsEnd
<1>2. ASSUME NEW r \in IncomingRecord, HandleRecord(r)
      PROVE  Lifecycle!Next
  <2>1. CASE OnUnexpectedRecord(r) \/ OnOtherRecord(r)
    <3>1. Receive(r) /\ UNCHANGED <<requestRegistry, wire, handed, alive>>
      BY <2>1 DEF OnUnexpectedRecord, OnOtherRecord
    <3>2. OpenRequests' = OpenRequests /\ EndedRequests' = EndedRequests
      BY <3>1, OpenFollows DEF EndedRequests, IsEnd
    <3> QED
      BY <3>1, <3>2, ContinueStep
  <2>2. CASE OnGetValues(r) \/ OnInvalidRecordType(r)
    <3>1. Receive(r) /\ UNCHANGED <<requestRegistry, handed, alive>>
      BY <2>2 DEF OnGetValues, OnInvalidRecordType
    <3>2. EndedRequests' = EndedRequests
      BY <2>2, ManagementSends, ReplyEndsNothing
    <3>3. OpenRequests' = OpenRequests
      BY <3>1, OpenFollows
    <3> QED
      BY <3>1, <3>2, <3>3, ContinueStep
  <2>3. CASE OnBeginRequest(r)
    BY <2>3, BeginRequestStep
  <2>4. CASE OnAbortRequest(r)
    BY <2>4, AbortStep
  <2>5. CASE OnParams(r) \/ OnStdIn(r)
    BY <2>5, ParamsCollects, StdInCollects, CollectStep
  <2> QED
    BY <1>2, <2>1, <2>2, <2>3, <2>4, <2>5 DEF HandleRecord
<1>3. ASSUME NEW k \in DOMAIN handed, SendOrphanedResponse(k) \/ DropResponse(k)
      PROVE  UNCHANGED <<Len(received), OpenRequests, HandedRequests, EndedRequests, ~alive>>
  <2>1. /\ UNCHANGED <<requestRegistry, received, wire, alive>>
        /\ \E state \in {"sent", "dropped"} : ResponseState(k, state)
    BY <1>3 DEF SendOrphanedResponse, DropResponse
  <2>2. HandedRequests' = HandedRequests
    BY <2>1, HandedFollows
  <2> QED
    BY <2>1, <2>2, OpenFollows DEF EndedRequests, IsEnd
<1>4. CASE DestroyResponder
  <2>1. /\ UNCHANGED <<requestRegistry, received, handed, wire>>
        /\ alive /\ alive' = FALSE
    BY <1>4 DEF DestroyResponder
  <2>2. Lifecycle!Close
    BY <2>1 DEF Lifecycle!Close, OpenRequests, Registered, HandedRequests, EndedRequests, IsEnd
  <2> QED
    BY <2>2 DEF Lifecycle!Next
<1>5. CASE \/ \E value \in ConnectionLimits : SetMaximumConnectionsNumber(value)
           \/ \E value \in Limits : SetMaximumRequestsNumber(value)
           \/ \E state \in MultiplexingModes : SetMultiplexingEnabled(state)
           \/ UNCHANGED vars
  BY <1>1, <1>5 DEF SetMaximumConnectionsNumber, SetMaximumRequestsNumber, SetMultiplexingEnabled,
     vars
<1>6. CASE OnRecordRead
  BY <1>2, <1>6 DEF OnRecordRead
<1>7. CASE ApplicationStep
  BY <1>3, <1>4, <1>5, <1>7, ResponseStep DEF ApplicationStep
<1> QED
  BY <1>5, <1>6, <1>7 DEF Next

\* A new Responder is a new life cycle.
LEMMA InitLifecycle == Init => Lifecycle!Init
BY DEF Init, Lifecycle!Init, OpenRequests, HandedRequests, EndedRequests, Registered, IsEnd

\* The code implements the life cycle of requests: a request takes an id that is
\* free, is handed to the application at most once and while it is open, and its
\* id comes free only when its EndRequest was sent.
THEOREM LifecycleTheorem == Spec => Lifecycle!SafeSpec
<1>1. TypeOK /\ TypeOK' /\ OnceInv /\ BeginInv /\ [Next]_vars
        => [Lifecycle!Next]_Lifecycle!lifecycleVars
  BY NextLifecycle DEF Lifecycle!lifecycleVars
<1> QED
  BY <1>1, InitLifecycle, ResponderInvariant, BeginInvariant, PTL DEF Spec, Lifecycle!SafeSpec

-----------------------------------------------------------------------------
(* Recursion on the number of a record                                      *)

\* A set of numbers that is not empty has a least element.
LEMMA LeastNumber ==
  ASSUME NEW T, T \subseteq Nat, T # {}
  PROVE  \E n \in T : \A m \in T : n <= m
<1>1. PICK n \in T : \A m \in T : <<m, n>> \notin OpToRel(<, Nat)
  BY WFMin, NatLessThanWellFounded, Zenon
<1>2. \A m \in T : ~(m < n)
  BY <1>1, Zenon DEF OpToRel
<1>3. \A m \in T : n <= m
  <2>1. SUFFICES ASSUME NEW m \in T, ~(m < n) PROVE n <= m
    BY <1>2, Zenon
  <2>2. m \in Nat /\ n \in Nat
    OBVIOUS
  <2> QED
    BY <2>1, <2>2, SMT
<1> QED
  BY <1>3, Zenon

\* What ContentOf is at record n, if it is `before' at the record before.
ContentStep(before, records, type, id, lo, n) ==
  IF n < lo THEN <<>>
  ELSE IF records[n].type = type /\ records[n].id = id
    THEN before \o records[n].content
    ELSE before

\* It only depends on that where there is a record before.
LEMMA StepAgrees ==
  ASSUME NEW c, NEW d, NEW records, NEW type, NEW id, NEW lo \in Nat \ {0}, NEW n \in Nat,
         n > 0 => c = d
  PROVE  ContentStep(c, records, type, id, lo, n) = ContentStep(d, records, type, id, lo, n)
<1>1. CASE n < lo
  BY <1>1 DEF ContentStep
<1>2. CASE ~(n < lo)
  <2>1. c = d
    BY <1>2
  <2> QED
    BY <2>1
<1> QED
  BY <1>1, <1>2

\* f is at each number what ContentOf is there.
IsContent(f, records, type, id, lo) ==
  f = [n \in Nat |-> ContentStep(f[n - 1], records, type, id, lo, n)]

\* There is such a function.
LEMMA ContentExists ==
  ASSUME NEW records, NEW type, NEW id, NEW lo \in Nat \ {0}
  PROVE  \E f : IsContent(f, records, type, id, lo)
<1> DEFINE Step(c, n) == ContentStep(c[n - 1], records, type, id, lo, n)
           Chain(c, n) == c = [m \in 0..n |-> Step(c, m)]
<1>1. \A c, d : \A n \in Nat : (n > 0 => c[n - 1] = d[n - 1]) => Step(c, n) = Step(d, n)
  BY StepAgrees
<1> HIDE DEF Step
<1>2. ASSUME NEW n \in Nat, NEW k \in Nat, NEW c, NEW d, Chain(c, n), Chain(d, k)
      PROVE  \A m \in Nat : m <= n /\ m <= k => c[m] = d[m]
  <2> DEFINE Bad == {m \in Nat : m <= n /\ m <= k /\ c[m] # d[m]}
  <2> SUFFICES ASSUME Bad # {} PROVE FALSE
    OBVIOUS
  <2>1. PICK m \in Bad : \A j \in Bad : m <= j
    BY LeastNumber
  <2>2. m \in Nat /\ m <= n /\ m <= k /\ c[m] # d[m]
    OBVIOUS
  <2>3. m > 0 => c[m - 1] = d[m - 1]
    <3>1. SUFFICES ASSUME m > 0 PROVE m - 1 \notin Bad
      BY <2>2
    <3> QED
      BY <2>1, <2>2
  <2>4. Step(c, m) = Step(d, m)
    BY <1>1, <2>2, <2>3
  <2>5. c[m] = Step(c, m) /\ d[m] = Step(d, m)
    <3>1. m \in 0..n /\ m \in 0..k
      BY <2>2
    <3>2. c[m] = Step(c, m)
      BY <1>2, <3>1, Zenon
    <3>3. d[m] = Step(d, m)
      BY <1>2, <3>1, Zenon
    <3> QED
      BY <3>2, <3>3
  <2> QED
    BY <2>2, <2>4, <2>5
<1>3. \A n \in Nat : \E c : Chain(c, n)
  <2> DEFINE Bad == {n \in Nat : ~\E c : Chain(c, n)}
  <2> SUFFICES ASSUME Bad # {} PROVE FALSE
    OBVIOUS
  <2>1. PICK n \in Bad : \A j \in Bad : n <= j
    BY LeastNumber
  <2>2. n \in Nat /\ ~\E c : Chain(c, n)
    OBVIOUS
  <2>3. n > 0 => \E c : Chain(c, n - 1)
    <3>1. SUFFICES ASSUME n > 0 PROVE n - 1 \notin Bad
      BY <2>2
    <3> QED
      BY <2>1, <2>2
  <2>4. PICK c : n > 0 => Chain(c, n - 1)
    BY <2>3
  <2> DEFINE d == [m \in 0..n |-> IF m < n THEN c[m] ELSE Step(c, n)]
  <2>5. ASSUME NEW m \in 0..n
        PROVE  d[m] = Step(d, m)
    <3>1. m > 0 => d[m - 1] = c[m - 1]
      BY <2>2
    <3>2. Step(d, m) = Step(c, m)
      BY <1>1, <3>1
    <3>3. CASE m < n
      <4>1. c[m] = Step(c, m)
        BY <2>2, <2>4, <3>3
      <4> QED
        BY <3>2, <3>3, <4>1
    <3>4. CASE m = n
      BY <2>2, <3>2, <3>4
    <3> QED
      BY <2>2, <3>3, <3>4
  <2>6. Chain(d, n)
    BY <2>5
  <2> QED
    BY <2>2, <2>6
<1> HIDE DEF Chain
<1> DEFINE chain(n) == CHOOSE c : Chain(c, n)
           f == [n \in Nat |-> chain(n)[n]]
<1>4. \A n \in Nat : Chain(chain(n), n)
  BY <1>3
<1> HIDE DEF chain
<1>5. ASSUME NEW n \in Nat
      PROVE  f[n] = Step(f, n)
  <2>1. n > 0 => f[n - 1] = chain(n)[n - 1]
    <3> SUFFICES ASSUME n > 0 PROVE chain(n - 1)[n - 1] = chain(n)[n - 1]
      OBVIOUS
    <3>1. n - 1 \in Nat /\ n - 1 <= n /\ n - 1 <= n - 1
      OBVIOUS
    <3> QED
      BY <1>2, <1>4, <3>1
  <2>2. Step(f, n) = Step(chain(n), n)
    BY <1>1, <2>1
  <2>3. chain(n)[n] = Step(chain(n), n)
    BY <1>4 DEF Chain
  <2> QED
    BY <2>2, <2>3
<1>6. f = [n \in Nat |-> Step(f, n)]
  BY <1>5
<1>7. IsContent(f, records, type, id, lo)
  BY <1>6 DEF Step, IsContent
<1> QED
  BY <1>7

\* ContentOf does what its definition says.
LEMMA ContentOfIs ==
  ASSUME NEW records, NEW type, NEW id, NEW lo \in Nat \ {0}, NEW n \in Nat
  PROVE  ContentOf(records, type, id, lo, n) =
           ContentStep(ContentOf(records, type, id, lo, n - 1), records, type, id, lo, n)
<1> DEFINE f == CHOOSE g : g = [m \in Nat |->
                  IF m < lo THEN <<>>
                  ELSE IF records[m].type = type /\ records[m].id = id
                    THEN g[m - 1] \o records[m].content
                    ELSE g[m - 1]]
<1>1. \A m : ContentOf(records, type, id, lo, m) = f[m]
  BY DEF ContentOf
<1>2. IsContent(f, records, type, id, lo)
  <2>1. f = CHOOSE g : IsContent(g, records, type, id, lo)
    BY DEF ContentStep, IsContent
  <2> HIDE DEF f
  <2> QED
    BY <2>1, ContentExists
<1> HIDE DEF f
<1>3. f[n] = ContentStep(f[n - 1], records, type, id, lo, n)
  BY <1>2 DEF IsContent
<1> QED
  BY <1>1, <1>3

\* Records that come later change nothing.
LEMMA ContentStays ==
  ASSUME NEW records, NEW more, NEW type, NEW id, NEW lo \in Nat \ {0}, NEW hi \in Nat,
         \A n \in lo..hi : more[n] = records[n]
  PROVE  ContentOf(more, type, id, lo, hi) = ContentOf(records, type, id, lo, hi)
<1> DEFINE now(n) == ContentOf(more, type, id, lo, n)
           before(n) == ContentOf(records, type, id, lo, n)
<1>1. \A n \in Nat : /\ now(n) = ContentStep(now(n - 1), more, type, id, lo, n)
                     /\ before(n) = ContentStep(before(n - 1), records, type, id, lo, n)
  BY ContentOfIs
<1> HIDE DEF now, before
<1> DEFINE Bad == {n \in Nat : n <= hi /\ now(n) # before(n)}
<1>2. Bad = {}
  <2> SUFFICES ASSUME Bad # {} PROVE FALSE
    OBVIOUS
  <2>1. PICK n \in Bad : \A j \in Bad : n <= j
    BY LeastNumber
  <2>2. n \in Nat /\ n <= hi /\ now(n) # before(n)
    OBVIOUS
  <2>3. CASE n < lo
    BY <1>1, <2>2, <2>3 DEF ContentStep
  <2>4. CASE ~(n < lo)
    <3>1. n - 1 \in Nat /\ n - 1 <= hi /\ n - 1 < n
      BY <2>2, <2>4
    <3>2. now(n - 1) = before(n - 1)
      BY <2>1, <2>2, <3>1
    <3>3. more[n] = records[n]
      BY <2>2, <2>4
    <3>4. ContentStep(now(n - 1), more, type, id, lo, n)
            = ContentStep(before(n - 1), records, type, id, lo, n)
      BY <3>2, <3>3 DEF ContentStep
    <3> QED
      BY <1>1, <2>2, <3>4
  <2> QED
    BY <2>3, <2>4
<1>3. now(hi) = before(hi)
  BY <1>2
<1> QED
  BY <1>3 DEF now, before

-----------------------------------------------------------------------------
(* What the registry collects, and what is handed over                      *)

\* What a step does to the content of a request that is not handed over after
\* it: the request is new; or nothing was received; or a record was, and it was
\* added if it is for this request.
LEMMA NextContent ==
  ASSUME TypeOK, [Next]_vars, NEW id \in RequestIds, Registered(id)',
         ~requestRegistry'[id].usedInRequest
  PROVE  \/ \E r \in IncomingRecord :
              /\ Receive(r) /\ r.type = "BeginRequest" /\ r.id = id
              /\ requestRegistry'[id].begin = Len(received) + 1
              /\ requestRegistry'[id].params = <<>> /\ requestRegistry'[id].stdIn = <<>>
         \/ /\ Registered(id) /\ requestRegistry'[id] = requestRegistry[id]
            /\ received' = received
         \/ \E r \in IncomingRecord :
              /\ Receive(r) /\ Registered(id) /\ ~requestRegistry[id].usedInRequest
              /\ requestRegistry'[id].begin = requestRegistry[id].begin
              /\ requestRegistry'[id].params =
                   IF r.type = "Params" /\ r.id = id
                     THEN requestRegistry[id].params \o r.content
                     ELSE requestRegistry[id].params
              /\ requestRegistry'[id].stdIn =
                   IF r.type = "StdIn" /\ r.id = id
                     THEN requestRegistry[id].stdIn \o r.content
                     ELSE requestRegistry[id].stdIn
<1> DEFINE old == requestRegistry[id]
           new == requestRegistry'[id]
           Added(r) == /\ Receive(r) /\ Registered(id) /\ ~old.usedInRequest /\ new.begin = old.begin
                       /\ new.params = IF r.type = "Params" /\ r.id = id
                                         THEN old.params \o r.content ELSE old.params
                       /\ new.stdIn = IF r.type = "StdIn" /\ r.id = id
                                        THEN old.stdIn \o r.content ELSE old.stdIn
           New(r) == /\ Receive(r) /\ r.type = "BeginRequest" /\ r.id = id
                     /\ new.begin = Len(received) + 1 /\ new.params = <<>> /\ new.stdIn = <<>>
<1>0. requestRegistry \in [RequestIds -> RequestData \cup {Unregistered}]
  BY DEF TypeOK
<1>1. CASE received' = received /\ UNCHANGED requestRegistry
  BY <1>1 DEF Registered
<1>2. ASSUME NEW r \in IncomingRecord, Receive(r), Registered(id), new = old,
             ~(r.type = "Params" /\ r.id = id), ~(r.type = "StdIn" /\ r.id = id)
      PROVE  Added(r)
  BY <1>2
<1>3. ASSUME NEW r \in IncomingRecord, HandleRecord(r)
      PROVE  New(r) \/ Added(r)
  <2>1. CASE OnUnexpectedRecord(r)
    <3>1. Receive(r) /\ ~IsRecordExpected(r) /\ Registered(id) /\ new = old
      BY <2>1 DEF OnUnexpectedRecord, Registered
    <3>2. ~(r.type = "Params" /\ r.id = id) /\ ~(r.type = "StdIn" /\ r.id = id)
      BY <3>1 DEF IsRecordExpected
    <3> QED
      BY <1>2, <3>1, <3>2
  <2>2. CASE OnGetValues(r) \/ OnInvalidRecordType(r) \/ OnOtherRecord(r)
    <3>1. Receive(r) /\ Registered(id) /\ new = old /\ r.type \notin {"Params", "StdIn"}
      BY <2>2, TypesAssumption DEF OnGetValues, OnInvalidRecordType, OnOtherRecord, Registered
    <3> QED
      BY <1>2, <3>1
  <2>3. CASE OnBeginRequest(r)
    <3>1. Receive(r) /\ r.type = "BeginRequest" /\ r.id \in RequestIds
      BY <2>3, RecordFields DEF OnBeginRequest
    <3>2. CASE id = r.id /\ Refusal(r) = "none"
      <4>1. requestRegistry' = [requestRegistry EXCEPT ![r.id] =
              [keepConnection |-> r.keep, usedInRequest |-> FALSE,
               params |-> <<>>, stdIn |-> <<>>, begin |-> Len(received) + 1]]
        BY <2>3, <3>2 DEF OnBeginRequest
      <4> QED
        BY <1>0, <3>1, <3>2, <4>1
    <3>3. CASE ~(id = r.id /\ Refusal(r) = "none")
      <4>1. Registered(id) /\ new = old
        BY <1>0, <2>3, <3>1, <3>3 DEF OnBeginRequest, Registered
      <4> QED
        BY <1>2, <3>1, <4>1
    <3> QED
      BY <3>2, <3>3
  <2>4. CASE OnAbortRequest(r)
    <3>1. Receive(r) /\ r.type = "AbortRequest" /\ r.id \in RequestIds
          /\ (DeleteRequest(r.id) \/ UNCHANGED requestRegistry)
      BY <2>4, RecordFields DEF OnAbortRequest
    <3>2. Registered(id) /\ new = old
      BY <3>1, DeletedEntries
    <3> QED
      BY <1>2, <3>1, <3>2
  <2>5. CASE OnParams(r)
    <3>1. /\ Receive(r) /\ r.type = "Params" /\ r.id \in RequestIds /\ Registered(r.id)
          /\ requestRegistry' = [requestRegistry EXCEPT ![r.id] = AddParams(@, r.content)]
      BY <2>5, RecordFields DEF OnParams, IsRecordExpected
    <3>2. CASE id = r.id
      <4>1. new = [old EXCEPT !.params = @ \o r.content] /\ Registered(id)
        BY <1>0, <3>1, <3>2 DEF AddParams
      <4>2. old \in RequestData
        BY <4>1, EntryType
      <4>3. /\ new.params = old.params \o r.content /\ new.stdIn = old.stdIn
            /\ new.begin = old.begin /\ new.usedInRequest = old.usedInRequest
        BY <4>1, <4>2 DEF RequestData
      <4> QED
        BY <3>1, <3>2, <4>1, <4>3
    <3>3. CASE id # r.id
      <4>1. Registered(id) /\ new = old
        BY <1>0, <3>1, <3>3 DEF Registered
      <4> QED
        BY <1>2, <3>1, <3>3, <4>1
    <3> QED
      BY <3>2, <3>3
  <2>6. CASE OnStdIn(r)
    <3> DEFINE data == requestRegistry[r.id]
               used == [data EXCEPT !.usedInRequest = TRUE, !.params = <<>>, !.stdIn = <<>>]
    <3>1. /\ Receive(r) /\ r.type = "StdIn" /\ r.id \in RequestIds /\ Registered(r.id)
          /\ \/ requestRegistry' = [requestRegistry EXCEPT ![r.id] = AddStdIn(@, r.content)]
             \/ requestRegistry' = [requestRegistry EXCEPT ![r.id] = used]
      BY <2>6, RecordFields DEF OnStdIn, IsRecordExpected
    <3>2. CASE id = r.id
      <4>1. data \in RequestData /\ data = old /\ Registered(id)
        BY <3>1, <3>2, EntryType
      <4>2. used.usedInRequest
        BY <4>1 DEF RequestData
      <4>3. new = [old EXCEPT !.stdIn = @ \o r.content]
        BY <1>0, <3>1, <3>2, <4>2 DEF AddStdIn
      <4>4. /\ new.stdIn = old.stdIn \o r.content /\ new.params = old.params
            /\ new.begin = old.begin /\ new.usedInRequest = old.usedInRequest
        BY <4>1, <4>3 DEF RequestData
      <4> QED
        BY <3>1, <3>2, <4>1, <4>4
    <3>3. CASE id # r.id
      <4>1. Registered(id) /\ new = old
        BY <1>0, <3>1, <3>3 DEF Registered
      <4> QED
        BY <1>2, <3>1, <3>3, <4>1
    <3> QED
      BY <3>2, <3>3
  <2> QED
    BY <1>3, <2>1, <2>2, <2>3, <2>4, <2>5, <2>6 DEF HandleRecord
<1>4. CASE OnRecordRead
  BY <1>3, <1>4 DEF OnRecordRead
<1>5. CASE ApplicationStep
  <2>1. ASSUME NEW k \in DOMAIN handed, SendResponse(k)
        PROVE  Registered(id) /\ new = old /\ received' = received
    <3>1. /\ received' = received
          /\ DeleteRequest(handed[k].id) \/ UNCHANGED requestRegistry
      BY <2>1 DEF SendResponse, AfterException
    <3>2. handed[k].id \in RequestIds
      BY HandedFields
    <3> QED
      BY <3>1, <3>2, DeletedEntries
  <2>2. CASE received' = received /\ UNCHANGED requestRegistry
    BY <1>1, <2>2
  <2> QED
    BY <1>5, <2>1, <2>2 DEF ApplicationStep, SendOrphanedResponse, DropResponse,
       SetMaximumConnectionsNumber, SetMaximumRequestsNumber, SetMultiplexingEnabled, DestroyResponder
<1>6. CASE UNCHANGED vars
  BY <1>1, <1>6 DEF vars
<1> QED
  BY <1>4, <1>5, <1>6 DEF Next
\* What makes ProcessedContentIsOwn inductive: a request that is not handed over
\* yet has exactly the content received so far.
ContentInv ==
  /\ \A id \in RequestIds : Registered(id) /\ ~requestRegistry[id].usedInRequest =>
       LET begin == requestRegistry[id].begin
       IN  /\ requestRegistry[id].params = ContentOf(received, "Params", id, begin, Len(received))
           /\ requestRegistry[id].stdIn = ContentOf(received, "StdIn", id, begin, Len(received))
  /\ \A k \in DOMAIN handed :
       /\ handed[k].end \in 1..Len(received)
       /\ handed[k].params =
            ContentOf(received, "Params", handed[k].id, handed[k].begin, handed[k].end)
       /\ handed[k].stdIn =
            ContentOf(received, "StdIn", handed[k].id, handed[k].begin, handed[k].end)

\* With one record more, the content is what it was, and what is in the record if
\* it is for the request.
LEMMA ContentGrows ==
  ASSUME TypeOK, NEW r \in IncomingRecord, Receive(r), NEW type, NEW id,
         NEW lo \in 1..Len(received)
  PROVE  ContentOf(received', type, id, lo, Len(received) + 1) =
           IF r.type = type /\ r.id = id
             THEN ContentOf(received, type, id, lo, Len(received)) \o r.content
             ELSE ContentOf(received, type, id, lo, Len(received))
<1> DEFINE n == Len(received) + 1
           before == ContentOf(received, type, id, lo, Len(received))
           now == ContentOf(received', type, id, lo, n)
<1>1. received \in Seq(IncomingRecord) /\ Len(received) \in Nat /\ lo \in Nat \ {0}
  BY LenProperties DEF TypeOK
<1>2. received'[n] = r /\ \A m \in 1..Len(received) : received'[m] = received[m]
  BY <1>1, AppendProperties DEF Receive
<1>3. \A m \in lo..Len(received) : received'[m] = received[m]
  BY <1>1, <1>2
<1>4. ContentOf(received', type, id, lo, Len(received)) = before
  BY <1>1, <1>3, ContentStays
<1>5. n \in Nat /\ n - 1 = Len(received) /\ ~(n < lo)
  BY <1>1
<1> HIDE DEF n
<1>6. now = ContentStep(ContentOf(received', type, id, lo, n - 1), received', type, id, lo, n)
  BY <1>1, <1>5, ContentOfIs
<1> HIDE DEF before, now
<1>7. now = ContentStep(before, received', type, id, lo, n)
  BY <1>4, <1>5, <1>6
<1>8. now = IF r.type = type /\ r.id = id THEN before \o r.content ELSE before
  BY <1>2, <1>5, <1>7 DEF ContentStep
<1> QED
  BY <1>8 DEF now, before, n

\* Nothing is carried before the BeginRequest, and nothing by it.
LEMMA ContentStarts ==
  ASSUME TypeOK, NEW r \in IncomingRecord, Receive(r), r.type = "BeginRequest",
         NEW type \in {"Params", "StdIn"}, NEW id
  PROVE  ContentOf(received', type, id, Len(received) + 1, Len(received) + 1) = <<>>
<1> DEFINE n == Len(received) + 1
           none == ContentOf(received', type, id, n, n - 1)
           one == ContentOf(received', type, id, n, n)
<1>1. received \in Seq(IncomingRecord) /\ Len(received) \in Nat
  BY LenProperties DEF TypeOK
<1>2. received'[n].type # type
  BY <1>1, AppendProperties DEF Receive
<1>3. n \in Nat \ {0} /\ n - 1 \in Nat /\ n - 1 < n /\ ~(n < n)
  BY <1>1
<1> HIDE DEF n
<1>4. none = ContentStep(ContentOf(received', type, id, n, n - 1 - 1), received', type, id, n, n - 1)
  BY <1>3, ContentOfIs
<1>5. one = ContentStep(none, received', type, id, n, n)
  BY <1>3, ContentOfIs
<1> HIDE DEF none, one
<1>6. none = <<>>
  BY <1>3, <1>4 DEF ContentStep
<1>7. one = <<>>
  BY <1>2, <1>3, <1>5, <1>6 DEF ContentStep
<1> QED
  BY <1>7 DEF one, n

\* What is collected for a request stays what was received for it.
LEMMA NextCollected ==
  ASSUME TypeOK, TypeOK', BeginInv, ContentInv, [Next]_vars, NEW id \in RequestIds,
         Registered(id)', ~requestRegistry'[id].usedInRequest
  PROVE  /\ requestRegistry'[id].params =
              ContentOf(received', "Params", id, requestRegistry'[id].begin, Len(received'))
         /\ requestRegistry'[id].stdIn =
              ContentOf(received', "StdIn", id, requestRegistry'[id].begin, Len(received'))
<1> DEFINE old == requestRegistry[id]
           new == requestRegistry'[id]
<1>1. ASSUME NEW r \in IncomingRecord, Receive(r), r.type = "BeginRequest", r.id = id,
             new.begin = Len(received) + 1, new.params = <<>>, new.stdIn = <<>>
      PROVE  /\ new.params = ContentOf(received', "Params", id, new.begin, Len(received'))
             /\ new.stdIn = ContentOf(received', "StdIn", id, new.begin, Len(received'))
  <2>1. Len(received') = Len(received) + 1
    BY <1>1, ReceiveLength
  <2>2. /\ ContentOf(received', "Params", id, Len(received) + 1, Len(received) + 1) = <<>>
        /\ ContentOf(received', "StdIn", id, Len(received) + 1, Len(received) + 1) = <<>>
    BY <1>1, ContentStarts
  <2> QED
    BY <1>1, <2>1, <2>2
<1>2. CASE Registered(id) /\ new = old /\ received' = received
  BY <1>2 DEF ContentInv
<1>3. ASSUME NEW r \in IncomingRecord, Receive(r), Registered(id), ~old.usedInRequest,
             new.begin = old.begin,
             new.params = IF r.type = "Params" /\ r.id = id
                            THEN old.params \o r.content ELSE old.params,
             new.stdIn = IF r.type = "StdIn" /\ r.id = id
                           THEN old.stdIn \o r.content ELSE old.stdIn
      PROVE  /\ new.params = ContentOf(received', "Params", id, new.begin, Len(received'))
             /\ new.stdIn = ContentOf(received', "StdIn", id, new.begin, Len(received'))
  <2> DEFINE begin == old.begin
             size == Len(received)
  <2>1. Len(received') = size + 1 /\ begin \in 1..size
    BY <1>3, ReceiveLength DEF BeginInv, Begins
  <2>2. /\ old.params = ContentOf(received, "Params", id, begin, size)
        /\ old.stdIn = ContentOf(received, "StdIn", id, begin, size)
    BY <1>3 DEF ContentInv
  <2>3. \A type : ContentOf(received', type, id, begin, size + 1) =
                    IF r.type = type /\ r.id = id
                      THEN ContentOf(received, type, id, begin, size) \o r.content
                      ELSE ContentOf(received, type, id, begin, size)
    BY <1>3, <2>1, ContentGrows
  <2> HIDE DEF begin, size
  <2>4. begin = new.begin
    BY <1>3 DEF begin
  <2> QED
    BY <1>3, <2>1, <2>2, <2>3, <2>4
<1> QED
  BY <1>1, <1>2, <1>3, NextContent

\* The request that onStdIn hands over has what was collected; every other one
\* keeps what it has.
LEMMA NextHandedContent ==
  ASSUME TypeOK, [Next]_vars, NEW k \in DOMAIN handed'
  PROVE  \/ /\ k \in DOMAIN handed
            /\ handed'[k].id = handed[k].id /\ handed'[k].begin = handed[k].begin
            /\ handed'[k].end = handed[k].end
            /\ handed'[k].params = handed[k].params /\ handed'[k].stdIn = handed[k].stdIn
         \/ \E r \in IncomingRecord :
              /\ Receive(r) /\ r.type = "StdIn" /\ r.content = <<>>
              /\ r.id \in RequestIds /\ Registered(r.id)
              /\ ~requestRegistry[r.id].usedInRequest
              /\ handed'[k].id = r.id /\ handed'[k].end = Len(received) + 1
              /\ handed'[k].begin = requestRegistry[r.id].begin
              /\ handed'[k].params = requestRegistry[r.id].params
              /\ handed'[k].stdIn = requestRegistry[r.id].stdIn
<1>1. handed \in Seq(HandedRequest) /\ DOMAIN handed = 1..Len(handed) /\ Len(handed) \in Nat
  BY LenProperties DEF TypeOK
<1>2. CASE UNCHANGED handed
  BY <1>2
<1>3. ASSUME NEW r \in IncomingRecord, OnStdIn(r), handed' # handed
      PROVE  \/ k \in DOMAIN handed /\ handed'[k] = handed[k]
             \/ /\ Receive(r) /\ r.type = "StdIn" /\ r.content = <<>>
                /\ r.id \in RequestIds /\ Registered(r.id)
                /\ ~requestRegistry[r.id].usedInRequest
                /\ handed'[k].id = r.id /\ handed'[k].end = Len(received) + 1
                /\ handed'[k].begin = requestRegistry[r.id].begin
                /\ handed'[k].params = requestRegistry[r.id].params
                /\ handed'[k].stdIn = requestRegistry[r.id].stdIn
  <2> DEFINE data == requestRegistry[r.id]
             request == [id |-> r.id, begin |-> data.begin, end |-> Len(received) + 1,
                         params |-> data.params, stdIn |-> data.stdIn, response |-> "valid"]
  <2>1. /\ Receive(r) /\ r.type = "StdIn" /\ r.id \in RequestIds /\ Registered(r.id)
        /\ r.content = <<>> /\ ~data.usedInRequest
        /\ handed' = Append(handed, request)
    BY <1>3, RecordFields DEF OnStdIn, IsRecordExpected, MakesRequest
  <2>2. request \in HandedRequest
    <3>1. /\ data.stdIn \in Seq(Bytes) /\ data.params \in Seq(Params) /\ data.begin \in Nat
      BY <2>1, EntryType
    <3>2. Len(received) + 1 \in Nat
      BY LenProperties DEF TypeOK
    <3> QED
      BY <2>1, <3>1, <3>2 DEF HandedRequest
  <2>3. /\ request.id = r.id /\ request.end = Len(received) + 1 /\ request.begin = data.begin
        /\ request.params = data.params /\ request.stdIn = data.stdIn
    OBVIOUS
  <2> HIDE DEF request
  <2>4. /\ handed' \in Seq(HandedRequest) /\ Len(handed') = Len(handed) + 1
        /\ \A j \in 1..Len(handed) : handed'[j] = handed[j]
        /\ handed'[Len(handed) + 1] = request
    BY <1>1, <2>1, <2>2, AppendProperties
  <2>5. k \in 1..Len(handed) \/ k = Len(handed) + 1
    BY <1>1, <2>4, LenProperties
  <2> QED
    BY <1>1, <2>1, <2>3, <2>4, <2>5
<1>4. ASSUME NEW j \in DOMAIN handed, NEW state \in {"sent", "dropped"}, ResponseState(j, state)
      PROVE  /\ k \in DOMAIN handed
             /\ handed'[k].id = handed[k].id /\ handed'[k].begin = handed[k].begin
             /\ handed'[k].end = handed[k].end
             /\ handed'[k].params = handed[k].params /\ handed'[k].stdIn = handed[k].stdIn
  <2>1. k \in DOMAIN handed
    BY <1>4, ResponseStateType
  <2>2. handed[k] \in HandedRequest
    BY <2>1, HandedFields
  <2>3. handed'[k] = handed[k] \/ handed'[k] = [handed[k] EXCEPT !.response = state]
    BY <1>1, <1>4, <2>1 DEF ResponseState
  <2> QED
    BY <2>1, <2>2, <2>3 DEF HandedRequest
<1>5. \/ UNCHANGED handed
      \/ \E r \in IncomingRecord : OnStdIn(r)
      \/ \E j \in DOMAIN handed, state \in {"sent", "dropped"} : ResponseState(j, state)
  BY DEF Next, vars, OnRecordRead, HandleRecord, OnUnexpectedRecord, OnBeginRequest,
     OnAbortRequest, OnGetValues, OnInvalidRecordType, OnParams, OnOtherRecord,
     ApplicationStep, SendResponse, AfterSend, AfterException, SendOrphanedResponse, DropResponse,
     SetMaximumConnectionsNumber, SetMaximumRequestsNumber, SetMultiplexingEnabled, DestroyResponder
<1> QED
  BY <1>2, <1>3, <1>4, <1>5

\* What was handed over stays what was received for it.
LEMMA NextProcessed ==
  ASSUME TypeOK, TypeOK', BeginInv, ContentInv, [Next]_vars, NEW k \in DOMAIN handed'
  PROVE  /\ handed'[k].end \in 1..Len(received')
         /\ handed'[k].params =
              ContentOf(received', "Params", handed'[k].id, handed'[k].begin, handed'[k].end)
         /\ handed'[k].stdIn =
              ContentOf(received', "StdIn", handed'[k].id, handed'[k].begin, handed'[k].end)
<1> DEFINE new == handed'[k]
           old == handed[k]
           Own == /\ new.end \in 1..Len(received')
                  /\ new.params = ContentOf(received', "Params", new.id, new.begin, new.end)
                  /\ new.stdIn = ContentOf(received', "StdIn", new.id, new.begin, new.end)
<1>1. /\ Len(received) \in Nat /\ Len(received') \in Nat /\ Len(received) <= Len(received')
      /\ \A n \in 1..Len(received) : received'[n] = received[n]
  BY NextReceives
<1>2. CASE /\ k \in DOMAIN handed
           /\ new.id = old.id /\ new.begin = old.begin /\ new.end = old.end
           /\ new.params = old.params /\ new.stdIn = old.stdIn
  <2>1. /\ old.end \in 1..Len(received) /\ old.begin \in 1..Len(received)
        /\ old.params = ContentOf(received, "Params", old.id, old.begin, old.end)
        /\ old.stdIn = ContentOf(received, "StdIn", old.id, old.begin, old.end)
    BY <1>2 DEF ContentInv, BeginInv, Begins
  <2>2. old.begin \in Nat \ {0} /\ old.end \in Nat
        /\ \A n \in (old.begin)..(old.end) : received'[n] = received[n]
    BY <1>1, <2>1
  <2>3. \A type : ContentOf(received', type, old.id, old.begin, old.end)
                    = ContentOf(received, type, old.id, old.begin, old.end)
    <3> DEFINE lo == old.begin
               hi == old.end
               id == old.id
    <3>1. lo \in Nat \ {0} /\ hi \in Nat /\ \A n \in lo..hi : received'[n] = received[n]
      BY <2>2
    <3> HIDE DEF lo, hi, id
    <3>2. \A type : ContentOf(received', type, id, lo, hi) = ContentOf(received, type, id, lo, hi)
      BY <3>1, ContentStays
    <3> QED
      BY <3>2 DEF lo, hi, id
  <2>4. new.end \in 1..Len(received')
    BY <1>1, <1>2, <2>1
  <2> QED
    BY <1>2, <2>1, <2>3, <2>4
<1>3. ASSUME NEW r \in IncomingRecord, Receive(r), r.type = "StdIn", r.content = <<>>,
             r.id \in RequestIds, Registered(r.id), ~requestRegistry[r.id].usedInRequest,
             new.id = r.id, new.end = Len(received) + 1,
             new.begin = requestRegistry[r.id].begin,
             new.params = requestRegistry[r.id].params,
             new.stdIn = requestRegistry[r.id].stdIn
      PROVE  Own
  <2> DEFINE id == r.id
             begin == requestRegistry[r.id].begin
             params == requestRegistry[r.id].params
             stdIn == requestRegistry[r.id].stdIn
             size == Len(received)
  <2>1. /\ params = ContentOf(received, "Params", id, begin, size)
        /\ stdIn = ContentOf(received, "StdIn", id, begin, size)
    BY <1>3 DEF ContentInv
  <2>2. begin \in 1..size /\ stdIn \in Seq(Bytes) /\ Len(received') = size + 1
    BY <1>3, EntryType, ReceiveLength DEF BeginInv, Begins
  <2>3. \A type : ContentOf(received', type, id, begin, size + 1) =
                    IF r.type = type /\ r.id = id
                      THEN ContentOf(received, type, id, begin, size) \o r.content
                      ELSE ContentOf(received, type, id, begin, size)
    <3>1. begin \in 1..Len(received)
      BY <2>2
    <3>2. \A lo \in 1..Len(received) : \A type, i :
            ContentOf(received', type, i, lo, Len(received) + 1) =
              IF r.type = type /\ r.id = i
                THEN ContentOf(received, type, i, lo, Len(received)) \o r.content
                ELSE ContentOf(received, type, i, lo, Len(received))
      <4>1. r \in IncomingRecord /\ Receive(r)
        BY <1>3
      <4> QED
        BY <4>1, ContentGrows
    <3> HIDE DEF begin, id
    <3> QED
      BY <3>1, <3>2
  <2> HIDE DEF begin, params, stdIn, size, id
  <2>4. ContentOf(received', "Params", id, begin, size + 1) = params
    BY <1>3, <2>1, <2>3
  <2>5. ContentOf(received', "StdIn", id, begin, size + 1) = stdIn
    <3>1. stdIn \o <<>> = stdIn
      BY <2>2, ConcatEmptySeq
    <3> QED
      BY <1>3, <2>1, <2>3, <3>1 DEF id
  <2>6. new.id = id /\ new.begin = begin /\ new.end = size + 1
        /\ new.params = params /\ new.stdIn = stdIn
    BY <1>3 DEF id, begin, params, stdIn, size
  <2>7. size + 1 \in 1..Len(received')
    BY <1>1, <2>2 DEF size
  <2> QED
    BY <2>4, <2>5, <2>6, <2>7
<1> QED
  BY <1>2, <1>3, NextHandedContent

\* The invariant holds from the start and forever.
LEMMA ContentInvariant == Spec => []ContentInv
<1>1. Init => ContentInv
  BY DEF Init, ContentInv, Registered
<1>2. TypeOK /\ TypeOK' /\ BeginInv /\ ContentInv /\ [Next]_vars => ContentInv'
  BY NextCollected, NextProcessed DEF ContentInv
<1> QED
  BY <1>1, <1>2, ResponderTypes, BeginInvariant, PTL DEF Spec

\* The application gets exactly the parameters and the data that were sent under
\* the request's id from its BeginRequest on to the end of its StdIn, however the
\* records of other requests, and of earlier ones with the same id, are mixed in.
THEOREM ContentTheorem == Spec => []ProcessedContentIsOwn
<1>1. BeginInv /\ ContentInv => ProcessedContentIsOwn
  BY DEF BeginInv, Begins, ContentInv, ProcessedContentIsOwn
<1> QED
  BY <1>1, BeginInvariant, ContentInvariant, PTL
=============================================================================
