----------------------------- MODULE SessionProofs -----------------------------
(***************************************************************************)
(* A Requester and a Responder on one connection are what each of them     *)
(* takes the other one for, whatever the number of ids, requests and       *)
(* limits: their invariants hold together, no request is refused, and each *)
(* response handler gets what the application answered to its request.     *)
(***************************************************************************)
EXTENDS Session, SequenceTheorems, FiniteSetTheorems, TLAPS

\* The two sides, as in Session, with what is proved of each of them.
RP ==
  INSTANCE ResponderWireProofs
    WITH cfg <- responderCfg,
         RequestIds <- Ids, Params <- Requests, Bytes <- Requests,
         ParamLists <- Contents, StdInData <- Contents, Roles <- {"Responder"},
         OtherTypes <- {}, ManagementTypes <- {"GetValues"},
         AbortsProcessing <- FALSE, ReconfiguresWhileBusy <- FALSE,
         DropsResponses <- FALSE, CopiesResponses <- FALSE, DestroysResponder <- FALSE,
         MaxReceived <- 1 + 5 * MaxRequests, MaxStreamRecords <- MaxPieces,
         MaxExceptions <- 0

QP ==
  INSTANCE RequesterAnswersProofs
    WITH cfg <- requesterCfg, serving <- Serving, output <- Output,
         getValuesOwed <- GetValuesOwed,
         MaxReqsValues <- Limits \cup {10}, MultiplexingModes <- MultiplexingModes \cup {TRUE},
         ResultKinds <- {"valid"},
         Statuses <- {"RequestComplete", "Overloaded", "CantMpxConn", "UnknownRole"},
         Cancels <- {}, SendsUnknownTypes <- FALSE, Volunteers <- FALSE,
         MaxPieces <- 2 * MaxPieces, MaxFaults <- 0

-----------------------------------------------------------------------------
(* The constants                                                            *)

\* The standard modules are instantiated along with the two sides.
LEMMA StandardOperators ==
  /\ \A S : RP!IsFiniteSet(S) <=> IsFiniteSet(S)
  /\ \A S : RP!Cardinality(S) = Cardinality(S) /\ Responder!Cardinality(S) = Cardinality(S)
  /\ \A S : QP!Cardinality(S) = Cardinality(S) /\ Requester!Cardinality(S) = Cardinality(S)
BY Zenon DEF RP!IsFiniteSet, IsFiniteSet, RP!Cardinality, Responder!Cardinality,
             QP!Cardinality, Requester!Cardinality, Cardinality,
             Responder!IsFiniteSet, QP!IsFiniteSet, Requester!IsFiniteSet

\* What the Responder's constants have to be.
LEMMA ResponderConstants ==
  /\ Contents \subseteq Seq(Requests) /\ Contents \subseteq Seq(Requests)
  /\ KeepModes \subseteq BOOLEAN /\ MultiplexingModes \subseteq BOOLEAN
  /\ Limits \subseteq Int /\ ConnectionLimits \subseteq Int
  /\ {} \cap {"BeginRequest", "AbortRequest", "Params", "StdIn", "GetValues", "Invalid"} = {}
  /\ {"GetValues"} \subseteq {"GetValues", "Invalid"}
  /\ RP!IsFiniteSet(Ids) /\ Unregistered \notin RP!RequestData
  /\ MaxPieces \in Nat
<1>1. Contents \subseteq Seq(Requests)
  <2>1. \A k \in Requests : <<k>> \in Seq(Requests)
    OBVIOUS
  <2>2. <<>> \in Seq(Requests)
    OBVIOUS
  <2> QED
    BY <2>1, <2>2 DEF Contents
<1>2. RP!IsFiniteSet(Ids)
  <2>1. IsFiniteSet(Ids)
    BY BoundsAssumption, FS_Interval DEF Ids
  <2> QED
    BY <2>1, StandardOperators
<1>3. Unregistered \notin RP!RequestData
  BY UnregisteredAssumption DEF RP!RequestData, Responder!RequestData
<1>4. Limits \subseteq Int
  BY LimitsAssumption
<1> QED
  BY <1>1, <1>2, <1>3, <1>4, ModesAssumption, BoundsAssumption

\* What the Requester's constants have to be.
LEMMA RequesterConstants ==
  /\ IdLimit \in Nat /\ IdLimit > 1
  /\ Limits \cup {10} \subseteq Int /\ MultiplexingModes \cup {TRUE} \subseteq BOOLEAN
  /\ KeepModes \subseteq BOOLEAN
  /\ {"valid"} \subseteq {"valid", "empty", "badMaxReqs", "badMpxsConns"}
  /\ {"RequestComplete", "Overloaded", "CantMpxConn", "UnknownRole"}
       \subseteq {"RequestComplete", "Overloaded", "CantMpxConn", "UnknownRole"}
  /\ MaxRequests \in Nat
  /\ {} \subseteq QP!Phases
  /\ NoContext \notin QP!ResponseContext
<1>1. NoContext \notin QP!ResponseContext
  BY NoContextAssumption DEF QP!ResponseContext, Requester!ResponseContext, QP!Piece, Requester!Piece,
     QP!Requests, Requester!Requests
<1>2. Limits \cup {10} \subseteq Int
  BY LimitsAssumption
<1>3. MultiplexingModes \cup {TRUE} \subseteq BOOLEAN
  BY ModesAssumption, Zenon
<1>4. KeepModes \subseteq BOOLEAN
  BY ModesAssumption, Zenon
<1> QED
  BY <1>1, <1>2, <1>3, <1>4, BoundsAssumption, Zenon

\* The invariants of both sides.
LEMMA ResponderStep ==
  ASSUME RP!ResponderInv, [RP!Next]_RP!vars, exceptions' = exceptions
  PROVE  RP!ResponderInv'
BY ResponderConstants, RP!NextResponder, Zenon

LEMMA RequesterStep ==
  ASSUME QP!RequesterInv, [QP!Next]_QP!vars
  PROVE  QP!RequesterInv'
BY RequesterConstants, QP!NextRequester

-----------------------------------------------------------------------------
(* Their steps are steps of the two sides                                   *)

\* Handlers of records, and calls of the application.
LEMMA ResponderHandlers ==
  /\ RP!Init <=> Responder!Init
  /\ \A r : RP!HandleRecord(r) <=> Responder!HandleRecord(r)
  /\ \A k : RP!SendResponse(k) <=> Responder!SendResponse(k)
  /\ \A v : RP!SetMaximumConnectionsNumber(v) <=> Responder!SetMaximumConnectionsNumber(v)
  /\ \A v : RP!SetMaximumRequestsNumber(v) <=> Responder!SetMaximumRequestsNumber(v)
  /\ \A v : RP!SetMultiplexingEnabled(v) <=> Responder!SetMultiplexingEnabled(v)
<1>1. RP!Init <=> Responder!Init
  BY Zenon
     DEF RP!Init, Responder!Init
<1>2. \A r : RP!OnUnexpectedRecord(r) <=> Responder!OnUnexpectedRecord(r)
  BY Zenon
     DEF RP!OnUnexpectedRecord, RP!Receive, RP!IsRecordExpected, RP!Registered,
         Responder!OnUnexpectedRecord, Responder!Receive, Responder!IsRecordExpected,
         Responder!Registered
<1>3. \A r : RP!OnBeginRequest(r) <=> Responder!OnBeginRequest(r)
  BY Zenon
     DEF RP!OnBeginRequest, RP!Refusal, RP!RegistrySize, RP!RegisteredIds, RP!Registered,
         RP!Receive, RP!IsRecordExpected, RP!EndRequestRecord, RP!EmitThrows, RP!Emit,
         RP!Disconnect, RP!Cardinality, RP!IsFiniteSet, Responder!OnBeginRequest,
         Responder!Refusal, Responder!RegistrySize, Responder!RegisteredIds,
         Responder!Registered, Responder!Receive, Responder!IsRecordExpected,
         Responder!EndRequestRecord, Responder!EmitThrows, Responder!Emit,
         Responder!Disconnect, Responder!Cardinality, Responder!IsFiniteSet
<1>4. \A r : RP!OnAbortRequest(r) <=> Responder!OnAbortRequest(r)
  BY Zenon
     DEF RP!OnAbortRequest, RP!Receive, RP!IsRecordExpected, RP!Registered, RP!EndEvents,
         RP!EndRequestRecord, RP!Disconnect, RP!EmitThrows, RP!Emit, RP!DeleteRequest,
         Responder!OnAbortRequest, Responder!Receive, Responder!IsRecordExpected,
         Responder!Registered, Responder!EndEvents, Responder!EndRequestRecord,
         Responder!Disconnect, Responder!EmitThrows, Responder!Emit,
         Responder!DeleteRequest
<1>5. \A r : RP!OnGetValues(r) <=> Responder!OnGetValues(r)
  BY Zenon
     DEF RP!OnGetValues, RP!Receive, RP!EmitThrows, RP!Emit, Responder!OnGetValues,
         Responder!Receive, Responder!EmitThrows, Responder!Emit
<1>6. \A r : RP!OnInvalidRecordType(r) <=> Responder!OnInvalidRecordType(r)
  BY Zenon
     DEF RP!OnInvalidRecordType, RP!Receive, RP!EmitThrows, RP!Emit,
         Responder!OnInvalidRecordType, Responder!Receive, Responder!EmitThrows,
         Responder!Emit
<1>7. \A r : RP!OnParams(r) <=> Responder!OnParams(r)
  BY Zenon
     DEF RP!OnParams, RP!Receive, RP!IsRecordExpected, RP!Registered, RP!AddParams,
         Responder!OnParams, Responder!Receive, Responder!IsRecordExpected,
         Responder!Registered, Responder!AddParams
<1>8. \A r : RP!OnStdIn(r) <=> Responder!OnStdIn(r)
  BY Zenon
     DEF RP!OnStdIn, RP!Receive, RP!MakesRequest, RP!IsRecordExpected, RP!Registered,
         RP!AddStdIn, Responder!OnStdIn, Responder!Receive, Responder!MakesRequest,
         Responder!IsRecordExpected, Responder!Registered, Responder!AddStdIn
<1>9. \A r : RP!OnOtherRecord(r) <=> Responder!OnOtherRecord(r)
  BY Zenon
     DEF RP!OnOtherRecord, RP!Receive, RP!IsRecordExpected, RP!Registered,
         Responder!OnOtherRecord, Responder!Receive, Responder!IsRecordExpected,
         Responder!Registered
<1>10. \A r : RP!HandleRecord(r) <=> Responder!HandleRecord(r)
  BY <1>2, <1>3, <1>4, <1>5, <1>6, <1>7, <1>8, <1>9, Zenon
     DEF RP!HandleRecord, Responder!HandleRecord
<1>11. \A k : RP!SendResponse(k) <=> Responder!SendResponse(k)
  BY Zenon
     DEF RP!SendResponse, RP!Registered, RP!MakeStream, RP!EndRequestRecord,
         RP!EndEvents, RP!Disconnect, RP!EmitThrows, RP!Emit, RP!DeleteRequest,
         RP!AfterSend, RP!ResponseState, RP!AfterException, Responder!SendResponse,
         Responder!Registered, Responder!MakeStream, Responder!EndRequestRecord,
         Responder!EndEvents, Responder!Disconnect, Responder!EmitThrows,
         Responder!Emit, Responder!DeleteRequest, Responder!AfterSend,
         Responder!ResponseState, Responder!AfterException, RP!StaleEnds,
         Responder!StaleEnds, RP!Cardinality, Responder!Cardinality, RP!IsFiniteSet,
         Responder!IsFiniteSet
<1>12. \A v : RP!SetMaximumConnectionsNumber(v) <=> Responder!SetMaximumConnectionsNumber(v)
  BY Zenon
     DEF RP!SetMaximumConnectionsNumber, RP!MayReconfigure, RP!RegisteredIds,
         RP!Registered, Responder!SetMaximumConnectionsNumber, Responder!MayReconfigure,
         Responder!RegisteredIds, Responder!Registered
<1>13. \A v : RP!SetMaximumRequestsNumber(v) <=> Responder!SetMaximumRequestsNumber(v)
  BY Zenon
     DEF RP!SetMaximumRequestsNumber, RP!MayReconfigure, RP!RegisteredIds, RP!Registered,
         Responder!SetMaximumRequestsNumber, Responder!MayReconfigure,
         Responder!RegisteredIds, Responder!Registered
<1>14. \A v : RP!SetMultiplexingEnabled(v) <=> Responder!SetMultiplexingEnabled(v)
  BY Zenon
     DEF RP!SetMultiplexingEnabled, RP!MayReconfigure, RP!RegisteredIds, RP!Registered,
         Responder!SetMultiplexingEnabled, Responder!MayReconfigure,
         Responder!RegisteredIds, Responder!Registered
<1> QED
  BY <1>1, <1>10, <1>11, <1>12, <1>13, <1>14, Zenon

LEMMA RequesterHandlers ==
  /\ QP!Init <=> Requester!Init
  /\ \A keep : QP!OpenConnection(keep) <=> Requester!OpenConnection(keep)
  /\ \A keep : QP!SendRequest(keep) <=> Requester!SendRequest(keep)
  /\ \A keep : QP!RejectRequest(keep) <=> Requester!RejectRequest(keep)
  /\ QP!FinishEndRequest <=> Requester!FinishEndRequest
  /\ QP!OnRecordRead <=> Requester!OnRecordRead
<1>1. QP!Init <=> Requester!Init
  BY Zenon
     DEF QP!Init, QP!Requests, QP!RequestIds, QP!Opening, Requester!Init,
         Requester!Requests, Requester!RequestIds, Requester!Opening
<1>2. \A keep : QP!OpenConnection(keep) <=> Requester!OpenConnection(keep)
  BY Zenon
     DEF QP!OpenConnection, QP!Throws, QP!Faults, QP!CancelledIn, QP!Opening,
         QP!ApplicationRuns, QP!Running, QP!Cardinality, QP!IsFiniteSet,
         Requester!OpenConnection, Requester!Throws, Requester!Faults,
         Requester!CancelledIn, Requester!Opening, Requester!ApplicationRuns,
         Requester!Running, Requester!Cardinality, Requester!IsFiniteSet,
         QP!OneMoreException, Requester!OneMoreException
<1>3. \A keep : QP!SendRequest(keep) <=> Requester!SendRequest(keep)
  BY Zenon
     DEF QP!SendRequest, QP!Throws, QP!Faults, QP!CancelledIn, QP!DoSendRequest,
         QP!TakeId, QP!SmallestOf, QP!ServerGets, QP!NoResponse, QP!InUse,
         QP!CallsHandler, QP!ApplicationRuns, QP!Running, QP!Cardinality,
         QP!IsFiniteSet, Requester!SendRequest, Requester!Throws, Requester!Faults,
         Requester!CancelledIn, Requester!DoSendRequest, Requester!TakeId,
         Requester!SmallestOf, Requester!ServerGets, Requester!NoResponse,
         Requester!InUse, Requester!CallsHandler, Requester!ApplicationRuns,
         Requester!Running, Requester!Cardinality, Requester!IsFiniteSet,
         QP!OneMoreException, Requester!OneMoreException
<1>4. \A keep : QP!RejectRequest(keep) <=> Requester!RejectRequest(keep)
  BY Zenon
     DEF QP!RejectRequest, QP!serverVars, QP!ApplicationRuns, QP!Running,
         Requester!RejectRequest, Requester!serverVars, Requester!ApplicationRuns,
         Requester!Running
<1>5. QP!FinishEndRequest <=> Requester!FinishEndRequest
  BY Zenon
     DEF QP!FinishEndRequest, QP!serverVars, QP!Running, QP!Last, QP!InUse,
         QP!EraseContext, Requester!FinishEndRequest, Requester!serverVars,
         Requester!Running, Requester!Last, Requester!InUse, Requester!EraseContext,
         QP!KeepRead, Requester!KeepRead, QP!HasEntry, Requester!HasEntry
<1>6. \A r : QP!OnInvalidGetValuesResult(r) <=> Requester!OnInvalidGetValuesResult(r)
  BY Zenon
     DEF QP!OnInvalidGetValuesResult, QP!serverVars, QP!Receive, QP!Receives,
         QP!Running, QP!ConnectionFails, QP!NoResponse, QP!CallsHandler,
         Requester!OnInvalidGetValuesResult, Requester!serverVars, Requester!Receive,
         Requester!Receives, Requester!Running, Requester!ConnectionFails,
         Requester!NoResponse, Requester!CallsHandler, QP!IsNext, Requester!IsNext,
         QP!ReceiveAndThrow, Requester!ReceiveAndThrow, QP!LosesRecords,
         Requester!LosesRecords, QP!OneMoreException, Requester!OneMoreException,
         QP!Faults, Requester!Faults, QP!CancelledIn, Requester!CancelledIn,
         QP!StreamTypes, Requester!StreamTypes, QP!Cardinality, Requester!Cardinality,
         QP!IsFiniteSet, Requester!IsFiniteSet
<1>7. \A r : QP!OnGetValuesResult(r) <=> Requester!OnGetValuesResult(r)
  BY ZenonT(60)
     DEF QP!OnGetValuesResult, QP!Throws, QP!Faults, QP!CancelledIn, QP!RequestIds,
         QP!RedirectHandle, QP!SmallestOf, QP!Receive, QP!Receives, QP!Running,
         QP!DoSendRequest, QP!TakeId, QP!ServerGets, QP!NoResponse, QP!InUse,
         QP!CallsHandler, QP!AllIds, QP!generateRequestIds, QP!Cardinality,
         QP!IsFiniteSet, Requester!OnGetValuesResult, Requester!Throws,
         Requester!Faults, Requester!CancelledIn, Requester!RequestIds,
         Requester!RedirectHandle, Requester!SmallestOf, Requester!Receive,
         Requester!Receives, Requester!Running, Requester!DoSendRequest,
         Requester!TakeId, Requester!ServerGets, Requester!NoResponse, Requester!InUse,
         Requester!CallsHandler, Requester!AllIds, Requester!generateRequestIds,
         Requester!Cardinality, Requester!IsFiniteSet, QP!IsNext, Requester!IsNext,
         QP!ReceiveAndThrow, Requester!ReceiveAndThrow, QP!LosesRecords,
         Requester!LosesRecords, QP!OneMoreException, Requester!OneMoreException,
         QP!StreamTypes, Requester!StreamTypes
<1>8. \A r : QP!OnUnexpectedRecord(r) <=> Requester!OnUnexpectedRecord(r)
  BY Zenon
     DEF QP!OnUnexpectedRecord, QP!serverVars, QP!requesterVars, QP!Receive,
         QP!Receives, QP!Running, QP!InUse, Requester!OnUnexpectedRecord,
         Requester!serverVars, Requester!requesterVars, Requester!Receive,
         Requester!Receives, Requester!Running, Requester!InUse, QP!IsNext,
         Requester!IsNext
<1>9. \A r : QP!OnStdOut(r) <=> Requester!OnStdOut(r)
  BY Zenon
     DEF QP!OnStdOut, QP!serverVars, QP!Receive, QP!Receives, QP!Running, QP!InUse,
         Requester!OnStdOut, Requester!serverVars, Requester!Receive,
         Requester!Receives, Requester!Running, Requester!InUse, QP!IsNext,
         Requester!IsNext
<1>10. \A r : QP!OnStdErr(r) <=> Requester!OnStdErr(r)
  BY Zenon
     DEF QP!OnStdErr, QP!serverVars, QP!Receive, QP!Receives, QP!Running, QP!InUse,
         Requester!OnStdErr, Requester!serverVars, Requester!Receive,
         Requester!Receives, Requester!Running, Requester!InUse, QP!IsNext,
         Requester!IsNext
<1>11. \A r : QP!OnEndRequest(r) <=> Requester!OnEndRequest(r)
  BY Zenon
     DEF QP!OnEndRequest, QP!serverVars, QP!Receive, QP!Receives, QP!Running, QP!InUse,
         QP!BeginEndRequest, QP!NoResponse, QP!CallsHandler, Requester!OnEndRequest,
         Requester!serverVars, Requester!Receive, Requester!Receives,
         Requester!Running, Requester!InUse, Requester!BeginEndRequest,
         Requester!NoResponse, Requester!CallsHandler, QP!IsNext, Requester!IsNext
<1>12. \A r : QP!OnUnknownType(r) <=> Requester!OnUnknownType(r)
  BY Zenon
     DEF QP!OnUnknownType, QP!requesterVars, QP!Receives, QP!Running, QP!InUse,
         Requester!OnUnknownType, Requester!requesterVars, Requester!Receives,
         Requester!Running, Requester!InUse, QP!Receive, Requester!Receive, QP!IsNext,
         Requester!IsNext, QP!ReceiveAndThrow, Requester!ReceiveAndThrow,
         QP!LosesRecords, Requester!LosesRecords, QP!OneMoreException,
         Requester!OneMoreException, QP!Faults, Requester!Faults, QP!CancelledIn,
         Requester!CancelledIn, QP!StreamTypes, Requester!StreamTypes, QP!Cardinality,
         Requester!Cardinality, QP!IsFiniteSet, Requester!IsFiniteSet
<1>13. QP!OnRecordRead <=> Requester!OnRecordRead
  BY <1>6, <1>7, <1>8, <1>9, <1>10, <1>11, <1>12, Zenon
     DEF QP!OnRecordRead, Requester!OnRecordRead
<1> QED
  BY <1>1, <1>2, <1>3, <1>4, <1>5, <1>13, Zenon

-----------------------------------------------------------------------------
(* Numbers in order                                                         *)

LEMMA FiniteNumbers ==
  ASSUME NEW n \in Nat, NEW S, S \subseteq 1..n
  PROVE  IsFiniteSet(S) /\ Cardinality(S) \in Nat
<1>1. IsFiniteSet(1..n)
  BY FS_Interval
<1> QED
  BY <1>1, FS_Subset, FS_CardinalityType

\* A new greatest number comes last.
LEMMA InOrderAppend ==
  ASSUME NEW S, IsFiniteSet(S), S \subseteq Nat, NEW m \in Nat, \A j \in S : j < m
  PROVE  /\ Cardinality(S) \in Nat
         /\ DOMAIN InOrder(S) = 1..Cardinality(S)
         /\ DOMAIN InOrder(S \cup {m}) = 1..(Cardinality(S) + 1)
         /\ InOrder(S \cup {m})[Cardinality(S) + 1] = m
         /\ \A n \in 1..Cardinality(S) : InOrder(S \cup {m})[n] = InOrder(S)[n]
<1> DEFINE T == S \cup {m}
<1>1. /\ m \notin S /\ Cardinality(S) \in Nat /\ IsFiniteSet(T)
      /\ Cardinality(T) = Cardinality(S) + 1
  BY FS_AddElement, FS_CardinalityType
<1>2. \A i \in S : {j \in T : j <= i} = {j \in S : j <= i}
  OBVIOUS
<1>3. {j \in T : j <= m} = T
  <2>1. \A j \in T : j <= m
    OBVIOUS
  <2> HIDE DEF T
  <2> QED
    BY <2>1, Zenon
<1>4. \A i \in S : Cardinality({j \in S : j <= i}) <= Cardinality(S)
  BY FS_Subset
<1>5. ASSUME NEW n \in 1..Cardinality(S)
      PROVE  (CHOOSE i \in T : Cardinality({j \in T : j <= i}) = n)
               = (CHOOSE i \in S : Cardinality({j \in S : j <= i}) = n)
  <2>1. Cardinality({j \in T : j <= m}) # n
    BY <1>1, <1>3, <1>5
  <2>2. \A i : i \in T /\ Cardinality({j \in T : j <= i}) = n
                 <=> i \in S /\ Cardinality({j \in S : j <= i}) = n
    BY <1>2, <2>1
  <2> QED
    BY <2>2, Zenon
<1>6. (CHOOSE i \in T : Cardinality({j \in T : j <= i}) = Cardinality(S) + 1) = m
  <2>1. \A i \in S : Cardinality({j \in T : j <= i}) # Cardinality(S) + 1
    <3>1. ASSUME NEW i \in S
          PROVE  Cardinality({j \in S : j <= i}) # Cardinality(S) + 1
      <4>1. Cardinality({j \in S : j <= i}) \in Nat
        BY FS_Subset, FS_CardinalityType
      <4> QED
        BY <1>1, <1>4, <4>1
    <3> QED
      BY <1>2, <3>1
  <2>2. Cardinality({j \in T : j <= m}) = Cardinality(S) + 1
    BY <1>1, <1>3
  <2>3. \A i \in T : Cardinality({j \in T : j <= i}) = Cardinality(S) + 1 <=> i = m
    BY <2>1, <2>2
  <2> QED
    BY <2>3
<1> HIDE DEF T
<1>7. /\ DOMAIN InOrder(T) = 1..(Cardinality(S) + 1) /\ DOMAIN InOrder(S) = 1..Cardinality(S)
      /\ InOrder(T)[Cardinality(S) + 1]
           = CHOOSE i \in T : Cardinality({j \in T : j <= i}) = Cardinality(S) + 1
      /\ \A n \in 1..Cardinality(S) :
           /\ InOrder(T)[n] = CHOOSE i \in T : Cardinality({j \in T : j <= i}) = n
           /\ InOrder(S)[n] = CHOOSE i \in S : Cardinality({j \in S : j <= i}) = n
  <2>1. InOrder(T) = [n \in 1..(Cardinality(S) + 1) |->
                        CHOOSE i \in T : Cardinality({j \in T : j <= i}) = n]
    BY <1>1, Zenon DEF InOrder, T
  <2>2. InOrder(S) = [n \in 1..Cardinality(S) |->
                        CHOOSE i \in S : Cardinality({j \in S : j <= i}) = n]
    BY DEF InOrder
  <2>3. /\ Cardinality(S) + 1 \in 1..(Cardinality(S) + 1)
        /\ \A n \in 1..Cardinality(S) : n \in 1..(Cardinality(S) + 1)
    BY <1>1
  <2> QED
    BY <2>1, <2>2, <2>3, Zenon
<1>8. \A n \in 1..Cardinality(S) : InOrder(T)[n] = InOrder(S)[n]
  BY <1>5, <1>7, Zenon
<1> QED
  BY <1>1, <1>6, <1>7, <1>8, Zenon DEF T

\* There is one way to put a set of numbers in order.
LEMMA InOrderUnique ==
  ASSUME NEW S, S \subseteq Nat, NEW m \in Nat, NEW s \in [1..m -> S],
         \A i, j \in 1..m : i < j => s[i] < s[j],
         \A x \in S : \E i \in 1..m : s[i] = x
  PROVE  /\ IsFiniteSet(S) /\ Cardinality(S) = m
         /\ DOMAIN InOrder(S) = 1..m /\ \A i \in 1..m : InOrder(S)[i] = s[i]
<1>1. ASSUME NEW n \in 0..m
      PROVE  /\ IsFiniteSet({s[i] : i \in 1..n})
             /\ Cardinality({s[i] : i \in 1..n}) = n
  <2> DEFINE part == {s[i] : i \in 1..n}
             f == [i \in 1..n |-> s[i]]
  <2>1. f \in Bijection(1..n, part)
    <3>1. \A i, j \in 1..n : s[i] = s[j] => i = j
      <4>1. ASSUME NEW i \in 1..n, NEW j \in 1..n, s[i] = s[j], i # j
            PROVE  FALSE
        <5>1. i \in 1..m /\ j \in 1..m /\ i \in Nat /\ j \in Nat
          OBVIOUS
        <5>2. s[i] \in Nat /\ s[j] \in Nat
          BY <5>1
        <5>3. i < j \/ j < i
          BY <4>1, <5>1
        <5>4. s[i] < s[j] \/ s[j] < s[i]
          BY <5>1, <5>3
        <5> QED
          BY <4>1, <5>2, <5>4
      <4> QED
        BY <4>1
    <3>2. f \in [1..n -> part] /\ \A x \in part : \E i \in 1..n : f[i] = x
      OBVIOUS
    <3>3. \A i, j \in 1..n : f[i] = f[j] => i = j
      BY <3>1
    <3> HIDE DEF f, part
    <3> QED
      BY <3>2, <3>3 DEF Bijection, Injection, Surjection, IsInjective
  <2>2. ExistsBijection(1..n, part)
    BY <2>1 DEF ExistsBijection
  <2>3. n \in Nat
    OBVIOUS
  <2> HIDE DEF part
  <2>4. IsFiniteSet(part) /\ Cardinality(part) = n
    BY <2>2, <2>3, FS_CountingElements, FS_NatBijection
  <2> QED
    BY <2>4 DEF part
<1>2. S = {s[i] : i \in 1..m}
  OBVIOUS
<1>3. IsFiniteSet(S) /\ Cardinality(S) = m
  <2>1. m \in 0..m
    OBVIOUS
  <2> QED
    BY <1>1, <1>2, <2>1, Zenon
<1>4. ASSUME NEW i \in 1..m
      PROVE  Cardinality({x \in S : x <= s[i]}) = i
  <2>1. \A k \in 1..m : s[k] <= s[i] <=> k <= i
    <3>1. ASSUME NEW k \in 1..m
          PROVE  s[k] <= s[i] <=> k <= i
      <4>1. s[k] \in Nat /\ s[i] \in Nat /\ k \in Nat /\ i \in Nat
        <5>1. k \in Nat /\ i \in Nat
          OBVIOUS
        <5>2. s[k] \in S /\ s[i] \in S
          BY Zenon
        <5> QED
          BY <5>1, <5>2, Zenon
      <4>2. CASE k < i
        BY <4>1, <4>2
      <4>3. CASE i < k
        BY <4>1, <4>3
      <4>4. CASE i = k
        BY <4>1, <4>4
      <4> QED
        BY <4>1, <4>2, <4>3, <4>4
    <3> QED
      BY <3>1
  <2>2. {x \in S : x <= s[i]} = {s[k] : k \in 1..i}
    <3>1. \A x : x \in {y \in S : y <= s[i]} <=> \E k \in 1..m : k <= i /\ x = s[k]
      BY <1>2, <2>1
    <3>2. \A k : k \in 1..m /\ k <= i <=> k \in 1..i
      OBVIOUS
    <3>3. \A x : x \in {y \in S : y <= s[i]} <=> \E k \in 1..i : x = s[k]
      BY <3>1, <3>2, Zenon
    <3> QED
      BY <3>3, Zenon
  <2>3. i \in 0..m
    OBVIOUS
  <2> QED
    BY <1>1, <2>2, <2>3
<1>5. DOMAIN InOrder(S) = 1..m
  BY <1>3 DEF InOrder
<1>6. ASSUME NEW i \in 1..m
      PROVE  InOrder(S)[i] = s[i]
  <2>1. \A x \in S : Cardinality({y \in S : y <= x}) = i <=> x = s[i]
    BY <1>4
  <2>2. (CHOOSE x \in S : Cardinality({y \in S : y <= x}) = i) = s[i]
    BY <2>1
  <2> QED
    BY <1>3, <2>2 DEF InOrder
<1> QED
  BY <1>3, <1>5, <1>6

-----------------------------------------------------------------------------
(* What holds between the two sides                                         *)

\* The requester wrote the BeginRequest of a request as its p-th record; its
\* EndRequest is the i-th element of what the responder wrote, and has crossed.
Begins(p) == p \in DOMAIN sent /\ sent[p].record.type = "BeginRequest"
IdAt(p) == sent[p].record.id
Ends(i, p) == wire[i].type = "EndRequest" /\ wire[i].begin = p
Done(p) == \E i \in 1..taken : Ends(i, p)
Awaited(p) == Begins(p) /\ ~Done(p)

\* The connection is opened by one question for the limits, and stays open.
OpeningPart ==
  /\ connectionState = "NotConnected" => sent = <<>>
  /\ connectionState = "ConnectionInProgress" => Len(sent) = 1
  /\ connectionState = "Connected" => 0 < taken /\ sent # <<>>
  /\ connectionState # "Connected" => ~closed
  /\ connectionState # "NotConnected" => cancelHandler.request # 0
  /\ ~failures.died /\ failures.lost = {}
  /\ \A k \in DOMAIN requests : requests[k].keep \in KeepModes

\* A request is written as a whole.
IsWhole(b) ==
  \E k \in DOMAIN requests, id \in Ids, keep \in KeepModes :
    /\ 1 < b /\ b + 4 <= Len(sent)
    /\ \A j \in 0..4 : sent[b + j] = RequestRecords(k, id, keep)[j + 1]

SentRecord == [record : RP!IncomingRecord, request : Nat]

SentPart ==
  /\ sent \in Seq(SentRecord)
  /\ sent # <<>> => sent[1] = GetValues[1]
  /\ \A p \in DOMAIN sent : p = 1 \/ \E b \in DOMAIN sent : Begins(b) /\ b <= p /\ p <= b + 4
  /\ \A b \in DOMAIN sent : Begins(b) => IsWhole(b)
  /\ \A b, c \in DOMAIN sent : Begins(b) /\ Begins(c) /\ b < c => sent[b].request < sent[c].request

\* The responder reports the limits it keeps to, and the requester believes it.
Report ==
  [type |-> "GetValuesResult", maxConns |-> responderCfg.maxConnectionsNumber,
   maxReqs |-> responderCfg.maxRequestsNumber, mpxs |-> responderCfg.multiplexingEnabled]

LimitsPart ==
  /\ responderCfg.maxRequestsNumber \in Limits \cup {10}
  /\ responderCfg.multiplexingEnabled \in MultiplexingModes \cup {TRUE}
  /\ received = <<>> <=> wire = <<>>
  /\ wire # <<>> => wire[1] = Report
  /\ \A i \in DOMAIN wire : wire[i].type = "GetValuesResult" => i = 1
  /\ \A i \in DOMAIN incoming :
       /\ incoming[i].type # "UnknownType"
       /\ incoming[i].type = "GetValuesResult" =>
            /\ 0 < taken /\ incoming[i].kind = "valid" /\ incoming[i].maxReqs = Report.maxReqs
            /\ incoming[i].mpxs = Report.mpxs
  /\ connectionState = "Connected" =>
       requesterCfg = [maxRequestsNumber |-> Report.maxReqs, multiplexingEnabled |-> Report.mpxs]

\* Records arrive as they were sent, and no id is used for two requests at once.
TransitPart ==
  /\ taken \in 0..Len(wire)
  /\ Len(received) <= Len(sent) /\ \A i \in DOMAIN received : received[i] = sent[i].record
  /\ \A b, c \in DOMAIN sent : Awaited(b) /\ Awaited(c) /\ IdAt(b) = IdAt(c) => b = c
  /\ NeverRefused

\* What the responder has collected of a request it has received a part of.
ContentAt(b, at) == IF b + at <= Len(received) THEN <<sent[b].request>> ELSE <<>>

EntryPart(id) ==
  LET data == requestRegistry[id]
      b == data.begin
  IN  /\ Begins(b) /\ IdAt(b) = id
      /\ data.usedInRequest <=> b + 4 <= Len(received)
      /\ ~data.usedInRequest => data.params = ContentAt(b, 1) /\ data.stdIn = ContentAt(b, 3)

RegistryPart ==
  /\ \A id \in Ids : RP!Registered(id) => EntryPart(id)
  /\ \A b \in DOMAIN received : Begins(b) /\ Len(received) < b + 4 =>
       RP!Registered(IdAt(b)) /\ requestRegistry[IdAt(b)].begin = b

\* What the application was given is what the requester was asked to send.
HandedPart ==
  \A a \in DOMAIN handed :
    /\ Begins(handed[a].begin) /\ handed[a].begin + 4 <= Len(received)
    /\ handed[a].params = <<RequestOf(a)>> /\ handed[a].stdIn = <<RequestOf(a)>>
    /\ handed[a].response # "dropped"

\* What the responder writes are answers, with their EndRequests behind.
PiecePlaces(a) == {i \in DOMAIN wire : IsPiece(wire[i]) /\ wire[i].answer = a}

WirePart ==
  /\ \A i \in DOMAIN wire : RP!IsStream(wire[i]) =>
       /\ wire[i].answer \in DOMAIN handed /\ wire[i].id = handed[wire[i].answer].id
       /\ \E e \in DOMAIN wire : i < e /\ Ends(e, handed[wire[i].answer].begin)
  /\ \A a \in DOMAIN handed : Cardinality(PiecePlaces(a)) <= 2 * MaxPieces
  /\ \A i \in DOMAIN wire : wire[i].type = "EndRequest" =>
       \E a \in DOMAIN handed : Ends(i, handed[a].begin)

\* What the requester believes to be ended was ended.
Ended(k) == \E b \in DOMAIN sent : Begins(b) /\ Done(b) /\ sent[b].request = k

AnsweredPart ==
  /\ \A i \in DOMAIN incoming : incoming[i].type = "EndRequest" => Ended(incoming[i].request)
  /\ \A k \in DOMAIN requests : \A i \in DOMAIN requests[k].outcomes :
       requests[k].outcomes[i].status = "Successful" => Ended(requests[k].outcomes[i].answers)

Glue ==
  /\ OpeningPart /\ SentPart /\ LimitsPart /\ TransitPart /\ RegistryPart /\ HandedPart
  /\ WirePart /\ AnsweredPart

SessionInv == RP!ResponderInv /\ exceptions = 0 /\ QP!RequesterInv /\ Glue

-----------------------------------------------------------------------------
(* What the requester wrote                                                 *)

\* The five records of a request.
RecordAt(j, k, id, keep) ==
  CASE j = 0 -> [type |-> "BeginRequest", id |-> id, role |-> "Responder", keep |-> keep]
    [] j = 1 -> [type |-> "Params", id |-> id, content |-> <<k>>]
    [] j = 2 -> [type |-> "Params", id |-> id, content |-> <<>>]
    [] j = 3 -> [type |-> "StdIn", id |-> id, content |-> <<k>>]
    [] j = 4 -> [type |-> "StdIn", id |-> id, content |-> <<>>]

LEMMA RequestRecordsAre ==
  ASSUME NEW k, NEW id, NEW keep
  PROVE  /\ DOMAIN RequestRecords(k, id, keep) = 1..5
         /\ \A j \in 0..4 : RequestRecords(k, id, keep)[j + 1]
                              = [record |-> RecordAt(j, k, id, keep), request |-> k]
<1> DEFINE records == <<[type |-> "BeginRequest", id |-> id, role |-> "Responder", keep |-> keep],
                        [type |-> "Params", id |-> id, content |-> <<k>>],
                        [type |-> "Params", id |-> id, content |-> <<>>],
                        [type |-> "StdIn", id |-> id, content |-> <<k>>],
                        [type |-> "StdIn", id |-> id, content |-> <<>>]>>
<1>1. DOMAIN records = 1..5
  OBVIOUS
<1>2. /\ records[1] = RecordAt(0, k, id, keep) /\ records[2] = RecordAt(1, k, id, keep)
      /\ records[3] = RecordAt(2, k, id, keep) /\ records[4] = RecordAt(3, k, id, keep)
      /\ records[5] = RecordAt(4, k, id, keep)
  BY DEF RecordAt
<1>3. RequestRecords(k, id, keep)
        = [i \in DOMAIN records |-> [record |-> records[i], request |-> k]]
  BY DEF RequestRecords
<1> HIDE DEF records
<1>4. \A j \in 0..4 : records[j + 1] = RecordAt(j, k, id, keep)
  BY <1>2
<1>5. \A j \in 0..4 : j + 1 \in 1..5
  OBVIOUS
<1> QED
  BY <1>1, <1>3, <1>4, <1>5

LEMMA RecordAtFields ==
  ASSUME NEW k, NEW id, NEW keep
  PROVE  /\ \A j \in 0..4 : RecordAt(j, k, id, keep).id = id
         /\ RecordAt(0, k, id, keep).type = "BeginRequest" /\ RecordAt(0, k, id, keep).keep = keep
         /\ RecordAt(0, k, id, keep).role = "Responder"
         /\ RecordAt(1, k, id, keep).type = "Params" /\ RecordAt(1, k, id, keep).content = <<k>>
         /\ RecordAt(2, k, id, keep).type = "Params" /\ RecordAt(2, k, id, keep).content = <<>>
         /\ RecordAt(3, k, id, keep).type = "StdIn" /\ RecordAt(3, k, id, keep).content = <<k>>
         /\ RecordAt(4, k, id, keep).type = "StdIn" /\ RecordAt(4, k, id, keep).content = <<>>
         /\ \A j \in 1..4 : RecordAt(j, k, id, keep).type # "BeginRequest"
<1>1. /\ RecordAt(0, k, id, keep)
           = [type |-> "BeginRequest", id |-> id, role |-> "Responder", keep |-> keep]
      /\ RecordAt(1, k, id, keep) = [type |-> "Params", id |-> id, content |-> <<k>>]
      /\ RecordAt(2, k, id, keep) = [type |-> "Params", id |-> id, content |-> <<>>]
      /\ RecordAt(3, k, id, keep) = [type |-> "StdIn", id |-> id, content |-> <<k>>]
      /\ RecordAt(4, k, id, keep) = [type |-> "StdIn", id |-> id, content |-> <<>>]
  BY DEF RecordAt
<1>2. \A j \in 0..4 : j = 0 \/ j = 1 \/ j = 2 \/ j = 3 \/ j = 4
  OBVIOUS
<1>3. \A j \in 1..4 : j = 1 \/ j = 2 \/ j = 3 \/ j = 4
  OBVIOUS
<1> QED
  BY <1>1, <1>2, <1>3

\* The records of request k are records the responder knows.
LEMMA RecordAtType ==
  ASSUME NEW k \in Requests, NEW id \in Ids, NEW keep \in KeepModes, NEW j \in 0..4
  PROVE  RecordAt(j, k, id, keep) \in RP!IncomingRecord
<1>1. <<k>> \in Contents /\ <<>> \in Contents
  BY DEF Contents
<1>2. j = 0 \/ j = 1 \/ j = 2 \/ j = 3 \/ j = 4
  OBVIOUS
<1> QED
  BY <1>1, <1>2 DEF RecordAt, RP!IncomingRecord

LEMMA Lengths ==
  ASSUME RP!TypeOK, QP!TypeOK, SentPart, TransitPart
  PROVE  /\ Len(sent) \in Nat /\ DOMAIN sent = 1..Len(sent)
         /\ Len(received) \in Nat /\ DOMAIN received = 1..Len(received)
         /\ Len(wire) \in Nat /\ DOMAIN wire = 1..Len(wire)
         /\ Len(handed) \in Nat /\ DOMAIN handed = 1..Len(handed)
         /\ Len(requests) \in Nat /\ DOMAIN requests = 1..Len(requests)
         /\ Len(requests) <= MaxRequests
         /\ taken \in Nat /\ taken <= Len(wire) /\ 1..taken \subseteq DOMAIN wire
         /\ Len(received) <= Len(sent)
<1>1. /\ sent \in Seq(SentRecord) /\ received \in Seq(RP!IncomingRecord)
      /\ wire \in Seq(RP!OutgoingEvent) /\ handed \in Seq(RP!HandedRequest)
      /\ requests \in Seq(QP!RequestHistory) /\ Len(requests) <= MaxRequests
  BY DEF SentPart, RP!TypeOK, QP!TypeOK
<1>2. /\ Len(sent) \in Nat /\ DOMAIN sent = 1..Len(sent)
      /\ Len(received) \in Nat /\ DOMAIN received = 1..Len(received)
      /\ Len(wire) \in Nat /\ DOMAIN wire = 1..Len(wire)
      /\ Len(handed) \in Nat /\ DOMAIN handed = 1..Len(handed)
      /\ Len(requests) \in Nat /\ DOMAIN requests = 1..Len(requests)
  BY <1>1, LenProperties
<1>3. taken \in 0..Len(wire) /\ Len(received) <= Len(sent)
  BY DEF TransitPart
<1> QED
  BY <1>1, <1>2, <1>3

\* A request is there as a whole.
LEMMA WholeRequest ==
  ASSUME SentPart, NEW b, Begins(b)
  PROVE  \E k \in DOMAIN requests, keep \in KeepModes :
           /\ IdAt(b) \in Ids /\ sent[b].request = k
           /\ b \in 1..Len(sent) /\ b \in Nat /\ 1 < b /\ b + 4 <= Len(sent)
           /\ \A j \in 0..4 : /\ b + j \in 1..Len(sent)
                              /\ sent[b + j].record = RecordAt(j, k, IdAt(b), keep)
                              /\ sent[b + j].request = k
<1>1. sent \in Seq(SentRecord) /\ b \in DOMAIN sent /\ IsWhole(b)
  BY DEF SentPart, Begins
<1>2. Len(sent) \in Nat /\ b \in 1..Len(sent) /\ b \in Nat
  BY <1>1, LenProperties
<1>3. PICK k \in DOMAIN requests, id \in Ids, keep \in KeepModes :
        /\ 1 < b /\ b + 4 <= Len(sent)
        /\ \A j \in 0..4 : sent[b + j] = RequestRecords(k, id, keep)[j + 1]
  BY <1>1 DEF IsWhole
<1>4. \A j \in 0..4 : sent[b + j] = [record |-> RecordAt(j, k, id, keep), request |-> k]
  <2>1. \A j \in 0..4 : RequestRecords(k, id, keep)[j + 1]
                          = [record |-> RecordAt(j, k, id, keep), request |-> k]
    BY RequestRecordsAre
  <2> QED
    BY <1>3, <2>1, Zenon
<1>5. sent[b] = [record |-> RecordAt(0, k, id, keep), request |-> k]
  <2>1. b + 0 = b /\ 0 \in 0..4
    BY <1>2
  <2> QED
    BY <1>4, <2>1
<1>6. IdAt(b) = id /\ sent[b].request = k
  BY <1>5, RecordAtFields DEF IdAt
<1>7. \A j \in 0..4 : b + j \in 1..Len(sent)
  BY <1>2, <1>3, SMTT(30)
<1>8. \A j \in 0..4 : /\ b + j \in 1..Len(sent)
                       /\ sent[b + j].record = RecordAt(j, k, IdAt(b), keep)
                       /\ sent[b + j].request = k
  BY <1>4, <1>6, <1>7, SMTT(30)
<1>9. IdAt(b) \in Ids /\ 1 < b /\ b + 4 <= Len(sent)
  BY <1>3, <1>6
<1> QED
  BY <1>2, <1>6, <1>8, <1>9, Zenon

\* The first record asks for the limits; every other one is part of a request.
LEMMA RecordCases ==
  ASSUME SentPart, NEW p \in DOMAIN sent
  PROVE  \/ p = 1 /\ sent[p] = [record |-> [type |-> "GetValues"], request |-> 0]
         \/ \E b \in DOMAIN sent, j \in 0..4 : Begins(b) /\ p = b + j
<1>1. sent # <<>> /\ DOMAIN sent = 1..Len(sent) /\ Len(sent) \in Nat
  BY LenProperties, EmptySeq DEF SentPart
<1>2. CASE p = 1
  BY <1>1, <1>2 DEF SentPart, GetValues
<1>3. CASE p # 1
  <2>1. PICK b \in DOMAIN sent : Begins(b) /\ b <= p /\ p <= b + 4
    BY <1>3 DEF SentPart
  <2>2. p - b \in 0..4 /\ p = b + (p - b)
    BY <1>1, <2>1
  <2> QED
    BY <2>1, <2>2
<1> QED
  BY <1>2, <1>3

\* No record is part of two requests.
LEMMA SameRequest ==
  ASSUME SentPart
  PROVE  \A b, c : Begins(b) /\ Begins(c) => \A i, j \in 0..4 : b + i = c + j => b = c
<1> SUFFICES ASSUME NEW b, NEW c, Begins(b), Begins(c), NEW i \in 0..4, NEW j \in 0..4,
                    b + i = c + j
             PROVE  b = c
  OBVIOUS
<1>1. b \in Nat /\ c \in Nat
  BY WholeRequest
<1>2. ASSUME NEW x, NEW y, Begins(x), Begins(y), x \in Nat, y \in Nat, x < y, y <= x + 4
      PROVE  FALSE
  <2>1. y - x \in 1..4 /\ y = x + (y - x) /\ y - x \in 0..4
    BY <1>2
  <2>2. PICK k, keep : \A n \in 0..4 : sent[x + n].record = RecordAt(n, k, IdAt(x), keep)
    BY <1>2, WholeRequest
  <2>3. sent[y].record.type # "BeginRequest"
    BY <2>1, <2>2, RecordAtFields
  <2> QED
    BY <1>2, <2>3 DEF Begins
<1>3. ~(b < c) \/ ~(c <= b + 4)
  BY <1>1, <1>2
<1>4. ~(c < b) \/ ~(b <= c + 4)
  BY <1>1, <1>2
<1> QED
  BY <1>1, <1>3, <1>4

-----------------------------------------------------------------------------
(* Requests that are awaited                                                *)

\* The requests under an id that are awaited; there is at most one.
AwaitedAt(id) == {b \in DOMAIN sent : Awaited(b) /\ IdAt(b) = id}

LEMMA ServingIs ==
  ASSUME NEW id \in Ids
  PROVE  Serving[id] = IF AwaitedAt(id) = {} THEN 0 ELSE sent[Min(AwaitedAt(id))].request
<1> DEFINE ended == {wire[i].begin : i \in Crossed("EndRequest")}
           begun == {i \in DOMAIN sent : sent[i].record.type = "BeginRequest"
                                        /\ sent[i].record.id = id} \ ended
<1>1. \A b : b \in ended <=> Done(b)
  BY DEF Crossed, Done, Ends
<1>2. begun = AwaitedAt(id)
  BY <1>1 DEF AwaitedAt, Awaited, Begins, IdAt
<1>3. Serving[id] = IF begun = {} THEN 0 ELSE sent[Min(begun)].request
  BY DEF Serving
<1> QED
  BY <1>2, <1>3

\* Each EndRequest is for a request of its own.
LEMMA OneEnd ==
  ASSUME RP!TypeOK, QP!TypeOK, SentPart, TransitPart, HandedPart, WirePart, RP!EndInv
  PROVE  /\ \A i \in DOMAIN wire : wire[i].type = "EndRequest" => wire[i].begin # 0
         /\ \A b : \A i, j \in DOMAIN wire : Ends(i, b) /\ Ends(j, b) => i = j
<1>1. DOMAIN sent = 1..Len(sent)
  BY Lengths
<1>2. ASSUME NEW i \in DOMAIN wire, wire[i].type = "EndRequest"
      PROVE  wire[i].begin # 0
  <2>1. wire[i].begin \in DOMAIN sent
    BY <1>2 DEF WirePart, HandedPart, Ends, Begins
  <2> QED
    BY <1>1, <2>1
<1> QED
  BY <1>2 DEF RP!EndInv, RP!IsEnd, Ends

\* What the responder has to answer is what the requester takes the server to
\* serve.
LEMMA AwaitedIsServed ==
  ASSUME QP!TypeOK, SentPart, TransitPart, NEW b, Awaited(b)
  PROVE  /\ IdAt(b) \in Ids /\ AwaitedAt(IdAt(b)) = {b}
         /\ Serving[IdAt(b)] = sent[b].request /\ sent[b].request # 0
<1>1. Begins(b) /\ b \in DOMAIN sent
  BY DEF Awaited, Begins
<1>2. PICK k \in DOMAIN requests : IdAt(b) \in Ids /\ sent[b].request = k /\ b \in Nat
  BY <1>1, WholeRequest
<1>3. AwaitedAt(IdAt(b)) = {b}
  BY <1>1 DEF TransitPart, AwaitedAt
<1>4. Min({b}) = b
  BY <1>2 DEF Min
<1>5. Serving[IdAt(b)] = sent[b].request
  BY <1>2, <1>3, <1>4, ServingIs
<1>6. sent[b].request # 0
  <2>1. requests \in Seq(QP!RequestHistory)
    BY DEF QP!TypeOK
  <2>2. DOMAIN requests = 1..Len(requests) /\ Len(requests) \in Nat
    BY <2>1, LenProperties
  <2> QED
    BY <1>2, <2>2
<1> QED
  BY <1>2, <1>3, <1>5, <1>6

\* What the requester's invariant says of a connection on which nothing is cancelled.
LEMMA RequesterKeeps ==
  ASSUME QP!RequesterInv
  PROVE  /\ QP!TypeOK /\ QP!AskedOnce /\ QP!OpensOnce /\ QP!IdsPart /\ QP!ContextsPart
         /\ QP!EndingPart /\ QP!OutcomesPart
         /\ QP!ServedPart /\ QP!Queue(incoming) /\ QP!ResponseIsOwnAndWhole
<1>1. QP!Orderly
  BY RequesterConstants, QP!UncancelledIsOrderly DEF QP!RequesterInv
<1> QED
  BY <1>1 DEF QP!RequesterInv, QP!OrderInv, QP!ClientInv, QP!AnswersInv

\* An id is in use until the requester has been told that its request was ended.
LEMMA AwaitedIsUsed ==
  ASSUME QP!RequesterInv, SentPart, TransitPart, NEW b, Awaited(b)
  PROVE  /\ IdAt(b) \in Ids /\ connectionState = "Connected"
         /\ QP!Awaits(IdAt(b)) /\ QP!InUse(IdAt(b)) /\ QP!Owner(IdAt(b)) = sent[b].request
         /\ IdAt(b) \in QP!AllIds(requesterCfg) /\ IdAt(b) \notin requestIdPool
<1> DEFINE id == IdAt(b)
<1>1. /\ QP!TypeOK /\ QP!OpensOnce /\ QP!IdsPart /\ QP!ServedPart
  BY RequesterKeeps
<1>2. id \in Ids /\ Serving[id] = sent[b].request /\ sent[b].request # 0
  BY <1>1, AwaitedIsServed
<1>3. id \in QP!RequestIds
  BY <1>2 DEF QP!RequestIds, Ids
<1>4. QP!Awaits(id) /\ QP!Owner(id) = sent[b].request
  BY <1>1, <1>2, <1>3 DEF QP!ServedPart
<1>5. QP!InUse(id)
  BY <1>4 DEF QP!Awaits
<1>6. connectionState = "Connected"
  BY <1>1, <1>3, <1>5 DEF QP!OpensOnce
<1>7. id \in QP!UsedIds
  BY <1>3, <1>5 DEF QP!UsedIds
<1>8. id \in QP!AllIds(requesterCfg) /\ id \notin requestIdPool
  BY <1>1, <1>6, <1>7 DEF QP!IdsPart
<1> QED
  BY <1>2, <1>4, <1>5, <1>6, <1>8

-----------------------------------------------------------------------------
(* No request is refused                                                    *)

\* A request in the registry is awaited.
LEMMA RegisteredIsAwaited ==
  ASSUME RP!ResponderInv, RegistryPart, TransitPart, NEW id \in Ids, RP!Registered(id)
  PROVE  /\ Awaited(requestRegistry[id].begin) /\ IdAt(requestRegistry[id].begin) = id
         /\ requestRegistry[id].begin \in 1..Len(received)
<1> DEFINE b == requestRegistry[id].begin
<1>1. Begins(b) /\ IdAt(b) = id
  BY DEF RegistryPart, EntryPart
<1>2. RP!EndInv /\ RP!BeginInv /\ RP!TypeOK
  BY DEF RP!ResponderInv
<1>3. b \in 1..Len(received)
  BY <1>2 DEF RP!BeginInv, RP!Begins
<1>4. 1..taken \subseteq DOMAIN wire
  <2>1. wire \in Seq(RP!OutgoingEvent) /\ taken \in 0..Len(wire)
    BY <1>2 DEF RP!TypeOK, TransitPart
  <2> QED
    BY <2>1, LenProperties
<1>5. ~Done(b)
  BY <1>2, <1>4 DEF RP!EndInv, RP!IsEnd, Done, Ends
<1> QED
  BY <1>1, <1>3, <1>5 DEF Awaited

\* The pool of ids has no more of them than the server allows.
LEMMA AllIdsSize ==
  ASSUME NEW limits, limits.maxRequestsNumber \in Nat
  PROVE  /\ limits.multiplexingEnabled =>
              /\ IsFiniteSet(QP!AllIds(limits))
              /\ Cardinality(QP!AllIds(limits)) <= limits.maxRequestsNumber
         /\ ~limits.multiplexingEnabled => QP!AllIds(limits) = {1}
<1> DEFINE n == limits.maxRequestsNumber
           ids == {i % IdLimit : i \in 1..n}
           f == [i \in 1..n |-> i % IdLimit]
<1>1. f \in Surjection(1..n, ids)
  <2>1. f \in [1..n -> ids] /\ \A x \in ids : \E i \in 1..n : f[i] = x
    OBVIOUS
  <2> HIDE DEF f, ids
  <2> QED
    BY <2>1 DEF Surjection
<1>2. ExistsSurjection(1..n, ids)
  BY <1>1 DEF ExistsSurjection
<1>3. n \in Nat
  OBVIOUS
<1> HIDE DEF f, ids, n
<1>4. IsFiniteSet(ids) /\ Cardinality(ids) <= n
  <2>1. IsFiniteSet(1..n)
    BY <1>3, FS_Interval
  <2>2. IsFiniteSet(ids)
    BY <1>1, <2>1, FS_Surjection
  <2> QED
    BY <1>2, <1>3, <2>2, FS_SurjCardinalityBound
<1> QED
  BY <1>4 DEF QP!AllIds, QP!generateRequestIds, ids, n

\* A BeginRequest that reaches the responder finds its id free and a place for it.
LEMMA BeginIsAccepted ==
  ASSUME SessionInv, NEW p, p = Len(received) + 1, Begins(p), sent[p].record.role = "Responder"
  PROVE  Awaited(p) /\ ~RP!Registered(IdAt(p)) /\ RP!Refusal(sent[p].record) = "none"
<1> DEFINE id == IdAt(p)
           r == sent[p].record
<1>1. /\ RP!ResponderInv /\ QP!RequesterInv /\ SentPart /\ TransitPart /\ RegistryPart
      /\ LimitsPart /\ HandedPart /\ WirePart /\ RP!TypeOK /\ QP!TypeOK
  BY RequesterKeeps DEF SessionInv, Glue, RP!ResponderInv
<1>2. Len(received) \in Nat /\ 1..taken \subseteq DOMAIN wire
  BY <1>1, Lengths
<1>3. Awaited(p)
  <2>1. \A i \in DOMAIN wire : RP!IsEnd(i) => wire[i].begin \in 1..Len(received)
    BY <1>1, OneEnd DEF RP!ResponderInv, RP!BeginInv, RP!IsEnd, RP!Begins
  <2>2. p \notin 1..Len(received)
    BY <1>2
  <2>3. ~Done(p)
    BY <1>2, <2>1, <2>2 DEF Done, Ends, RP!IsEnd
  <2> QED
    BY <2>3 DEF Awaited
<1>4. ASSUME NEW jd \in Ids, RP!Registered(jd)
      PROVE  jd \in QP!AllIds(requesterCfg) \ {id}
  <2> DEFINE b == requestRegistry[jd].begin
  <2>1. Awaited(b) /\ IdAt(b) = jd /\ b \in 1..Len(received)
    BY <1>1, <1>4, RegisteredIsAwaited
  <2>2. jd \in QP!AllIds(requesterCfg)
    BY <1>1, <2>1, AwaitedIsUsed
  <2>3. b # p
    BY <1>2, <2>1
  <2>4. jd # id
    BY <1>1, <1>3, <2>1, <2>3 DEF TransitPart, Awaited, Begins
  <2> QED
    BY <2>2, <2>4
<1>5. id \in Ids /\ id \in QP!AllIds(requesterCfg) /\ connectionState = "Connected"
  BY <1>1, <1>3, AwaitedIsUsed
<1>6. ~RP!Registered(id)
  BY <1>4, <1>5
<1>7. /\ requesterCfg.maxRequestsNumber = responderCfg.maxRequestsNumber
      /\ requesterCfg.multiplexingEnabled = responderCfg.multiplexingEnabled
      /\ responderCfg.maxRequestsNumber \in Nat
      /\ responderCfg.multiplexingEnabled \in BOOLEAN
  <2>1. requesterCfg = [maxRequestsNumber |-> Report.maxReqs, multiplexingEnabled |-> Report.mpxs]
    BY <1>1, <1>5 DEF LimitsPart
  <2>2. /\ Report.maxReqs = responderCfg.maxRequestsNumber
        /\ Report.mpxs = responderCfg.multiplexingEnabled
    BY DEF Report
  <2>3. responderCfg.maxRequestsNumber \in Nat
    <3>1. responderCfg.maxRequestsNumber \in Limits \cup {10}
      BY <1>1 DEF LimitsPart
    <3>2. Limits \subseteq Nat
      BY LimitsAssumption, Zenon
    <3>3. 10 \in Nat
      OBVIOUS
    <3> QED
      BY <3>1, <3>2, <3>3, Zenon
  <2>4. responderCfg.multiplexingEnabled \in BOOLEAN
    BY <1>1 DEF RP!TypeOK
  <2> QED
    BY <2>1, <2>2, <2>3, <2>4
<1>8. CASE responderCfg.multiplexingEnabled
  <2>1. /\ IsFiniteSet(QP!AllIds(requesterCfg))
        /\ Cardinality(QP!AllIds(requesterCfg)) <= responderCfg.maxRequestsNumber
    BY <1>7, <1>8, AllIdsSize
  <2>2. /\ IsFiniteSet(QP!AllIds(requesterCfg) \ {id})
        /\ Cardinality(QP!AllIds(requesterCfg) \ {id}) = Cardinality(QP!AllIds(requesterCfg)) - 1
    BY <1>5, <2>1, FS_RemoveElement
  <2>3. RP!RegisteredIds \in SUBSET (QP!AllIds(requesterCfg) \ {id})
    BY <1>4 DEF RP!RegisteredIds
  <2>4. /\ Cardinality(RP!RegisteredIds) <= Cardinality(QP!AllIds(requesterCfg) \ {id})
        /\ IsFiniteSet(RP!RegisteredIds)
    BY <2>2, <2>3, FS_Subset
  <2>5. /\ Cardinality(RP!RegisteredIds) \in Nat /\ Cardinality(QP!AllIds(requesterCfg)) \in Nat
    BY <2>1, <2>4, FS_CardinalityType
  <2>6. Cardinality(RP!RegisteredIds) # responderCfg.maxRequestsNumber
    BY <1>7, <2>1, <2>2, <2>4, <2>5
  <2>7. RP!RegistrySize # responderCfg.maxRequestsNumber
    BY <2>6, StandardOperators, Zenon DEF RP!RegistrySize
  <2> QED
    BY <1>3, <1>6, <1>8, <2>7 DEF RP!Refusal
<1>9. CASE ~responderCfg.multiplexingEnabled
  <2>1. RP!RegisteredIds = {}
    <3>1. QP!AllIds(requesterCfg) = {1}
      BY <1>7, <1>9, AllIdsSize
    <3> QED
      BY <1>4, <1>5, <3>1 DEF RP!RegisteredIds
  <2>2. RP!RegistrySize = 0
    <3>1. Cardinality(RP!RegisteredIds) = 0
      BY <2>1, FS_EmptySet
    <3> QED
      BY <3>1, StandardOperators, Zenon DEF RP!RegistrySize
  <2>3. responderCfg.maxRequestsNumber # 0
    BY <1>1, LimitsAssumption DEF LimitsPart
  <2> QED
    BY <1>3, <1>6, <1>9, <2>1, <2>2, <2>3 DEF RP!Refusal
<1> QED
  BY <1>7, <1>8, <1>9

-----------------------------------------------------------------------------
(* The sets that are put in order                                           *)

\* Every number of the set has its place.
LEMMA InOrderIs ==
  ASSUME NEW S, S \subseteq Nat, IsFiniteSet(S)
  PROVE  /\ Cardinality(S) \in Nat /\ DOMAIN InOrder(S) = 1..Cardinality(S)
         /\ \A n \in 1..Cardinality(S) : InOrder(S)[n] \in S
         /\ \A x \in S : \E n \in 1..Cardinality(S) : InOrder(S)[n] = x
         /\ \A m, n \in 1..Cardinality(S) : m < n => InOrder(S)[m] < InOrder(S)[n]
<1> DEFINE upTo(i) == {j \in S : j <= i}
           places == 1..Cardinality(S)
           rank == [i \in S |-> Cardinality(upTo(i))]
<1>1. Cardinality(S) \in Nat
  BY FS_CardinalityType
<1>2. ASSUME NEW i \in S
      PROVE  /\ i \in upTo(i) /\ IsFiniteSet(upTo(i)) /\ Cardinality(upTo(i)) \in 1..Cardinality(S)
             /\ i \in Nat
  <2>1. i \in Nat
    OBVIOUS
  <2>2. i \in upTo(i)
    BY <2>1
  <2>3. upTo(i) \in SUBSET S
    OBVIOUS
  <2> HIDE DEF upTo
  <2>4. /\ IsFiniteSet(upTo(i)) /\ Cardinality(upTo(i)) \in Nat
        /\ Cardinality(upTo(i)) <= Cardinality(S)
    BY <2>3, FS_Subset, FS_CardinalityType
  <2>5. Cardinality(upTo(i)) # 0
    BY <2>2, <2>4, FS_EmptySet
  <2> QED
    BY <1>1, <2>1, <2>2, <2>4, <2>5
<1>3. ASSUME NEW i \in S, NEW j \in S, i < j
      PROVE  Cardinality(upTo(i)) < Cardinality(upTo(j))
  <2>1. upTo(i) \in SUBSET upTo(j) /\ j \notin upTo(i) /\ j \in upTo(j)
    <3>1. \A x \in S : x \in Nat /\ (x <= i => x <= j)
      BY <1>2, <1>3
    <3>2. ~(j <= i) /\ j <= j
      BY <1>2, <1>3
    <3> QED
      BY <3>1, <3>2, Zenon
  <2>2. /\ IsFiniteSet(upTo(j)) /\ Cardinality(upTo(i)) \in Nat /\ Cardinality(upTo(j)) \in Nat
    BY <1>2
  <2> HIDE DEF upTo
  <2>3. Cardinality(upTo(i)) <= Cardinality(upTo(j)) /\ Cardinality(upTo(i)) # Cardinality(upTo(j))
    BY <2>1, <2>2, FS_Subset
  <2> QED
    BY <2>2, <2>3
<1> HIDE DEF upTo
<1>4. rank \in Injection(S, places)
  <2>1. rank \in [S -> places]
    BY <1>2
  <2>2. \A i, j \in S : rank[i] = rank[j] => i = j
    <3>1. ASSUME NEW i \in S, NEW j \in S, rank[i] = rank[j], i # j
          PROVE  FALSE
      <4>1. i < j \/ j < i
        BY <1>2, <3>1
      <4>2. rank[i] < rank[j] \/ rank[j] < rank[i]
        BY <1>3, <4>1
      <4>3. rank[i] \in Nat /\ rank[j] \in Nat
        BY <1>2
      <4> QED
        BY <3>1, <4>2, <4>3
    <3> QED
      BY <3>1
  <2> HIDE DEF rank, places
  <2> QED
    BY <2>1, <2>2 DEF Injection, IsInjective
<1>5. IsFiniteSet(places) /\ Cardinality(places) = Cardinality(S)
  BY <1>1, FS_Interval
<1> HIDE DEF rank, places
<1>6. rank \in Surjection(S, places)
  BY <1>4, <1>5, FS_Injection
<1>7. ASSUME NEW n \in places
      PROVE  InOrder(S)[n] \in S /\ Cardinality(upTo(InOrder(S)[n])) = n
  <2>1. PICK i \in S : rank[i] = n
    BY <1>6 DEF Surjection
  <2>2. Cardinality(upTo(i)) = n
    BY <2>1 DEF rank
  <2>3. InOrder(S)[n] = CHOOSE x \in S : Cardinality({j \in S : j <= x}) = n
    BY DEF InOrder, places
  <2>4. InOrder(S)[n] = CHOOSE x \in S : Cardinality(upTo(x)) = n
    BY <2>3 DEF upTo
  <2> QED
    BY <2>2, <2>4
<1>8. DOMAIN InOrder(S) = 1..Cardinality(S)
  BY DEF InOrder
<1>9. \A x \in S : \E n \in places : InOrder(S)[n] = x
  <2>1. ASSUME NEW x \in S, NEW y \in S, Cardinality(upTo(x)) = Cardinality(upTo(y))
        PROVE  x = y
    <3>1. x < y \/ y < x \/ x = y
      BY <1>2
    <3>2. Cardinality(upTo(x)) \in Nat /\ Cardinality(upTo(y)) \in Nat
      BY <1>2
    <3> QED
      BY <1>3, <2>1, <3>1, <3>2
  <2>2. ASSUME NEW x \in S
        PROVE  \E n \in places : InOrder(S)[n] = x
    <3>1. Cardinality(upTo(x)) \in places
      BY <1>2 DEF places
    <3> QED
      BY <1>7, <2>1, <3>1
  <2> QED
    BY <2>2
<1>10. \A m, n \in places : m < n => InOrder(S)[m] < InOrder(S)[n]
  <2>1. ASSUME NEW m \in places, NEW n \in places, m < n
        PROVE  InOrder(S)[m] < InOrder(S)[n]
    <3> DEFINE x == InOrder(S)[m]
               y == InOrder(S)[n]
    <3>1. x \in S /\ y \in S /\ Cardinality(upTo(x)) = m /\ Cardinality(upTo(y)) = n
      BY <1>7
    <3> HIDE DEF x, y
    <3>2. x < y \/ y < x \/ x = y
      BY <1>2, <3>1
    <3>3. m \in Nat /\ n \in Nat
      BY <1>1 DEF places
    <3>4. x < y
      BY <1>3, <2>1, <3>1, <3>2, <3>3
    <3> QED
      BY <3>4 DEF x, y
  <2> QED
    BY <2>1
<1> QED
  BY <1>1, <1>7, <1>8, <1>9, <1>10 DEF places

-----------------------------------------------------------------------------
(* What the responder does leaves its server as it was                      *)

\* The responder writes, or not, and hands over requests, or not.
WireGrows ==
  /\ wire' \in Seq(RP!OutgoingEvent) /\ Len(wire) <= Len(wire')
  /\ \A i \in 1..Len(wire) : wire'[i] = wire[i]

HandedStay ==
  /\ handed' \in Seq(RP!HandedRequest) /\ Len(handed) <= Len(handed')
  /\ \A a \in DOMAIN handed :
       /\ handed'[a].begin = handed[a].begin /\ handed'[a].id = handed[a].id
       /\ handed'[a].params = handed[a].params /\ handed'[a].stdIn = handed[a].stdIn

\* The pieces of request k that have crossed.
PlacesOf(k) == {i \in 1..taken : IsPiece(wire[i]) /\ RequestOf(wire[i].answer) = k}

LEMMA OutputIs ==
  ASSUME RP!TypeOK, QP!TypeOK, SentPart, TransitPart, NEW k \in Requests
  PROVE  /\ IsFiniteSet(PlacesOf(k)) /\ PlacesOf(k) \subseteq 1..taken /\ PlacesOf(k) \subseteq Nat
         /\ DOMAIN Output[k] = 1..Cardinality(PlacesOf(k)) /\ Cardinality(PlacesOf(k)) \in Nat
         /\ Len(Output[k]) = Cardinality(PlacesOf(k))
         /\ Output[k] = [n \in 1..Cardinality(PlacesOf(k)) |-> wire[InOrder(PlacesOf(k))[n]].type]
<1>1. taken \in Nat
  BY Lengths
<1>2. PlacesOf(k) \subseteq 1..taken /\ PlacesOf(k) \subseteq Nat
  BY DEF PlacesOf
<1>3. IsFiniteSet(PlacesOf(k))
  BY <1>1, <1>2, FiniteNumbers
<1>4. DOMAIN InOrder(PlacesOf(k)) = 1..Cardinality(PlacesOf(k)) /\ Cardinality(PlacesOf(k)) \in Nat
  BY <1>2, <1>3, InOrderIs
<1>5. Output[k] = [n \in DOMAIN InOrder(PlacesOf(k)) |-> wire[InOrder(PlacesOf(k))[n]].type]
  BY DEF Output, PlacesOf
<1>6. Output[k] \in Seq(QP!StreamTypes)
  <2>1. Output \in [QP!Requests -> Seq(QP!StreamTypes)]
    BY DEF QP!TypeOK
  <2>2. k \in QP!Requests
    BY DEF QP!Requests, Requests
  <2> QED
    BY <2>1, <2>2
<1>7. Output[k] = [n \in 1..Cardinality(PlacesOf(k)) |-> wire[InOrder(PlacesOf(k))[n]].type]
  BY <1>4, <1>5
<1>8. Len(Output[k]) = Cardinality(PlacesOf(k))
  BY <1>4, <1>6, <1>7, LenProperties
<1> QED
  BY <1>2, <1>3, <1>4, <1>7, <1>8

LEMMA SameServer ==
  ASSUME RP!TypeOK, QP!TypeOK, SentPart, TransitPart, WirePart,
         WireGrows, HandedStay, UNCHANGED <<sent, taken>>
  PROVE  /\ UNCHANGED <<Serving, Output, GetValuesOwed>>
         /\ \A p : (Done(p)' <=> Done(p)) /\ (Awaited(p)' <=> Awaited(p))
         /\ \A p : (Begins(p)' <=> Begins(p)) /\ IdAt(p)' = IdAt(p)
<1>1. /\ taken \in Nat /\ 1..taken \subseteq DOMAIN wire
      /\ DOMAIN wire = 1..Len(wire)
  BY Lengths
<1>2. \A i \in 1..taken : wire'[i] = wire[i]
  BY <1>1 DEF WireGrows
<1>3. taken' = taken /\ sent' = sent
  OBVIOUS
<1>4. \A type : Crossed(type)' = Crossed(type)
  BY <1>2, <1>3 DEF Crossed
<1>5. \A p : Done(p)' <=> Done(p)
  BY <1>2, <1>3 DEF Done, Ends
<1>6. \A p : (Begins(p)' <=> Begins(p)) /\ IdAt(p)' = IdAt(p)
  BY <1>3 DEF Begins, IdAt
<1>7. \A p : Awaited(p)' <=> Awaited(p)
  BY <1>5, <1>6 DEF Awaited
<1>8. GetValuesOwed' = GetValuesOwed
  BY <1>3, <1>4 DEF GetValuesOwed
<1>9. Serving' = Serving
  <2> DEFINE ended == {wire[i].begin : i \in Crossed("EndRequest")}
  <2>1. Crossed("EndRequest") \subseteq 1..taken
    BY DEF Crossed
  <2>2. ended' = ended
    BY <1>2, <1>4, <2>1
  <2> QED
    BY <1>3, <2>2, Zenon DEF Serving
<1>10. Output' = Output
  <2>1. \A i \in 1..taken : IsPiece(wire[i]) =>
          wire[i].answer \in DOMAIN handed
    BY <1>1 DEF WirePart, IsPiece, RP!IsStream
  <2>2. \A i \in 1..taken : IsPiece(wire'[i]) <=> IsPiece(wire[i])
    BY <1>2
  <2>3. \A i \in 1..taken : IsPiece(wire[i]) =>
          sent'[handed'[wire'[i].answer].begin].request = RequestOf(wire[i].answer)
    BY <1>2, <1>3, <2>1 DEF HandedStay, RequestOf
  <2>4. \A k : PlacesOf(k)' = PlacesOf(k)
    BY <1>3, <2>2, <2>3, Zenon DEF PlacesOf, RequestOf
  <2>5. ASSUME NEW k \in Requests
        PROVE  [n \in DOMAIN InOrder(PlacesOf(k)) |-> wire'[InOrder(PlacesOf(k))[n]].type]
                 = [n \in DOMAIN InOrder(PlacesOf(k)) |-> wire[InOrder(PlacesOf(k))[n]].type]
    <3>1. PlacesOf(k) \subseteq 1..taken /\ IsFiniteSet(PlacesOf(k)) /\ PlacesOf(k) \subseteq Nat
      BY OutputIs
    <3>2. \A n \in DOMAIN InOrder(PlacesOf(k)) : InOrder(PlacesOf(k))[n] \in 1..taken
      BY <3>1, InOrderIs
    <3> QED
      BY <1>2, <3>2, Zenon
  <2>6. Output = [k \in Requests |->
                    [n \in DOMAIN InOrder(PlacesOf(k)) |-> wire[InOrder(PlacesOf(k))[n]].type]]
    BY Zenon DEF Output, PlacesOf
  <2>7. Output' = [k \in Requests |->
                    [n \in DOMAIN InOrder(PlacesOf(k)') |-> wire'[InOrder(PlacesOf(k)')[n]].type]]
    BY Zenon DEF Output, PlacesOf
  <2> QED
    BY <2>4, <2>5, <2>6, <2>7, ZenonT(60)
<1> QED
  BY <1>5, <1>6, <1>7, <1>8, <1>9, <1>10

\* What the requester knows stays true when the responder works.
LEMMA RequesterRests ==
  ASSUME SessionInv, WireGrows, HandedStay, UNCHANGED <<requesterVars, incoming, sent, taken>>
  PROVE  /\ UNCHANGED QP!vars
         /\ QP!RequesterInv' /\ OpeningPart' /\ SentPart' /\ AnsweredPart'
         /\ taken' \in 0..Len(wire')
         /\ \A b, c \in DOMAIN sent' : Awaited(b)' /\ Awaited(c)' /\ IdAt(b)' = IdAt(c)' => b = c
         /\ \A p : (Begins(p)' <=> Begins(p)) /\ IdAt(p)' = IdAt(p)
<1>1. /\ RP!TypeOK /\ QP!TypeOK /\ SentPart /\ TransitPart /\ WirePart /\ OpeningPart /\ AnsweredPart
      /\ QP!RequesterInv
  BY DEF SessionInv, Glue, RP!ResponderInv, QP!RequesterInv
<1>2. /\ UNCHANGED <<connectionState, requesterCfg, requestIdPool, responseMap, pendingRequest,
                     cancelHandler, ending, requests, closed, failures>>
      /\ UNCHANGED <<incoming, sent, taken>>
  BY DEF requesterVars
<1>3. /\ UNCHANGED <<Serving, Output, GetValuesOwed>>
      /\ \A p : (Done(p)' <=> Done(p)) /\ (Awaited(p)' <=> Awaited(p))
      /\ \A p : (Begins(p)' <=> Begins(p)) /\ IdAt(p)' = IdAt(p)
  BY <1>1, <1>2, SameServer
<1>4. UNCHANGED QP!vars
  BY <1>2, <1>3 DEF QP!vars, QP!requesterVars, QP!serverVars
<1>5. QP!RequesterInv'
  BY <1>1, <1>4, RequesterStep
<1>6. OpeningPart'
  BY <1>1, <1>2 DEF OpeningPart
<1>7. SentPart'
  <2>1. \A b : IsWhole(b)' <=> IsWhole(b)
    BY <1>2 DEF IsWhole
  <2> QED
    BY <1>1, <1>2, <1>3, <2>1, Zenon DEF SentPart
<1>8. AnsweredPart'
  <2>1. \A k : Ended(k)' <=> Ended(k)
    BY <1>2, <1>3, Zenon DEF Ended
  <2> QED
    BY <1>1, <1>2, <2>1, Zenon DEF AnsweredPart
<1>9. taken' \in 0..Len(wire')
  <2>1. wire \in Seq(RP!OutgoingEvent)
    BY <1>1 DEF RP!TypeOK
  <2>2. Len(wire) \in Nat /\ Len(wire') \in Nat /\ Len(wire) <= Len(wire')
    BY <2>1, LenProperties DEF WireGrows
  <2> QED
    BY <1>1, <1>2, <2>2 DEF TransitPart
<1>10. \A b, c \in DOMAIN sent' : Awaited(b)' /\ Awaited(c)' /\ IdAt(b)' = IdAt(c)' => b = c
  BY <1>1, <1>2, <1>3, Zenon DEF TransitPart
<1> QED
  BY <1>3, <1>4, <1>5, <1>6, <1>7, <1>8, <1>9, <1>10

\* The responder reads a record and says nothing.
ReadsRecord ==
  /\ Len(received) < Len(sent)
  /\ received' = Append(received, sent[Len(received) + 1].record)
  /\ UNCHANGED <<requesterVars, incoming, sent, taken, responderCfg, wire, exceptions>>

LEMMA ReadStays ==
  ASSUME SessionInv, ReadsRecord, received # <<>>, HandedStay
  PROVE  /\ UNCHANGED QP!vars
         /\ QP!RequesterInv' /\ OpeningPart' /\ SentPart' /\ AnsweredPart'
         /\ LimitsPart' /\ TransitPart' /\ WirePart' /\ exceptions' = 0
         /\ Len(received') = Len(received) + 1 /\ DOMAIN received' = 1..(Len(received) + 1)
         /\ Len(received) \in Nat
         /\ \A p : (Begins(p)' <=> Begins(p)) /\ IdAt(p)' = IdAt(p)
<1>1. /\ RP!TypeOK /\ QP!TypeOK /\ SentPart /\ TransitPart /\ WirePart /\ LimitsPart /\ exceptions = 0
  BY DEF SessionInv, Glue, RP!ResponderInv, QP!RequesterInv
<1>2. /\ UNCHANGED <<connectionState, requesterCfg, requestIdPool, responseMap, pendingRequest,
                     cancelHandler, ending, requests, closed, failures>>
      /\ UNCHANGED <<incoming, sent, taken, responderCfg, wire, exceptions, requesterVars>>
  BY DEF ReadsRecord, requesterVars
<1>3. /\ wire \in Seq(RP!OutgoingEvent) /\ received \in Seq(RP!IncomingRecord)
      /\ sent \in Seq(SentRecord) /\ handed \in Seq(RP!HandedRequest)
  BY <1>1 DEF RP!TypeOK, SentPart
<1>4. WireGrows
  BY <1>2, <1>3, LenProperties DEF WireGrows
<1>5. /\ UNCHANGED QP!vars
      /\ QP!RequesterInv' /\ OpeningPart' /\ SentPart' /\ AnsweredPart'
      /\ taken' \in 0..Len(wire')
      /\ \A b, c \in DOMAIN sent' : Awaited(b)' /\ Awaited(c)' /\ IdAt(b)' = IdAt(c)' => b = c
      /\ \A p : (Begins(p)' <=> Begins(p)) /\ IdAt(p)' = IdAt(p)
  BY <1>2, <1>4, RequesterRests
<1>6. /\ Len(received) \in Nat /\ Len(sent) \in Nat /\ DOMAIN sent = 1..Len(sent)
      /\ DOMAIN received = 1..Len(received)
  BY <1>3, LenProperties
<1>7. sent[Len(received) + 1].record \in RP!IncomingRecord
  <2>1. Len(received) + 1 \in DOMAIN sent
    BY <1>6 DEF ReadsRecord
  <2>2. sent[Len(received) + 1] \in SentRecord
    BY <1>3, <2>1, ElementOfSeq
  <2> QED
    BY <2>2 DEF SentRecord
<1>8. /\ Len(received') = Len(received) + 1 /\ DOMAIN received' = 1..(Len(received) + 1)
      /\ \A i \in 1..Len(received) : received'[i] = received[i]
      /\ received'[Len(received) + 1] = sent[Len(received) + 1].record
  BY <1>3, <1>7, AppendProperties, LenProperties DEF ReadsRecord
<1>9. TransitPart'
  <2>1. Len(received') <= Len(sent')
    BY <1>2, <1>6, <1>8 DEF ReadsRecord
  <2>2. \A i \in DOMAIN received' : received'[i] = sent'[i].record
    BY <1>1, <1>2, <1>6, <1>8 DEF TransitPart
  <2>3. NeverRefused'
    BY <1>1, <1>2 DEF TransitPart, NeverRefused
  <2> QED
    BY <1>5, <2>1, <2>2, <2>3, Zenon DEF TransitPart
<1>10. LimitsPart'
  <2>1. wire # <<>> /\ received' # <<>>
    BY <1>1, <1>6, <1>8 DEF LimitsPart
  <2>2. Report' = Report
    BY <1>2 DEF Report
  <2> QED
    BY <1>1, <1>2, <2>1, <2>2 DEF LimitsPart
<1>11. WirePart'
  <2>1. /\ DOMAIN handed \subseteq DOMAIN handed' /\ DOMAIN handed' = 1..Len(handed')
        /\ DOMAIN handed = 1..Len(handed)
    BY <1>3, LenProperties DEF HandedStay
  <2>2. \A i \in DOMAIN wire' : RP!IsStream(wire'[i]) =>
          /\ wire'[i].answer \in DOMAIN handed' /\ wire'[i].id = handed'[wire'[i].answer].id
          /\ \E e \in DOMAIN wire' :
               /\ i < e /\ wire'[e].type = "EndRequest"
               /\ wire'[e].begin = handed'[wire'[i].answer].begin
    <3>1. ASSUME NEW i \in DOMAIN wire, RP!IsStream(wire[i])
          PROVE  /\ wire[i].answer \in DOMAIN handed'
                 /\ wire[i].id = handed'[wire[i].answer].id
                 /\ \E e \in DOMAIN wire :
                      /\ i < e /\ wire[e].type = "EndRequest"
                      /\ wire[e].begin = handed'[wire[i].answer].begin
      <4>1. /\ wire[i].answer \in DOMAIN handed /\ wire[i].id = handed[wire[i].answer].id
            /\ \E e \in DOMAIN wire : i < e /\ Ends(e, handed[wire[i].answer].begin)
        BY <1>1, <3>1 DEF WirePart
      <4>2. /\ handed'[wire[i].answer].id = handed[wire[i].answer].id
            /\ handed'[wire[i].answer].begin = handed[wire[i].answer].begin
        BY <4>1 DEF HandedStay
      <4> QED
        BY <2>1, <4>1, <4>2 DEF Ends
    <3> QED
      BY <1>2, <3>1 DEF RP!IsStream
  <2>3. \A a : PiecePlaces(a)' = PiecePlaces(a)
    BY <1>2 DEF PiecePlaces
  <2>4. ASSUME NEW a \in DOMAIN handed' \ DOMAIN handed
        PROVE  Cardinality(PiecePlaces(a)) <= 2 * MaxPieces
    <3>1. PiecePlaces(a) = {}
      BY <1>1, <2>4 DEF WirePart, PiecePlaces, IsPiece, RP!IsStream
    <3>2. Cardinality(PiecePlaces(a)) = 0
      BY <3>1, FS_EmptySet
    <3> QED
      BY <3>2, BoundsAssumption
  <2>5. \A a \in DOMAIN handed' : Cardinality(PiecePlaces(a)') <= 2 * MaxPieces
    BY <1>1, <2>3, <2>4, Zenon DEF WirePart
  <2>6. \A i \in DOMAIN wire' : wire'[i].type = "EndRequest" =>
          \E a \in DOMAIN handed' : wire'[i].type = "EndRequest" /\ wire'[i].begin = handed'[a].begin
    <3>1. ASSUME NEW i \in DOMAIN wire, wire[i].type = "EndRequest"
          PROVE  \E a \in DOMAIN handed' : wire[i].begin = handed'[a].begin
      BY <1>1, <2>1, <3>1 DEF WirePart, HandedStay, Ends
    <3> QED
      BY <1>2, <3>1
  <2> QED
    BY <2>2, <2>5, <2>6, Zenon DEF WirePart, Ends
<1> QED
  BY <1>1, <1>2, <1>5, <1>6, <1>8, <1>9, <1>10, <1>11

\* The request that a record is part of is the one that is registered.
LEMMA OpenEntry ==
  ASSUME SessionInv, NEW b, Begins(b), NEW j \in 1..4, b + j = Len(received) + 1
  PROVE  /\ IdAt(b) \in Ids /\ RP!Registered(IdAt(b)) /\ requestRegistry[IdAt(b)].begin = b
         /\ requestRegistry[IdAt(b)] \in RP!RequestData
         /\ ~requestRegistry[IdAt(b)].usedInRequest
         /\ requestRegistry[IdAt(b)].params = IF j > 1 THEN <<sent[b].request>> ELSE <<>>
         /\ requestRegistry[IdAt(b)].stdIn = IF j > 3 THEN <<sent[b].request>> ELSE <<>>
<1> DEFINE id == IdAt(b)
           data == requestRegistry[id]
<1>1. RP!TypeOK /\ QP!TypeOK /\ SentPart /\ TransitPart /\ RegistryPart
  BY DEF SessionInv, Glue, RP!ResponderInv, QP!RequesterInv
<1>2. Len(received) \in Nat /\ DOMAIN received = 1..Len(received)
  BY <1>1, Lengths
<1>3. id \in Ids /\ b \in Nat /\ 1 < b
  BY <1>1, WholeRequest
<1>4. b \in DOMAIN received /\ Len(received) < b + 4
  BY <1>2, <1>3
<1>5. RP!Registered(id) /\ data.begin = b
  BY <1>1, <1>4 DEF RegistryPart
<1>6. EntryPart(id)
  BY <1>1, <1>3, <1>5 DEF RegistryPart
<1>7. ~data.usedInRequest
  BY <1>2, <1>3, <1>4, <1>5, <1>6 DEF EntryPart
<1>8. data.params = ContentAt(b, 1) /\ data.stdIn = ContentAt(b, 3)
  BY <1>5, <1>6, <1>7 DEF EntryPart
<1>9. data \in RP!RequestData
  BY <1>1, <1>3, <1>5 DEF RP!TypeOK, RP!Registered
<1>10. (b + 1 <= Len(received) <=> j > 1) /\ (b + 3 <= Len(received) <=> j > 3)
  BY <1>2, <1>3
<1> QED
  BY <1>3, <1>5, <1>7, <1>8, <1>9, <1>10 DEF ContentAt

\* A record changes the entry of its own request.
ChangesEntry(b, j, data) ==
  /\ j = 0 => ~RP!Registered(IdAt(b))
  /\ data.begin = b /\ data # Unregistered
  /\ data.usedInRequest <=> j = 4
  /\ j # 4 => /\ data.params = IF j > 0 THEN <<sent[b].request>> ELSE <<>>
              /\ data.stdIn = IF j > 2 THEN <<sent[b].request>> ELSE <<>>
  /\ requestRegistry' = [requestRegistry EXCEPT ![IdAt(b)] = data]

LEMMA EntryChanges ==
  ASSUME SessionInv, ReadsRecord, received # <<>>, HandedStay,
         NEW b, Begins(b), NEW j \in 0..4, b + j = Len(received) + 1,
         NEW data, ChangesEntry(b, j, data)
  PROVE  RegistryPart'
<1> DEFINE id == IdAt(b)
           n == Len(received)
<1>1. /\ RP!TypeOK /\ QP!TypeOK /\ SentPart /\ TransitPart /\ RegistryPart
  BY DEF SessionInv, Glue, RP!ResponderInv, QP!RequesterInv
<1>2. /\ n \in Nat /\ Len(received') = n + 1 /\ DOMAIN received' = 1..(n + 1)
      /\ \A p : (Begins(p)' <=> Begins(p)) /\ IdAt(p)' = IdAt(p)
  BY ReadStays
<1>3. sent' = sent
  BY DEF ReadsRecord
<1>4. id \in Ids /\ b \in Nat /\ 1 < b
  BY <1>1, WholeRequest
<1>5. /\ requestRegistry'[id] = data
      /\ \A jd \in Ids : jd # id => requestRegistry'[jd] = requestRegistry[jd]
  BY <1>1, <1>4 DEF RP!TypeOK, ChangesEntry
<1>6. DOMAIN received = 1..n
  BY <1>1, Lengths
<1>7. \A c, at : ContentAt(c, at)' = IF c + at <= n + 1 THEN <<sent[c].request>> ELSE <<>>
  BY <1>2, <1>3 DEF ContentAt
<1>8. ASSUME NEW jd \in Ids, RP!Registered(jd)'
      PROVE  EntryPart(jd)'
  <2>1. CASE jd = id
    <3>1. /\ b + 4 <= n + 1 <=> j = 4
          /\ b + 1 <= n + 1 <=> j > 0
          /\ b + 3 <= n + 1 <=> j > 2
      BY <1>2, <1>4
    <3>2. requestRegistry'[jd] = data /\ data.begin = b
      BY <1>5, <2>1 DEF ChangesEntry
    <3>3. ~data.usedInRequest => data.params = ContentAt(b, 1)' /\ data.stdIn = ContentAt(b, 3)'
      BY <1>7, <3>1 DEF ChangesEntry
    <3>4. data.usedInRequest <=> b + 4 <= Len(received')
      BY <1>2, <3>1 DEF ChangesEntry
    <3> QED
      BY <1>2, <2>1, <3>2, <3>3, <3>4, Zenon DEF EntryPart
  <2>2. CASE jd # id
    <3> DEFINE old == requestRegistry[jd]
    <3>0. PICK c : c = old.begin
      OBVIOUS
    <3>1. requestRegistry'[jd] = old /\ RP!Registered(jd)
      BY <1>5, <1>8, <2>2 DEF RP!Registered
    <3>2. EntryPart(jd)
      BY <1>1, <3>1 DEF RegistryPart
    <3>3. Begins(c) /\ IdAt(c) = jd /\ c # b
      BY <2>2, <3>0, <3>2 DEF EntryPart
    <3>4. c \in Nat
      BY <1>1, <3>3, WholeRequest
    <3>5. ASSUME NEW i \in 0..4
          PROVE  c + i # n + 1
      <4>1. SUFFICES ASSUME b + j = c + i
                     PROVE  FALSE
        OBVIOUS
      <4>2. b = c
        BY <1>1, <3>3, <4>1, SameRequest, Zenon
      <4> QED
        BY <3>3, <4>2
    <3>6. c + 1 # n + 1 /\ c + 3 # n + 1 /\ c + 4 # n + 1
      BY <3>5
    <3>7. /\ c + 4 <= n + 1 <=> c + 4 <= n
          /\ c + 1 <= n + 1 <=> c + 1 <= n
          /\ c + 3 <= n + 1 <=> c + 3 <= n
      BY <1>2, <3>4, <3>6
    <3>8. ContentAt(c, 1)' = ContentAt(c, 1) /\ ContentAt(c, 3)' = ContentAt(c, 3)
      BY <1>7, <3>7 DEF ContentAt
    <3>9. old.usedInRequest <=> c + 4 <= Len(received')
      BY <1>2, <3>0, <3>2, <3>7 DEF EntryPart
    <3>10. ~old.usedInRequest => old.params = ContentAt(c, 1)' /\ old.stdIn = ContentAt(c, 3)'
      BY <3>0, <3>2, <3>8 DEF EntryPart
    <3> QED
      BY <1>2, <3>0, <3>1, <3>3, <3>9, <3>10, Zenon DEF EntryPart
  <2> QED
    BY <2>1, <2>2
<1>9. ASSUME NEW c \in DOMAIN received', Begins(c)', Len(received') < c + 4
      PROVE  RP!Registered(IdAt(c))' /\ requestRegistry'[IdAt(c)].begin = c
  <2>1. Begins(c) /\ c \in 1..(n + 1) /\ n + 1 < c + 4
    BY <1>2, <1>9
  <2>2. CASE c = b
    <3>1. /\ requestRegistry'[IdAt(c)] = data /\ IdAt(c)' = IdAt(c)
          /\ data.begin = b /\ data # Unregistered
      BY <1>2, <1>5, <2>2 DEF ChangesEntry
    <3> QED
      BY <2>2, <3>1, Zenon DEF RP!Registered
  <2>3. CASE c # b
    <3>1. c # n + 1
      <4>1. c \in Nat
        BY <1>1, <2>1, WholeRequest
      <4>2. SUFFICES ASSUME b + j = c + 0
                     PROVE  FALSE
        BY <4>1
      <4>3. 0 \in 0..4
        OBVIOUS
      <4>4. b = c
        BY <1>1, <2>1, <4>2, <4>3, SameRequest, Zenon
      <4> QED
        BY <2>3, <4>4
    <3>2. c \in DOMAIN received /\ n < c + 4
      BY <1>2, <1>6, <2>1, <3>1
    <3>3. RP!Registered(IdAt(c)) /\ requestRegistry[IdAt(c)].begin = c /\ IdAt(c) \in Ids
      BY <1>1, <2>1, <3>2, WholeRequest DEF RegistryPart
    <3>4. IdAt(c) # id
      <4>1. CASE j = 0
        BY <3>3, <4>1 DEF ChangesEntry
      <4>2. CASE j # 0
        <5>1. requestRegistry[id].begin = b
          BY <4>2, OpenEntry
        <5> QED
          BY <2>3, <3>3, <5>1
      <4> QED
        BY <4>1, <4>2
    <3> QED
      BY <1>2, <1>5, <3>3, <3>4, Zenon DEF RP!Registered
  <2> QED
    BY <2>2, <2>3
<1>10. \A jd \in Ids : RP!Registered(jd)' => EntryPart(jd)'
  BY <1>8
<1>11. \A c \in DOMAIN received' : Begins(c)' /\ Len(received') < c + 4 =>
         RP!Registered(IdAt(c))' /\ requestRegistry'[IdAt(c)].begin = c
  BY <1>9
<1> QED
  BY <1>2, <1>10, <1>11, Zenon DEF RegistryPart, RP!Registered

-----------------------------------------------------------------------------
(* The responder reads                                                      *)

\* Which handler a record gets to.
LEMMA HandlerOf ==
  ASSUME NEW r, RP!HandleRecord(r)
  PROVE  /\ r.type = "GetValues" => RP!OnGetValues(r)
         /\ r.type = "BeginRequest" /\ ~RP!Registered(r.id) => RP!OnBeginRequest(r)
         /\ r.type = "Params" /\ RP!Registered(r.id) => RP!OnParams(r)
         /\ r.type = "StdIn" /\ RP!Registered(r.id) => RP!OnStdIn(r)
<1>1. RP!OnUnexpectedRecord(r) => r.type # "GetValues" /\ ~RP!IsRecordExpected(r)
  BY DEF RP!OnUnexpectedRecord
<1>2. /\ RP!OnBeginRequest(r) => r.type = "BeginRequest"
      /\ RP!OnAbortRequest(r) => r.type = "AbortRequest"
      /\ RP!OnGetValues(r) => r.type = "GetValues"
      /\ RP!OnInvalidRecordType(r) => r.type = "Invalid"
      /\ RP!OnParams(r) => r.type = "Params"
      /\ RP!OnStdIn(r) => r.type = "StdIn"
      /\ ~RP!OnOtherRecord(r)
  BY Zenon DEF RP!OnBeginRequest, RP!OnAbortRequest, RP!OnGetValues, RP!OnInvalidRecordType, RP!OnParams,
     RP!OnStdIn, RP!OnOtherRecord
<1>3. r.type = "BeginRequest" /\ ~RP!Registered(r.id) => RP!IsRecordExpected(r)
  BY DEF RP!IsRecordExpected
<1>4. r.type \in {"Params", "StdIn"} /\ RP!Registered(r.id) => RP!IsRecordExpected(r)
  BY DEF RP!IsRecordExpected
<1> QED
  BY <1>1, <1>2, <1>3, <1>4 DEF RP!HandleRecord

LEMMA NothingThrows ==
  ASSUME exceptions = 0
  PROVE  \A events : ~RP!EmitThrows(events)
BY DEF RP!EmitThrows

\* A record is read as it was sent, by a step of the responder.
LEMMA ReadIsStep ==
  ASSUME SessionInv, ResponderReceives, NEW r, r = sent[Len(received) + 1].record
  PROVE  /\ Len(received) \in Nat /\ Len(received) + 1 \in DOMAIN sent
         /\ r \in RP!IncomingRecord /\ RP!HandleRecord(r) /\ RP!Receive(r)
         /\ exceptions' = exceptions
         /\ RP!ResponderInv'
<1>1. /\ RP!ResponderInv /\ RP!TypeOK /\ QP!TypeOK /\ SentPart /\ TransitPart /\ exceptions = 0
  BY DEF SessionInv, Glue, RP!ResponderInv, QP!RequesterInv
<1>2. /\ Len(received) \in Nat /\ Len(received) + 1 \in DOMAIN sent
  BY <1>1, Lengths DEF ResponderReceives
<1>3. r \in RP!IncomingRecord
  <2>1. sent[Len(received) + 1] \in SentRecord
    BY <1>1, <1>2, ElementOfSeq, LenProperties DEF SentPart
  <2> QED
    BY <2>1 DEF SentRecord
<1>4. RP!HandleRecord(r)
  BY ResponderHandlers, Zenon DEF ResponderReceives
<1>5. r.type # "AbortRequest"
  <2>1. CASE Len(received) + 1 = 1 /\ sent[Len(received) + 1] = [record |-> [type |-> "GetValues"], request |-> 0]
    BY <2>1
  <2>2. ASSUME NEW b \in DOMAIN sent, NEW j \in 0..4, Begins(b), Len(received) + 1 = b + j
        PROVE  r.type # "AbortRequest"
    <3>1. PICK k, keep : r = RecordAt(j, k, IdAt(b), keep)
      BY <1>1, <2>2, WholeRequest
    <3>2. j = 0 \/ j = 1 \/ j = 2 \/ j = 3 \/ j = 4
      OBVIOUS
    <3> QED
      BY <3>1, <3>2, RecordAtFields
  <2> QED
    BY <1>1, <1>2, <2>1, <2>2, RecordCases
<1>6. RP!Next
  BY <1>3, <1>4, <1>5 DEF RP!Next, RP!OnRecordRead, RP!WebServerSends
<1>7. exceptions' = exceptions
  <2>1. \A events : RP!Emit(events) \/ RP!EmitThrows(events) => exceptions' = exceptions
    BY <1>1, NothingThrows DEF RP!Emit
  <2> QED
    BY <1>4, <2>1, Zenon
       DEF RP!HandleRecord, RP!OnUnexpectedRecord, RP!OnBeginRequest, RP!OnAbortRequest,
           RP!OnGetValues, RP!OnInvalidRecordType, RP!OnParams, RP!OnStdIn, RP!OnOtherRecord
<1>8. RP!Receive(r)
  BY <1>4, Zenon
     DEF RP!HandleRecord, RP!OnUnexpectedRecord, RP!OnBeginRequest, RP!OnAbortRequest,
         RP!OnGetValues, RP!OnInvalidRecordType, RP!OnParams, RP!OnStdIn, RP!OnOtherRecord
<1>9. RP!ResponderInv'
  BY <1>1, <1>6, <1>7, ResponderStep
<1> QED
  BY <1>2, <1>3, <1>4, <1>7, <1>8, <1>9

LEMMA Singletons ==
  ASSUME NEW x
  PROVE  <<x>> # <<>> /\ <<x>> \o <<>> = <<x>> /\ <<>> \o <<x>> = <<x>>
OBVIOUS

\* The three records that add to a request, and the end of the parameters.
LEMMA ReadsContent ==
  ASSUME SessionInv, ResponderReceives, NEW b, Begins(b), NEW j \in 1..3, b + j = Len(received) + 1
  PROVE  SessionInv' /\ UNCHANGED QP!vars
<1> DEFINE id == IdAt(b)
           old == requestRegistry[id]
           k == sent[b].request
<1>0. PICK r : r = sent[Len(received) + 1].record
  OBVIOUS
<1>1. /\ Len(received) \in Nat /\ r \in RP!IncomingRecord /\ RP!HandleRecord(r)
      /\ exceptions' = exceptions /\ RP!ResponderInv' /\ RP!Receive(r)
  BY <1>0, ReadIsStep
<1>2. /\ SentPart /\ RP!TypeOK /\ RegistryPart /\ HandedPart /\ QP!TypeOK
  BY DEF SessionInv, Glue, RP!ResponderInv, QP!RequesterInv
<1>3. /\ id \in Ids /\ RP!Registered(id) /\ old.begin = b /\ old \in RP!RequestData
      /\ ~old.usedInRequest
      /\ old.params = IF j > 1 THEN <<k>> ELSE <<>>
      /\ old.stdIn = IF j > 3 THEN <<k>> ELSE <<>>
  BY OpenEntry
<1>4. PICK keep : b \in Nat /\ 1 < b /\ r = RecordAt(j, k, id, keep)
  <2>1. PICK kk, keep : /\ b \in Nat /\ 1 < b /\ k = kk
                        /\ \A n \in 0..4 : sent[b + n].record = RecordAt(n, kk, id, keep)
    BY <1>2, WholeRequest
  <2>2. j \in 0..4
    OBVIOUS
  <2>3. sent[b + j].record = RecordAt(j, k, id, keep)
    BY <2>1, <2>2
  <2> QED
    BY <1>0, <2>1, <2>3
<1>5. received # <<>>
  BY <1>1, <1>4
<1>6. r.id = id
  BY <1>4, RecordAtFields
<1>7. /\ j = 1 => r.type = "Params" /\ r.content = <<k>>
      /\ j = 2 => r.type = "Params" /\ r.content = <<>>
      /\ j = 3 => r.type = "StdIn" /\ r.content = <<k>>
  BY <1>4, RecordAtFields
<1>8. \/ j \in {1, 2} /\ RP!OnParams(r)
      \/ j = 3 /\ RP!OnStdIn(r)
  BY <1>1, <1>3, <1>6, <1>7, HandlerOf
<1>9. PICK data :
        /\ data.begin = b /\ data # Unregistered /\ ~data.usedInRequest
        /\ data.params = <<k>> /\ data.stdIn = IF j > 2 THEN <<k>> ELSE <<>>
        /\ requestRegistry' = [requestRegistry EXCEPT ![id] = data]
        /\ UNCHANGED <<responderCfg, alive, handed, wire, exceptions>>
  <2>1. CASE j \in {1, 2} /\ RP!OnParams(r)
    <3> DEFINE data == [old EXCEPT !.params = old.params \o r.content]
    <3>1. /\ requestRegistry' = [requestRegistry EXCEPT ![id] = data]
          /\ UNCHANGED <<responderCfg, alive, handed, wire, exceptions>>
      BY <1>6, <2>1 DEF RP!OnParams, RP!AddParams
    <3>2. data \in RP!RequestData /\ data.begin = b /\ ~data.usedInRequest
      <4>1. old.params \o r.content \in Seq(Requests)
        <5>1. old.params \in Seq(Requests)
          BY <1>3 DEF RP!RequestData
        <5>2. r.content \in Seq(Requests)
          BY <1>1, <1>7, <2>1, ResponderConstants DEF RP!IncomingRecord
        <5> QED
          BY <5>1, <5>2, ConcatProperties
      <4> QED
        BY <1>3, <4>1 DEF RP!RequestData
    <3>3. data # Unregistered
      BY <3>2, ResponderConstants
    <3>4. data.params = <<k>> /\ data.stdIn = <<>>
      <4>1. data.params = old.params \o r.content /\ data.stdIn = old.stdIn
        BY <1>3 DEF RP!RequestData
      <4>2. old.params \o r.content = <<k>>
        <5>1. old.params = (IF j = 1 THEN <<>> ELSE <<k>>) /\ r.content = IF j = 1 THEN <<k>> ELSE <<>>
          BY <1>3, <1>7, <2>1
        <5> QED
          BY <5>1, Singletons
      <4>3. old.stdIn = <<>>
        BY <1>3, <2>1
      <4> QED
        BY <4>1, <4>2, <4>3
    <3> HIDE DEF data
    <3>5. data.stdIn = IF j > 2 THEN <<k>> ELSE <<>>
      BY <2>1, <3>4
    <3> QED
      BY <3>1, <3>2, <3>3, <3>4, <3>5, Zenon
  <2>2. CASE j = 3 /\ RP!OnStdIn(r)
    <3> DEFINE data == [old EXCEPT !.stdIn = old.stdIn \o r.content]
    <3>0. r.content # <<>>
      BY <1>7, <2>2, Singletons
    <3>1. /\ requestRegistry' = [requestRegistry EXCEPT ![id] = data]
          /\ UNCHANGED <<responderCfg, alive, handed, wire, exceptions>>
      BY <1>6, <2>2, <3>0 DEF RP!OnStdIn, RP!AddStdIn, RP!MakesRequest
    <3>2. data \in RP!RequestData /\ data.begin = b /\ ~data.usedInRequest
      <4>1. old.stdIn \o r.content \in Seq(Requests)
        <5>1. old.stdIn \in Seq(Requests)
          BY <1>3 DEF RP!RequestData
        <5>2. r.content \in Seq(Requests)
          BY <1>1, <1>7, <2>2, ResponderConstants DEF RP!IncomingRecord
        <5> QED
          BY <5>1, <5>2, ConcatProperties
      <4> QED
        BY <1>3, <4>1 DEF RP!RequestData
    <3>3. data # Unregistered
      BY <3>2, ResponderConstants
    <3>4. data.params = <<k>> /\ data.stdIn = <<k>>
      <4>1. data.stdIn = old.stdIn \o r.content /\ data.params = old.params
        BY <1>3 DEF RP!RequestData
      <4>2. old.stdIn = <<>> /\ r.content = <<k>>
        BY <1>3, <1>7, <2>2
      <4>3. old.stdIn \o r.content = <<k>> /\ old.params = <<k>>
        BY <1>3, <2>2, <4>2, Singletons
      <4> QED
        BY <4>1, <4>3
    <3> HIDE DEF data
    <3>5. data.stdIn = IF j > 2 THEN <<k>> ELSE <<>>
      BY <2>2, <3>4
    <3> QED
      BY <3>1, <3>2, <3>3, <3>4, <3>5, Zenon
  <2> QED
    BY <1>8, <2>1, <2>2
<1>10. ReadsRecord /\ HandedStay
  <2>1. ReadsRecord
    BY <1>0, <1>1, <1>9 DEF ReadsRecord, ResponderReceives, RP!Receive
  <2>2. HandedStay
    BY <1>2, <1>9, LenProperties DEF HandedStay, RP!TypeOK
  <2> QED
    BY <2>1, <2>2
<1>11. ChangesEntry(b, j, data)
  BY <1>9 DEF ChangesEntry
<1>12. RegistryPart'
  BY <1>5, <1>10, <1>11, EntryChanges
<1>13. /\ UNCHANGED QP!vars
       /\ QP!RequesterInv' /\ OpeningPart' /\ SentPart' /\ AnsweredPart'
       /\ LimitsPart' /\ TransitPart' /\ WirePart' /\ exceptions' = 0
       /\ Len(received') = Len(received) + 1
       /\ \A p : (Begins(p)' <=> Begins(p))
  BY <1>5, <1>10, ReadStays
<1>14. HandedPart'
  <2>1. handed' = handed /\ sent' = sent
    BY <1>9, <1>10 DEF ReadsRecord
  <2>2. ASSUME NEW a \in DOMAIN handed
        PROVE  handed[a].begin + 4 <= Len(received')
    <3>1. handed[a].begin + 4 <= Len(received) /\ Begins(handed[a].begin)
      BY <1>2 DEF HandedPart
    <3>2. handed[a].begin \in Nat
      BY <1>2, <3>1, WholeRequest
    <3> QED
      BY <1>1, <1>13, <3>1, <3>2
  <2> QED
    BY <1>2, <1>13, <2>1, <2>2, Zenon DEF HandedPart, RequestOf
<1> QED
  BY <1>1, <1>12, <1>13, <1>14 DEF SessionInv, Glue

\* The end of the data: the application gets the request.
LEMMA ReadsLast ==
  ASSUME SessionInv, ResponderReceives, NEW b, Begins(b), b + 4 = Len(received) + 1
  PROVE  SessionInv' /\ UNCHANGED QP!vars
<1> DEFINE id == IdAt(b)
           old == requestRegistry[id]
           k == sent[b].request
<1>0. PICK r : r = sent[Len(received) + 1].record
  OBVIOUS
<1>1. /\ Len(received) \in Nat /\ r \in RP!IncomingRecord /\ RP!HandleRecord(r)
      /\ exceptions' = exceptions /\ RP!ResponderInv' /\ RP!Receive(r)
  BY <1>0, ReadIsStep
<1>2. /\ SentPart /\ RP!TypeOK /\ RegistryPart /\ HandedPart /\ QP!TypeOK /\ RP!TypeOK'
  BY <1>1 DEF SessionInv, Glue, RP!ResponderInv, QP!RequesterInv
<1>3. /\ id \in Ids /\ RP!Registered(id) /\ old.begin = b /\ old \in RP!RequestData
      /\ ~old.usedInRequest
      /\ old.params = <<k>> /\ old.stdIn = <<k>>
  <2>1. 4 \in 1..4 /\ 4 > 1 /\ 4 > 3
    OBVIOUS
  <2> QED
    BY <2>1, OpenEntry
<1>4. /\ b \in Nat /\ 1 < b /\ r.id = id /\ r.type = "StdIn" /\ r.content = <<>>
  <2>1. PICK kk, keep : /\ b \in Nat /\ 1 < b
                        /\ \A n \in 0..4 : sent[b + n].record = RecordAt(n, kk, id, keep)
    BY <1>2, WholeRequest
  <2>2. 4 \in 0..4
    OBVIOUS
  <2>3. r = RecordAt(4, kk, id, keep)
    BY <1>0, <2>1, <2>2
  <2> QED
    BY <2>1, <2>2, <2>3, RecordAtFields
<1>5. received # <<>>
  BY <1>1, <1>4
<1>6. RP!OnStdIn(r)
  BY <1>1, <1>3, <1>4, HandlerOf
<1> DEFINE data == [old EXCEPT !.usedInRequest = TRUE, !.params = <<>>, !.stdIn = <<>>]
           request == [id |-> id, begin |-> b, end |-> Len(received) + 1,
                       params |-> <<k>>, stdIn |-> <<k>>, response |-> "valid"]
<1>7. /\ requestRegistry' = [requestRegistry EXCEPT ![id] = data]
      /\ handed' = Append(handed, request)
      /\ UNCHANGED <<responderCfg, alive, wire, exceptions>>
  <2>1. RP!MakesRequest(requestRegistry[r.id], r.content)
    BY <1>3, <1>4 DEF RP!MakesRequest
  <2> QED
    BY <1>3, <1>4, <1>6, <2>1 DEF RP!OnStdIn
<1>8. data.begin = b /\ data.usedInRequest /\ data # Unregistered
  <2>1. <<>> \in Seq(Requests)
    OBVIOUS
  <2>2. data \in RP!RequestData /\ data.begin = b /\ data.usedInRequest
    BY <1>3, <2>1 DEF RP!RequestData
  <2> QED
    BY <2>2, ResponderConstants
<1>9. /\ handed \in Seq(RP!HandedRequest) /\ handed' \in Seq(RP!HandedRequest)
      /\ Len(handed) \in Nat /\ DOMAIN handed = 1..Len(handed)
      /\ DOMAIN handed' = 1..(Len(handed) + 1) /\ Len(handed') = Len(handed) + 1
      /\ \A a \in 1..Len(handed) : handed'[a] = handed[a]
      /\ handed'[Len(handed) + 1] = request
  <2>1. handed \in Seq(RP!HandedRequest) /\ handed' \in Seq(RP!HandedRequest)
    BY <1>2 DEF RP!TypeOK
  <2>2. request \in RP!HandedRequest
    <3>1. k \in Requests
      <4>1. old.params \in Seq(Requests) /\ old.params = <<k>>
        BY <1>3 DEF RP!RequestData
      <4>2. 1 \in 1..Len(<<k>>) /\ <<k>>[1] = k
        OBVIOUS
      <4> QED
        BY <4>1, <4>2, ElementOfSeq
    <3>2. <<k>> \in Seq(Requests)
      BY <3>1
    <3> QED
      BY <1>1, <1>3, <1>4, <3>2 DEF RP!HandedRequest
  <2> HIDE DEF request
  <2> QED
    BY <1>7, <2>1, <2>2, AppendProperties, LenProperties
<1> HIDE DEF data, request
<1>10. ReadsRecord /\ HandedStay
  <2>1. ReadsRecord
    BY <1>0, <1>1, <1>7 DEF ReadsRecord, ResponderReceives, RP!Receive
  <2>2. HandedStay
    BY <1>9 DEF HandedStay
  <2> QED
    BY <2>1, <2>2
<1>11. ChangesEntry(b, 4, data)
  BY <1>7, <1>8 DEF ChangesEntry
<1>12. RegistryPart'
  <2>1. 4 \in 0..4
    OBVIOUS
  <2> QED
    BY <1>5, <1>10, <1>11, <2>1, EntryChanges
<1>13. /\ UNCHANGED QP!vars
       /\ QP!RequesterInv' /\ OpeningPart' /\ SentPart' /\ AnsweredPart'
       /\ LimitsPart' /\ TransitPart' /\ WirePart' /\ exceptions' = 0
       /\ Len(received') = Len(received) + 1
       /\ \A p : (Begins(p)' <=> Begins(p))
  BY <1>5, <1>10, ReadStays
<1>14. HandedPart'
  <2>1. sent' = sent
    BY <1>10 DEF ReadsRecord
  <2>2. ASSUME NEW a \in DOMAIN handed'
        PROVE  /\ Begins(handed'[a].begin) /\ handed'[a].begin + 4 <= Len(received')
               /\ handed'[a].params = <<sent[handed'[a].begin].request>>
               /\ handed'[a].stdIn = <<sent[handed'[a].begin].request>>
               /\ handed'[a].response # "dropped"
    <3>1. CASE a \in DOMAIN handed
      <4>1. handed'[a] = handed[a]
        BY <1>9, <3>1
      <4>2. handed[a].begin + 4 <= Len(received) /\ Begins(handed[a].begin)
        BY <1>2, <3>1 DEF HandedPart
      <4>3. handed[a].begin \in Nat
        BY <1>2, <4>2, WholeRequest
      <4>4. handed[a].begin + 4 <= Len(received')
        BY <1>1, <1>13, <4>2, <4>3
      <4> QED
        BY <1>2, <3>1, <4>1, <4>2, <4>4 DEF HandedPart, RequestOf
    <3>2. CASE a \notin DOMAIN handed
      <4>1. handed'[a] = request
        BY <1>9, <3>2
      <4>2. /\ request.begin = b /\ request.params = <<k>> /\ request.stdIn = <<k>>
            /\ request.response = "valid"
        BY DEF request
      <4>3. b + 4 <= Len(received')
        BY <1>1, <1>4, <1>13
      <4> QED
        BY <4>1, <4>2, <4>3
    <3> QED
      BY <3>1, <3>2
  <2> QED
    BY <1>13, <2>1, <2>2, Zenon DEF HandedPart, RequestOf
<1> QED
  BY <1>1, <1>12, <1>13, <1>14 DEF SessionInv, Glue

\* The record that begins a request.
LEMMA ReadsBegin ==
  ASSUME SessionInv, ResponderReceives, NEW b, Begins(b), b = Len(received) + 1
  PROVE  SessionInv' /\ UNCHANGED QP!vars
<1> DEFINE id == IdAt(b)
           k == sent[b].request
<1>0. PICK r : r = sent[Len(received) + 1].record
  OBVIOUS
<1>1. /\ Len(received) \in Nat /\ r \in RP!IncomingRecord /\ RP!HandleRecord(r)
      /\ exceptions' = exceptions /\ RP!ResponderInv' /\ RP!Receive(r)
  BY <1>0, ReadIsStep
<1>2. /\ SentPart /\ RP!TypeOK /\ RegistryPart /\ HandedPart /\ QP!TypeOK
  BY DEF SessionInv, Glue, RP!ResponderInv, QP!RequesterInv
<1>3. PICK keep \in KeepModes :
        /\ b \in Nat /\ 1 < b /\ id \in Ids
        /\ r.id = id /\ r.type = "BeginRequest" /\ r.role = "Responder" /\ r.keep = keep
  <2>1. PICK kk \in DOMAIN requests, keep \in KeepModes :
          /\ b \in Nat /\ 1 < b /\ id \in Ids
          /\ \A n \in 0..4 : sent[b + n].record = RecordAt(n, kk, id, keep)
    BY <1>2, WholeRequest
  <2>2. 0 \in 0..4 /\ b + 0 = b
    BY <2>1
  <2>3. r = RecordAt(0, kk, id, keep)
    BY <1>0, <2>1, <2>2
  <2> QED
    BY <2>1, <2>2, <2>3, RecordAtFields
<1>4. received # <<>>
  BY <1>1, <1>3
<1>5. ~RP!Registered(id) /\ RP!Refusal(r) = "none"
  BY <1>0, <1>3, BeginIsAccepted
<1>6. RP!OnBeginRequest(r)
  BY <1>1, <1>3, <1>5, HandlerOf
<1> DEFINE data == [keepConnection |-> r.keep, usedInRequest |-> FALSE,
                    params |-> <<>>, stdIn |-> <<>>, begin |-> Len(received) + 1]
<1>7. /\ requestRegistry' = [requestRegistry EXCEPT ![id] = data]
      /\ UNCHANGED <<responderCfg, alive, handed, wire, exceptions>>
  BY <1>3, <1>5, <1>6 DEF RP!OnBeginRequest
<1>8. /\ data.begin = b /\ ~data.usedInRequest /\ data # Unregistered
      /\ data.params = <<>> /\ data.stdIn = <<>>
  <2>1. data \in RP!RequestData
    BY <1>1, <1>3, ModesAssumption DEF RP!RequestData
  <2> QED
    BY <2>1, ResponderConstants
<1> HIDE DEF data
<1>9. ReadsRecord /\ HandedStay
  <2>1. ReadsRecord
    BY <1>0, <1>1, <1>7 DEF ReadsRecord, ResponderReceives, RP!Receive
  <2>2. HandedStay
    BY <1>2, <1>7, LenProperties DEF HandedStay, RP!TypeOK
  <2> QED
    BY <2>1, <2>2
<1>10. ChangesEntry(b, 0, data)
  BY <1>5, <1>7, <1>8 DEF ChangesEntry
<1>11. RegistryPart'
  <2>1. 0 \in 0..4 /\ b + 0 = Len(received) + 1
    BY <1>3
  <2> QED
    BY <1>4, <1>9, <1>10, <2>1, EntryChanges
<1>12. /\ UNCHANGED QP!vars
       /\ QP!RequesterInv' /\ OpeningPart' /\ SentPart' /\ AnsweredPart'
       /\ LimitsPart' /\ TransitPart' /\ WirePart' /\ exceptions' = 0
       /\ Len(received') = Len(received) + 1
       /\ \A p : (Begins(p)' <=> Begins(p))
  BY <1>4, <1>9, ReadStays
<1>13. HandedPart'
  <2>1. handed' = handed /\ sent' = sent
    BY <1>7, <1>9 DEF ReadsRecord
  <2>2. ASSUME NEW a \in DOMAIN handed
        PROVE  handed[a].begin + 4 <= Len(received')
    <3>1. handed[a].begin + 4 <= Len(received) /\ Begins(handed[a].begin)
      BY <1>2 DEF HandedPart
    <3>2. handed[a].begin \in Nat
      BY <1>2, <3>1, WholeRequest
    <3> QED
      BY <1>1, <1>12, <3>1, <3>2
  <2> QED
    BY <1>2, <1>12, <2>1, <2>2, Zenon DEF HandedPart, RequestOf
<1> QED
  BY <1>1, <1>11, <1>12, <1>13 DEF SessionInv, Glue

\* Before the first record nothing was begun.
LEMMA NothingReceived ==
  ASSUME SessionInv, received = <<>>
  PROVE  /\ wire = <<>> /\ taken = 0 /\ connectionState # "Connected"
         /\ DOMAIN handed = {} /\ \A id \in Ids : ~RP!Registered(id)
         /\ \A i \in DOMAIN incoming : incoming[i].type # "GetValuesResult"
<1>1. /\ RP!ResponderInv /\ RP!TypeOK /\ QP!TypeOK /\ SentPart /\ TransitPart /\ RegistryPart
      /\ HandedPart /\ LimitsPart /\ OpeningPart
  BY DEF SessionInv, Glue, RP!ResponderInv, QP!RequesterInv
<1>2. Len(received) = 0
  OBVIOUS
<1>3. wire = <<>>
  BY <1>1 DEF LimitsPart
<1>4. taken = 0
  <2>1. Len(wire) = 0
    BY <1>3
  <2> QED
    BY <1>1, <2>1 DEF TransitPart
<1>5. DOMAIN handed = {}
  <2>1. ASSUME NEW a \in DOMAIN handed
        PROVE  FALSE
    <3>1. Begins(handed[a].begin) /\ handed[a].begin + 4 <= 0
      BY <1>1, <1>2 DEF HandedPart
    <3>2. handed[a].begin \in Nat
      BY <1>1, <3>1, WholeRequest
    <3> QED
      BY <3>1, <3>2
  <2> QED
    BY <2>1
<1>6. \A id \in Ids : ~RP!Registered(id)
  <2>1. \A id \in Ids : RP!Registered(id) => requestRegistry[id].begin \in 1..0
    BY <1>1, <1>2, RegisteredIsAwaited
  <2> QED
    BY <2>1
<1>7. connectionState # "Connected"
  BY <1>1, <1>4 DEF OpeningPart
<1>8. \A i \in DOMAIN incoming : incoming[i].type # "GetValuesResult"
  BY <1>1, <1>4 DEF LimitsPart
<1> QED
  BY <1>3, <1>4, <1>5, <1>6, <1>7, <1>8

\* The question for the limits is answered with those that are kept.
LEMMA ReadsGetValues ==
  ASSUME SessionInv, ResponderReceives, received = <<>>,
         sent[1] = [record |-> [type |-> "GetValues"], request |-> 0]
  PROVE  SessionInv' /\ UNCHANGED QP!vars
<1>0. PICK r : r = sent[Len(received) + 1].record
  OBVIOUS
<1>1. /\ 1 \in DOMAIN sent /\ RP!HandleRecord(r)
      /\ exceptions' = exceptions /\ RP!ResponderInv' /\ RP!Receive(r) /\ exceptions = 0
  BY <1>0, ReadIsStep DEF SessionInv
<1>2. /\ wire = <<>> /\ taken = 0 /\ connectionState # "Connected"
      /\ DOMAIN handed = {} /\ \A id \in Ids : ~RP!Registered(id)
      /\ \A i \in DOMAIN incoming : incoming[i].type # "GetValuesResult"
  BY NothingReceived
<1>3. /\ RP!TypeOK /\ RP!TypeOK' /\ LimitsPart /\ SentPart /\ TransitPart
  BY <1>1 DEF SessionInv, Glue, RP!ResponderInv
<1>4. r = [type |-> "GetValues"]
  BY <1>0
<1>5. RP!OnGetValues(r)
  BY <1>1, <1>4, HandlerOf
<1>6. /\ wire' = wire \o <<Report>>
      /\ UNCHANGED <<responderCfg, requestRegistry, alive, handed>>
  BY <1>1, <1>5, NothingThrows DEF RP!OnGetValues, RP!Emit, Report
<1>7. /\ UNCHANGED <<requesterVars, incoming, sent, taken, connectionState>>
      /\ received' = Append(received, r)
  BY <1>1 DEF ResponderReceives, requesterVars, RP!Receive
<1>8. Len(wire') = 1 /\ DOMAIN wire' = 1..1 /\ wire'[1] = Report
  BY <1>2, <1>6, Singletons
<1>9. Len(received') = 1 /\ DOMAIN received' = 1..1 /\ received'[1] = r
  BY <1>7
<1>10. WireGrows /\ HandedStay
  <2>1. WireGrows
    BY <1>2, <1>3, <1>8 DEF WireGrows, RP!TypeOK
  <2>2. HandedStay
    BY <1>2, <1>3, <1>6, LenProperties DEF HandedStay, RP!TypeOK
  <2> QED
    BY <2>1, <2>2
<1>11. /\ UNCHANGED QP!vars
       /\ QP!RequesterInv' /\ OpeningPart' /\ SentPart' /\ AnsweredPart'
       /\ taken' \in 0..Len(wire')
       /\ \A b, c \in DOMAIN sent' : Awaited(b)' /\ Awaited(c)' /\ IdAt(b)' = IdAt(c)' => b = c
       /\ \A p : (Begins(p)' <=> Begins(p)) /\ IdAt(p)' = IdAt(p)
  BY <1>7, <1>10, RequesterRests
<1>12. Report' = Report /\ Report.type = "GetValuesResult"
  BY <1>6 DEF Report
<1>13. LimitsPart'
  <2>1. wire' # <<>> /\ received' # <<>>
    BY <1>8, <1>9
  <2>2. \A i \in DOMAIN wire' : i = 1
    BY <1>8
  <2> QED
    BY <1>2, <1>3, <1>6, <1>7, <1>8, <1>12, <2>1, <2>2 DEF LimitsPart
<1>14. TransitPart'
  <2>1. Len(received') <= Len(sent')
    BY <1>1, <1>3, <1>7, <1>9, LenProperties DEF SentPart
  <2>2. \A i \in DOMAIN received' : received'[i] = sent'[i].record
    BY <1>4, <1>7, <1>9
  <2>3. \A i \in DOMAIN wire' : wire'[i].type # "EndRequest"
    BY <1>8, <1>12
  <2>4. NeverRefused'
    BY <2>3 DEF NeverRefused
  <2> QED
    BY <1>11, <2>1, <2>2, <2>4, Zenon DEF TransitPart
<1>15. RegistryPart'
  <2>1. \A id : ~RP!Registered(id)' <=> ~RP!Registered(id)
    BY <1>6 DEF RP!Registered
  <2>2. ~Begins(1)
    BY DEF Begins
  <2>3. \A b \in DOMAIN received' : ~Begins(b)'
    BY <1>9, <1>11, <2>2
  <2> QED
    BY <1>2, <2>1, <2>3, Zenon DEF RegistryPart
<1>16. HandedPart'
  BY <1>2, <1>6 DEF HandedPart
<1>17. WirePart'
  <2>1. \A i \in DOMAIN wire' : ~RP!IsStream(wire'[i]) /\ wire'[i].type # "EndRequest"
    BY <1>8, <1>12 DEF RP!IsStream
  <2> QED
    BY <1>2, <1>6, <2>1, Zenon DEF WirePart
<1> QED
  BY <1>1, <1>11, <1>13, <1>14, <1>15, <1>16, <1>17 DEF SessionInv, Glue

LEMMA ResponderReceivesKeeps ==
  ASSUME SessionInv, ResponderReceives
  PROVE  SessionInv' /\ UNCHANGED QP!vars
<1>1. Len(received) \in Nat /\ Len(received) + 1 \in DOMAIN sent /\ SentPart
  BY ReadIsStep DEF SessionInv, Glue
<1>2. CASE Len(received) + 1 = 1 /\ sent[1] = [record |-> [type |-> "GetValues"], request |-> 0]
  <2>1. received = <<>>
    BY <1>1, <1>2, EmptySeq DEF SessionInv, RP!ResponderInv, RP!TypeOK
  <2> QED
    BY <1>2, <2>1, ReadsGetValues
<1>3. ASSUME NEW b \in DOMAIN sent, NEW j \in 0..4, Begins(b), Len(received) + 1 = b + j
      PROVE  SessionInv' /\ UNCHANGED QP!vars
  <2>1. CASE j = 0
    <3>1. b \in Nat
      BY <1>1, <1>3, WholeRequest
    <3>2. b = Len(received) + 1
      BY <1>3, <2>1, <3>1
    <3> QED
      BY <1>3, <3>2, ReadsBegin
  <2>2. CASE j \in 1..3
    BY <1>3, <2>2, ReadsContent
  <2>3. CASE j = 4
    BY <1>3, <2>3, ReadsLast
  <2> QED
    BY <2>1, <2>2, <2>3
<1> QED
  BY <1>1, <1>2, <1>3, RecordCases

-----------------------------------------------------------------------------
(* The application answers                                                  *)

LEMMA AnswerBlocks ==
  ASSUME RP!TypeOK
  PROVE  \A id \in Ids, k, nOut, nErr \in Nat : RP!Registered(id) =>
           RP!Streams(id, k, nOut, nErr) \o RP!EndEvents(id)
             = RP!EndBlock(k, nOut + 1, nOut + nErr + 2, id, "RequestComplete",
                           requestRegistry[id].begin, requestRegistry[id].keepConnection)
BY ResponderConstants, RP!AnswerIsBlock, Zenon

\* A Response that is sent goes out whole, and its request leaves the registry.
LEMMA AnswerIs ==
  ASSUME SessionInv, NEW a \in DOMAIN handed, AnswerRequest(a)
  PROVE  /\ RP!ResponderInv' /\ exceptions' = 0
         /\ a \in Nat /\ handed[a].id \in Ids
         /\ RP!Registered(handed[a].id) /\ requestRegistry[handed[a].id].begin = handed[a].begin
         /\ requestRegistry' = [requestRegistry EXCEPT ![handed[a].id] = Unregistered]
         /\ handed' = [handed EXCEPT ![a].response = "sent"]
         /\ UNCHANGED <<requesterVars, incoming, sent, taken, responderCfg, received>>
         /\ \E nOut, nErr \in 0..MaxPieces, keep \in BOOLEAN :
              wire' = wire \o RP!EndBlock(a, nOut + 1, nOut + nErr + 2, handed[a].id,
                                          "RequestComplete", handed[a].begin, keep)
<1> DEFINE id == handed[a].id
<1>1. RP!ResponderInv /\ RP!TypeOK /\ exceptions = 0
  BY DEF SessionInv, RP!ResponderInv
<1>2. RP!SendResponse(a) /\ UNCHANGED <<requesterVars, incoming, sent, taken>>
  BY ResponderHandlers, Zenon DEF AnswerRequest
<1>3. RP!Next
  BY <1>2 DEF RP!Next, RP!ApplicationStep
<1>4. PICK nOut \in 0..MaxPieces, nErr \in 0..MaxPieces :
        /\ RP!Registered(id) /\ handed[a].response = "valid"
        /\ wire' = wire \o (RP!Streams(id, a, nOut, nErr) \o RP!EndEvents(id))
        /\ RP!DeleteRequest(id) /\ RP!AfterSend(a)
        /\ UNCHANGED <<responderCfg, alive, received, exceptions>>
  <2>1. \A events : ~RP!EmitThrows(events)
    BY <1>1, NothingThrows
  <2>2. RP!Registered(id)
    BY <1>1, <1>2 DEF RP!SendResponse, RP!ResponderInv, RP!ValidResponseCanBeSent
  <2> QED
    BY <1>2, <2>1, <2>2, Zenon DEF RP!SendResponse, RP!Emit, RP!Streams
<1>5. a \in Nat /\ id \in Ids
  <2>1. handed \in Seq(RP!HandedRequest)
    BY <1>1 DEF RP!TypeOK
  <2>2. handed[a] \in RP!HandedRequest
    BY <2>1, ElementOfSeq, LenProperties
  <2> QED
    BY <2>1, <2>2, LenProperties, SMTT(30) DEF RP!HandedRequest
<1>6. requestRegistry[id].begin = handed[a].begin
  BY <1>1, <1>4 DEF RP!ResponderInv, RP!ValidResponseCanBeSent
<1>7. requestRegistry[id].keepConnection \in BOOLEAN
  BY <1>1, <1>4, <1>5 DEF RP!TypeOK, RP!Registered, RP!RequestData
<1>8. RP!Streams(id, a, nOut, nErr) \o RP!EndEvents(id)
        = RP!EndBlock(a, nOut + 1, nOut + nErr + 2, id, "RequestComplete",
                      handed[a].begin, requestRegistry[id].keepConnection)
  <2>1. nOut \in Nat /\ nErr \in Nat
    BY BoundsAssumption
  <2>2. RP!Streams(id, a, nOut, nErr) \o RP!EndEvents(id)
          = RP!EndBlock(a, nOut + 1, nOut + nErr + 2, id, "RequestComplete",
                        requestRegistry[id].begin, requestRegistry[id].keepConnection)
    BY <1>1, <1>4, <1>5, <2>1, AnswerBlocks, ZenonT(60)
  <2> QED
    BY <1>6, <2>2, Zenon
<1>9. RP!ResponderInv'
  BY <1>1, <1>3, <1>4, ResponderStep
<1>10. handed' = [handed EXCEPT ![a].response = "sent"]
  BY <1>4 DEF RP!AfterSend, RP!ResponseState
<1>11. requestRegistry' = [requestRegistry EXCEPT ![id] = Unregistered]
  BY <1>4 DEF RP!DeleteRequest
<1> QED
  BY <1>1, <1>2, <1>4, <1>5, <1>6, <1>7, <1>8, <1>9, <1>10, <1>11

\* What an answer adds to what the responder has written.
AnswerAdded(a, id, b, split, size, total) ==
  /\ split \in Nat /\ size \in Nat /\ total \in Nat
  /\ 0 < split /\ split < size /\ size < total /\ size <= 2 * MaxPieces + 2
  /\ Len(wire') = Len(wire) + total /\ DOMAIN wire' = 1..(Len(wire) + total)
  /\ wire' \in Seq(RP!OutgoingEvent)
  /\ \A i \in 1..Len(wire) : wire'[i] = wire[i]
  /\ \A i \in 1..size : wire'[Len(wire) + i] = RP!StreamRecord(a, split, size, id, i)
  /\ wire'[Len(wire) + size + 1] = RP!EndRequestRecord(id, "RequestComplete", b)
  /\ \A i \in (size + 2)..total : wire'[Len(wire) + i] = RP!Disconnect

LEMMA AnswerAdds ==
  ASSUME SessionInv, NEW a \in DOMAIN handed, AnswerRequest(a)
  PROVE  \E split, size, total :
           AnswerAdded(a, handed[a].id, handed[a].begin, split, size, total)
<1> DEFINE id == handed[a].id
           b == handed[a].begin
<1>1. PICK nOut \in 0..MaxPieces, nErr \in 0..MaxPieces, keep \in BOOLEAN :
        wire' = wire \o RP!EndBlock(a, nOut + 1, nOut + nErr + 2, id, "RequestComplete", b, keep)
  BY AnswerIs, Zenon
<1> DEFINE split == nOut + 1
           size == nOut + nErr + 2
           total == size + IF keep THEN 1 ELSE 2
           block == RP!EndBlock(a, split, size, id, "RequestComplete", b, keep)
<1>2. /\ split \in Nat /\ size \in Nat /\ total \in Nat
      /\ 0 < split /\ split < size /\ size < total /\ size <= 2 * MaxPieces + 2 /\ total <= size + 2
  BY BoundsAssumption
<1>3. block = [i \in 1..total |->
                 IF i <= size THEN RP!StreamRecord(a, split, size, id, i)
                 ELSE IF i = size + 1 THEN RP!EndRequestRecord(id, "RequestComplete", b)
                 ELSE RP!Disconnect]
  BY DEF RP!EndBlock
<1>4. /\ wire \in Seq(RP!OutgoingEvent) /\ wire' \in Seq(RP!OutgoingEvent)
      /\ Len(wire) \in Nat
  BY AnswerIs, LenProperties DEF SessionInv, RP!ResponderInv, RP!TypeOK
<1> HIDE DEF split, size, total
<1>5. \E T : block \in Seq(T) /\ wire \in Seq(T) /\ Len(block) = total
  <2> DEFINE T == RP!OutgoingEvent \cup {block[i] : i \in 1..total}
  <2>1. DOMAIN block = 1..total /\ block \in [1..total -> {block[i] : i \in 1..total}]
    BY <1>3
  <2> HIDE DEF block
  <2>2. block \in [1..total -> T]
    BY <2>1
  <2>3. RP!OutgoingEvent \subseteq T
    OBVIOUS
  <2> HIDE DEF T
  <2>4. wire \in Seq(T)
    BY <1>4, <2>3
  <2>5. block \in Seq(T) /\ Len(block) = total
    BY <1>2, <2>2
  <2> QED
    BY <2>4, <2>5
<1> HIDE DEF block
<1>6. /\ Len(wire \o block) = Len(wire) + total
      /\ \A i \in 1..(Len(wire) + total) : (wire \o block)[i] =
           IF i <= Len(wire) THEN wire[i] ELSE block[i - Len(wire)]
  BY <1>2, <1>4, <1>5, ConcatProperties
<1>7. wire' = wire \o block
  BY <1>1 DEF block, split, size
<1>8. Len(wire') = Len(wire) + total /\ DOMAIN wire' = 1..(Len(wire) + total)
  BY <1>4, <1>6, <1>7, LenProperties
<1>9. \A i \in 1..Len(wire) : wire'[i] = wire[i]
  BY <1>2, <1>4, <1>6, <1>7
<1>10. \A i \in 1..total : wire'[Len(wire) + i] = block[i]
  BY <1>2, <1>4, <1>6, <1>7
<1>11. \A i \in 1..size : block[i] = RP!StreamRecord(a, split, size, id, i)
  BY <1>2, <1>3
<1>12. block[size + 1] = RP!EndRequestRecord(id, "RequestComplete", b)
  BY <1>2, <1>3
<1>13. \A i \in (size + 2)..total : block[i] = RP!Disconnect
  BY <1>2, <1>3
<1>14. \A i \in 1..size : wire'[Len(wire) + i] = RP!StreamRecord(a, split, size, id, i)
  <2>1. \A i \in 1..size : i \in 1..total
    BY <1>2
  <2> QED
    BY <1>10, <1>11, <2>1, Zenon
<1>15. wire'[Len(wire) + size + 1] = RP!EndRequestRecord(id, "RequestComplete", b)
  <2>1. size + 1 \in 1..total /\ Len(wire) + size + 1 = Len(wire) + (size + 1)
    BY <1>2, <1>4
  <2> QED
    BY <1>10, <1>12, <2>1
<1>16. \A i \in (size + 2)..total : wire'[Len(wire) + i] = RP!Disconnect
  BY <1>2, <1>10, <1>13, SMTT(30)
<1>17. AnswerAdded(a, id, b, split, size, total)
  BY <1>2, <1>4, <1>8, <1>9, <1>14, <1>15, <1>16, Zenon DEF AnswerAdded
<1> QED
  BY <1>17, Zenon

LEMMA StreamRecordFields ==
  ASSUME NEW a, NEW split, NEW size, NEW id, NEW i
  PROVE  /\ RP!StreamRecord(a, split, size, id, i).type \in {"StdOut", "StdErr"}
         /\ RP!StreamRecord(a, split, size, id, i).answer = a
         /\ RP!StreamRecord(a, split, size, id, i).id = id
         /\ RP!StreamRecord(a, split, size, id, i).last <=> i \in {split, size}
<1>1. RP!StreamRecord(a, split, size, id, i)
        = [type |-> IF i <= split THEN "StdOut" ELSE "StdErr", id |-> id, answer |-> a,
           last |-> i \in {split, size}]
  BY Zenon DEF RP!StreamRecord
<1>2. RP!StreamRecord(a, split, size, id, i).last <=> i \in {split, size}
  <2>1. PICK last : last = (i \in {split, size})
    OBVIOUS
  <2>2. RP!StreamRecord(a, split, size, id, i).last = last
    BY <1>1, <2>1
  <2> QED
    BY <2>1, <2>2, Zenon
<1> QED
  BY <1>1, <1>2

\* What is behind an answer on the wire, and what is part of it.
LEMMA AnswerEvents ==
  ASSUME SessionInv, NEW a, NEW id, NEW b, NEW split, NEW size, NEW total,
         AnswerAdded(a, id, b, split, size, total), NEW n, n = Len(wire), NEW i \in DOMAIN wire'
  PROVE  /\ n \in Nat /\ i \in Nat
         /\ n + size + 1 \in DOMAIN wire' /\ Ends(n + size + 1, b)'
         /\ i \in DOMAIN wire => wire'[i] = wire[i]
         /\ i \notin DOMAIN wire /\ RP!IsStream(wire'[i]) =>
              /\ i \in (n + 1)..(n + size) /\ wire'[i].answer = a /\ wire'[i].id = id
              /\ IsPiece(wire'[i]) => i # n + split /\ i # n + size
         /\ i \notin DOMAIN wire /\ wire'[i].type = "EndRequest" =>
              wire'[i].begin = b /\ wire'[i].status = "RequestComplete"
         /\ i \notin DOMAIN wire => wire'[i].type # "GetValuesResult"
<1>1. /\ split \in Nat /\ size \in Nat /\ total \in Nat /\ 0 < split /\ split < size /\ size < total
      /\ DOMAIN wire' = 1..(n + total)
      /\ \A j \in 1..n : wire'[j] = wire[j]
      /\ \A j \in 1..size : wire'[n + j] = RP!StreamRecord(a, split, size, id, j)
      /\ wire'[n + size + 1] = RP!EndRequestRecord(id, "RequestComplete", b)
      /\ \A j \in (size + 2)..total : wire'[n + j] = RP!Disconnect
  BY DEF AnswerAdded
<1>2. n \in Nat /\ DOMAIN wire = 1..n
  BY LenProperties DEF SessionInv, RP!ResponderInv, RP!TypeOK
<1>3. i \in Nat /\ i \in 1..(n + total)
  BY <1>1, <1>2
<1>4. /\ n + size + 1 \in DOMAIN wire' /\ Ends(n + size + 1, b)'
  BY <1>1, <1>2 DEF Ends, RP!EndRequestRecord
<1>5. CASE i \in DOMAIN wire
  BY <1>1, <1>2, <1>3, <1>4, <1>5
<1>6. CASE i \notin DOMAIN wire
  <2>1. PICK j : j = i - n
    OBVIOUS
  <2>2. j \in 1..total /\ i = n + j
    BY <1>1, <1>2, <1>3, <1>6, <2>1
  <2>3. CASE j <= size
    <3>1. j \in 1..size
      BY <1>1, <2>2, <2>3
    <3>2. wire'[i] = RP!StreamRecord(a, split, size, id, j)
      BY <1>1, <2>2, <3>1
    <3>3. /\ wire'[i].type \in {"StdOut", "StdErr"} /\ wire'[i].answer = a /\ wire'[i].id = id
          /\ wire'[i].last <=> j \in {split, size}
      BY <3>2, StreamRecordFields
    <3>4. i \in (n + 1)..(n + size) /\ (j \notin {split, size} => i # n + split /\ i # n + size)
      BY <1>1, <1>2, <2>2, <3>1
    <3> QED
      BY <1>2, <1>3, <1>4, <1>6, <3>3, <3>4 DEF IsPiece
  <2>4. CASE j = size + 1
    <3>1. wire'[i] = RP!EndRequestRecord(id, "RequestComplete", b)
      BY <1>1, <1>2, <2>2, <2>4
    <3>2. wire'[i].type = "EndRequest" /\ wire'[i].begin = b /\ wire'[i].status = "RequestComplete"
      BY <3>1 DEF RP!EndRequestRecord
    <3> QED
      BY <1>2, <1>3, <1>4, <1>6, <3>2 DEF RP!IsStream
  <2>5. CASE size + 1 < j
    <3>1. wire'[i] = RP!Disconnect
      <4>1. j \in (size + 2)..total
        BY <1>1, <2>2, <2>5
      <4> QED
        BY <1>1, <2>2, <4>1
    <3>2. wire'[i].type = "disconnect"
      BY <3>1 DEF RP!Disconnect
    <3> QED
      BY <1>2, <1>3, <1>4, <1>6, <3>2 DEF RP!IsStream
  <2> QED
    BY <1>1, <2>2, <2>3, <2>4, <2>5
<1> QED
  BY <1>5, <1>6

\* What is on the wire after an answer.
LEMMA AnswerOnWire ==
  ASSUME SessionInv, NEW a \in DOMAIN handed, AnswerRequest(a)
  PROVE  WirePart'
<1>0. PICK id, b, n : id = handed[a].id /\ b = handed[a].begin /\ n = Len(wire)
  OBVIOUS
<1>1. PICK split, size, total : AnswerAdded(a, id, b, split, size, total)
  BY <1>0, AnswerAdds
<1>2. /\ n \in Nat /\ DOMAIN wire = 1..n /\ DOMAIN wire' = 1..(n + total)
      /\ split \in Nat /\ size \in Nat /\ total \in Nat
      /\ 0 < split /\ split < size /\ size <= 2 * MaxPieces + 2
  BY <1>0, <1>1, LenProperties DEF AnswerAdded, SessionInv, RP!ResponderInv, RP!TypeOK
<1>3. /\ RP!Registered(id) /\ requestRegistry[id].begin = b /\ id \in Ids
      /\ handed' = [handed EXCEPT ![a].response = "sent"]
  BY <1>0, AnswerIs
<1>4. /\ WirePart /\ RP!TypeOK /\ RP!EndInv
  BY DEF SessionInv, Glue, RP!ResponderInv
<1>5. /\ DOMAIN handed' = DOMAIN handed
      /\ \A c \in DOMAIN handed : handed'[c].id = handed[c].id /\ handed'[c].begin = handed[c].begin
  <2>1. \A c \in DOMAIN handed : handed[c] \in RP!HandedRequest
    BY <1>4, ElementOfSeq, LenProperties DEF RP!TypeOK
  <2> QED
    BY <1>3, <2>1 DEF RP!HandedRequest
<1>6. \A i \in DOMAIN wire' :
         /\ n + size + 1 \in DOMAIN wire' /\ Ends(n + size + 1, b)'
         /\ i \in DOMAIN wire => wire'[i] = wire[i]
         /\ i \notin DOMAIN wire /\ RP!IsStream(wire'[i]) =>
              /\ i \in (n + 1)..(n + size) /\ wire'[i].answer = a /\ wire'[i].id = id
              /\ IsPiece(wire'[i]) => i # n + split /\ i # n + size
         /\ i \notin DOMAIN wire /\ wire'[i].type = "EndRequest" => wire'[i].begin = b
  BY <1>0, <1>1, AnswerEvents
<1>7. ASSUME NEW i \in DOMAIN wire', RP!IsStream(wire'[i])
      PROVE  /\ wire'[i].answer \in DOMAIN handed' /\ wire'[i].id = handed'[wire'[i].answer].id
             /\ \E e \in DOMAIN wire' :
                  /\ i < e /\ wire'[e].type = "EndRequest"
                  /\ wire'[e].begin = handed'[wire'[i].answer].begin
  <2>1. CASE i \in DOMAIN wire
    <3>1. wire'[i] = wire[i]
      BY <1>6, <2>1
    <3>2. /\ wire[i].answer \in DOMAIN handed /\ wire[i].id = handed[wire[i].answer].id
          /\ \E e \in DOMAIN wire : i < e /\ Ends(e, handed[wire[i].answer].begin)
      BY <1>4, <1>7, <2>1, <3>1 DEF WirePart
    <3>3. \A e \in DOMAIN wire : e \in DOMAIN wire' /\ wire'[e] = wire[e]
      BY <1>2, <1>6
    <3> QED
      BY <1>5, <3>1, <3>2, <3>3, Zenon DEF Ends
  <2>2. CASE i \notin DOMAIN wire
    <3>1. /\ i \in (n + 1)..(n + size) /\ wire'[i].answer = a /\ wire'[i].id = id
      BY <1>6, <1>7, <2>2
    <3>2. n + size + 1 \in DOMAIN wire' /\ Ends(n + size + 1, b)' /\ i < n + size + 1
      BY <1>2, <1>6, <3>1
    <3> QED
      BY <1>0, <1>5, <3>1, <3>2, Zenon DEF Ends
  <2> QED
    BY <2>1, <2>2
<1>8. ASSUME NEW c \in DOMAIN handed
      PROVE  Cardinality(PiecePlaces(c)') <= 2 * MaxPieces
  <2>1. CASE c # a
    <3>1. PiecePlaces(c)' = PiecePlaces(c)
      <4>1. \A i \in DOMAIN wire : i \in DOMAIN wire' /\ wire'[i] = wire[i]
        BY <1>2, <1>6
      <4>2. \A i \in DOMAIN wire' : IsPiece(wire'[i]) /\ i \notin DOMAIN wire => wire'[i].answer = a
        BY <1>6 DEF IsPiece, RP!IsStream
      <4> QED
        BY <2>1, <4>1, <4>2, Zenon DEF PiecePlaces
    <3> QED
      BY <1>4, <3>1 DEF WirePart
  <2>2. CASE c = a
    <3> DEFINE all == (n + 1)..(n + size)
               pieces == (all \ {n + split}) \ {n + size}
    <3>1. \A i \in DOMAIN wire : ~(IsPiece(wire[i]) /\ wire[i].answer = a)
      <4>1. ASSUME NEW i \in DOMAIN wire, IsPiece(wire[i]), wire[i].answer = a
            PROVE  FALSE
        <5>1. RP!IsStream(wire[i])
          BY <4>1 DEF IsPiece, RP!IsStream
        <5>2. PICK e \in DOMAIN wire : Ends(e, b)
          BY <1>0, <1>4, <4>1, <5>1 DEF WirePart
        <5> QED
          BY <1>3, <1>4, <5>2 DEF RP!EndInv, RP!IsEnd, Ends
      <4> QED
        BY <4>1
    <3>2. PiecePlaces(c)' \in SUBSET pieces
      <4>1. ASSUME NEW i \in DOMAIN wire', IsPiece(wire'[i]), wire'[i].answer = a
            PROVE  i \in pieces
        <5>1. i \notin DOMAIN wire
          BY <1>6, <3>1, <4>1
        <5>2. RP!IsStream(wire'[i])
          BY <4>1 DEF IsPiece, RP!IsStream
        <5>3. i \in all /\ i # n + split /\ i # n + size
          BY <1>6, <4>1, <5>1, <5>2
        <5> QED
          BY <5>3, Zenon
      <4> HIDE DEF pieces
      <4> QED
        BY <2>2, <4>1 DEF PiecePlaces
    <3>3. IsFiniteSet(all) /\ Cardinality(all) = size
      <4>1. n + 1 \in Int /\ n + size \in Int /\ n + 1 <= n + size /\ n + size - (n + 1) + 1 = size
        BY <1>2
      <4>2. /\ IsFiniteSet((n + 1)..(n + size))
            /\ Cardinality((n + 1)..(n + size))
                 = IF n + 1 > n + size THEN 0 ELSE (n + size) - (n + 1) + 1
        BY <4>1, FS_Interval
      <4>3. ~(n + 1 > n + size) /\ (n + size) - (n + 1) + 1 = size
        BY <1>2
      <4> QED
        BY <4>2, <4>3, Zenon
    <3>4. n + split \in all /\ n + size \in all \ {n + split}
      BY <1>2
    <3> HIDE DEF all
    <3>5. IsFiniteSet(pieces) /\ Cardinality(pieces) = size - 2
      <4>1. IsFiniteSet(all \ {n + split}) /\ Cardinality(all \ {n + split}) = size - 1
        BY <3>3, <3>4, FS_RemoveElement
      <4>2. IsFiniteSet(pieces) /\ Cardinality(pieces) = Cardinality(all \ {n + split}) - 1
        BY <3>4, <4>1, FS_RemoveElement
      <4> QED
        BY <1>2, <4>1, <4>2
    <3> HIDE DEF pieces
    <3>6. IsFiniteSet(PiecePlaces(c)') /\ Cardinality(PiecePlaces(c)') <= size - 2
      BY <3>2, <3>5, FS_Subset
    <3>7. Cardinality(PiecePlaces(c)') \in Nat
      BY <3>6, FS_CardinalityType
    <3> QED
      BY <1>2, <3>6, <3>7, BoundsAssumption
  <2> QED
    BY <2>1, <2>2
<1>9. ASSUME NEW i \in DOMAIN wire', wire'[i].type = "EndRequest"
      PROVE  \E c \in DOMAIN handed' : wire'[i].begin = handed'[c].begin
  <2>1. CASE i \in DOMAIN wire
    <3>1. wire'[i] = wire[i]
      BY <1>6, <2>1
    <3>2. \E c \in DOMAIN handed : wire[i].begin = handed[c].begin
      BY <1>4, <1>9, <2>1, <3>1 DEF WirePart, Ends
    <3> QED
      BY <1>5, <3>1, <3>2, Zenon
  <2>2. CASE i \notin DOMAIN wire
    <3>1. wire'[i].begin = b
      BY <1>6, <1>9, <2>2
    <3> QED
      BY <1>0, <1>5, <3>1, Zenon
  <2> QED
    BY <2>1, <2>2
<1>10. \A i \in DOMAIN wire' : RP!IsStream(wire'[i]) =>
         /\ wire'[i].answer \in DOMAIN handed' /\ wire'[i].id = handed'[wire'[i].answer].id
         /\ \E e \in DOMAIN wire' :
              /\ i < e /\ wire'[e].type = "EndRequest"
              /\ wire'[e].begin = handed'[wire'[i].answer].begin
  BY <1>7, Zenon
<1>11. \A c \in DOMAIN handed' : Cardinality(PiecePlaces(c)') <= 2 * MaxPieces
  BY <1>5, <1>8, Zenon
<1>12. \A i \in DOMAIN wire' : wire'[i].type = "EndRequest" =>
         \E c \in DOMAIN handed' : wire'[i].type = "EndRequest" /\ wire'[i].begin = handed'[c].begin
  BY <1>9, Zenon
<1> QED
  BY <1>10, <1>11, <1>12, Zenon DEF WirePart, Ends

LEMMA AnswerKeeps ==
  ASSUME SessionInv, NEW a \in DOMAIN handed, AnswerRequest(a)
  PROVE  SessionInv' /\ UNCHANGED QP!vars
<1>0. PICK id, b : id = handed[a].id /\ b = handed[a].begin
  OBVIOUS
<1>1. PICK split, size, total : AnswerAdded(a, id, b, split, size, total)
  BY <1>0, AnswerAdds
<1>2. /\ RP!ResponderInv' /\ exceptions' = 0 /\ id \in Ids
      /\ RP!Registered(id) /\ requestRegistry[id].begin = b
      /\ requestRegistry' = [requestRegistry EXCEPT ![id] = Unregistered]
      /\ handed' = [handed EXCEPT ![a].response = "sent"]
      /\ UNCHANGED <<requesterVars, incoming, sent, taken, responderCfg, received>>
  BY <1>0, AnswerIs
<1>3. /\ WirePart /\ RP!TypeOK /\ RP!TypeOK' /\ SentPart /\ TransitPart /\ LimitsPart /\ HandedPart
      /\ RegistryPart /\ QP!TypeOK /\ RP!ResponderInv
  BY <1>2 DEF SessionInv, Glue, RP!ResponderInv, QP!RequesterInv
<1>4. /\ DOMAIN handed' = DOMAIN handed /\ Len(handed') = Len(handed)
      /\ \A c \in DOMAIN handed :
           /\ handed'[c].id = handed[c].id /\ handed'[c].begin = handed[c].begin
           /\ handed'[c].params = handed[c].params /\ handed'[c].stdIn = handed[c].stdIn
           /\ handed[c].response # "dropped" => handed'[c].response # "dropped"
  <2>1. \A c \in DOMAIN handed : handed[c] \in RP!HandedRequest
    BY <1>3, ElementOfSeq, LenProperties DEF RP!TypeOK
  <2>2. handed \in Seq(RP!HandedRequest) /\ handed' \in Seq(RP!HandedRequest)
    BY <1>3 DEF RP!TypeOK
  <2>3. DOMAIN handed' = DOMAIN handed
    BY <1>2
  <2>4. Len(handed') = Len(handed)
    BY <2>2, <2>3, LenProperties
  <2> QED
    BY <1>2, <2>1, <2>3, <2>4 DEF RP!HandedRequest
<1>5. /\ Len(wire) \in Nat /\ DOMAIN wire = 1..Len(wire) /\ Len(received) \in Nat
      /\ DOMAIN received = 1..Len(received)
  BY <1>3, Lengths
<1>6. WireGrows /\ HandedStay
  <2>1. WireGrows
    BY <1>1, <1>5 DEF WireGrows, AnswerAdded
  <2>2. HandedStay
    <3>1. handed' \in Seq(RP!HandedRequest) /\ Len(handed) \in Nat
      BY <1>3, LenProperties DEF RP!TypeOK
    <3> QED
      BY <1>4, <3>1 DEF HandedStay
  <2> QED
    BY <2>1, <2>2
<1>7. /\ UNCHANGED QP!vars
      /\ QP!RequesterInv' /\ OpeningPart' /\ SentPart' /\ AnsweredPart'
      /\ taken' \in 0..Len(wire')
      /\ \A c, d \in DOMAIN sent' : Awaited(c)' /\ Awaited(d)' /\ IdAt(c)' = IdAt(d)' => c = d
      /\ \A p : (Begins(p)' <=> Begins(p)) /\ IdAt(p)' = IdAt(p)
  BY <1>2, <1>6, RequesterRests
<1>8. WirePart'
  BY AnswerOnWire
<1>9. Begins(b) /\ b + 4 <= Len(received) /\ b \in Nat
  <2>1. Begins(b) /\ b + 4 <= Len(received)
    BY <1>0, <1>3 DEF HandedPart
  <2> QED
    BY <1>3, <2>1, WholeRequest
<1>10. \A i \in DOMAIN wire' :
         /\ i \in DOMAIN wire => wire'[i] = wire[i]
         /\ i \notin DOMAIN wire /\ wire'[i].type = "EndRequest" => wire'[i].status = "RequestComplete"
         /\ i \notin DOMAIN wire => wire'[i].type # "GetValuesResult"
  BY <1>1, AnswerEvents
<1>11. LimitsPart'
  <2>1. received # <<>>
    BY <1>5, <1>9
  <2>2. 1 \in DOMAIN wire /\ wire # <<>>
    <3>1. wire # <<>>
      BY <1>3, <2>1 DEF LimitsPart
    <3>2. wire \in Seq(RP!OutgoingEvent)
      BY <1>3 DEF RP!TypeOK
    <3> QED
      BY <1>5, <3>1, <3>2, EmptySeq
  <2>3. wire' # <<>> /\ wire'[1] = wire[1] /\ DOMAIN wire \subseteq DOMAIN wire'
    <3>1. Len(wire) <= Len(wire') /\ 1 <= Len(wire) /\ Len(wire') \in Nat /\ DOMAIN wire' = 1..Len(wire')
      BY <1>3, <1>5, <1>6, <2>2, LenProperties DEF WireGrows, RP!TypeOK
    <3>2. 1 \in DOMAIN wire'
      BY <3>1
    <3> QED
      BY <1>5, <1>10, <2>2, <3>1, <3>2
  <2>4. Report' = Report
    BY <1>2 DEF Report
  <2>5. \A i \in DOMAIN wire' : wire'[i].type = "GetValuesResult" => i = 1
    BY <1>3, <1>10 DEF LimitsPart
  <2>6. UNCHANGED <<incoming, taken, responderCfg, received, requesterCfg, connectionState>>
    BY <1>2 DEF requesterVars
  <2> QED
    BY <1>3, <2>1, <2>2, <2>3, <2>4, <2>5, <2>6, Zenon DEF LimitsPart
<1>12. TransitPart'
  <2>1. NeverRefused'
    BY <1>3, <1>10 DEF TransitPart, NeverRefused
  <2>2. Len(received') <= Len(sent') /\ \A i \in DOMAIN received' : received'[i] = sent'[i].record
    BY <1>2, <1>3 DEF TransitPart
  <2> QED
    BY <1>7, <2>1, <2>2, Zenon DEF TransitPart
<1>13. RegistryPart'
  <2>1. /\ ~RP!Registered(id)'
        /\ \A jd \in Ids : jd # id => requestRegistry'[jd] = requestRegistry[jd]
    BY <1>2, <1>3 DEF RP!Registered, RP!TypeOK
  <2>2. received' = received /\ sent' = sent
    BY <1>2
  <2>3. \A c, at : ContentAt(c, at)' = ContentAt(c, at)
    BY <2>2 DEF ContentAt
  <2>4. ASSUME NEW jd \in Ids, RP!Registered(jd)'
        PROVE  EntryPart(jd)'
    <3>0. PICK c : c = requestRegistry[jd].begin
      OBVIOUS
    <3>1. jd # id /\ requestRegistry'[jd] = requestRegistry[jd]
      BY <2>1, <2>4
    <3>2. EntryPart(jd)
      BY <1>3, <2>4, <3>1 DEF RegistryPart, RP!Registered
    <3> QED
      BY <1>7, <2>2, <2>3, <3>0, <3>1, <3>2, Zenon DEF EntryPart
  <2>5. ASSUME NEW c \in DOMAIN received, Begins(c), Len(received) < c + 4
        PROVE  RP!Registered(IdAt(c))' /\ requestRegistry'[IdAt(c)].begin = c
    <3>1. RP!Registered(IdAt(c)) /\ requestRegistry[IdAt(c)].begin = c /\ IdAt(c) \in Ids
      BY <1>3, <2>5, WholeRequest DEF RegistryPart
    <3>2. c # b
      BY <1>5, <1>9, <2>5
    <3>3. IdAt(c) # id
      BY <1>2, <3>1, <3>2
    <3>4. requestRegistry'[IdAt(c)] = requestRegistry[IdAt(c)]
      BY <2>1, <3>1, <3>3
    <3> QED
      BY <1>7, <3>1, <3>4, Zenon DEF RP!Registered
  <2>6. \A jd \in Ids : RP!Registered(jd)' => EntryPart(jd)'
    BY <2>4
  <2>7. \A c \in DOMAIN received' : Begins(c)' /\ Len(received') < c + 4 =>
          RP!Registered(IdAt(c))' /\ requestRegistry'[IdAt(c)].begin = c
    BY <1>7, <2>2, <2>5
  <2> QED
    BY <1>7, <2>6, <2>7, Zenon DEF RegistryPart, RP!Registered
<1>14. HandedPart'
  <2>1. received' = received /\ sent' = sent
    BY <1>2
  <2>2. \A c \in DOMAIN handed :
          /\ handed[c].params = <<sent[handed[c].begin].request>>
          /\ handed[c].stdIn = <<sent[handed[c].begin].request>>
          /\ Begins(handed[c].begin) /\ handed[c].begin + 4 <= Len(received)
          /\ handed[c].response # "dropped"
    BY <1>3 DEF HandedPart, RequestOf
  <2> QED
    BY <1>4, <1>7, <2>1, <2>2, Zenon DEF HandedPart, RequestOf
<1> QED
  BY <1>2, <1>7, <1>8, <1>11, <1>12, <1>13, <1>14 DEF SessionInv, Glue

\* The limits are set before the first record is read.
LEMMA ConfigureKeeps ==
  ASSUME SessionInv, Configure
  PROVE  SessionInv' /\ UNCHANGED QP!vars
<1>1. /\ received = <<>> /\ UNCHANGED <<requesterVars, incoming, sent, taken>>
  BY DEF Configure
<1>2. /\ \/ \E value \in ConnectionLimits : RP!SetMaximumConnectionsNumber(value)
         \/ \E value \in Limits : RP!SetMaximumRequestsNumber(value)
         \/ \E state \in MultiplexingModes : RP!SetMultiplexingEnabled(state)
  BY ResponderHandlers, Zenon DEF Configure
<1>3. UNCHANGED <<requestRegistry, alive, received, handed, wire, exceptions>>
  BY <1>2 DEF RP!SetMaximumConnectionsNumber, RP!SetMaximumRequestsNumber, RP!SetMultiplexingEnabled
<1>4. RP!Next
  BY <1>2, Zenon DEF RP!Next, RP!ApplicationStep
<1>5. /\ WirePart /\ RP!TypeOK /\ SentPart /\ TransitPart /\ LimitsPart /\ HandedPart
      /\ RegistryPart /\ QP!TypeOK /\ RP!ResponderInv /\ exceptions = 0
  BY DEF SessionInv, Glue, RP!ResponderInv, QP!RequesterInv
<1>6. RP!ResponderInv'
  BY <1>3, <1>4, <1>5, ResponderStep
<1>7. /\ wire = <<>> /\ taken = 0 /\ connectionState # "Connected"
      /\ DOMAIN handed = {} /\ \A id \in Ids : ~RP!Registered(id)
      /\ \A i \in DOMAIN incoming : incoming[i].type # "GetValuesResult"
  BY <1>1, NothingReceived
<1>8. WireGrows /\ HandedStay
  BY <1>3, <1>5, LenProperties DEF WireGrows, HandedStay, RP!TypeOK
<1>9. /\ UNCHANGED QP!vars
      /\ QP!RequesterInv' /\ OpeningPart' /\ SentPart' /\ AnsweredPart'
      /\ taken' \in 0..Len(wire')
      /\ \A c, d \in DOMAIN sent' : Awaited(c)' /\ Awaited(d)' /\ IdAt(c)' = IdAt(d)' => c = d
      /\ \A p : (Begins(p)' <=> Begins(p)) /\ IdAt(p)' = IdAt(p)
  BY <1>1, <1>8, RequesterRests
<1>10. LimitsPart'
  <2>1. /\ responderCfg'.maxRequestsNumber \in Limits \cup {10}
        /\ responderCfg'.multiplexingEnabled \in MultiplexingModes \cup {TRUE}
    <3>1. responderCfg.maxRequestsNumber \in Limits \cup {10}
      BY <1>5 DEF LimitsPart
    <3>2. responderCfg.multiplexingEnabled \in MultiplexingModes \cup {TRUE}
      BY <1>5 DEF LimitsPart
    <3>3. responderCfg \in [maxConnectionsNumber : Int, maxRequestsNumber : Int,
                            multiplexingEnabled : BOOLEAN]
      BY <1>5 DEF RP!TypeOK
    <3>4. CASE \E value \in ConnectionLimits : RP!SetMaximumConnectionsNumber(value)
      <4>1. /\ responderCfg'.maxRequestsNumber = responderCfg.maxRequestsNumber
            /\ responderCfg'.multiplexingEnabled = responderCfg.multiplexingEnabled
        BY <3>3, <3>4 DEF RP!SetMaximumConnectionsNumber
      <4> QED
        BY <3>1, <3>2, <4>1, Zenon
    <3>5. CASE \E value \in Limits : RP!SetMaximumRequestsNumber(value)
      <4>1. /\ responderCfg'.maxRequestsNumber \in Limits
            /\ responderCfg'.multiplexingEnabled = responderCfg.multiplexingEnabled
        BY <3>3, <3>5 DEF RP!SetMaximumRequestsNumber
      <4> QED
        BY <3>2, <4>1, Zenon
    <3>6. CASE \E state \in MultiplexingModes : RP!SetMultiplexingEnabled(state)
      <4>1. /\ responderCfg'.maxRequestsNumber = responderCfg.maxRequestsNumber
            /\ responderCfg'.multiplexingEnabled \in MultiplexingModes
        BY <3>3, <3>6 DEF RP!SetMultiplexingEnabled
      <4> QED
        BY <3>1, <4>1, Zenon
    <3> QED
      BY <1>2, <3>4, <3>5, <3>6
  <2>2. UNCHANGED <<incoming, taken, received, wire, connectionState>>
    BY <1>1, <1>3 DEF requesterVars
  <2>3. \A i \in DOMAIN wire' : FALSE
    BY <1>7, <2>2
  <2> QED
    BY <1>1, <1>5, <1>7, <2>1, <2>2, <2>3, Zenon DEF LimitsPart
<1>11. TransitPart'
  <2>1. NeverRefused'
    BY <1>3, <1>5 DEF TransitPart, NeverRefused
  <2>2. Len(received') <= Len(sent') /\ \A i \in DOMAIN received' : received'[i] = sent'[i].record
    BY <1>1, <1>3, <1>5 DEF TransitPart
  <2> QED
    BY <1>9, <2>1, <2>2, Zenon DEF TransitPart
<1>12. RegistryPart'
  <2>1. \A id \in Ids : ~RP!Registered(id)'
    BY <1>3, <1>7 DEF RP!Registered
  <2>2. \A c \in DOMAIN received' : FALSE
    BY <1>1, <1>3
  <2> QED
    BY <2>1, <2>2, Zenon DEF RegistryPart
<1>13. HandedPart'
  BY <1>3, <1>7 DEF HandedPart
<1>14. WirePart'
  <2>1. \A i \in DOMAIN wire' : FALSE
    BY <1>3, <1>7
  <2>2. \A i \in DOMAIN handed' : FALSE
    BY <1>3, <1>7
  <2> QED
    BY <2>1, <2>2, Zenon DEF WirePart
<1>15. exceptions' = 0
  BY <1>3, <1>5
<1> QED
  BY <1>6, <1>9, <1>10, <1>11, <1>12, <1>13, <1>14, <1>15 DEF SessionInv, Glue

-----------------------------------------------------------------------------
(* What crosses                                                             *)

LEMMA ServingIsThen ==
  ASSUME NEW id \in Ids
  PROVE  Serving'[id] = IF AwaitedAt(id)' = {} THEN 0 ELSE sent'[Min(AwaitedAt(id)')].request
<1> DEFINE ended == {wire[i].begin : i \in Crossed("EndRequest")}
           begun == {i \in DOMAIN sent : sent[i].record.type = "BeginRequest"
                                        /\ sent[i].record.id = id} \ ended
<1>1. \A b : b \in ended' <=> Done(b)'
  BY DEF Crossed, Done, Ends
<1>2. begun' = AwaitedAt(id)'
  BY <1>1 DEF AwaitedAt, Awaited, Begins, IdAt
<1>3. Serving'[id] = IF begun' = {} THEN 0 ELSE sent'[Min(begun')].request
  BY DEF Serving
<1> QED
  BY <1>2, <1>3

\* One more event has crossed, and nothing else has changed.
Crosses(n) ==
  /\ n = taken + 1 /\ taken' = n
  /\ UNCHANGED <<requesterVars, responderVars, sent>>

LEMMA CrossFacts ==
  ASSUME SessionInv, Cross, NEW n, n = taken + 1
  PROVE  /\ Crosses(n) /\ n \in DOMAIN wire /\ n \in Nat /\ taken \in Nat
         /\ 1..taken \subseteq DOMAIN wire
         /\ 1..n = (1..taken) \cup {n} /\ n \notin 1..taken
         /\ UNCHANGED <<connectionState, requesterCfg, requestIdPool, responseMap,
                        pendingRequest, cancelHandler, ending, requests, closed, failures>>
         /\ UNCHANGED <<responderCfg, requestRegistry, alive, received, handed, wire, exceptions>>
         /\ sent' = sent /\ taken' = n
         /\ \A p : Begins(p)' <=> Begins(p)
         /\ \A p : IdAt(p)' = IdAt(p)
         /\ \A p : Done(p)' <=> Done(p) \/ Ends(n, p)
         /\ \A p : Awaited(p)' <=> Awaited(p) /\ ~Ends(n, p)
         /\ \A i, p : Ends(i, p)' <=> Ends(i, p)
<1>1. /\ UNCHANGED <<requesterVars, responderVars, sent>>
      /\ taken < Len(wire) /\ taken' = n
  BY DEF Cross
<1>2. /\ UNCHANGED <<connectionState, requesterCfg, requestIdPool, responseMap,
                     pendingRequest, cancelHandler, ending, requests, closed, failures>>
      /\ UNCHANGED <<responderCfg, requestRegistry, alive, received, handed, wire, exceptions>>
      /\ sent' = sent /\ wire' = wire
  BY <1>1 DEF requesterVars, responderVars
<1>3. /\ taken \in Nat /\ 1..taken \subseteq DOMAIN wire /\ DOMAIN wire = 1..Len(wire)
      /\ Len(wire) \in Nat
  BY Lengths DEF SessionInv, Glue, RP!ResponderInv, QP!RequesterInv
<1>4. n \in DOMAIN wire /\ n \in Nat /\ 1..n = (1..taken) \cup {n} /\ n \notin 1..taken
  BY <1>1, <1>3
<1>5. \A p : (Begins(p)' <=> Begins(p)) /\ IdAt(p)' = IdAt(p)
  BY <1>2 DEF Begins, IdAt
<1>6. \A i, p : Ends(i, p)' <=> Ends(i, p)
  BY <1>2 DEF Ends
<1>7. \A p : Done(p)' <=> Done(p) \/ Ends(n, p)
  <2>1. \A i : i \in 1..n <=> i \in 1..taken \/ i = n
    BY <1>4
  <2>2. \A p : Done(p)' <=> \E i \in 1..n : Ends(i, p)
    BY <1>1, <1>6, Zenon DEF Done
  <2> QED
    BY <2>1, <2>2, Zenon DEF Done
<1>8. \A p : Awaited(p)' <=> Awaited(p) /\ ~Ends(n, p)
  BY <1>5, <1>7, Zenon DEF Awaited
<1> QED
  BY <1>1, <1>2, <1>3, <1>4, <1>5, <1>6, <1>7, <1>8, Zenon DEF Crosses

\* The effect on what the requester takes for its server.
LEMMA CrossedServer ==
  ASSUME SessionInv, Cross, NEW n, n = taken + 1
  PROVE  /\ wire[n].type # "EndRequest" => Serving' = Serving
         /\ ~IsPiece(wire[n]) => Output' = Output
         /\ wire[n].type # "GetValuesResult" => GetValuesOwed' = GetValuesOwed
<1>1. /\ n \in Nat /\ 1..n = (1..taken) \cup {n} /\ n \notin 1..taken
      /\ UNCHANGED <<wire, handed, sent>> /\ taken' = n
  BY CrossFacts
<1>2. \A i : i \in 1..n <=> i \in 1..taken \/ i = n
  BY <1>1
<1>3. ASSUME NEW type, wire[n].type # type
      PROVE  Crossed(type)' = Crossed(type)
  BY <1>1, <1>2, <1>3 DEF Crossed
<1>4. ASSUME wire[n].type # "EndRequest"
      PROVE  Serving' = Serving
  <2> DEFINE ended == {wire[i].begin : i \in Crossed("EndRequest")}
  <2>1. Crossed("EndRequest")' = Crossed("EndRequest")
    BY <1>3, <1>4
  <2>2. wire' = wire /\ sent' = sent
    BY <1>1
  <2>3. ended' = ended
    BY <2>1, <2>2
  <2> QED
    BY <2>2, <2>3, Zenon DEF Serving
<1>5. ASSUME wire[n].type # "GetValuesResult"
      PROVE  GetValuesOwed' = GetValuesOwed
  <2>1. Crossed("GetValuesResult")' = Crossed("GetValuesResult")
    BY <1>3, <1>5
  <2> QED
    BY <1>1, <2>1, Zenon DEF GetValuesOwed
<1>6. ASSUME ~IsPiece(wire[n])
      PROVE  Output' = Output
  <2>1. \A k : PlacesOf(k)' = PlacesOf(k)
    <3>1. \A k, i : /\ i \in 1..n /\ IsPiece(wire[i]) /\ RequestOf(wire[i].answer) = k
                    <=> i \in 1..taken /\ IsPiece(wire[i]) /\ RequestOf(wire[i].answer) = k
      BY <1>2, <1>6
    <3>2. \A k, i : i \in PlacesOf(k)' <=>
                      i \in 1..n /\ IsPiece(wire[i]) /\ RequestOf(wire[i].answer) = k
      BY <1>1, Zenon DEF PlacesOf, RequestOf, IsPiece
    <3>3. \A k, i : i \in PlacesOf(k) <=>
                      i \in 1..taken /\ IsPiece(wire[i]) /\ RequestOf(wire[i].answer) = k
      BY Zenon DEF PlacesOf
    <3> QED
      BY <3>1, <3>2, <3>3
  <2>2. Output = [k \in Requests |->
                    [m \in DOMAIN InOrder(PlacesOf(k)) |-> wire[InOrder(PlacesOf(k))[m]].type]]
    BY Zenon DEF Output, PlacesOf
  <2>3. Output' = [k \in Requests |->
                    [m \in DOMAIN InOrder(PlacesOf(k)') |-> wire'[InOrder(PlacesOf(k)')[m]].type]]
    BY Zenon DEF Output, PlacesOf
  <2> QED
    BY <1>1, <2>1, <2>2, <2>3, Zenon
<1> QED
  BY <1>4, <1>5, <1>6

\* The record that crosses, if any.
LEMMA CrossRecord ==
  ASSUME NEW e
  PROVE  /\ e.type = "GetValuesResult" =>
              RecordsFrom(e) = <<[type |-> "GetValuesResult", kind |-> "valid",
                                  maxReqs |-> e.maxReqs, mpxs |-> e.mpxs]>>
         /\ e.type = "EndRequest" =>
              RecordsFrom(e) = <<[type |-> "EndRequest", id |-> e.id, status |-> e.status,
                                  request |-> sent[e.begin].request]>>
         /\ IsPiece(e) =>
              RecordsFrom(e) = <<[type |-> e.type, id |-> e.id,
                                  piece |-> [request |-> RequestOf(e.answer),
                                             n |-> Len(Output[RequestOf(e.answer)]) + 1]]>>
         /\ e.type # "GetValuesResult" /\ e.type # "EndRequest" /\ ~IsPiece(e) =>
              RecordsFrom(e) = <<>>
BY DEF RecordsFrom, IsPiece

\* The queue of the requester grows by it.
LEMMA CrossIncoming ==
  ASSUME SessionInv, Cross, NEW n, n = taken + 1, NEW r
  PROVE  /\ RecordsFrom(wire[n]) = <<r>> => incoming' = Append(incoming, r)
         /\ RecordsFrom(wire[n]) = <<>> => incoming' = incoming
<1>1. incoming \in Seq(QP!ServerRecord)
  BY DEF SessionInv, QP!RequesterInv, QP!TypeOK
<1>2. incoming' = incoming \o RecordsFrom(wire[n])
  BY DEF Cross
<1>3. incoming \o <<r>> = Append(incoming, r)
  BY <1>1
<1>4. incoming \o <<>> = incoming
  BY <1>1
<1> QED
  BY <1>2, <1>3, <1>4

\* Whom the responder ends is a request that is awaited until now.
LEMMA CrossedEnd ==
  ASSUME SessionInv, Cross, NEW n, n = taken + 1, wire[n].type = "EndRequest"
  PROVE  /\ Awaited(wire[n].begin) /\ IdAt(wire[n].begin) = wire[n].id
         /\ wire[n].status = "RequestComplete" /\ Ends(n, wire[n].begin)
<1> DEFINE b == wire[n].begin
<1>1. n \in DOMAIN wire /\ n \in Nat /\ 1..taken \subseteq DOMAIN wire /\ n \notin 1..taken
  BY CrossFacts
<1>2. /\ WirePart /\ HandedPart /\ TransitPart /\ RP!BeginInv /\ RP!EndInv
      /\ RP!TypeOK /\ QP!TypeOK /\ SentPart
  BY DEF SessionInv, Glue, RP!ResponderInv, QP!RequesterInv
<1>3. Ends(n, b) /\ Begins(b)
  BY <1>1, <1>2 DEF WirePart, HandedPart, Ends
<1>4. wire[n].status = "RequestComplete"
  BY <1>1, <1>2 DEF TransitPart, NeverRefused
<1>5. IdAt(b) = wire[n].id
  <2>1. b # 0
    BY <1>1, <1>2, OneEnd
  <2>2. b \in 1..Len(received) /\ received[b].id = wire[n].id
    BY <1>1, <1>2, <2>1 DEF RP!BeginInv, RP!IsEnd, RP!Begins
  <2>3. received[b] = sent[b].record
    <3>1. DOMAIN received = 1..Len(received)
      BY Lengths DEF SessionInv, Glue, RP!ResponderInv, QP!RequesterInv
    <3> QED
      BY <1>2, <2>2, <3>1 DEF TransitPart
  <2> QED
    BY <2>2, <2>3 DEF IdAt
<1>6. ~Done(b)
  <2>1. \A i \in 1..taken : Ends(i, b) => i = n
    BY <1>1, <1>2, <1>3, OneEnd
  <2> QED
    BY <1>1, <2>1 DEF Done
<1> QED
  BY <1>3, <1>4, <1>5, <1>6 DEF Awaited

\* The records the requester has not read yet, and the one that crosses.
LEMMA CrossQueue ==
  ASSUME SessionInv, Cross, NEW n, n = taken + 1
  PROVE  /\ incoming \in Seq(QP!ServerRecord)
         /\ \A i \in DOMAIN incoming' :
              \/ i \in DOMAIN incoming /\ incoming'[i] = incoming[i]
              \/ /\ wire[n].type = "GetValuesResult"
                 /\ incoming'[i] = [type |-> "GetValuesResult", kind |-> "valid",
                                    maxReqs |-> wire[n].maxReqs, mpxs |-> wire[n].mpxs]
              \/ /\ wire[n].type = "EndRequest"
                 /\ incoming'[i] = [type |-> "EndRequest", id |-> wire[n].id,
                                    status |-> wire[n].status,
                                    request |-> sent[wire[n].begin].request]
              \/ incoming'[i].type \in {"StdOut", "StdErr"}
<1>1. incoming \in Seq(QP!ServerRecord)
  BY DEF SessionInv, QP!RequesterInv, QP!TypeOK
<1>2. Len(incoming) \in Nat /\ DOMAIN incoming = 1..Len(incoming)
  BY <1>1, LenProperties
<1>3. incoming' = incoming \o RecordsFrom(wire[n])
  BY DEF Cross
<1>4. ASSUME NEW r, RecordsFrom(wire[n]) = <<r>>, NEW i \in DOMAIN incoming'
      PROVE  (i \in DOMAIN incoming /\ incoming'[i] = incoming[i]) \/ incoming'[i] = r
  BY <1>1, <1>2, <1>3, <1>4
<1>5. ASSUME RecordsFrom(wire[n]) = <<>>, NEW i \in DOMAIN incoming'
      PROVE  i \in DOMAIN incoming /\ incoming'[i] = incoming[i]
  BY <1>1, <1>2, <1>3, <1>5
<1>6. CASE wire[n].type = "GetValuesResult"
  BY <1>1, <1>4, <1>6, CrossRecord
<1>7. CASE wire[n].type = "EndRequest"
  BY <1>1, <1>4, <1>7, CrossRecord
<1>8. CASE IsPiece(wire[n])
  <2>1. PICK r : r = [type |-> wire[n].type, id |-> wire[n].id,
                      piece |-> [request |-> RequestOf(wire[n].answer),
                                 n |-> Len(Output[RequestOf(wire[n].answer)]) + 1]]
    OBVIOUS
  <2>2. r.type \in {"StdOut", "StdErr"}
    BY <1>8, <2>1 DEF IsPiece
  <2>3. RecordsFrom(wire[n]) = <<r>>
    BY <1>8, <2>1, CrossRecord
  <2> QED
    BY <1>1, <1>4, <2>2, <2>3, Zenon
<1>9. CASE wire[n].type # "GetValuesResult" /\ wire[n].type # "EndRequest" /\ ~IsPiece(wire[n])
  BY <1>1, <1>5, <1>9, CrossRecord
<1> QED
  BY <1>6, <1>7, <1>8, <1>9

LEMMA CrossGlue ==
  ASSUME SessionInv, Cross
  PROVE  Glue' /\ RP!ResponderInv' /\ exceptions' = 0
<1>0. PICK n : n = taken + 1
  OBVIOUS
<1>1. /\ Crosses(n) /\ n \in DOMAIN wire /\ n \in Nat /\ taken \in Nat
      /\ UNCHANGED <<connectionState, requesterCfg, requestIdPool, responseMap,
                     pendingRequest, cancelHandler, ending, requests, closed, failures>>
      /\ UNCHANGED <<responderCfg, requestRegistry, alive, received, handed, wire, exceptions>>
      /\ sent' = sent /\ taken' = n
      /\ \A p : Begins(p)' <=> Begins(p)
      /\ \A p : IdAt(p)' = IdAt(p)
      /\ \A p : Done(p)' <=> Done(p) \/ Ends(n, p)
      /\ \A p : Awaited(p)' <=> Awaited(p) /\ ~Ends(n, p)
      /\ \A i, p : Ends(i, p)' <=> Ends(i, p)
  BY <1>0, CrossFacts
<1>2. \A i \in DOMAIN incoming' :
        \/ i \in DOMAIN incoming /\ incoming'[i] = incoming[i]
        \/ /\ wire[n].type = "GetValuesResult"
           /\ incoming'[i] = [type |-> "GetValuesResult", kind |-> "valid",
                              maxReqs |-> wire[n].maxReqs, mpxs |-> wire[n].mpxs]
        \/ /\ wire[n].type = "EndRequest"
           /\ incoming'[i] = [type |-> "EndRequest", id |-> wire[n].id,
                              status |-> wire[n].status,
                              request |-> sent[wire[n].begin].request]
        \/ incoming'[i].type \in {"StdOut", "StdErr"}
  BY <1>0, CrossQueue
<1>3. /\ OpeningPart /\ SentPart /\ LimitsPart /\ TransitPart /\ RegistryPart /\ HandedPart
      /\ WirePart /\ AnsweredPart /\ RP!ResponderInv /\ exceptions = 0
  BY DEF SessionInv, Glue
<1>4. RP!ResponderInv' /\ exceptions' = 0
  <2>1. UNCHANGED RP!vars
    BY <1>1 DEF RP!vars
  <2> QED
    BY <1>1, <1>3, <2>1, ResponderStep
<1>5. OpeningPart'
  BY <1>1, <1>0, <1>3 DEF OpeningPart
<1>6. SentPart'
  <2>1. \A b : IsWhole(b)' <=> IsWhole(b)
    BY <1>1 DEF IsWhole
  <2> QED
    BY <1>1, <1>3, <2>1, Zenon DEF SentPart
<1>7. LimitsPart'
  <2>1. Report' = Report
    BY <1>1 DEF Report
  <2>2. ASSUME NEW i \in DOMAIN incoming'
        PROVE  /\ incoming'[i].type # "UnknownType"
               /\ incoming'[i].type = "GetValuesResult" =>
                    /\ incoming'[i].kind = "valid" /\ incoming'[i].maxReqs = Report.maxReqs
                    /\ incoming'[i].mpxs = Report.mpxs
    <3>1. CASE i \in DOMAIN incoming /\ incoming'[i] = incoming[i]
      BY <1>3, <3>1, Zenon DEF LimitsPart
    <3>2. CASE /\ wire[n].type = "GetValuesResult"
               /\ incoming'[i] = [type |-> "GetValuesResult", kind |-> "valid",
                                  maxReqs |-> wire[n].maxReqs, mpxs |-> wire[n].mpxs]
      <4>1. wire[n] = Report
        <5>1. n = 1 /\ wire # <<>>
          BY <1>1, <1>3, <3>2 DEF LimitsPart
        <5> QED
          BY <1>3, <5>1, Zenon DEF LimitsPart
      <4> QED
        BY <3>2, <4>1
    <3>3. CASE incoming'[i] = [type |-> "EndRequest", id |-> wire[n].id,
                               status |-> wire[n].status,
                               request |-> sent[wire[n].begin].request]
      BY <3>3
    <3>4. CASE incoming'[i].type \in {"StdOut", "StdErr"}
      BY <3>4
    <3> QED
      BY <1>2, <3>1, <3>2, <3>3, <3>4
  <2>3. 0 < taken'
    BY <1>0, <1>1
  <2> QED
    BY <1>1, <1>3, <2>1, <2>2, <2>3, Zenon DEF LimitsPart
<1>8. TransitPart'
  <2>1. taken' \in 0..Len(wire')
    <3>1. DOMAIN wire = 1..Len(wire)
      BY <1>3, LenProperties DEF RP!ResponderInv, RP!TypeOK
    <3> QED
      BY <1>0, <1>1, <3>1
  <2>2. NeverRefused'
    BY <1>1, <1>3 DEF NeverRefused, TransitPart
  <2> QED
    BY <1>1, <1>3, <2>1, <2>2, Zenon DEF TransitPart
<1>9. RegistryPart'
  <2>1. \A id : EntryPart(id)' <=> EntryPart(id)
    BY <1>1, Zenon DEF EntryPart, ContentAt
  <2>2. \A id : RP!Registered(id)' <=> RP!Registered(id)
    BY <1>1, Zenon DEF RP!Registered
  <2> QED
    BY <1>1, <1>3, <2>1, <2>2, Zenon DEF RegistryPart
<1>10. HandedPart'
  BY <1>1, <1>3, Zenon DEF HandedPart, RequestOf
<1>11. WirePart'
  <2>1. \A a : PiecePlaces(a)' = PiecePlaces(a)
    BY <1>1, Zenon DEF PiecePlaces, IsPiece
  <2> QED
    BY <1>1, <1>3, <2>1, Zenon DEF WirePart, RP!IsStream
<1>12. AnsweredPart'
  <2>1. \A k : Ended(k) => Ended(k)'
    BY <1>1, Zenon DEF Ended
  <2>2. ASSUME NEW i \in DOMAIN incoming', incoming'[i].type = "EndRequest",
               NEW k, k = incoming'[i].request
        PROVE  Ended(k)'
    <3>1. CASE i \in DOMAIN incoming /\ incoming'[i] = incoming[i]
      <4>1. Ended(incoming[i].request)
        BY <1>3, <2>2, <3>1 DEF AnsweredPart
      <4> QED
        BY <2>1, <2>2, <3>1, <4>1
    <3>2. CASE /\ wire[n].type = "EndRequest"
               /\ incoming'[i] = [type |-> "EndRequest", id |-> wire[n].id,
                                  status |-> wire[n].status,
                                  request |-> sent[wire[n].begin].request]
      <4>1. Begins(wire[n].begin) /\ Ends(n, wire[n].begin)
        BY <1>0, <3>2, CrossedEnd DEF Awaited
      <4>2. wire[n].begin \in DOMAIN sent /\ incoming'[i].request = sent[wire[n].begin].request
        BY <3>2, <4>1 DEF Begins
      <4>3. PICK b : b = wire[n].begin
        OBVIOUS
      <4>4. b \in DOMAIN sent' /\ Begins(b)' /\ Done(b)' /\ sent'[b].request = k
        BY <1>1, <2>2, <4>1, <4>2, <4>3
      <4> QED
        BY <4>4, Zenon DEF Ended
    <3>3. CASE incoming'[i] = [type |-> "GetValuesResult", kind |-> "valid",
                                  maxReqs |-> wire[n].maxReqs, mpxs |-> wire[n].mpxs]
      BY <2>2, <3>3
    <3>4. CASE incoming'[i].type \in {"StdOut", "StdErr"}
      BY <2>2, <3>4
    <3> QED
      BY <1>2, <3>1, <3>2, <3>3, <3>4
  <2>3. ASSUME NEW k \in DOMAIN requests, NEW i \in DOMAIN requests[k].outcomes,
               requests[k].outcomes[i].status = "Successful",
               NEW j, j = requests[k].outcomes[i].answers
        PROVE  Ended(j)'
    BY <1>3, <2>1, <2>3, Zenon DEF AnsweredPart
  <2>4. \A i \in DOMAIN incoming' :
          incoming'[i].type = "EndRequest" => Ended(incoming[i].request)'
    BY <2>2, ZenonT(60) DEF Ended
  <2>5. \A k \in DOMAIN requests : \A i \in DOMAIN requests[k].outcomes :
          requests[k].outcomes[i].status = "Successful" => Ended(requests[k].outcomes[i].answers)'
    BY <1>1, <2>3, ZenonT(60) DEF Ended
  <2>6. requests' = requests
    BY <1>1
  <2> QED
    BY <2>4, <2>5, <2>6, ZenonT(60) DEF AnsweredPart
<1> QED
  BY <1>4, <1>5, <1>6, <1>7, <1>8, <1>9, <1>10, <1>11, <1>12, Zenon DEF Glue

\* One record asks for the limits.
LEMMA QuestionIsFirst ==
  ASSUME SentPart, QP!TypeOK, sent # <<>>
  PROVE  {i \in DOMAIN sent : sent[i].request = 0} = {1}
<1>1. /\ sent \in Seq(SentRecord) /\ requests \in Seq(QP!RequestHistory) /\ sent[1] = GetValues[1]
  BY DEF SentPart, QP!TypeOK
<1>2. /\ DOMAIN sent = 1..Len(sent) /\ Len(sent) \in Nat /\ Len(sent) # 0
      /\ DOMAIN requests = 1..Len(requests) /\ Len(requests) \in Nat
  BY <1>1, LenProperties, EmptySeq
<1>3. 1 \in DOMAIN sent /\ sent[1].request = 0
  BY <1>1, <1>2 DEF GetValues
<1>4. ASSUME NEW i \in DOMAIN sent, sent[i].request = 0, i # 1
      PROVE  FALSE
  <2>1. PICK b \in DOMAIN sent, j \in 0..4 : Begins(b) /\ i = b + j
    BY <1>4, RecordCases
  <2>2. PICK k \in DOMAIN requests : \A m \in 0..4 : sent[b + m].request = k
    BY <2>1, WholeRequest, Zenon
  <2> QED
    BY <1>2, <1>4, <2>1, <2>2, SMTT(30)
<1> QED
  BY <1>3, <1>4

\* The requester's socket is open while something crosses.
LEMMA CrossSends ==
  ASSUME SessionInv, Cross, NEW n, n = taken + 1, NEW r, RecordsFrom(wire[n]) = <<r>>
  PROVE  /\ QP!ServerSends(r)
         /\ UNCHANGED <<closed, failures>> /\ UNCHANGED QP!requesterVars
<1>1. incoming' = Append(incoming, r)
  BY CrossIncoming
<1>2. ~closed
  BY DEF Cross
<1>3. ~failures.died
  BY DEF SessionInv, Glue, OpeningPart
<1>4. UNCHANGED <<connectionState, requesterCfg, requestIdPool, responseMap,
                  pendingRequest, cancelHandler, ending, requests, closed, failures>>
  BY CrossFacts
<1> QED
  BY <1>1, <1>2, <1>3, <1>4 DEF QP!ServerSends, QP!Running, QP!requesterVars

\* The limits cross as the answer to the one question for them.
LEMMA CrossResult ==
  ASSUME SessionInv, Cross, NEW n, n = taken + 1, wire[n].type = "GetValuesResult"
  PROVE  QP!AnswerGetValues
<1>1. /\ n \in DOMAIN wire /\ n \in Nat /\ taken \in Nat /\ taken' = n
      /\ UNCHANGED <<wire, sent>>
  BY CrossFacts
<1>2. /\ LimitsPart /\ TransitPart /\ SentPart /\ QP!TypeOK /\ RP!TypeOK
  BY DEF SessionInv, Glue, RP!ResponderInv, QP!RequesterInv
<1>3. n = 1 /\ taken = 0 /\ wire # <<>>
  BY <1>1, <1>2 DEF LimitsPart
<1>4. wire[n] = Report
  BY <1>2, <1>3 DEF LimitsPart
<1>5. PICK maxReqs \in Limits \cup {10}, mpxs \in MultiplexingModes \cup {TRUE} :
        maxReqs = wire[n].maxReqs /\ mpxs = wire[n].mpxs
  <2>1. wire[n].maxReqs = responderCfg.maxRequestsNumber /\ wire[n].mpxs = responderCfg.multiplexingEnabled
    BY <1>4 DEF Report
  <2> QED
    BY <1>2, <2>1, Zenon DEF LimitsPart
<1>6. PICK r : r = [type |-> "GetValuesResult", kind |-> "valid", maxReqs |-> maxReqs,
                    mpxs |-> mpxs]
  OBVIOUS
<1>7. RecordsFrom(wire[n]) = <<r>>
  BY <1>5, <1>6, CrossRecord, Zenon
<1>8. QP!ServerSends(r) /\ UNCHANGED <<closed, failures>> /\ UNCHANGED QP!requesterVars
  BY <1>7, CrossSends
<1>9. Serving' = Serving /\ Output' = Output
  BY CrossedServer DEF IsPiece
<1>10. sent # <<>>
  <2>1. received # <<>> /\ received \in Seq(RP!IncomingRecord)
    BY <1>2, <1>3 DEF LimitsPart, RP!TypeOK
  <2>2. Len(received) # 0 /\ Len(received) \in Nat /\ Len(received) <= Len(sent)
    BY <1>2, <2>1, LenProperties, EmptySeq DEF TransitPart
  <2> QED
    BY <2>2
<1>11. Cardinality({i \in DOMAIN sent : sent[i].request = 0}) = 1
  BY <1>2, <1>10, QuestionIsFirst, FS_Singleton
<1>12. Crossed("GetValuesResult") = {}
  BY <1>3 DEF Crossed
<1>13. Crossed("GetValuesResult")' = {1}
  <2>1. \A i : i \in 1..1 <=> i = 1
    OBVIOUS
  <2> QED
    BY <1>1, <1>3, <2>1 DEF Crossed
<1>14. GetValuesOwed = 1
  <2>1. Cardinality({}) = 0
    BY FS_EmptySet
  <2> QED
    BY <1>11, <1>12, <2>1 DEF GetValuesOwed
<1>15. GetValuesOwed' = 0
  <2>1. Cardinality({1}) = 1
    BY FS_Singleton
  <2>2. Cardinality({i \in DOMAIN sent : sent[i].request = 0})' = 1
    BY <1>1, <1>11
  <2> QED
    BY <1>13, <2>1, <2>2 DEF GetValuesOwed
<1>16. GetValuesOwed > 0 /\ GetValuesOwed' = GetValuesOwed - 1
  BY <1>14, <1>15
<1>17. \E kind \in {"valid"}, mr \in Limits \cup {10}, mp \in MultiplexingModes \cup {TRUE} :
         QP!ServerSends([type |-> "GetValuesResult", kind |-> kind, maxReqs |-> mr, mpxs |-> mp])
  BY <1>6, <1>8, Zenon
<1> QED
  BY <1>8, <1>9, <1>16, <1>17, Zenon DEF QP!AnswerGetValues

\* An EndRequest crosses: its request is served no longer.
LEMMA CrossEnd ==
  ASSUME SessionInv, Cross, NEW n, n = taken + 1, wire[n].type = "EndRequest"
  PROVE  \E id \in QP!RequestIds : QP!EndServing(id)
<1>1. /\ \A p : Begins(p)' <=> Begins(p)
      /\ \A p : IdAt(p)' = IdAt(p)
      /\ \A p : Awaited(p)' <=> Awaited(p) /\ ~Ends(n, p)
      /\ sent' = sent
  BY CrossFacts
<1>2. PICK id, b : id = wire[n].id /\ b = wire[n].begin
  OBVIOUS
<1>3. Awaited(b) /\ IdAt(b) = id /\ wire[n].status = "RequestComplete" /\ Ends(n, b)
  BY <1>2, CrossedEnd
<1>4. TransitPart /\ SentPart /\ QP!TypeOK
  BY DEF SessionInv, Glue, QP!RequesterInv
<1>5. id \in Ids /\ Serving[id] = sent[b].request /\ sent[b].request # 0
  BY <1>3, <1>4, AwaitedIsServed
<1>6. PICK r : r = [type |-> "EndRequest", id |-> id, status |-> "RequestComplete",
                    request |-> Serving[id]]
  OBVIOUS
<1>7. RecordsFrom(wire[n]) = <<r>>
  BY <1>2, <1>3, <1>5, <1>6, CrossRecord
<1>8. QP!ServerSends(r) /\ UNCHANGED <<closed, failures>> /\ UNCHANGED QP!requesterVars
  BY <1>7, CrossSends
<1>9. Output' = Output /\ GetValuesOwed' = GetValuesOwed
  BY CrossedServer DEF IsPiece
<1>10. Serving' = [Serving EXCEPT ![id] = 0]
  <2>1. AwaitedAt(id)' = {}
    <3>1. \A c \in DOMAIN sent : Awaited(c) /\ IdAt(c) = id => c = b
      BY <1>3, <1>4 DEF TransitPart, Awaited, Begins
    <3>2. \A c \in DOMAIN sent : ~(Awaited(c)' /\ IdAt(c)' = id)
      BY <1>1, <1>3, <3>1
    <3> QED
      BY <1>1, <3>2, Zenon DEF AwaitedAt
  <2>2. Serving'[id] = 0
    BY <1>5, <2>1, ServingIsThen
  <2>3. ASSUME NEW jd \in Ids, jd # id
        PROVE  Serving'[jd] = Serving[jd]
    <3>1. \A c \in DOMAIN sent : Awaited(c)' /\ IdAt(c)' = jd <=> Awaited(c) /\ IdAt(c) = jd
      BY <1>1, <1>2, <1>3, <2>3 DEF Ends
    <3>2. AwaitedAt(jd)' = AwaitedAt(jd)
      BY <1>1, <3>1, Zenon DEF AwaitedAt
    <3>3. Serving'[jd] = IF AwaitedAt(jd) = {} THEN 0 ELSE sent[Min(AwaitedAt(jd))].request
      BY <1>1, <3>2, ServingIsThen, Zenon
    <3> QED
      BY <3>3, ServingIs, Zenon
  <2>4. /\ Serving = [i \in Ids |-> Serving[i]] /\ DOMAIN Serving = Ids
        /\ Serving' = [i \in Ids |-> Serving'[i]] /\ DOMAIN Serving' = Ids
    BY DEF Serving
  <2> QED
    BY <1>5, <2>2, <2>3, <2>4
<1>11. \E status \in {"RequestComplete", "Overloaded", "CantMpxConn", "UnknownRole"} :
         QP!ServerSends([type |-> "EndRequest", id |-> id, status |-> status,
                         request |-> Serving[id]])
  BY <1>6, <1>8, Zenon
<1>12. id \in QP!RequestIds
  BY <1>5 DEF QP!RequestIds, Ids
<1>13. Serving[id] # 0
  BY <1>5
<1> QED
  BY <1>8, <1>9, <1>10, <1>11, <1>12, <1>13, Zenon DEF QP!EndServing

\* A response is for a request that is not done: its EndRequest is behind it.
LEMMA PieceIsAwaited ==
  ASSUME SessionInv, Cross, NEW n, n = taken + 1, IsPiece(wire[n]), NEW a, a = wire[n].answer
  PROVE  /\ a \in DOMAIN handed /\ Awaited(handed[a].begin)
         /\ IdAt(handed[a].begin) = wire[n].id
<1> DEFINE b == handed[a].begin
<1>1. /\ n \in DOMAIN wire /\ n \in Nat /\ taken \in Nat /\ 1..taken \subseteq DOMAIN wire
  BY CrossFacts
<1>2. /\ WirePart /\ HandedPart /\ TransitPart /\ RP!BeginInv /\ RP!EndInv
      /\ RP!TypeOK /\ QP!TypeOK /\ SentPart
  BY DEF SessionInv, Glue, RP!ResponderInv, QP!RequesterInv
<1>3. RP!IsStream(wire[n])
  BY DEF IsPiece, RP!IsStream
<1>4. /\ a \in DOMAIN handed /\ wire[n].id = handed[a].id
  BY <1>1, <1>2, <1>3 DEF WirePart
<1>5. PICK e \in DOMAIN wire : n < e /\ Ends(e, b)
  BY <1>1, <1>2, <1>3 DEF WirePart
<1>6. Begins(b)
  BY <1>2, <1>4 DEF HandedPart
<1>7. ~Done(b)
  <2>1. ASSUME NEW i \in 1..taken, Ends(i, b)
        PROVE  FALSE
    <3>1. i = e
      BY <1>1, <1>2, <1>5, <2>1, OneEnd
    <3> QED
      BY <1>1, <1>5, <3>1
  <2> QED
    BY <2>1 DEF Done
<1>8. IdAt(b) = wire[n].id
  <2>1. b \in 1..Len(received) /\ received[b].id = wire[n].id
    BY <1>2, <1>4 DEF RP!BeginInv, RP!Begins
  <2>2. DOMAIN received = 1..Len(received)
    BY Lengths DEF SessionInv, Glue, RP!ResponderInv, QP!RequesterInv
  <2>3. received[b] = sent[b].record
    BY <1>2, <2>1, <2>2 DEF TransitPart
  <2> QED
    BY <2>1, <2>3 DEF IdAt
<1> QED
  BY <1>4, <1>6, <1>7, <1>8 DEF Awaited

\* A request has one answer.
LEMMA AnswerOfRequest ==
  ASSUME SessionInv, NEW a \in DOMAIN handed, NEW c \in DOMAIN handed, RequestOf(a) = RequestOf(c)
  PROVE  a = c
<1>1. SentPart /\ HandedPart /\ RP!ProcessedOnce /\ QP!TypeOK
  BY DEF SessionInv, Glue, RP!ResponderInv, RP!OnceInv, QP!RequesterInv
<1>2. PICK b, d : b = handed[a].begin /\ d = handed[c].begin
  OBVIOUS
<1>3. Begins(b) /\ Begins(d) /\ sent[b].request = sent[d].request
  BY <1>1, <1>2 DEF HandedPart, RequestOf
<1>4. b \in Nat /\ d \in Nat /\ b \in DOMAIN sent /\ d \in DOMAIN sent
  BY <1>1, <1>3, WholeRequest DEF Begins
<1>5. sent[b].request \in Nat /\ sent[d].request \in Nat
  <2>1. sent[b] \in SentRecord /\ sent[d] \in SentRecord
    BY <1>1, <1>4, ElementOfSeq, LenProperties DEF SentPart
  <2> QED
    BY <2>1 DEF SentRecord
<1>6. ~(b < d) /\ ~(d < b)
  BY <1>1, <1>3, <1>4, <1>5 DEF SentPart
<1>7. b = d
  BY <1>4, <1>6
<1> QED
  BY <1>1, <1>2, <1>7 DEF RP!ProcessedOnce

\* The pieces of a request that have crossed, with one more.
LEMMA CrossPlaces ==
  ASSUME SessionInv, Cross, NEW n, n = taken + 1, IsPiece(wire[n]),
         NEW k, k = RequestOf(wire[n].answer)
  PROVE  /\ PlacesOf(k)' = PlacesOf(k) \cup {n}
         /\ \A m : m # k => PlacesOf(m)' = PlacesOf(m)
<1>1. /\ n \in Nat /\ 1..n = (1..taken) \cup {n} /\ taken' = n
      /\ UNCHANGED <<wire, handed, sent>>
  BY CrossFacts
<1>2. \A i : i \in 1..n <=> i \in 1..taken \/ i = n
  BY <1>1
<1>3. \A m, i : i \in PlacesOf(m)' <=>
                  i \in 1..n /\ IsPiece(wire[i]) /\ RequestOf(wire[i].answer) = m
  BY <1>1, Zenon DEF PlacesOf, RequestOf, IsPiece
<1>4. \A m, i : i \in PlacesOf(m) <=>
                  i \in 1..taken /\ IsPiece(wire[i]) /\ RequestOf(wire[i].answer) = m
  BY Zenon DEF PlacesOf
<1>5. \A i : i \in PlacesOf(k)' <=> i \in PlacesOf(k) \cup {n}
  BY <1>2, <1>3, <1>4
<1>6. \A m, i : m # k => (i \in PlacesOf(m)' <=> i \in PlacesOf(m))
  BY <1>2, <1>3, <1>4
<1>7. PlacesOf(k)' = PlacesOf(k) \cup {n}
  BY <1>5
<1>8. ASSUME NEW m, m # k
      PROVE  PlacesOf(m)' = PlacesOf(m)
  BY <1>6, <1>8
<1> QED
  BY <1>7, <1>8

LEMMA CrossOutput ==
  ASSUME SessionInv, Cross, NEW n, n = taken + 1, IsPiece(wire[n]),
         NEW k \in Requests, k = RequestOf(wire[n].answer)
  PROVE  Output' = [Output EXCEPT ![k] = Append(@, wire[n].type)]
<1>1. /\ n \in Nat /\ taken \in Nat /\ wire' = wire /\ n = taken + 1
  BY CrossFacts
<1>2. RP!TypeOK /\ QP!TypeOK /\ SentPart /\ TransitPart
  BY DEF SessionInv, Glue, RP!ResponderInv, QP!RequesterInv
<1>3. PICK S, c : S = PlacesOf(k) /\ c = Cardinality(S)
  OBVIOUS
<1>4. /\ IsFiniteSet(S) /\ S \subseteq 1..taken /\ S \subseteq Nat
      /\ c \in Nat
      /\ Output[k] = [m \in 1..c |-> wire[InOrder(S)[m]].type]
  BY <1>2, <1>3, OutputIs
<1>5. \A j \in S : j < n
  BY <1>1, <1>4
<1>6. /\ DOMAIN InOrder(S \cup {n}) = 1..(c + 1)
      /\ InOrder(S \cup {n})[c + 1] = n
      /\ \A m \in 1..c : InOrder(S \cup {n})[m] = InOrder(S)[m]
  BY <1>1, <1>3, <1>4, <1>5, InOrderAppend
<1>7. Output' = [m \in Requests |->
                  [p \in DOMAIN InOrder(PlacesOf(m)') |-> wire'[InOrder(PlacesOf(m)')[p]].type]]
  BY Zenon DEF Output, PlacesOf
<1>8. Output = [m \in Requests |->
                 [p \in DOMAIN InOrder(PlacesOf(m)) |-> wire[InOrder(PlacesOf(m))[p]].type]]
  BY Zenon DEF Output, PlacesOf
<1>9. PlacesOf(k)' = S \cup {n} /\ \A m : m # k => PlacesOf(m)' = PlacesOf(m)
  BY <1>3, CrossPlaces
<1>10. Output'[k] = [p \in 1..(c + 1) |-> wire[InOrder(S \cup {n})[p]].type]
  BY <1>1, <1>6, <1>7, <1>9, Zenon
<1>11. Output'[k] = Append(Output[k], wire[n].type)
  <2> DEFINE more == [p \in 1..(c + 1) |-> wire[InOrder(S \cup {n})[p]].type]
             old == [m \in 1..c |-> wire[InOrder(S)[m]].type]
  <2>1. old \in Seq({old[m] : m \in 1..c}) /\ Len(old) = c
    BY <1>4
  <2>2. Append(old, wire[n].type) = [p \in 1..(c + 1) |-> IF p <= c THEN old[p] ELSE wire[n].type]
    BY <1>4, <2>1
  <2>3. \A p \in 1..(c + 1) : more[p] = IF p <= c THEN old[p] ELSE wire[n].type
    <3>1. \A p \in 1..(c + 1) : p <= c => p \in 1..c /\ old[p] = wire[InOrder(S)[p]].type
      BY <1>4
    <3>2. \A p \in 1..(c + 1) : ~(p <= c) => p = c + 1
      BY <1>4
    <3> QED
      BY <1>6, <3>1, <3>2
  <2>4. more = Append(old, wire[n].type)
    BY <2>2, <2>3
  <2> QED
    BY <1>4, <1>10, <2>4, Zenon
<1>12. \A m \in Requests : m # k => Output'[m] = Output[m]
  BY <1>1, <1>7, <1>8, <1>9, Zenon
<1>13. DOMAIN Output = Requests /\ DOMAIN Output' = Requests
       /\ Output = [m \in Requests |-> Output[m]] /\ Output' = [m \in Requests |-> Output'[m]]
  BY <1>7, <1>8, Zenon
<1> QED
  BY <1>11, <1>12, <1>13

\* A record of a response crosses.
LEMMA CrossPiece ==
  ASSUME SessionInv, Cross, NEW n, n = taken + 1, IsPiece(wire[n])
  PROVE  \E id \in QP!RequestIds, type \in QP!StreamTypes : QP!SendPiece(id, type)
<1>1. PICK a, type : a = wire[n].answer /\ type = wire[n].type
  OBVIOUS
<1>2. /\ n \in DOMAIN wire /\ n \in Nat /\ taken \in Nat /\ 1..taken \subseteq DOMAIN wire
      /\ n \notin 1..taken
  BY CrossFacts
<1>3. /\ RP!TypeOK /\ QP!TypeOK /\ SentPart /\ TransitPart /\ WirePart
  BY DEF SessionInv, Glue, RP!ResponderInv, QP!RequesterInv
<1>4. PICK b, id : b = handed[a].begin /\ id = wire[n].id
  OBVIOUS
<1>5. a \in DOMAIN handed /\ Awaited(b) /\ IdAt(b) = id
  BY <1>1, <1>4, PieceIsAwaited
<1>6. PICK k : k = RequestOf(a)
  OBVIOUS
<1>7. id \in Ids /\ Serving[id] = k /\ k # 0
  BY <1>3, <1>4, <1>5, <1>6, AwaitedIsServed DEF RequestOf
<1>8. k \in Requests
  <2>1. k \in DOMAIN requests
    <3>1. Begins(b)
      BY <1>5 DEF Awaited
    <3>2. sent[b].request = k
      BY <1>4, <1>6 DEF RequestOf
    <3> QED
      BY <1>3, <3>1, <3>2, WholeRequest
  <2>2. DOMAIN requests = 1..Len(requests) /\ Len(requests) \in Nat /\ Len(requests) <= MaxRequests
    BY <1>3, LenProperties DEF QP!TypeOK
  <2> QED
    BY <2>1, <2>2, BoundsAssumption DEF Requests
<1>9. PICK r : r = [type |-> type, id |-> id,
                    piece |-> [request |-> k, n |-> Len(Output[k]) + 1]]
  OBVIOUS
<1>10. RecordsFrom(wire[n]) = <<r>>
  BY <1>1, <1>4, <1>6, <1>9, CrossRecord
<1>11. QP!ServerSends(r) /\ UNCHANGED <<closed, failures>> /\ UNCHANGED QP!requesterVars
  BY <1>10, CrossSends
<1>12. Serving' = Serving /\ GetValuesOwed' = GetValuesOwed
  BY CrossedServer DEF IsPiece
<1>13. Output' = [Output EXCEPT ![k] = Append(@, type)]
  BY <1>1, <1>6, <1>8, CrossOutput
<1>14. Len(Output[k]) < 2 * MaxPieces
  <2> DEFINE S == PlacesOf(k)
  <2>1. /\ IsFiniteSet(S) /\ S \subseteq 1..taken /\ Len(Output[k]) = Cardinality(S)
        /\ Cardinality(S) \in Nat
    BY <1>3, <1>8, OutputIs
  <2>2. S \cup {n} \subseteq PiecePlaces(a)
    <3>1. n \in PiecePlaces(a)
      BY <1>1, <1>2 DEF PiecePlaces
    <3>2. ASSUME NEW i \in S
          PROVE  i \in PiecePlaces(a)
      <4>1. i \in DOMAIN wire /\ IsPiece(wire[i]) /\ RequestOf(wire[i].answer) = RequestOf(a)
        BY <1>2, <1>6, <3>2 DEF PlacesOf
      <4>2. wire[i].answer \in DOMAIN handed
        BY <1>3, <4>1 DEF WirePart, IsPiece, RP!IsStream
      <4>3. wire[i].answer = a
        BY <1>5, <4>1, <4>2, AnswerOfRequest
      <4> QED
        BY <4>1, <4>3 DEF PiecePlaces
    <3> QED
      BY <3>1, <3>2
  <2>3. IsFiniteSet(PiecePlaces(a)) /\ Cardinality(PiecePlaces(a)) \in Nat
    <3>1. DOMAIN wire = 1..Len(wire) /\ Len(wire) \in Nat
      BY <1>3, LenProperties DEF RP!TypeOK
    <3> QED
      BY <3>1, FiniteNumbers DEF PiecePlaces
  <2>4. Cardinality(PiecePlaces(a)) <= 2 * MaxPieces
    BY <1>3, <1>5 DEF WirePart
  <2>5. n \notin S
    BY <1>2, <2>1
  <2> HIDE DEF S
  <2>6. IsFiniteSet(S \cup {n}) /\ Cardinality(S \cup {n}) = Cardinality(S) + 1
    BY <2>1, <2>5, FS_AddElement
  <2>7. Cardinality(S \cup {n}) <= Cardinality(PiecePlaces(a))
    BY <2>2, <2>3, FS_Subset
  <2> QED
    BY <2>1, <2>3, <2>4, <2>6, <2>7, BoundsAssumption
<1>15. id \in QP!RequestIds /\ type \in QP!StreamTypes
  BY <1>1, <1>7 DEF QP!RequestIds, Ids, QP!StreamTypes, IsPiece
<1>16. QP!SendPiece(id, type)
  BY <1>7, <1>9, <1>11, <1>12, <1>13, <1>14, Zenon DEF QP!SendPiece
<1> QED
  BY <1>15, <1>16

\* The socket and the responder are a server as the requester takes it for granted.
LEMMA CrossKeeps ==
  ASSUME SessionInv, Cross
  PROVE  SessionInv' /\ [QP!Next]_QP!vars
<1>0. PICK n : n = taken + 1
  OBVIOUS
<1>1. [QP!Next]_QP!vars
  <2>1. CASE wire[n].type = "GetValuesResult"
    BY <1>0, <2>1, CrossResult DEF QP!Next, QP!ServerStep
  <2>2. CASE wire[n].type = "EndRequest"
    <3>1. PICK id \in QP!RequestIds : QP!EndServing(id)
      BY <1>0, <2>2, CrossEnd
    <3> QED
      BY <3>1 DEF QP!Next, QP!ServerStep
  <2>3. CASE IsPiece(wire[n])
    <3>1. PICK id \in QP!RequestIds, type \in QP!StreamTypes : QP!SendPiece(id, type)
      BY <1>0, <2>3, CrossPiece
    <3> QED
      BY <3>1 DEF QP!Next, QP!ServerStep
  <2>4. CASE wire[n].type # "GetValuesResult" /\ wire[n].type # "EndRequest" /\ ~IsPiece(wire[n])
    <3>1. Serving' = Serving /\ Output' = Output /\ GetValuesOwed' = GetValuesOwed
      BY <1>0, <2>4, CrossedServer
    <3>2. incoming' = incoming
      BY <1>0, <2>4, CrossRecord, CrossIncoming
    <3>3. UNCHANGED <<connectionState, requesterCfg, requestIdPool, responseMap,
                      pendingRequest, cancelHandler, ending, requests, closed, failures>>
      BY <1>0, CrossFacts
    <3>4. UNCHANGED QP!vars
      BY <3>1, <3>2, <3>3 DEF QP!vars, QP!requesterVars, QP!serverVars
    <3> QED
      BY <3>4
  <2> QED
    BY <2>1, <2>2, <2>3, <2>4
<1>2. QP!RequesterInv'
  BY <1>1, RequesterStep DEF SessionInv
<1> QED
  BY <1>1, <1>2, CrossGlue DEF SessionInv

-----------------------------------------------------------------------------
(* What the requester does                                                  *)

\* The requester writes, or not, and the responder rests.
SentGrows ==
  /\ sent' \in Seq(SentRecord) /\ Len(sent) <= Len(sent')
  /\ \A p \in DOMAIN sent : sent'[p] = sent[p]
  /\ UNCHANGED <<responderVars, taken>>

LEMMA ResponderRests ==
  ASSUME SessionInv, SentGrows
  PROVE  /\ UNCHANGED <<responderCfg, requestRegistry, alive, received, handed, wire, exceptions>>
         /\ taken' = taken /\ Report' = Report /\ DOMAIN sent \subseteq DOMAIN sent'
         /\ \A p \in DOMAIN sent : (Begins(p)' <=> Begins(p)) /\ IdAt(p)' = IdAt(p)
         /\ \A p : Done(p)' <=> Done(p)
         /\ \A p : Begins(p) => Begins(p)'
         /\ \A p : p \notin DOMAIN sent => ~Done(p)
         /\ \A k : Ended(k) => Ended(k)'
<1>1. /\ UNCHANGED <<responderCfg, requestRegistry, alive, received, handed, wire, exceptions>>
      /\ taken' = taken
  BY DEF SentGrows, responderVars
<1>2. /\ RP!TypeOK /\ QP!TypeOK /\ SentPart /\ TransitPart /\ WirePart /\ HandedPart
  BY DEF SessionInv, Glue, RP!ResponderInv, QP!RequesterInv
<1>3. DOMAIN sent \subseteq DOMAIN sent' /\ \A p \in DOMAIN sent : sent'[p] = sent[p]
  BY <1>2, LenProperties DEF SentGrows, SentPart
<1>4. \A p \in DOMAIN sent : (Begins(p)' <=> Begins(p)) /\ IdAt(p)' = IdAt(p)
  BY <1>3 DEF Begins, IdAt
<1>5. \A p : Done(p)' <=> Done(p)
  BY <1>1, Zenon DEF Done, Ends
<1>6. \A p : Begins(p) => Begins(p)'
  BY <1>3 DEF Begins
<1>7. ASSUME NEW p, Done(p)
      PROVE  p \in DOMAIN sent
  <2>1. PICK i \in 1..taken : Ends(i, p)
    BY <1>7 DEF Done
  <2>2. i \in DOMAIN wire
    BY <1>2, <2>1, Lengths
  <2>3. PICK a \in DOMAIN handed : Ends(i, handed[a].begin)
    BY <1>2, <2>1, <2>2 DEF WirePart, Ends
  <2>4. Begins(p)
    BY <1>2, <2>1, <2>3 DEF HandedPart, Ends
  <2> QED
    BY <2>4 DEF Begins
<1>8. ASSUME NEW k, Ended(k)
      PROVE  Ended(k)'
  <2>1. PICK b \in DOMAIN sent : Begins(b) /\ Done(b) /\ sent[b].request = k
    BY <1>8 DEF Ended
  <2>2. b \in DOMAIN sent' /\ Begins(b)' /\ Done(b)' /\ sent'[b].request = k
    BY <1>3, <1>4, <1>5, <2>1
  <2> QED
    BY <2>2, Zenon DEF Ended
<1>9. Report' = Report
  BY <1>1 DEF Report
<1> QED
  BY <1>1, <1>3, <1>4, <1>5, <1>6, <1>7, <1>8, <1>9

LEMMA ResponderRestsWell ==
  ASSUME SessionInv, SentGrows
  PROVE  /\ RP!ResponderInv' /\ exceptions' = 0 /\ RegistryPart' /\ HandedPart' /\ WirePart'
         /\ taken' \in 0..Len(wire') /\ NeverRefused'
         /\ Len(received') <= Len(sent')
         /\ \A i \in DOMAIN received' : received'[i] = sent'[i].record
<1>1. /\ UNCHANGED <<responderCfg, requestRegistry, alive, received, handed, wire, exceptions>>
      /\ taken' = taken
      /\ \A p \in DOMAIN sent : (Begins(p)' <=> Begins(p)) /\ IdAt(p)' = IdAt(p)
      /\ \A p : Begins(p) => Begins(p)'
  BY ResponderRests
<1>2. /\ RP!TypeOK /\ QP!TypeOK /\ SentPart /\ TransitPart /\ WirePart /\ HandedPart /\ RegistryPart
      /\ RP!ResponderInv /\ exceptions = 0
  BY DEF SessionInv, Glue, RP!ResponderInv, QP!RequesterInv
<1>3. \A p \in DOMAIN sent : sent'[p] = sent[p]
  BY DEF SentGrows
<1>4. RP!ResponderInv' /\ exceptions' = 0
  <2>1. UNCHANGED RP!vars
    BY <1>1 DEF RP!vars
  <2> QED
    BY <1>1, <1>2, <2>1, ResponderStep
<1>5. taken' \in 0..Len(wire') /\ NeverRefused'
  BY <1>1, <1>2 DEF TransitPart, NeverRefused
<1>6. /\ Len(received) \in Nat /\ Len(sent) \in Nat /\ Len(sent') \in Nat
      /\ DOMAIN received = 1..Len(received) /\ DOMAIN sent = 1..Len(sent)
      /\ Len(received) <= Len(sent) /\ DOMAIN received \subseteq DOMAIN sent
  <2>1. /\ Len(received) \in Nat /\ Len(sent) \in Nat /\ DOMAIN received = 1..Len(received)
        /\ DOMAIN sent = 1..Len(sent) /\ Len(received) <= Len(sent)
    BY <1>2, Lengths
  <2> QED
    BY <2>1, LenProperties DEF SentGrows
<1>7. /\ Len(received') <= Len(sent')
      /\ \A i \in DOMAIN received' : received'[i] = sent'[i].record
  <2>1. Len(received) <= Len(sent')
    BY <1>6 DEF SentGrows
  <2> QED
    BY <1>1, <1>2, <1>3, <1>6, <2>1 DEF TransitPart
<1>8. HandedPart'
  <2>1. ASSUME NEW a \in DOMAIN handed
        PROVE  /\ Begins(handed[a].begin)' /\ handed[a].begin + 4 <= Len(received)
               /\ handed[a].params = <<sent'[handed[a].begin].request>>
               /\ handed[a].stdIn = <<sent'[handed[a].begin].request>>
               /\ handed[a].response # "dropped"
    <3>1. PICK b : b = handed[a].begin
      OBVIOUS
    <3>2. b \in DOMAIN sent
      BY <1>2, <3>1 DEF HandedPart, Begins
    <3>3. Begins(b)'
      BY <1>1, <1>2, <3>1 DEF HandedPart
    <3>4. Begins(handed[a].begin)'
      BY <1>1, <3>1, <3>3
    <3> QED
      BY <1>2, <1>3, <3>1, <3>2, <3>4 DEF HandedPart, RequestOf
  <2> QED
    BY <1>1, <2>1, Zenon DEF HandedPart, RequestOf
<1>9. WirePart'
  <2>1. \A a : PiecePlaces(a)' = PiecePlaces(a)
    BY <1>1, Zenon DEF PiecePlaces, IsPiece
  <2> QED
    BY <1>1, <1>2, <2>1, Zenon DEF WirePart, RP!IsStream, Ends
<1>10. RegistryPart'
  <2>1. ASSUME NEW id \in Ids, RP!Registered(id)
        PROVE  EntryPart(id)'
    <3>1. PICK data : data = requestRegistry[id]
      OBVIOUS
    <3>2. PICK b : b = data.begin
      OBVIOUS
    <3>3. EntryPart(id)
      BY <1>2, <2>1 DEF RegistryPart
    <3>4. /\ Begins(b) /\ IdAt(b) = id
          /\ data.usedInRequest <=> b + 4 <= Len(received)
          /\ ~data.usedInRequest => data.params = ContentAt(b, 1) /\ data.stdIn = ContentAt(b, 3)
      BY <3>1, <3>2, <3>3, Zenon DEF EntryPart
    <3>5. b \in DOMAIN sent
      BY <3>4 DEF Begins
    <3>6. \A at : ContentAt(b, at)' = ContentAt(b, at)
      BY <1>1, <1>3, <3>5 DEF ContentAt
    <3>7. /\ Begins(b)' /\ IdAt(b)' = id
          /\ data.usedInRequest <=> b + 4 <= Len(received')
          /\ ~data.usedInRequest => data.params = ContentAt(b, 1)' /\ data.stdIn = ContentAt(b, 3)'
      BY <1>1, <3>4, <3>5, <3>6
    <3>8. requestRegistry'[id] = data
      BY <1>1, <3>1
    <3> QED
      BY <3>2, <3>7, <3>8, Zenon DEF EntryPart, ContentAt, Begins, IdAt
  <2>2. \A id : RP!Registered(id)' <=> RP!Registered(id)
    BY <1>1, Zenon DEF RP!Registered
  <2>3. ASSUME NEW b \in DOMAIN received, Begins(b)', Len(received) < b + 4
        PROVE  RP!Registered(IdAt(b)) /\ requestRegistry[IdAt(b)].begin = b /\ IdAt(b)' = IdAt(b)
    BY <1>1, <1>2, <1>6, <2>3 DEF RegistryPart
  <2>4. ASSUME NEW b \in DOMAIN received', Begins(b)', Len(received') < b + 4
        PROVE  RP!Registered(IdAt(b))' /\ requestRegistry'[IdAt(b)'].begin = b
    BY <1>1, <2>3, <2>4, Zenon DEF RP!Registered
  <2> QED
    BY <1>1, <2>1, <2>2, <2>4, Zenon DEF RegistryPart
<1> QED
  BY <1>4, <1>5, <1>7, <1>8, <1>9, <1>10

\* The records of a request are records of the requester.
LEMMA BlockType ==
  ASSUME NEW k \in Requests, NEW id \in Ids, NEW keep \in KeepModes,
         NEW block, block = RequestRecords(k, id, keep)
  PROVE  /\ block \in Seq(SentRecord) /\ Len(block) = 5
         /\ \A j \in 0..4 : block[j + 1] = [record |-> RecordAt(j, k, id, keep), request |-> k]
<1>1. DOMAIN block = 1..5 /\ \A j \in 0..4 : block[j + 1] = [record |-> RecordAt(j, k, id, keep), request |-> k]
  BY RequestRecordsAre
<1>2. \A i \in 1..5 : i - 1 \in 0..4 /\ (i - 1) + 1 = i
  OBVIOUS
<1>3. \A i \in 1..5 : block[i] \in SentRecord
  <2>1. ASSUME NEW i \in 1..5
        PROVE  block[i] \in SentRecord
    <3>1. PICK j \in 0..4 : i = j + 1
      BY <1>2
    <3>2. RecordAt(j, k, id, keep) \in RP!IncomingRecord
      BY RecordAtType
    <3>3. k \in Nat
      BY DEF Requests
    <3> QED
      BY <1>1, <3>1, <3>2, <3>3 DEF SentRecord
  <2> QED
    BY <2>1
<1>4. block = [i \in 1..5 |-> block[i]]
  <2>1. block = [i \in DOMAIN block |-> block[i]]
    BY DEF RequestRecords
  <2> QED
    BY <1>1, <2>1
<1>5. block \in [1..5 -> SentRecord]
  BY <1>3, <1>4
<1>6. block \in Seq(SentRecord)
  <2>1. 5 \in Nat
    OBVIOUS
  <2> QED
    BY <1>5, <2>1, SeqDef
<1>7. Len(block) = 5
  BY <1>1, <1>6, LenProperties
<1> QED
  BY <1>1, <1>6, <1>7

\* A request is written under an id that no awaited request has.
BlockAdded(k, id, keep) ==
  /\ sent' = sent \o RequestRecords(k, id, keep)
  /\ UNCHANGED <<responderVars, taken>>
  /\ sent # <<>>
  /\ DOMAIN requests \subseteq DOMAIN requests' /\ k \in DOMAIN requests'
  /\ \A b \in DOMAIN sent : Begins(b) => sent[b].request < k
  /\ \A b : Awaited(b) => IdAt(b) # id

\* Requests that were written stay whole.
LEMMA WholeStays ==
  ASSUME SessionInv, SentGrows, DOMAIN requests \subseteq DOMAIN requests', NEW b, IsWhole(b),
         b \in DOMAIN sent
  PROVE  IsWhole(b)'
<1>1. /\ Len(sent) \in Nat /\ DOMAIN sent = 1..Len(sent)
      /\ Len(sent') \in Nat /\ Len(sent) <= Len(sent')
  BY LenProperties DEF SessionInv, Glue, SentPart, SentGrows
<1>2. PICK k \in DOMAIN requests, id \in Ids, keep \in KeepModes :
        /\ 1 < b /\ b + 4 <= Len(sent)
        /\ \A j \in 0..4 : sent[b + j] = RequestRecords(k, id, keep)[j + 1]
  BY DEF IsWhole
<1>3. \A j \in 0..4 : b + j \in DOMAIN sent
  BY <1>1, <1>2
<1>4. \A j \in 0..4 : sent'[b + j] = RequestRecords(k, id, keep)[j + 1]
  BY <1>2, <1>3 DEF SentGrows
<1>5. k \in DOMAIN requests' /\ 1 < b /\ b + 4 <= Len(sent')
  BY <1>1, <1>2
<1> QED
  BY <1>4, <1>5, Zenon DEF IsWhole

LEMMA BlockKeeps ==
  ASSUME SessionInv, NEW k \in Requests, NEW id \in Ids, NEW keep \in KeepModes,
         BlockAdded(k, id, keep)
  PROVE  /\ SentGrows /\ SentPart' /\ sent' # <<>>
         /\ \A b, c \in DOMAIN sent' : Awaited(b)' /\ Awaited(c)' /\ IdAt(b)' = IdAt(c)' => b = c
<1>0. PICK n : n = Len(sent)
  OBVIOUS
<1>1. /\ SentGrows /\ n \in Nat /\ n > 0 /\ DOMAIN sent = 1..n /\ Len(sent') = n + 5
      /\ DOMAIN sent' = 1..(n + 5) /\ sent'[1] = sent[1]
      /\ \A j \in 0..4 : sent'[n + 1 + j] = RequestRecords(k, id, keep)[j + 1]
      /\ \A p \in DOMAIN sent' : Begins(p)' => (Begins(p) /\ p \in 1..n) \/ p = n + 1
      /\ \A m : m = n + 1 => Begins(m)' /\ IdAt(m)' = id /\ sent'[m].request = k
  <2>1. PICK block : block = RequestRecords(k, id, keep)
    OBVIOUS
  <2>2. /\ block \in Seq(SentRecord) /\ Len(block) = 5
        /\ \A j \in 0..4 : block[j + 1] = [record |-> RecordAt(j, k, id, keep), request |-> k]
    BY <2>1, BlockType
  <2>3. sent \in Seq(SentRecord) /\ sent' = sent \o block /\ sent # <<>>
    BY <2>1 DEF SessionInv, Glue, SentPart, BlockAdded
  <2>4. n \in Nat /\ n > 0 /\ DOMAIN sent = 1..n
    BY <1>0, <2>3, LenProperties, EmptySeq
  <2>5. /\ sent' \in Seq(SentRecord) /\ Len(sent') = n + 5 /\ DOMAIN sent' = 1..(n + 5)
        /\ \A p \in 1..(n + 5) : sent'[p] = IF p <= n THEN sent[p] ELSE block[p - n]
    <3>1. /\ sent \o block \in Seq(SentRecord) /\ Len(sent \o block) = Len(sent) + Len(block)
          /\ \A p \in 1..(Len(sent) + Len(block)) :
               (sent \o block)[p] = IF p <= Len(sent) THEN sent[p] ELSE block[p - Len(sent)]
      BY <2>2, <2>3, ConcatProperties, Zenon
    <3>2. /\ sent' \in Seq(SentRecord) /\ Len(sent') = n + 5
          /\ \A p \in 1..(n + 5) : sent'[p] = IF p <= n THEN sent[p] ELSE block[p - n]
      BY <1>0, <2>2, <2>3, <3>1, Zenon
    <3> QED
      BY <3>2, LenProperties
  <2>6. \A p \in 1..n : sent'[p] = sent[p]
    BY <2>4, <2>5
  <2>7. \A j \in 0..4 : sent'[n + 1 + j] = block[j + 1]
    <3>1. ASSUME NEW j \in 0..4
          PROVE  sent'[n + 1 + j] = block[j + 1]
      <4>1. PICK p : p = n + 1 + j
        OBVIOUS
      <4>2. p \in 1..(n + 5) /\ ~(p <= n) /\ p - n = j + 1
        BY <2>4, <4>1
      <4>3. sent'[p] = IF p <= n THEN sent[p] ELSE block[p - n]
        BY <2>5, <4>2
      <4>4. sent'[p] = block[j + 1]
        BY <4>2, <4>3, Zenon
      <4> QED
        BY <4>1, <4>4, Zenon
    <3> QED
      BY <3>1
  <2>8. SentGrows
    BY <2>4, <2>5, <2>6 DEF SentGrows, BlockAdded
  <2>9. /\ sent'[n + 1] = [record |-> RecordAt(0, k, id, keep), request |-> k]
        /\ \A j \in 1..4 : sent'[n + 1 + j] = [record |-> RecordAt(j, k, id, keep), request |-> k]
    <3>1. 0 \in 0..4 /\ n + 1 + 0 = n + 1 /\ \A j \in 1..4 : j \in 0..4
      BY <2>4
    <3> QED
      BY <2>2, <2>7, <3>1
  <2>10. n + 1 \in DOMAIN sent'
    BY <2>4, <2>5
  <2>11. \A m : m = n + 1 => Begins(m)' /\ IdAt(m)' = id /\ sent'[m].request = k
    BY <2>9, <2>10, RecordAtFields DEF Begins, IdAt
  <2>12. ASSUME NEW p \in DOMAIN sent', Begins(p)', ~(p \in 1..n), p # n + 1
         PROVE  FALSE
    <3>1. p - (n + 1) \in 1..4 /\ n + 1 + (p - (n + 1)) = p
      BY <2>4, <2>5, <2>12
    <3>2. sent'[p].record = RecordAt(p - (n + 1), k, id, keep)
      BY <2>9, <3>1
    <3>3. sent'[p].record.type # "BeginRequest"
      BY <3>1, <3>2, RecordAtFields
    <3> QED
      BY <2>12, <3>3 DEF Begins
  <2>13. \A p \in 1..n : Begins(p)' => Begins(p)
    BY <2>4, <2>6 DEF Begins
  <2>14. sent'[1] = sent[1]
    BY <2>4, <2>6
  <2> QED
    BY <2>1, <2>4, <2>5, <2>7, <2>8, <2>11, <2>12, <2>13, <2>14
<1>2. SentPart /\ TransitPart /\ sent # <<>>
  BY DEF SessionInv, Glue, BlockAdded
<1>3. /\ \A p \in DOMAIN sent : (Begins(p)' <=> Begins(p)) /\ IdAt(p)' = IdAt(p)
      /\ \A p : Done(p)' <=> Done(p)
  BY <1>1, ResponderRests
<1>4. \A p \in DOMAIN sent : sent'[p] = sent[p]
  BY <1>1 DEF SentGrows
<1>5. /\ DOMAIN requests \subseteq DOMAIN requests' /\ k \in DOMAIN requests'
      /\ \A b \in DOMAIN sent : Begins(b) => sent[b].request < k
      /\ \A b : Awaited(b) => IdAt(b) # id
  BY DEF BlockAdded
<1>6. \A p \in DOMAIN sent' : p = 1 \/ \E b \in DOMAIN sent' : Begins(b)' /\ b <= p /\ p <= b + 4
  <2>1. ASSUME NEW p \in 1..n, p # 1
        PROVE  \E b \in DOMAIN sent' : Begins(b)' /\ b <= p /\ p <= b + 4
    <3>1. PICK b \in DOMAIN sent : Begins(b) /\ b <= p /\ p <= b + 4
      BY <1>1, <1>2, <2>1 DEF SentPart
    <3>2. b \in DOMAIN sent' /\ Begins(b)'
      BY <1>1, <1>3, <3>1
    <3> QED
      BY <3>1, <3>2
  <2>2. ASSUME NEW p \in DOMAIN sent', p \notin 1..n
        PROVE  \E b \in DOMAIN sent' : Begins(b)' /\ b <= p /\ p <= b + 4
    <3>1. n + 1 \in DOMAIN sent' /\ n + 1 <= p /\ p <= n + 1 + 4
      BY <1>1, <2>2
    <3> QED
      BY <1>1, <3>1
  <2> QED
    BY <1>1, <2>1, <2>2
<1>7. \A b \in DOMAIN sent' : Begins(b)' => IsWhole(b)'
  <2>1. ASSUME NEW b \in 1..n, Begins(b)
        PROVE  IsWhole(b)'
    BY <1>1, <1>2, <1>5, <2>1, WholeStays DEF SentPart
  <2>3. PICK m : m = n + 1
    OBVIOUS
  <2>4. IsWhole(m)'
    <3>1. 1 < m /\ m + 4 <= Len(sent')
      BY <1>1, <2>3
    <3>2. \A j \in 0..4 : sent'[m + j] = RequestRecords(k, id, keep)[j + 1]
      BY <1>1, <2>3
    <3> QED
      BY <1>5, <3>1, <3>2, Zenon DEF IsWhole
  <2> QED
    BY <1>1, <2>1, <2>3, <2>4
<1>8. \A b, c \in DOMAIN sent' : Begins(b)' /\ Begins(c)' /\ b < c => sent'[b].request < sent'[c].request
  <2>1. ASSUME NEW b \in DOMAIN sent', NEW c \in DOMAIN sent', Begins(b)', Begins(c)', b < c
        PROVE  sent'[b].request < sent'[c].request
    <3>1. Begins(b) /\ b \in 1..n
      BY <1>1, <2>1
    <3>2. CASE c \in 1..n
      BY <1>1, <1>2, <1>3, <1>4, <2>1, <3>1, <3>2 DEF SentPart
    <3>3. CASE c \notin 1..n
      <4>1. c = n + 1
        BY <1>1, <2>1, <3>3
      <4> QED
        BY <1>1, <1>4, <1>5, <3>1, <4>1
    <3> QED
      BY <3>2, <3>3
  <2> QED
    BY <2>1
<1>9. sent' \in Seq(SentRecord) /\ sent' # <<>> /\ sent'[1] = GetValues[1]
  BY <1>1, <1>2, LenProperties, EmptySeq DEF SentGrows, SentPart
<1>10. SentPart'
  BY <1>6, <1>7, <1>8, <1>9, Zenon DEF SentPart, GetValues
<1>11. ASSUME NEW b \in DOMAIN sent', NEW c \in DOMAIN sent', Awaited(b)', Awaited(c)',
              IdAt(b)' = IdAt(c)'
       PROVE  b = c
  <2>1. /\ Begins(b)' /\ Begins(c)' /\ ~Done(b) /\ ~Done(c)
    BY <1>3, <1>11, Zenon DEF Awaited
  <2>2. \A p \in 1..n : Begins(p)' /\ ~Done(p) => Awaited(p) /\ IdAt(p)' # id
    BY <1>1, <1>3, <1>5 DEF Awaited
  <2>3. CASE b \in 1..n /\ c \in 1..n
    BY <1>1, <1>2, <1>3, <1>11, <2>1, <2>2, <2>3 DEF TransitPart
  <2>4. CASE b \in 1..n /\ c \notin 1..n
    BY <1>1, <1>11, <2>1, <2>2, <2>4
  <2>5. CASE b \notin 1..n /\ c \in 1..n
    BY <1>1, <1>11, <2>1, <2>2, <2>5
  <2>6. CASE b \notin 1..n /\ c \notin 1..n
    BY <1>1, <2>1, <2>6
  <2> QED
    BY <2>3, <2>4, <2>5, <2>6
<1> QED
  BY <1>1, <1>9, <1>10, <1>11

\* The first record asks for the limits.
LEMMA QuestionKeeps ==
  ASSUME SessionInv, sent = <<>>, sent' = sent \o GetValues, UNCHANGED <<responderVars, taken>>
  PROVE  /\ SentGrows /\ SentPart' /\ Len(sent') = 1
         /\ \A b \in DOMAIN sent' : ~Begins(b)'
<1>1. sent' = GetValues
  BY DEF GetValues
<1>2. /\ Len(GetValues) = 1 /\ DOMAIN GetValues = 1..1
      /\ GetValues[1] = [record |-> [type |-> "GetValues"], request |-> 0]
  BY DEF GetValues
<1>3. GetValues \in Seq(SentRecord)
  <2>1. [type |-> "GetValues"] \in RP!IncomingRecord
    BY DEF RP!IncomingRecord
  <2>2. [record |-> [type |-> "GetValues"], request |-> 0] \in SentRecord
    BY <2>1 DEF SentRecord
  <2> QED
    BY <2>2 DEF GetValues
<1>4. \A p \in DOMAIN GetValues : p = 1
  BY <1>2
<1>5. \A b \in DOMAIN sent' : ~Begins(b)'
  <2>1. \A b \in DOMAIN sent' : sent'[b].record.type # "BeginRequest"
    BY <1>1, <1>2, <1>4
  <2> QED
    BY <2>1 DEF Begins
<1>6. SentPart'
  BY <1>1, <1>3, <1>4, <1>5, Zenon DEF SentPart
<1>7. SentGrows
  BY <1>1, <1>2, <1>3 DEF SentGrows
<1> QED
  BY <1>1, <1>2, <1>5, <1>6, <1>7

\* Nothing is written.
LEMMA SilenceKeeps ==
  ASSUME SessionInv, sent' = sent, DOMAIN requests \subseteq DOMAIN requests',
         UNCHANGED <<responderVars, taken>>
  PROVE  /\ SentGrows /\ SentPart'
         /\ \A b, c \in DOMAIN sent' : Awaited(b)' /\ Awaited(c)' /\ IdAt(b)' = IdAt(c)' => b = c
<1>1. SentPart /\ TransitPart
  BY DEF SessionInv, Glue
<1>2. SentGrows
  BY <1>1, LenProperties DEF SentGrows, SentPart
<1>3. /\ \A p \in DOMAIN sent : (Begins(p)' <=> Begins(p)) /\ IdAt(p)' = IdAt(p)
      /\ \A p : Done(p)' <=> Done(p)
  BY <1>2, ResponderRests
<1>4. \A b \in DOMAIN sent : Begins(b) => IsWhole(b)'
  BY <1>1, <1>2, WholeStays DEF SentPart
<1>5. SentPart'
  BY <1>1, <1>3, <1>4, Zenon DEF SentPart, GetValues
<1>6. \A b \in DOMAIN sent : Awaited(b)' <=> Awaited(b)
  BY <1>3, Zenon DEF Awaited
<1> QED
  BY <1>1, <1>2, <1>3, <1>5, <1>6, Zenon DEF TransitPart

\* Nothing unusual happens to the requester.
LEMMA NoFaults ==
  ASSUME QP!RequesterInv
  PROVE  ~(QP!Faults < 0) /\ ~QP!Throws
<1>1. QP!Uncancelled /\ QP!TypeOK
  BY DEF QP!RequesterInv
<1>2. QP!CancelledIn("opening") = {} /\ QP!CancelledIn("finished") = {}
  BY <1>1 DEF QP!Uncancelled, QP!CancelledIn
<1>3. QP!Cardinality(QP!CancelledIn("opening") \cup QP!CancelledIn("finished")) = 0
  BY <1>2, StandardOperators, FS_EmptySet
<1>4. failures.extras \in Nat /\ failures.unasked \in Nat /\ failures.exceptions \in Nat
  BY <1>1 DEF QP!TypeOK
<1>5. QP!Faults = failures.extras + failures.unasked + failures.exceptions
                    + QP!Cardinality(QP!CancelledIn("opening") \cup QP!CancelledIn("finished"))
  BY Zenon DEF QP!Faults
<1>6. ~(QP!Faults < 0)
  BY <1>3, <1>4, <1>5
<1> QED
  BY <1>6 DEF QP!Throws

\* A history in which each request asks for one of the modes, and only what was
\* ended was answered.
Modest(history) ==
  /\ history \in Seq(QP!RequestHistory)
  /\ \A k \in DOMAIN history :
       /\ history[k].keep \in KeepModes
       /\ \A i \in DOMAIN history[k].outcomes :
            history[k].outcomes[i].status = "Successful" => Ended(history[k].outcomes[i].answers)

LEMMA HistoryCalled ==
  ASSUME NEW history \in Seq(QP!RequestHistory), NEW k \in DOMAIN history,
         NEW outcome \in QP!Outcome
  PROVE  LET called == QP!CallsHandler(history, k, outcome)
         IN  /\ called \in Seq(QP!RequestHistory) /\ DOMAIN called = DOMAIN history
             /\ called[k].outcomes = Append(history[k].outcomes, outcome)
             /\ called[k].keep = history[k].keep
             /\ \A j \in DOMAIN history : j # k => called[j] = history[j]
             /\ history[k].outcomes \in Seq(QP!Outcome)
<1> DEFINE called == QP!CallsHandler(history, k, outcome)
           changed == [history[k] EXCEPT !.outcomes = Append(@, outcome)]
<1>1. called \in Seq(QP!RequestHistory)
  BY RequesterConstants, QP!CallType, Zenon
<1>2. called = [history EXCEPT ![k] = changed]
  BY DEF QP!CallsHandler
<1>3. history[k] \in QP!RequestHistory
  BY ElementOfSeq
<1>4. history[k].outcomes \in Seq(QP!Outcome)
  BY <1>3 DEF QP!RequestHistory
<1>5. changed.outcomes = Append(history[k].outcomes, outcome) /\ changed.keep = history[k].keep
  BY <1>3 DEF QP!RequestHistory
<1> HIDE DEF changed, called
<1>6. called[k] = changed /\ DOMAIN called = DOMAIN history
      /\ \A j \in DOMAIN history : j # k => called[j] = history[j]
  BY <1>2
<1> QED
  BY <1>1, <1>4, <1>5, <1>6, Zenon DEF called

LEMMA HistorySent ==
  ASSUME NEW history \in Seq(QP!RequestHistory), NEW k \in DOMAIN history
  PROVE  LET more == [history EXCEPT ![k].sends = @ + 1]
         IN  /\ more \in Seq(QP!RequestHistory) /\ DOMAIN more = DOMAIN history
             /\ more[k].outcomes = history[k].outcomes /\ more[k].keep = history[k].keep
             /\ \A j \in DOMAIN history : j # k => more[j] = history[j]
<1> DEFINE more == [history EXCEPT ![k].sends = @ + 1]
           changed == [history[k] EXCEPT !.sends = @ + 1]
<1>1. history[k] \in QP!RequestHistory
  BY ElementOfSeq
<1>2. more \in Seq(QP!RequestHistory)
  BY RequesterConstants, QP!SendsType, Zenon
<1>3. changed.outcomes = history[k].outcomes /\ changed.keep = history[k].keep
  BY <1>1 DEF QP!RequestHistory
<1>4. more = [history EXCEPT ![k] = changed]
  OBVIOUS
<1> HIDE DEF changed, more
<1>5. more[k] = changed /\ DOMAIN more = DOMAIN history
      /\ \A j \in DOMAIN history : j # k => more[j] = history[j]
  BY <1>4
<1> QED
  BY <1>2, <1>3, <1>5, Zenon DEF more

LEMMA ModestNow ==
  ASSUME SessionInv
  PROVE  Modest(requests)
BY DEF SessionInv, Glue, OpeningPart, AnsweredPart, QP!RequesterInv, QP!TypeOK, Modest

\* A handler is called, with a response if the request was ended.
LEMMA ModestCall ==
  ASSUME NEW history, Modest(history), NEW k \in DOMAIN history, NEW outcome \in QP!Outcome,
         outcome.status = "Successful" => Ended(outcome.answers)
  PROVE  /\ Modest(QP!CallsHandler(history, k, outcome))
         /\ DOMAIN QP!CallsHandler(history, k, outcome) = DOMAIN history
<1>1. history \in Seq(QP!RequestHistory)
  BY DEF Modest
<1> DEFINE called == QP!CallsHandler(history, k, outcome)
<1>2. /\ called \in Seq(QP!RequestHistory) /\ DOMAIN called = DOMAIN history
      /\ called[k].outcomes = Append(history[k].outcomes, outcome)
      /\ called[k].keep = history[k].keep
      /\ \A j \in DOMAIN history : j # k => called[j] = history[j]
      /\ history[k].outcomes \in Seq(QP!Outcome)
  BY <1>1, HistoryCalled, Zenon
<1> HIDE DEF called
<1>3. ASSUME NEW i \in DOMAIN called[k].outcomes
      PROVE  \/ i \in DOMAIN history[k].outcomes /\ called[k].outcomes[i] = history[k].outcomes[i]
             \/ called[k].outcomes[i] = outcome
  <2>1. PICK old, now : old = history[k].outcomes /\ now = called[k].outcomes
    OBVIOUS
  <2>2. old \in Seq(QP!Outcome) /\ now = Append(old, outcome) /\ i \in DOMAIN now
    BY <1>2, <1>3, <2>1
  <2>3. (i \in DOMAIN old /\ now[i] = old[i]) \/ now[i] = outcome
    BY <2>2
  <2> QED
    BY <2>1, <2>3
<1>4. ASSUME NEW j \in DOMAIN called
      PROVE  called[j].keep \in KeepModes
  BY <1>2, <1>4, Zenon DEF Modest
<1>5. ASSUME NEW j \in DOMAIN called, NEW i \in DOMAIN called[j].outcomes,
             called[j].outcomes[i].status = "Successful"
      PROVE  Ended(called[j].outcomes[i].answers)
  BY <1>2, <1>3, <1>5, Zenon DEF Modest
<1>6. Modest(called)
  BY <1>2, <1>4, <1>5, Zenon DEF Modest
<1> QED
  BY <1>2, <1>6, Zenon DEF called

LEMMA NoResponseIsOutcome ==
  QP!NoResponse("Failed", 0) \in QP!Outcome
BY RequesterConstants, QP!NoResponseType, Zenon

\* doSendRequest.
LEMMA ModestSend ==
  ASSUME NEW history, Modest(history), NEW k \in DOMAIN history,
         NEW pool, NEW completes, QP!DoSendRequest(k, pool, history, completes)
  PROVE  \E now : now = requests' /\ Modest(now) /\ DOMAIN now = DOMAIN history
<1>0. PICK now : now = requests'
  OBVIOUS
<1>1. \/ now = QP!CallsHandler(history, k, QP!NoResponse("Failed", 0))
      \/ now = [history EXCEPT ![k].sends = @ + 1]
  BY <1>0 DEF QP!DoSendRequest
<1>2. CASE now = QP!CallsHandler(history, k, QP!NoResponse("Failed", 0))
  <2>1. PICK outcome : outcome = QP!NoResponse("Failed", 0)
    OBVIOUS
  <2>2. outcome \in QP!Outcome
    BY <2>1, Zenon, NoResponseIsOutcome
  <2>3. outcome.status = "Failed"
    BY <2>1 DEF QP!NoResponse
  <2>4. Modest(now) /\ DOMAIN now = DOMAIN history
    BY <1>2, <2>1, <2>2, <2>3, ModestCall
  <2> QED
    BY <1>0, <2>4
<1>3. CASE now = [history EXCEPT ![k].sends = @ + 1]
  <2>1. history \in Seq(QP!RequestHistory)
    BY DEF Modest
  <2>2. /\ now \in Seq(QP!RequestHistory) /\ DOMAIN now = DOMAIN history
        /\ now[k].outcomes = history[k].outcomes /\ now[k].keep = history[k].keep
        /\ \A j \in DOMAIN history : j # k => now[j] = history[j]
    BY <1>3, <2>1, HistorySent, Zenon
  <2>3. Modest(now)
    BY <2>2, Zenon DEF Modest
  <2> QED
    BY <1>0, <2>2, <2>3
<1> QED
  BY <1>1, <1>2, <1>3

\* sendRequest adds a request.
LEMMA ModestNew ==
  ASSUME SessionInv, Len(requests) < MaxRequests, NEW keep \in KeepModes,
         NEW handle \in {"none", "opening", "context"}
  PROVE  LET request == [keep |-> keep, handle |-> handle, cancelled |-> "no",
                         sends |-> 0, outcomes |-> <<>>]
         IN  /\ Modest(Append(requests, request))
             /\ DOMAIN Append(requests, request) = DOMAIN requests \cup {Len(requests) + 1}
<1>1. Modest(requests) /\ requests \in Seq(QP!RequestHistory) /\ QP!TypeOK
  BY ModestNow DEF Modest, SessionInv, QP!RequesterInv
<1> DEFINE request == [keep |-> keep, handle |-> handle, cancelled |-> "no",
                       sends |-> 0, outcomes |-> <<>>]
<1>2. request \in QP!RequestHistory
  BY ModesAssumption DEF QP!RequestHistory
<1>3. request.keep = keep /\ request.outcomes = <<>>
  OBVIOUS
<1> HIDE DEF request
<1> DEFINE longer == Append(requests, request)
<1>4. /\ longer \in Seq(QP!RequestHistory)
      /\ DOMAIN longer = DOMAIN requests \cup {Len(requests) + 1}
      /\ longer[Len(requests) + 1] = request
      /\ \A j \in DOMAIN requests : longer[j] = requests[j]
  BY <1>1, <1>2
<1> HIDE DEF longer
<1>5. ASSUME NEW j \in DOMAIN longer
      PROVE  /\ longer[j].keep \in KeepModes
             /\ \A i \in DOMAIN longer[j].outcomes :
                  longer[j].outcomes[i].status = "Successful" => Ended(longer[j].outcomes[i].answers)
  <2>1. CASE j \in DOMAIN requests
    BY <1>1, <1>4, <2>1, Zenon DEF Modest
  <2>2. CASE j = Len(requests) + 1
    <3>1. longer[j].keep = keep /\ longer[j].outcomes = <<>>
      BY <1>3, <1>4, <2>2
    <3>2. DOMAIN <<>> = {}
      OBVIOUS
    <3> QED
      BY <3>1, <3>2
  <2> QED
    BY <1>4, <2>1, <2>2
<1> QED
  BY <1>4, <1>5, Zenon DEF Modest, longer, request

\* What is read leaves the queue.
QueueStays == incoming' = incoming \/ (incoming # <<>> /\ incoming' = Tail(incoming))

LEMMA QueueFacts ==
  ASSUME SessionInv, QueueStays
  PROVE  \A i \in DOMAIN incoming' : \E j \in DOMAIN incoming : incoming'[i] = incoming[j]
<1>1. incoming \in Seq(QP!ServerRecord)
  BY DEF SessionInv, QP!RequesterInv, QP!TypeOK
<1>2. PICK now : now = incoming'
  OBVIOUS
<1>3. CASE now = incoming
  BY <1>2, <1>3
<1>4. CASE incoming # <<>> /\ now = Tail(incoming)
  <2>1. \A i \in DOMAIN now : i + 1 \in DOMAIN incoming /\ now[i] = incoming[i + 1]
    BY <1>1, <1>4
  <2> QED
    BY <1>2, <2>1
<1> QED
  BY <1>2, <1>3, <1>4 DEF QueueStays

LEMMA AnsweredStay ==
  ASSUME SessionInv, SentGrows, QueueStays, \E now : now = requests' /\ Modest(now)
  PROVE  AnsweredPart' /\ \A k \in DOMAIN requests' : requests'[k].keep \in KeepModes
<1>1. PICK now : now = requests' /\ Modest(now)
  OBVIOUS
<1>2. AnsweredPart
  BY DEF SessionInv, Glue
<1>3. \A k : Ended(k) => Ended(k)'
  BY ResponderRests
<1>0. PICK queue : queue = incoming'
  OBVIOUS
<1>4. \A i \in DOMAIN queue : queue[i].type = "EndRequest" => Ended(queue[i].request)'
  <2>1. \A i \in DOMAIN queue : \E j \in DOMAIN incoming : queue[i] = incoming[j]
    BY <1>0, QueueFacts
  <2> SUFFICES ASSUME NEW i \in DOMAIN queue, queue[i].type = "EndRequest"
               PROVE  Ended(queue[i].request)'
    OBVIOUS
  <2>2. PICK m : m = queue[i].request
    OBVIOUS
  <2>3. PICK j \in DOMAIN incoming : queue[i] = incoming[j]
    BY <2>1
  <2>4. Ended(m)
    BY <1>2, <2>2, <2>3 DEF AnsweredPart
  <2>5. Ended(m)'
    BY <1>3, <2>4
  <2> QED
    BY <2>2, <2>5
<1>5. \A k \in DOMAIN now : \A i \in DOMAIN now[k].outcomes :
        now[k].outcomes[i].status = "Successful" => Ended(now[k].outcomes[i].answers)'
  <2> SUFFICES ASSUME NEW k \in DOMAIN now, NEW i \in DOMAIN now[k].outcomes,
                      now[k].outcomes[i].status = "Successful"
               PROVE  Ended(now[k].outcomes[i].answers)'
    OBVIOUS
  <2>1. PICK m : m = now[k].outcomes[i].answers
    OBVIOUS
  <2>2. Ended(m)
    BY <1>1, <2>1 DEF Modest
  <2>3. Ended(m)'
    BY <1>3, <2>2
  <2> QED
    BY <2>1, <2>3
<1>6. \A k \in DOMAIN requests' : requests'[k].keep \in KeepModes
  BY <1>1 DEF Modest
<1>7. AnsweredPart'
  BY <1>0, <1>1, <1>4, <1>5 DEF AnsweredPart
<1> QED
  BY <1>6, <1>7

LEMMA LimitsStay ==
  ASSUME SessionInv, SentGrows, QueueStays,
         \/ connectionState' = "Connected" /\ connectionState = "Connected"
            /\ requesterCfg' = requesterCfg
         \/ connectionState' = "Connected" /\ requesterCfg' =
              [maxRequestsNumber |-> Report.maxReqs, multiplexingEnabled |-> Report.mpxs]
         \/ connectionState' # "Connected"
  PROVE  LimitsPart'
<1>1. LimitsPart
  BY DEF SessionInv, Glue
<1>2. /\ UNCHANGED <<responderCfg, requestRegistry, alive, received, handed, wire, exceptions>>
      /\ taken' = taken /\ Report' = Report
  BY ResponderRests
<1>3. \A i \in DOMAIN incoming' : \E j \in DOMAIN incoming : incoming'[i] = incoming[j]
  BY QueueFacts
<1>4. /\ (responderCfg.maxRequestsNumber \in Limits \cup {10})'
      /\ (responderCfg.multiplexingEnabled \in MultiplexingModes \cup {TRUE})'
      /\ (received = <<>> <=> wire = <<>>)'
      /\ (wire # <<>> => wire[1] = Report)'
      /\ (\A i \in DOMAIN wire : wire[i].type = "GetValuesResult" => i = 1)'
  BY <1>1, <1>2 DEF LimitsPart
<1>5. ASSUME NEW i \in DOMAIN incoming'
      PROVE  /\ incoming'[i].type # "UnknownType"
             /\ incoming'[i].type = "GetValuesResult" =>
                  /\ 0 < taken' /\ incoming'[i].kind = "valid"
                  /\ incoming'[i].maxReqs = Report.maxReqs' /\ incoming'[i].mpxs = Report.mpxs'
  <2>1. PICK j \in DOMAIN incoming : incoming'[i] = incoming[j]
    BY <1>3, <1>5
  <2> QED
    BY <1>1, <1>2, <2>1 DEF LimitsPart
<1>6. connectionState' = "Connected" => requesterCfg' =
        [maxRequestsNumber |-> Report.maxReqs', multiplexingEnabled |-> Report.mpxs']
  BY <1>1, <1>2 DEF LimitsPart
<1> QED
  BY <1>4, <1>5, <1>6 DEF LimitsPart

\* The step of the requester then keeps the invariant.
LEMMA RequesterKeepsSession ==
  ASSUME SessionInv, QP!Next, SentGrows, QueueStays, SentPart',
         \A b, c \in DOMAIN sent' : Awaited(b)' /\ Awaited(c)' /\ IdAt(b)' = IdAt(c)' => b = c,
         \E now : now = requests' /\ Modest(now),
         \/ connectionState' = "Connected" /\ connectionState = "Connected"
            /\ requesterCfg' = requesterCfg
         \/ connectionState' = "Connected" /\ requesterCfg' =
              [maxRequestsNumber |-> Report.maxReqs, multiplexingEnabled |-> Report.mpxs]
         \/ connectionState' # "Connected",
         OpeningPart'
  PROVE  SessionInv' /\ [QP!Next]_QP!vars
<1>1. QP!RequesterInv'
  BY RequesterStep DEF SessionInv
<1>2. LimitsPart'
  BY LimitsStay
<1>3. AnsweredPart'
  BY AnsweredStay
<1>4. /\ RP!ResponderInv' /\ exceptions' = 0 /\ RegistryPart' /\ HandedPart' /\ WirePart'
      /\ taken' \in 0..Len(wire') /\ NeverRefused'
      /\ Len(received') <= Len(sent')
      /\ \A i \in DOMAIN received' : received'[i] = sent'[i].record
  BY ResponderRestsWell
<1>5. TransitPart'
  BY <1>4, Zenon DEF TransitPart
<1> QED
  BY <1>1, <1>2, <1>3, <1>4, <1>5 DEF SessionInv, Glue

\* sendRequest on a new connection: the first thing that is written.
LEMMA OpenConnectionKeeps ==
  ASSUME SessionInv, UNCHANGED <<responderVars, taken>>, NEW keep \in KeepModes,
         SendData(GetValues), QP!OpenConnection(keep)
  PROVE  SessionInv' /\ [QP!Next]_QP!vars
<1>1. OpeningPart /\ QP!RequesterInv
  BY DEF SessionInv, Glue
<1>2. ~QP!Throws
  BY <1>1, NoFaults
<1>3. /\ Len(requests) < MaxRequests /\ connectionState = "NotConnected"
      /\ connectionState' = "ConnectionInProgress"
      /\ requests' = Append(requests, [keep |-> keep, handle |-> "opening", cancelled |-> "no",
                                       sends |-> 0, outcomes |-> <<>>])
      /\ cancelHandler' = [request |-> Len(requests) + 1, does |-> QP!Opening]
      /\ UNCHANGED failures /\ incoming' = incoming /\ closed' = closed
  BY <1>2 DEF QP!OpenConnection
<1>4. sent = <<>> /\ ~closed /\ ~failures.died /\ failures.lost = {}
  BY <1>1, <1>3 DEF OpeningPart
<1>5. sent' = sent \o GetValues
  BY <1>4 DEF SendData
<1>6. SentGrows /\ SentPart' /\ Len(sent') = 1 /\ \A b \in DOMAIN sent' : ~Begins(b)'
  BY <1>4, <1>5, QuestionKeeps
<1>7. \E now : now = requests' /\ Modest(now)
  BY <1>3, ModestNew
<1>8. \A k \in DOMAIN requests' : requests'[k].keep \in KeepModes
  BY <1>7 DEF Modest
<1>9. cancelHandler'.request # 0
  <2>1. Len(requests) \in Nat
    BY <1>1 DEF QP!RequesterInv, QP!TypeOK
  <2> QED
    BY <1>3, <2>1
<1>10. OpeningPart'
  BY <1>3, <1>4, <1>6, <1>8, <1>9 DEF OpeningPart
<1>11. QP!Next
  BY DEF QP!Next, QP!ApplicationStep
<1>12. \A b, c \in DOMAIN sent' : Awaited(b)' /\ Awaited(c)' /\ IdAt(b)' = IdAt(c)' => b = c
  BY <1>6 DEF Awaited
<1>13. QueueStays /\ connectionState' # "Connected"
  BY <1>3 DEF QueueStays
<1> QED
  BY <1>6, <1>7, <1>10, <1>11, <1>12, <1>13, RequesterKeepsSession

\* sendRequest while the connection is being opened.
LEMMA RejectRequestKeeps ==
  ASSUME SessionInv, UNCHANGED <<responderVars, taken>>, NEW keep \in KeepModes,
         UNCHANGED sent, QP!RejectRequest(keep)
  PROVE  SessionInv' /\ [QP!Next]_QP!vars
<1>1. OpeningPart
  BY DEF SessionInv, Glue
<1>2. /\ Len(requests) < MaxRequests /\ connectionState = "ConnectionInProgress"
      /\ connectionState' = connectionState
      /\ requests' = Append(requests, [keep |-> keep, handle |-> "none", cancelled |-> "no",
                                       sends |-> 0, outcomes |-> <<>>])
      /\ cancelHandler' = cancelHandler
      /\ UNCHANGED failures /\ incoming' = incoming /\ closed' = closed
  BY DEF QP!RejectRequest
<1>3. \E now : now = requests' /\ Modest(now) /\ DOMAIN requests \subseteq DOMAIN now
  BY <1>2, ModestNew
<1>4. /\ SentGrows /\ SentPart'
      /\ \A b, c \in DOMAIN sent' : Awaited(b)' /\ Awaited(c)' /\ IdAt(b)' = IdAt(c)' => b = c
  BY <1>3, SilenceKeeps
<1>5. \A k \in DOMAIN requests' : requests'[k].keep \in KeepModes
  BY <1>3 DEF Modest
<1>6. OpeningPart'
  BY <1>1, <1>2, <1>5 DEF OpeningPart
<1>7. QP!Next
  BY DEF QP!Next, QP!ApplicationStep
<1>8. QueueStays /\ connectionState' # "Connected"
  BY <1>2 DEF QueueStays
<1> QED
  BY <1>3, <1>4, <1>6, <1>7, <1>8, RequesterKeepsSession

\* sendRequest on an open connection.
LEMMA SendRequestFacts ==
  ASSUME SessionInv, NEW keep \in KeepModes, QP!SendRequest(keep)
  PROVE  /\ connectionState = "Connected" /\ connectionState' = "Connected"
         /\ Len(requests) < MaxRequests
         /\ UNCHANGED <<requesterCfg, cancelHandler, failures, incoming, closed>>
         /\ \E now : now = requests' /\ Modest(now)
                     /\ DOMAIN now = DOMAIN requests \cup {Len(requests) + 1}
<1>1. QP!RequesterInv
  BY DEF SessionInv
<1>2. ~QP!Throws
  BY <1>1, NoFaults
<1>3. /\ connectionState = "Connected" /\ connectionState' = "Connected"
      /\ Len(requests) < MaxRequests
      /\ UNCHANGED <<requesterCfg, cancelHandler, failures, incoming, closed>>
  BY <1>2 DEF QP!SendRequest
<1>4. PICK handle \in {"none", "context"} :
        handle = IF requestIdPool # {} THEN "context" ELSE "none"
  OBVIOUS
<1>5. PICK history : history = Append(requests, [keep |-> keep, handle |-> handle,
                                cancelled |-> "no", sends |-> 0, outcomes |-> <<>>])
  OBVIOUS
<1>6. QP!DoSendRequest(Len(requests) + 1, requestIdPool, history, TRUE)
  BY <1>2, <1>4, <1>5 DEF QP!SendRequest
<1>7. Modest(history) /\ DOMAIN history = DOMAIN requests \cup {Len(requests) + 1}
  BY <1>3, <1>5, ModestNew
<1>8. \E now : now = requests' /\ Modest(now) /\ DOMAIN now = DOMAIN history
  BY <1>6, <1>7, ModestSend
<1> QED
  BY <1>3, <1>7, <1>8

LEMMA SmallestIsSame ==
  ASSUME NEW ids
  PROVE  Requester!SmallestOf(ids) = QP!SmallestOf(ids)
BY DEF Requester!SmallestOf, QP!SmallestOf

LEMMA SendRequestKeeps ==
  ASSUME SessionInv, UNCHANGED <<responderVars, taken>>, NEW keep \in KeepModes,
         QP!SendRequest(keep),
         \/ /\ requestIdPool # {}
            /\ SendData(RequestRecords(Len(requests) + 1,
                                       Requester!SmallestOf(requestIdPool), keep))
         \/ sent' = sent
  PROVE  SessionInv' /\ [QP!Next]_QP!vars
<1>1. OpeningPart /\ QP!RequesterInv /\ QP!TypeOK /\ SentPart /\ TransitPart
  BY DEF SessionInv, Glue, QP!RequesterInv
<1>2. /\ connectionState = "Connected" /\ connectionState' = "Connected"
      /\ Len(requests) < MaxRequests
      /\ UNCHANGED <<requesterCfg, cancelHandler, failures, incoming, closed>>
  BY SendRequestFacts
<1>3. PICK now : now = requests' /\ Modest(now)
                 /\ DOMAIN now = DOMAIN requests \cup {Len(requests) + 1}
  BY SendRequestFacts
<1>4. sent # <<>>
  BY <1>1, <1>2 DEF OpeningPart
<1>5. /\ SentGrows /\ SentPart' /\ sent' # <<>>
      /\ \A b, c \in DOMAIN sent' : Awaited(b)' /\ Awaited(c)' /\ IdAt(b)' = IdAt(c)' => b = c
  <2>1. CASE sent' = sent
    <3>1. DOMAIN requests \subseteq DOMAIN requests'
      BY <1>3
    <3> QED
      BY <1>4, <2>1, <3>1, SilenceKeeps
  <2>2. CASE /\ requestIdPool # {} /\ ~closed
             /\ SendData(RequestRecords(Len(requests) + 1,
                                        Requester!SmallestOf(requestIdPool), keep))
    <3>1. PICK k, id : k = Len(requests) + 1 /\ id = QP!SmallestOf(requestIdPool)
      OBVIOUS
    <3>2. requestIdPool \subseteq QP!RequestIds /\ requestIdPool # {}
      BY <1>1, <2>2 DEF QP!TypeOK
    <3>3. id \in requestIdPool /\ id \in Ids
      <4>1. id \in requestIdPool
        BY <3>1, <3>2, RequesterConstants, QP!SmallestId, Zenon
      <4> QED
        BY <3>2, <4>1 DEF QP!RequestIds, Ids
    <3>4. sent' = sent \o RequestRecords(k, id, keep)
      BY <2>2, <3>1, SmallestIsSame DEF SendData
    <3>5. k \in Requests /\ DOMAIN requests \subseteq DOMAIN requests' /\ k \in DOMAIN requests'
      <4>1. Len(requests) \in Nat
        BY <1>1 DEF QP!TypeOK
      <4>2. k \in Requests
        BY <1>2, <3>1, <4>1, BoundsAssumption DEF Requests
      <4> QED
        BY <1>3, <3>1, <4>2
    <3>6. ASSUME NEW b \in DOMAIN sent, Begins(b)
          PROVE  sent[b].request < k
      <4>1. PICK m \in DOMAIN requests : sent[b].request = m
        BY <1>1, <3>6, WholeRequest
      <4>2. m \in 1..Len(requests) /\ Len(requests) \in Nat
        BY <1>1 DEF QP!TypeOK
      <4> QED
        BY <3>1, <4>1, <4>2
    <3>7. ASSUME NEW b, Awaited(b)
          PROVE  IdAt(b) # id
      BY <1>1, <3>3, <3>7, AwaitedIsUsed
    <3>8. BlockAdded(k, id, keep)
      BY <1>4, <3>4, <3>5, <3>6, <3>7 DEF BlockAdded
    <3> QED
      BY <3>3, <3>5, <3>8, BlockKeeps
  <2>3. CASE closed
    <3>1. sent' = sent
      <4>1. CASE SendData(RequestRecords(Len(requests) + 1,
                                         Requester!SmallestOf(requestIdPool), keep))
        <5>1. sent' = sent \o <<>>
          BY <2>3, <4>1 DEF SendData
        <5>2. sent \in Seq(SentRecord)
          BY <1>1 DEF SentPart
        <5> QED
          BY <5>1, <5>2
      <4> QED
        BY <4>1
    <3> QED
      BY <2>1, <3>1
  <2> QED
    BY <2>1, <2>2, <2>3
<1>6. \A k \in DOMAIN requests' : requests'[k].keep \in KeepModes
  BY <1>3 DEF Modest
<1>7. taken' = taken
  OBVIOUS
<1>8. OpeningPart'
  BY <1>1, <1>2, <1>5, <1>6, <1>7 DEF OpeningPart
<1>9. QP!Next
  BY DEF QP!Next, QP!ApplicationStep
<1>10. QueueStays
  BY <1>2 DEF QueueStays
<1> QED
  BY <1>2, <1>3, <1>5, <1>8, <1>9, <1>10, RequesterKeepsSession

LEMMA CallSendRequestKeeps ==
  ASSUME SessionInv, CallSendRequest
  PROVE  SessionInv' /\ [QP!Next]_QP!vars
<1>1. UNCHANGED <<responderVars, taken>>
  BY DEF CallSendRequest
<1>2. PICK keep \in KeepModes :
        \/ SendData(GetValues) /\ Requester!OpenConnection(keep)
        \/ /\ requestIdPool # {}
           /\ SendData(RequestRecords(Len(requests) + 1,
                                      Requester!SmallestOf(requestIdPool), keep))
           /\ Requester!SendRequest(keep)
        \/ requestIdPool = {} /\ UNCHANGED sent /\ Requester!SendRequest(keep)
        \/ UNCHANGED sent /\ Requester!RejectRequest(keep)
  BY DEF CallSendRequest
<1>3. \/ SendData(GetValues) /\ QP!OpenConnection(keep)
      \/ /\ QP!SendRequest(keep)
         /\ \/ /\ requestIdPool # {}
               /\ SendData(RequestRecords(Len(requests) + 1,
                                          Requester!SmallestOf(requestIdPool), keep))
            \/ sent' = sent
      \/ UNCHANGED sent /\ QP!RejectRequest(keep)
  BY <1>2, RequesterHandlers, Zenon
<1> QED
  BY <1>1, <1>3, OpenConnectionKeeps, SendRequestKeeps, RejectRequestKeeps

\* The requester does something on its own.
LEMMA SilentStep ==
  ASSUME SessionInv, QP!Next, sent' = sent, UNCHANGED <<responderVars, taken>>, QueueStays,
         UNCHANGED <<connectionState, requesterCfg, cancelHandler, failures>>,
         closed' = closed \/ connectionState = "Connected",
         \E now : now = requests' /\ Modest(now) /\ DOMAIN requests \subseteq DOMAIN now
  PROVE  SessionInv' /\ [QP!Next]_QP!vars
<1>1. OpeningPart
  BY DEF SessionInv, Glue
<1>2. /\ SentGrows /\ SentPart'
      /\ \A b, c \in DOMAIN sent' : Awaited(b)' /\ Awaited(c)' /\ IdAt(b)' = IdAt(c)' => b = c
  BY SilenceKeeps
<1>3. \A k \in DOMAIN requests' : requests'[k].keep \in KeepModes
  BY DEF Modest
<1>4. connectionState' # "Connected" => ~closed'
  BY <1>1 DEF OpeningPart
<1>5. OpeningPart'
  BY <1>1, <1>3, <1>4 DEF OpeningPart
<1> QED
  BY <1>2, <1>5, RequesterKeepsSession

LEMMA HandlerReturnsKeeps ==
  ASSUME SessionInv, HandlerReturns
  PROVE  SessionInv' /\ [QP!Next]_QP!vars
<1>1. QP!FinishEndRequest /\ UNCHANGED <<responderVars, sent, taken>>
  BY RequesterHandlers DEF HandlerReturns
<1>2. QP!OpensOnce
  BY RequesterKeeps DEF SessionInv
<1>3. connectionState = "Connected"
  BY <1>1, <1>2 DEF QP!OpensOnce, QP!FinishEndRequest
<1>4. /\ UNCHANGED <<connectionState, requesterCfg, cancelHandler, failures>>
      /\ requests' = requests /\ incoming' = incoming
  BY <1>1 DEF QP!FinishEndRequest
<1>5. QP!Next /\ QueueStays
  BY <1>1, <1>4 DEF QP!Next, QueueStays
<1>6. Modest(requests)
  BY ModestNow
<1> QED
  BY <1>1, <1>3, <1>4, <1>5, <1>6, SilentStep

-----------------------------------------------------------------------------
(* What the requester reads                                                 *)

\* The kinds of records that reach it.
LEMMA NextFacts ==
  ASSUME SessionInv, NEW r, QP!IsNext(r)
  PROVE  /\ r \in QP!ServerRecord /\ r = Head(incoming)
         /\ r.type # "UnknownType"
         /\ r.type = "GetValuesResult" =>
              /\ 0 < taken /\ r.kind = "valid" /\ r.maxReqs = Report.maxReqs
              /\ r.mpxs = Report.mpxs /\ connectionState = "ConnectionInProgress"
         /\ r.type = "EndRequest" => Ended(r.request)
<1>1. incoming \in Seq(QP!ServerRecord) /\ incoming # <<>> /\ r = Head(incoming)
  BY DEF QP!IsNext, SessionInv, QP!RequesterInv, QP!TypeOK
<1>2. 1 \in DOMAIN incoming /\ r = incoming[1] /\ r \in QP!ServerRecord
  BY <1>1
<1>3. LimitsPart /\ AnsweredPart /\ QP!AskedOnce
  BY RequesterKeeps DEF SessionInv, Glue
<1>4. r.type = "GetValuesResult" => connectionState = "ConnectionInProgress"
  BY <1>2, <1>3 DEF QP!AskedOnce, QP!IsResult
<1>5. r.type = "EndRequest" => Ended(r.request)
  BY <1>2, <1>3 DEF AnsweredPart
<1> QED
  BY <1>1, <1>2, <1>3, <1>4, <1>5 DEF LimitsPart

LEMMA ReadFacts ==
  ASSUME SessionInv, NEW r, QP!Receive(r)
  PROVE  /\ r \in QP!ServerRecord /\ r = Head(incoming) /\ QueueStays
         /\ r.type # "UnknownType"
         /\ r.type = "EndRequest" => Ended(r.request)
<1>1. QP!IsNext(r) /\ incoming # <<>> /\ incoming' = Tail(incoming)
  BY DEF QP!Receive, QP!IsNext
<1> QED
  BY <1>1, NextFacts DEF QueueStays

\* doEndRequest up to the call of the handler.
LEMMA EndRequestKeeps ==
  ASSUME SessionInv, NEW r, QP!OnEndRequest(r), QP!OnRecordRead, sent' = sent,
         UNCHANGED <<responderVars, taken>>
  PROVE  SessionInv' /\ [QP!Next]_QP!vars
<1>1. QP!Receive(r) /\ r.type = "EndRequest" /\ QP!InUse(r.id)
  BY DEF QP!OnEndRequest
<1>2. r \in QP!ServerRecord /\ Ended(r.request) /\ QueueStays
  BY <1>1, ReadFacts
<1>3. r.id \in QP!RequestIds /\ r.request \in Nat
  <2>1. r.id \in QP!RequestIds /\ r.request \in QP!Requests
    BY <1>1, <1>2 DEF QP!ServerRecord, QP!StreamTypes
  <2> QED
    BY <2>1, BoundsAssumption DEF QP!Requests
<1>4. QP!TypeOK /\ QP!ContextsPart /\ Modest(requests)
  BY RequesterKeeps, ModestNow DEF SessionInv
<1>5. PICK context : context = responseMap[r.id]
  OBVIOUS
<1>6. context \in QP!ResponseContext /\ context.request \in DOMAIN requests
  BY <1>1, <1>3, <1>4, <1>5 DEF QP!TypeOK, QP!ContextsPart, QP!InUse
<1>7. PICK status \in {"Successful", "Failed"} :
        status = IF r.status = "RequestComplete" THEN "Successful" ELSE "Failed"
  OBVIOUS
<1>8. PICK outcome :
        outcome = IF status = "Successful"
                  THEN [status |-> status, answers |-> r.request, data |-> context.data,
                        errorMsg |-> context.errorMsg]
                  ELSE QP!NoResponse(status, r.request)
  OBVIOUS
<1>9. requests' = QP!CallsHandler(requests, context.request, outcome)
  BY <1>5, <1>7, <1>8 DEF QP!OnEndRequest, QP!BeginEndRequest
<1>10. outcome \in QP!Outcome /\ outcome.answers = r.request
  <2>1. CASE status = "Successful"
    <3>1. outcome = [status |-> "Successful", answers |-> r.request, data |-> context.data,
                     errorMsg |-> context.errorMsg]
      BY <1>8, <2>1
    <3>2. context.data \in Seq(QP!Piece) /\ context.errorMsg \in Seq(QP!Piece)
      BY <1>6 DEF QP!ResponseContext
    <3> QED
      BY <1>3, <3>1, <3>2 DEF QP!Outcome
  <2>2. CASE status = "Failed"
    <3>1. outcome = QP!NoResponse("Failed", r.request)
      BY <1>8, <2>2
    <3>2. QP!NoResponse("Failed", r.request) \in QP!Outcome
      BY <1>3, RequesterConstants, QP!NoResponseType
    <3> QED
      BY <3>1, <3>2 DEF QP!NoResponse
  <2> QED
    BY <2>1, <2>2
<1>11. /\ Modest(QP!CallsHandler(requests, context.request, outcome))
       /\ DOMAIN QP!CallsHandler(requests, context.request, outcome) = DOMAIN requests
  BY <1>2, <1>4, <1>6, <1>10, ModestCall
<1>12. UNCHANGED <<connectionState, requesterCfg, cancelHandler, failures, closed>>
  BY DEF QP!OnEndRequest
<1>13. QP!Next
  BY DEF QP!Next
<1> QED
  BY <1>2, <1>9, <1>11, <1>12, <1>13, SilentStep

\* StdOut, StdErr, or a record under an id that is not in use.
LEMMA StreamRecordKeeps ==
  ASSUME SessionInv, NEW r, QP!OnUnexpectedRecord(r) \/ QP!OnStdOut(r) \/ QP!OnStdErr(r),
         QP!OnRecordRead, sent' = sent, UNCHANGED <<responderVars, taken>>
  PROVE  SessionInv' /\ [QP!Next]_QP!vars
<1>1. QP!Receive(r)
  BY DEF QP!OnUnexpectedRecord, QP!OnStdOut, QP!OnStdErr
<1>2. QueueStays
  BY <1>1, ReadFacts
<1>3. UNCHANGED <<connectionState, requesterCfg, cancelHandler, failures, closed, requests>>
  BY DEF QP!OnUnexpectedRecord, QP!OnStdOut, QP!OnStdErr, QP!requesterVars
<1>4. Modest(requests)
  BY ModestNow
<1>5. QP!Next
  BY DEF QP!Next
<1> QED
  BY <1>2, <1>3, <1>4, <1>5, SilentStep

\* onConnectionSuccess_: the request that opened the connection is sent.
LEMMA ConnectionFacts ==
  ASSUME SessionInv, NEW r, QP!OnGetValuesResult(r)
  PROVE  LET pool == QP!AllIds([maxRequestsNumber |-> r.maxReqs, multiplexingEnabled |-> r.mpxs])
         IN  /\ r.type = "GetValuesResult" /\ QP!Receive(r)
             /\ 0 < taken /\ connectionState = "ConnectionInProgress"
             /\ pendingRequest \in DOMAIN requests
             /\ connectionState' = "Connected"
             /\ requesterCfg' = [maxRequestsNumber |-> Report.maxReqs,
                                 multiplexingEnabled |-> Report.mpxs]
             /\ pool \subseteq Ids /\ pool # {}
             /\ QP!DoSendRequest(pendingRequest, pool, requests, TRUE)
             /\ QP!RedirectHandle({id \in QP!RequestIds : responseMap'[id] # NoContext})
             /\ closed' = closed /\ ~closed /\ Len(sent) = 1
             /\ cancelHandler.request # 0
<1>1. QP!IsNext(r) /\ r.type = "GetValuesResult"
  BY DEF QP!OnGetValuesResult, QP!Receive, QP!ReceiveAndThrow
<1>2. /\ 0 < taken /\ r.kind = "valid" /\ r.maxReqs = Report.maxReqs
      /\ r.mpxs = Report.mpxs /\ connectionState = "ConnectionInProgress"
  BY <1>1, NextFacts
<1>3. QP!TypeOK /\ QP!OpensOnce /\ OpeningPart /\ LimitsPart /\ RP!TypeOK
  BY RequesterKeeps DEF SessionInv, Glue, RP!ResponderInv
<1>4. pendingRequest # 0 /\ pendingRequest \in DOMAIN requests
  BY <1>2, <1>3 DEF QP!OpensOnce, QP!TypeOK
<1>5. ~closed /\ Len(sent) = 1 /\ cancelHandler.request # 0
  BY <1>2, <1>3 DEF OpeningPart
<1>6. PICK limits : limits = [maxRequestsNumber |-> r.maxReqs, multiplexingEnabled |-> r.mpxs]
  OBVIOUS
<1>7. ~(QP!Faults < 0)
  BY NoFaults DEF SessionInv
<1>8. /\ requesterCfg' = limits /\ connectionState' = "Connected" /\ closed' = closed
      /\ QP!Receive(r)
      /\ QP!DoSendRequest(pendingRequest, QP!AllIds(limits), requests, TRUE)
      /\ QP!RedirectHandle({id \in QP!RequestIds : responseMap'[id] # NoContext})
  BY <1>2, <1>4, <1>6, <1>7, Zenon DEF QP!OnGetValuesResult
<1>9. r.maxReqs \in Nat \ {0} /\ r.mpxs \in BOOLEAN
  <2>1. /\ Report.maxReqs = responderCfg.maxRequestsNumber
        /\ Report.mpxs = responderCfg.multiplexingEnabled
    BY DEF Report
  <2>2. r.maxReqs \in Limits \cup {10} /\ r.mpxs \in MultiplexingModes \cup {TRUE}
    BY <1>2, <1>3, <2>1 DEF LimitsPart
  <2>3. r.maxReqs \in Nat \ {0}
    <3>1. CASE r.maxReqs \in Limits
      BY <3>1, LimitsAssumption
    <3>2. CASE r.maxReqs = 10
      BY <3>2
    <3> QED
      BY <2>2, <3>1, <3>2
  <2>4. r.mpxs \in BOOLEAN
    BY <2>2, ModesAssumption
  <2> QED
    BY <2>3, <2>4
<1>10. QP!AllIds(limits) \subseteq Ids
  <2>1. limits \in [maxRequestsNumber : Int, multiplexingEnabled : BOOLEAN]
    BY <1>6, <1>9
  <2>2. QP!AllIds(limits) \subseteq QP!RequestIds
    BY <2>1, RequesterConstants, QP!AllIdsType
  <2> QED
    BY <2>2 DEF QP!RequestIds, Ids
<1>11. QP!AllIds(limits) # {}
  <2>1. 1 \in 1..limits.maxRequestsNumber
    BY <1>6, <1>9
  <2>2. 1 % IdLimit \in QP!generateRequestIds(limits.maxRequestsNumber)
    BY <2>1 DEF QP!generateRequestIds
  <2> QED
    BY <2>2 DEF QP!AllIds
<1> QED
  BY <1>1, <1>2, <1>4, <1>5, <1>6, <1>7, <1>8, <1>10, <1>11

LEMMA PoolIsSame ==
  ASSUME NEW limits
  PROVE  Requester!AllIds(limits) = QP!AllIds(limits)
BY DEF Requester!AllIds, QP!AllIds, Requester!generateRequestIds, QP!generateRequestIds

LEMMA ConnectionKeeps ==
  ASSUME SessionInv, NEW r, QP!OnGetValuesResult(r), QP!OnRecordRead,
         SendData(WrittenFor(Head(incoming))), UNCHANGED <<responderVars, taken>>
  PROVE  SessionInv' /\ [QP!Next]_QP!vars
<1>1. PICK limits, pool, k :
        /\ limits = [maxRequestsNumber |-> r.maxReqs, multiplexingEnabled |-> r.mpxs]
        /\ pool = QP!AllIds(limits) /\ k = pendingRequest
  OBVIOUS
<1>2. /\ r.type = "GetValuesResult" /\ QP!Receive(r)
      /\ 0 < taken /\ connectionState = "ConnectionInProgress"
      /\ k \in DOMAIN requests /\ connectionState' = "Connected"
      /\ requesterCfg' = [maxRequestsNumber |-> Report.maxReqs,
                          multiplexingEnabled |-> Report.mpxs]
      /\ pool \subseteq Ids /\ pool # {}
      /\ QP!DoSendRequest(k, pool, requests, TRUE)
      /\ QP!RedirectHandle({id \in QP!RequestIds : responseMap'[id] # NoContext})
      /\ closed' = closed /\ ~closed /\ Len(sent) = 1 /\ cancelHandler.request # 0
  BY <1>1, ConnectionFacts
<1>3. /\ QP!TypeOK /\ OpeningPart /\ SentPart /\ TransitPart /\ QP!RequesterInv
      /\ Modest(requests)
  BY ModestNow DEF SessionInv, Glue, QP!RequesterInv
<1>4. r = Head(incoming) /\ QueueStays
  BY <1>2, ReadFacts
<1>5. PICK id, keep : id = QP!SmallestOf(pool) /\ keep = requests[k].keep
  OBVIOUS
<1>6. id \in pool /\ id \in Ids
  <2>1. pool \subseteq QP!RequestIds
    BY <1>2 DEF QP!RequestIds, Ids
  <2>2. id \in pool
    BY <1>2, <1>5, <2>1, RequesterConstants, QP!SmallestId, Zenon
  <2> QED
    BY <1>2, <2>2
<1>7. sent' = sent \o RequestRecords(k, id, keep)
  <2>1. WrittenFor(r) = RequestRecords(k, id, keep)
    BY <1>1, <1>2, <1>5, PoolIsSame, SmallestIsSame DEF WrittenFor
  <2> QED
    BY <1>2, <1>4, <2>1 DEF SendData
<1>8. PICK now : now = requests' /\ Modest(now) /\ DOMAIN now = DOMAIN requests
  BY <1>2, <1>3, ModestSend
<1>9. k \in Requests /\ keep \in KeepModes
  <2>1. Len(requests) \in Nat /\ Len(requests) <= MaxRequests /\ DOMAIN requests = 1..Len(requests)
    BY <1>3 DEF QP!TypeOK
  <2>2. k \in Requests
    BY <1>2, <2>1, BoundsAssumption DEF Requests
  <2> QED
    BY <1>2, <1>3, <1>5, <2>2 DEF Modest
<1>10. DOMAIN sent = {1} /\ sent # <<>>
  <2>1. sent \in Seq(SentRecord)
    BY <1>3 DEF SentPart
  <2> QED
    BY <1>2, <2>1
<1>11. \A b : ~Begins(b)
  <2>1. sent[1].record.type = "GetValues"
    BY <1>3, <1>10 DEF SentPart, GetValues
  <2> QED
    BY <1>10, <2>1 DEF Begins
<1>12. BlockAdded(k, id, keep)
  BY <1>2, <1>7, <1>8, <1>11, <1>10 DEF BlockAdded, Awaited
<1>13. /\ SentGrows /\ SentPart' /\ sent' # <<>>
       /\ \A b, c \in DOMAIN sent' : Awaited(b)' /\ Awaited(c)' /\ IdAt(b)' = IdAt(c)' => b = c
  BY <1>6, <1>9, <1>12, BlockKeeps
<1>14. QP!Next
  BY DEF QP!Next
<1>15. PICK used : used = {i \in QP!RequestIds : responseMap'[i] # NoContext}
  OBVIOUS
<1>16. used # {}
  <2>1. PICK context : context = [request |-> k, keepConnection |-> keep,
                                  data |-> <<>>, errorMsg |-> <<>>]
    OBVIOUS
  <2>2. responseMap' = IF QP!InUse(id) THEN responseMap
                       ELSE [responseMap EXCEPT ![id] = context]
    BY <1>2, <1>5, <2>1 DEF QP!DoSendRequest
  <2>3. id \in QP!RequestIds
    BY <1>6 DEF QP!RequestIds, Ids
  <2>4. context # NoContext
    <3>1. k \in QP!Requests /\ keep \in BOOLEAN
      BY <1>9, ModesAssumption DEF QP!Requests, Requests
    <3>2. <<>> \in Seq(QP!Piece)
      OBVIOUS
    <3>3. context \in QP!ResponseContext
      BY <2>1, <3>1, <3>2 DEF QP!ResponseContext
    <3>4. NoContext \notin QP!ResponseContext
      BY RequesterConstants
    <3> QED
      BY <3>3, <3>4
  <2>5. DOMAIN responseMap = QP!RequestIds
    BY <1>3 DEF QP!TypeOK
  <2>6. responseMap'[id] # NoContext
    BY <2>2, <2>3, <2>4, <2>5 DEF QP!InUse
  <2> QED
    BY <1>15, <2>3, <2>6
<1>17. failures' = failures /\ cancelHandler'.request # 0
  <2>1. cancelHandler' = [cancelHandler EXCEPT !.does = QP!SmallestOf(used)] /\ failures' = failures
    BY <1>2, <1>15, <1>16 DEF QP!RedirectHandle
  <2>2. cancelHandler \in [request : 0..Len(requests), does : QP!RequestIds \cup {QP!Opening}]
    BY <1>3 DEF QP!TypeOK
  <2>3. cancelHandler'.request = cancelHandler.request
    BY <2>1, <2>2
  <2> QED
    BY <1>2, <2>1, <2>3
<1>18. \A m \in DOMAIN requests' : requests'[m].keep \in KeepModes
  BY <1>8 DEF Modest
<1>19. taken' = taken
  OBVIOUS
<1>20. OpeningPart'
  BY <1>2, <1>3, <1>13, <1>17, <1>18, <1>19 DEF OpeningPart
<1> QED
  BY <1>2, <1>4, <1>8, <1>13, <1>14, <1>20, RequesterKeepsSession

LEMMA RequesterReceivesKeeps ==
  ASSUME SessionInv, RequesterReceives
  PROVE  SessionInv' /\ [QP!Next]_QP!vars
<1>1. /\ UNCHANGED <<responderVars, taken>> /\ SendData(WrittenFor(Head(incoming)))
      /\ QP!OnRecordRead
  BY RequesterHandlers DEF RequesterReceives
<1>2. PICK r : \/ QP!OnInvalidGetValuesResult(r) \/ QP!OnGetValuesResult(r)
               \/ QP!OnUnexpectedRecord(r) \/ QP!OnStdOut(r) \/ QP!OnStdErr(r)
               \/ QP!OnEndRequest(r) \/ QP!OnUnknownType(r)
  BY <1>1 DEF QP!OnRecordRead
<1>3. ASSUME QP!Receive(r), r.type # "GetValuesResult"
      PROVE  sent' = sent
  <2>1. r = Head(incoming)
    BY <1>3, ReadFacts
  <2>2. sent' = sent \o <<>>
    BY <1>1, <1>3, <2>1 DEF SendData, WrittenFor
  <2>3. sent \in Seq(SentRecord)
    BY DEF SessionInv, Glue, SentPart
  <2> QED
    BY <2>2, <2>3
<1>4. CASE QP!OnInvalidGetValuesResult(r)
  <2>1. QP!IsNext(r) /\ r.type = "GetValuesResult" /\ r.kind \in {"badMaxReqs", "badMpxsConns"}
    BY <1>4 DEF QP!OnInvalidGetValuesResult, QP!Receive, QP!ReceiveAndThrow
  <2> QED
    BY <2>1, NextFacts
<1>5. CASE QP!OnGetValuesResult(r)
  BY <1>1, <1>5, ConnectionKeeps
<1>6. CASE QP!OnUnexpectedRecord(r) \/ QP!OnStdOut(r) \/ QP!OnStdErr(r)
  <2>1. QP!Receive(r) /\ r.type # "GetValuesResult"
    BY <1>6 DEF QP!OnUnexpectedRecord, QP!OnStdOut, QP!OnStdErr
  <2> QED
    BY <1>1, <1>3, <1>6, <2>1, StreamRecordKeeps
<1>7. CASE QP!OnEndRequest(r)
  <2>1. QP!Receive(r) /\ r.type # "GetValuesResult"
    BY <1>7 DEF QP!OnEndRequest
  <2> QED
    BY <1>1, <1>3, <1>7, <2>1, EndRequestKeeps
<1>8. CASE QP!OnUnknownType(r)
  <2>1. QP!IsNext(r) /\ r.type = "UnknownType"
    BY <1>8 DEF QP!OnUnknownType, QP!Receive, QP!ReceiveAndThrow
  <2> QED
    BY <2>1, NextFacts
<1> QED
  BY <1>2, <1>4, <1>5, <1>6, <1>7, <1>8

-----------------------------------------------------------------------------
(* The theorems                                                             *)

LEMMA SessionStart ==
  ASSUME Init
  PROVE  SessionInv
<1>1. RP!Init /\ QP!Init /\ sent = <<>> /\ taken = 0
  BY ResponderHandlers, RequesterHandlers DEF Init
<1>2. RP!ResponderInv /\ exceptions = 0
  BY <1>1, ResponderConstants, RP!InitResponder DEF RP!Init
<1>3. QP!RequesterInv
  BY <1>1, RequesterConstants, QP!InitRequester
<1>4. /\ responderCfg = [maxConnectionsNumber |-> 1, maxRequestsNumber |-> 10,
                         multiplexingEnabled |-> TRUE]
      /\ requestRegistry = [id \in Ids |-> Unregistered]
      /\ received = <<>> /\ handed = <<>> /\ wire = <<>>
      /\ connectionState = "NotConnected" /\ requests = <<>> /\ incoming = <<>>
      /\ closed = FALSE /\ failures.died = FALSE /\ failures.lost = {}
  BY <1>1 DEF RP!Init, QP!Init
<1>5. DOMAIN <<>> = {} /\ Len(<<>>) = 0
  OBVIOUS
<1>6. /\ DOMAIN sent = {} /\ DOMAIN received = {} /\ DOMAIN handed = {} /\ DOMAIN wire = {}
      /\ DOMAIN requests = {} /\ DOMAIN incoming = {}
      /\ Len(sent) = 0 /\ Len(received) = 0 /\ Len(wire) = 0
  BY <1>1, <1>4, <1>5
<1>7. \A b : ~Begins(b)
  BY <1>6 DEF Begins
<1>8. OpeningPart
  BY <1>1, <1>4, <1>6 DEF OpeningPart
<1>9. SentPart
  BY <1>1, <1>6 DEF SentPart
<1>10. LimitsPart
  BY <1>4, <1>6 DEF LimitsPart
<1>11. TransitPart
  BY <1>1, <1>6, <1>7 DEF TransitPart, NeverRefused, Awaited
<1>12. RegistryPart
  <2>1. \A id \in Ids : ~RP!Registered(id)
    BY <1>4 DEF RP!Registered
  <2> QED
    BY <1>6, <2>1 DEF RegistryPart
<1>13. HandedPart /\ WirePart
  BY <1>6 DEF HandedPart, WirePart
<1>14. AnsweredPart
  BY <1>6 DEF AnsweredPart
<1> QED
  BY <1>2, <1>3, <1>8, <1>9, <1>10, <1>11, <1>12, <1>13, <1>14 DEF SessionInv, Glue

LEMMA SessionRests ==
  ASSUME SessionInv, UNCHANGED vars
  PROVE  SessionInv' /\ UNCHANGED QP!vars
<1>1. /\ UNCHANGED <<responderVars, taken, sent>>
      /\ UNCHANGED <<connectionState, requesterCfg, requestIdPool, responseMap, pendingRequest,
                     cancelHandler, ending, requests, closed, failures, incoming>>
      /\ UNCHANGED <<wire, handed>>
  BY DEF vars, requesterVars, responderVars
<1>2. Serving' = Serving /\ Output' = Output /\ GetValuesOwed' = GetValuesOwed
  BY <1>1 DEF Serving, Output, GetValuesOwed, Crossed, RequestOf, IsPiece
<1>3. UNCHANGED QP!vars
  BY <1>1, <1>2 DEF QP!vars, QP!requesterVars, QP!serverVars
<1>4. QP!RequesterInv'
  BY <1>3, RequesterStep DEF SessionInv
<1>5. \E now : now = requests' /\ Modest(now) /\ DOMAIN requests \subseteq DOMAIN now
  BY <1>1, ModestNow
<1>6. /\ SentGrows /\ SentPart'
      /\ \A b, c \in DOMAIN sent' : Awaited(b)' /\ Awaited(c)' /\ IdAt(b)' = IdAt(c)' => b = c
  BY <1>1, <1>5, SilenceKeeps
<1>7. QueueStays
  BY <1>1 DEF QueueStays
<1>8. OpeningPart'
  BY <1>1 DEF OpeningPart, SessionInv, Glue
<1>9. LimitsPart' /\ AnsweredPart'
  BY <1>1, <1>5, <1>6, <1>7, LimitsStay, AnsweredStay
<1>10. /\ RP!ResponderInv' /\ exceptions' = 0 /\ RegistryPart' /\ HandedPart' /\ WirePart'
       /\ taken' \in 0..Len(wire') /\ NeverRefused'
       /\ Len(received') <= Len(sent')
       /\ \A i \in DOMAIN received' : received'[i] = sent'[i].record
  BY <1>6, ResponderRestsWell
<1>11. TransitPart'
  BY <1>6, <1>10, Zenon DEF TransitPart
<1> QED
  BY <1>3, <1>4, <1>6, <1>8, <1>9, <1>10, <1>11 DEF SessionInv, Glue

LEMMA SessionStep ==
  ASSUME SessionInv, [Next]_vars
  PROVE  SessionInv' /\ [QP!Next]_QP!vars
<1>1. CASE CallSendRequest
  BY <1>1, CallSendRequestKeeps
<1>2. CASE RequesterReceives
  BY <1>2, RequesterReceivesKeeps
<1>3. CASE HandlerReturns
  BY <1>3, HandlerReturnsKeeps
<1>4. CASE Cross
  BY <1>4, CrossKeeps
<1>5. CASE ResponderReceives
  BY <1>5, ResponderReceivesKeeps
<1>6. CASE \E k \in DOMAIN handed : AnswerRequest(k)
  BY <1>6, AnswerKeeps
<1>7. CASE Configure
  BY <1>7, ConfigureKeeps
<1>8. CASE UNCHANGED vars
  BY <1>8, SessionRests
<1> QED
  BY <1>1, <1>2, <1>3, <1>4, <1>5, <1>6, <1>7, <1>8 DEF Next

\* However requests and answers cross, what is on its way between the two sides
\* fits what each of them remembers (requestIdPool_ and responseMap_ against
\* requestRegistry_ and the requests the application has).
THEOREM SessionInvariant == Spec => []SessionInv
<1>1. Init => SessionInv
  BY SessionStart
<1>2. SessionInv /\ [Next]_vars => SessionInv'
  BY SessionStep
<1> QED
  BY <1>1, <1>2, PTL DEF Spec

\* A requester that keeps to the limits it was told is never refused: whatever
\* limits the responder was configured with, each EndRequest it writes says
\* RequestComplete (sendRequest and requestIdPool_ against onBeginRequest).
THEOREM NeverRefusedTheorem == Spec => []NeverRefused
<1>1. SessionInv => NeverRefused
  BY DEF SessionInv, Glue, TransitPart
<1> QED
  BY <1>1, SessionInvariant, PTL

\* The instance that brings the requester's theorems has the same steps as the
\* one of Session.
LEMMA RequesterSteps ==
  /\ QP!Next <=> Requester!Next
  /\ UNCHANGED QP!vars => UNCHANGED Requester!vars
<1>1. UNCHANGED QP!vars => UNCHANGED Requester!vars
  BY DEF QP!vars, QP!requesterVars, QP!serverVars, Requester!vars, Requester!requesterVars,
         Requester!serverVars
<1>2. \A k : ~QP!CancelRequest(k) /\ ~Requester!CancelRequest(k)
  BY DEF QP!CancelRequest, Requester!CancelRequest
<1>3. QP!ApplicationStep <=> Requester!ApplicationStep
  BY <1>2, RequesterHandlers, Zenon DEF QP!ApplicationStep, Requester!ApplicationStep
<1>4. \A r : QP!ServerSends(r) <=> Requester!ServerSends(r)
  BY DEF QP!ServerSends, Requester!ServerSends, QP!Running, Requester!Running
<1>5. QP!AnswerGetValues <=> Requester!AnswerGetValues
  BY <1>4, Zenon
     DEF QP!AnswerGetValues, Requester!AnswerGetValues, QP!requesterVars,
         Requester!requesterVars, QP!Faults, Requester!Faults, QP!CancelledIn,
         Requester!CancelledIn, QP!Cardinality, Requester!Cardinality
<1>6. \A id, type : QP!SendPiece(id, type) <=> Requester!SendPiece(id, type)
  BY <1>4, Zenon
     DEF QP!SendPiece, Requester!SendPiece, QP!requesterVars, Requester!requesterVars
<1>7. \A id : QP!EndServing(id) <=> Requester!EndServing(id)
  BY <1>4, Zenon
     DEF QP!EndServing, Requester!EndServing, QP!requesterVars, Requester!requesterVars
<1>8. \A id : ~QP!SendUnknownType(id) /\ ~Requester!SendUnknownType(id)
  BY DEF QP!SendUnknownType, Requester!SendUnknownType
<1>9. QP!RequestIds = Requester!RequestIds /\ QP!StreamTypes = Requester!StreamTypes
  BY DEF QP!RequestIds, Requester!RequestIds, QP!StreamTypes, Requester!StreamTypes
<1>10. QP!ServerStep <=> Requester!ServerStep
  BY <1>5, <1>6, <1>7, <1>8, <1>9, Zenon DEF QP!ServerStep, Requester!ServerStep
<1>11. QP!LeaveEndRequest <=> Requester!LeaveEndRequest
  BY ZenonT(60)
     DEF QP!LeaveEndRequest, QP!serverVars, QP!Running, QP!Last, QP!InUse, QP!HasEntry,
         QP!KeepRead, QP!LosesRecords, QP!OneMoreException, QP!Faults, QP!CancelledIn,
         QP!StreamTypes, QP!Cardinality, QP!IsFiniteSet, Requester!LeaveEndRequest,
         Requester!serverVars, Requester!Running, Requester!Last, Requester!InUse,
         Requester!HasEntry, Requester!KeepRead, Requester!LosesRecords,
         Requester!OneMoreException, Requester!Faults, Requester!CancelledIn,
         Requester!StreamTypes, Requester!Cardinality, Requester!IsFiniteSet
<1> QED
  BY <1>1, <1>3, <1>10, <1>11, RequesterHandlers, Zenon DEF QP!Next, Requester!Next

\* The responder behind the socket is a server as RequesterImpl takes it for
\* granted: every step of a session is one of the requester with its server, or
\* neither of them notices it.
THEOREM RequesterSpecTheorem == Spec => RequesterSpec
<1>1. Init => Requester!Init
  BY DEF Init
<1>2. SessionInv /\ [Next]_vars => [Requester!Next]_(Requester!vars)
  <2> SUFFICES ASSUME SessionInv, [Next]_vars
               PROVE  Requester!Next \/ UNCHANGED Requester!vars
    OBVIOUS
  <2>1. QP!Next \/ UNCHANGED QP!vars
    BY SessionStep
  <2> QED
    BY <2>1, RequesterSteps, Zenon
<1> QED
  BY <1>1, <1>2, SessionInvariant, PTL DEF Spec, RequesterSpec, Requester!Spec

\* The application has answered a request whose end has reached the requester,
\* and nothing of its answer is left behind.
LEMMA AnswerOfEnded ==
  ASSUME SessionInv, NEW k, Ended(k)
  PROVE  \E a \in DOMAIN handed :
           /\ handed[a].response = "sent" /\ RequestOf(a) = k
           /\ handed[a].params = <<k>> /\ handed[a].stdIn = <<k>>
           /\ PlacesOf(k) = PiecePlaces(a)
<1>1. /\ RP!TypeOK /\ RP!EndInv /\ RP!ValidResponseCanBeSent /\ SentPart /\ TransitPart
      /\ WirePart /\ HandedPart /\ QP!TypeOK
  BY DEF SessionInv, Glue, RP!ResponderInv, QP!RequesterInv
<1>2. PICK b \in DOMAIN sent, e \in 1..taken : Ends(e, b) /\ sent[b].request = k
  BY DEF Ended, Done
<1>3. /\ Len(wire) \in Nat /\ DOMAIN wire = 1..Len(wire)
      /\ taken \in Nat /\ taken <= Len(wire) /\ e \in DOMAIN wire
  BY <1>1, <1>2, Lengths
<1>4. PICK a \in DOMAIN handed : Ends(e, handed[a].begin)
  BY <1>1, <1>2, <1>3 DEF WirePart, Ends
<1>5. handed[a].begin = b /\ RequestOf(a) = k
  BY <1>2, <1>4 DEF Ends, RequestOf
<1>6. handed[a].params = <<k>> /\ handed[a].stdIn = <<k>> /\ handed[a].response # "dropped"
  BY <1>1, <1>5 DEF HandedPart
<1>7. handed[a].id \in Ids /\ handed[a].response \in {"valid", "sent", "dropped"}
  <2>1. handed[a] \in RP!HandedRequest
    BY <1>1, ElementOfSeq DEF RP!TypeOK
  <2> QED
    BY <2>1 DEF RP!HandedRequest
<1>8. handed[a].response = "sent"
  <2>1. handed[a].response # "valid"
    BY <1>1, <1>2, <1>3, <1>5, <1>7 DEF RP!ValidResponseCanBeSent, RP!EndInv, RP!IsEnd, Ends
  <2> QED
    BY <1>6, <1>7, <2>1
<1>9. ASSUME NEW i \in PlacesOf(k)
      PROVE  i \in PiecePlaces(a)
  <2>1. i \in DOMAIN wire /\ IsPiece(wire[i]) /\ RequestOf(wire[i].answer) = k
    BY <1>3, <1>9 DEF PlacesOf
  <2>2. wire[i].answer \in DOMAIN handed
    BY <1>1, <2>1 DEF WirePart, IsPiece, RP!IsStream
  <2>3. wire[i].answer = a
    BY <1>5, <2>1, <2>2, AnswerOfRequest
  <2> QED
    BY <2>1, <2>3 DEF PiecePlaces
<1>10. ASSUME NEW i \in PiecePlaces(a)
       PROVE  i \in PlacesOf(k)
  <2>1. i \in DOMAIN wire /\ IsPiece(wire[i]) /\ wire[i].answer = a
    BY <1>10 DEF PiecePlaces
  <2>2. PICK f \in DOMAIN wire : i < f /\ Ends(f, b)
    BY <1>1, <1>5, <2>1 DEF WirePart, IsPiece, RP!IsStream
  <2>3. f = e
    BY <1>1, <1>2, <1>3, <2>2, OneEnd
  <2>4. i \in 1..taken
    BY <1>2, <1>3, <2>1, <2>2, <2>3
  <2> QED
    BY <1>5, <2>1, <2>4 DEF PlacesOf
<1>11. PlacesOf(k) = PiecePlaces(a)
  BY <1>9, <1>10
<1> QED
  BY <1>5, <1>6, <1>8, <1>11, Zenon

\* All the pieces of a kind, in order, are found by where they are.
LEMMA PiecesAre ==
  ASSUME QP!TypeOK, NEW k \in Requests, NEW type, NEW pieces \in Seq(QP!Piece),
         QP!AreAllPieces(pieces, k, type), DOMAIN Output[k] \subseteq Nat,
         failures.lost = {}
  PROVE  LET places == InOrder({n \in DOMAIN Output[k] : Output[k][n] = type})
         IN  pieces = [i \in DOMAIN places |-> [request |-> k, n |-> places[i]]]
<1> DEFINE S == {n \in DOMAIN Output[k] : Output[k][n] = type}
           m == Len(pieces)
           s == [i \in 1..m |-> pieces[i].n]
<1>1. m \in Nat /\ DOMAIN pieces = 1..m /\ pieces = [i \in 1..m |-> pieces[i]]
  OBVIOUS
<1>2. ASSUME NEW i \in 1..m
      PROVE  pieces[i] \in QP!Piece /\ pieces[i].request = k /\ pieces[i].n \in S
  <2>1. i \in DOMAIN pieces
    BY <1>1
  <2>2. pieces[i] \in QP!Piece
    BY <2>1, ElementOfSeq
  <2> QED
    BY <2>1, <2>2 DEF QP!AreAllPieces, QP!ArePieces
<1>3. S \subseteq Nat
  OBVIOUS
<1>4. s \in [1..m -> S]
  BY <1>2
<1>5. \A i, j \in 1..m : i < j => s[i] < s[j]
  BY <1>1 DEF QP!AreAllPieces, QP!ArePieces
<1>6. \A x \in S : \E i \in 1..m : s[i] = x
  BY <1>1 DEF QP!AreAllPieces
<1>7. \A i \in 1..m : pieces[i] = [request |-> k, n |-> s[i]]
  BY <1>2 DEF QP!Piece
<1> HIDE DEF m, S, s
<1>8. DOMAIN InOrder(S) = 1..m /\ \A i \in 1..m : InOrder(S)[i] = s[i]
  BY <1>1, <1>3, <1>4, <1>5, <1>6, InOrderUnique, SMTT(30)
<1>9. pieces = [i \in DOMAIN InOrder(S) |-> [request |-> k, n |-> InOrder(S)[i]]]
  BY <1>1, <1>7, <1>8
<1> QED
  BY <1>9 DEF S

\* From sendRequest over processRequest and Response::send to the response
\* handler: whatever the limits and the interleaving, a handler is given all that
\* the application answered to its request, and the application was given this
\* request's own parameters and data.
THEOREM AnswersReachTheorem == Spec => []AnswersReachTheirRequests
<1>1. ASSUME SessionInv
      PROVE  AnswersReachTheirRequests
  <2> SUFFICES ASSUME NEW k \in DOMAIN requests, NEW i \in DOMAIN requests[k].outcomes,
                      requests[k].outcomes[i].status = "Successful"
               PROVE  \E a \in DOMAIN handed :
                        /\ handed[a].response = "sent" /\ RequestOf(a) = k
                        /\ handed[a].params = <<k>> /\ handed[a].stdIn = <<k>>
                        /\ requests[k].outcomes[i].data = PiecesOf(a, "StdOut")
                        /\ requests[k].outcomes[i].errorMsg = PiecesOf(a, "StdErr")
    BY Zenon DEF AnswersReachTheirRequests
  <2>1. PICK outcome : outcome = requests[k].outcomes[i]
    OBVIOUS
  <2>2. /\ RP!TypeOK /\ QP!TypeOK /\ SentPart /\ TransitPart /\ AnsweredPart
        /\ QP!ResponseIsOwnAndWhole
    BY <1>1, RequesterKeeps DEF SessionInv, Glue, RP!ResponderInv
  <2>3. /\ outcome.answers = k /\ QP!AreAllPieces(outcome.data, k, "StdOut")
        /\ QP!AreAllPieces(outcome.errorMsg, k, "StdErr")
    BY <2>1, <2>2 DEF QP!ResponseIsOwnAndWhole
  <2>4. Ended(k)
    BY <2>1, <2>2, <2>3 DEF AnsweredPart
  <2>5. PICK a \in DOMAIN handed :
          /\ handed[a].response = "sent" /\ RequestOf(a) = k
          /\ handed[a].params = <<k>> /\ handed[a].stdIn = <<k>>
          /\ PlacesOf(k) = PiecePlaces(a)
    BY <1>1, <2>4, AnswerOfEnded
  <2>6. k \in Requests
    <3>1. Len(requests) \in Nat /\ Len(requests) <= MaxRequests /\ DOMAIN requests = 1..Len(requests)
      BY <2>2 DEF QP!TypeOK
    <3> QED
      BY <3>1, BoundsAssumption DEF Requests
  <2>7. /\ IsFiniteSet(PlacesOf(k)) /\ PlacesOf(k) \subseteq Nat
        /\ DOMAIN Output[k] = 1..Cardinality(PlacesOf(k)) /\ Cardinality(PlacesOf(k)) \in Nat
        /\ Output[k] = [n \in 1..Cardinality(PlacesOf(k)) |-> wire[InOrder(PlacesOf(k))[n]].type]
    BY <2>2, <2>6, OutputIs
  <2>8. DOMAIN InOrder(PlacesOf(k)) = DOMAIN Output[k]
    BY <2>7, InOrderIs
  <2>9. outcome.data \in Seq(QP!Piece) /\ outcome.errorMsg \in Seq(QP!Piece)
    <3>1. requests[k].outcomes \in Seq(QP!Outcome)
      BY <2>2, RequesterConstants, QP!HistoryFields DEF QP!TypeOK
    <3>2. outcome \in QP!Outcome
      BY <2>1, <3>1, ElementOfSeq
    <3> QED
      BY <3>2 DEF QP!Outcome
  <2>10. ASSUME NEW type, NEW pieces \in Seq(QP!Piece), QP!AreAllPieces(pieces, k, type)
         PROVE  pieces = PiecesOf(a, type)
    <3> DEFINE all == InOrder(PiecePlaces(a))
               of == {n \in DOMAIN all : wire[all[n]].type = type}
               ofOutput == {n \in DOMAIN Output[k] : Output[k][n] = type}
    <3>1. of = ofOutput
      BY <2>5, <2>7, <2>8
    <3>2. pieces = [j \in DOMAIN InOrder(ofOutput) |->
                      [request |-> k, n |-> InOrder(ofOutput)[j]]]
      <4>1. DOMAIN Output[k] \subseteq Nat
        BY <2>7
      <4>2. failures.lost = {}
        BY <1>1 DEF SessionInv, Glue, OpeningPart
      <4> QED
        BY <2>2, <2>6, <2>10, <4>1, <4>2, PiecesAre, Zenon
    <3>3. PiecesOf(a, type) = [j \in DOMAIN InOrder(of) |->
                                [request |-> RequestOf(a), n |-> InOrder(of)[j]]]
      BY DEF PiecesOf, PiecePlaces
    <3> HIDE DEF of, ofOutput
    <3> QED
      BY <2>5, <3>1, <3>2, <3>3
  <2>11. outcome.data = PiecesOf(a, "StdOut") /\ outcome.errorMsg = PiecesOf(a, "StdErr")
    BY <2>3, <2>9, <2>10
  <2> QED
    BY <2>1, <2>5, <2>11
<1> QED
  BY <1>1, SessionInvariant, PTL

=============================================================================
