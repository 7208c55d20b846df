-------------------------- MODULE RequesterImplProofs --------------------------
(***************************************************************************)
(* Type correctness of the requester and of the server it talks to, for    *)
(* any number of ids, requests and faults, whatever the server reports,    *)
(* and what the requester's helpers do to ids, queues and contexts.        *)
(***************************************************************************)
EXTENDS RequesterImpl, TLAPS, SequenceTheorems, FiniteSetTheorems,
        WellFoundedInduction, NaturalsInduction

-----------------------------------------------------------------------------
(* Ids                                                                      *)

\* A set of ids that is not empty has a smallest one, which begin() leads to.
LEMMA SmallestId ==
  ASSUME NEW ids, ids \subseteq RequestIds, ids # {}
  PROVE  SmallestOf(ids) \in ids
<1>1. ids \subseteq Nat
  BY IdAssumption DEF RequestIds
<1>2. PICK n \in ids : \A m \in ids : <<m, n>> \notin OpToRel(<, Nat)
  BY <1>1, WFMin, NatLessThanWellFounded, Zenon
<1>3. \A m \in ids : ~(m < n)
  BY <1>1, <1>2, Zenon DEF OpToRel
<1>4. \A m \in ids : n <= m
  <2>1. SUFFICES ASSUME NEW m \in ids, ~(m < n) PROVE n <= m
    BY <1>3, Zenon
  <2>2. m \in Nat /\ n \in Nat
    BY <1>1
  <2> QED
    BY <2>1, <2>2, SMT
<1> QED
  BY <1>4, Zenon DEF SmallestOf

\* The limits a server reports leave only ids.
LEMMA AllIdsType ==
  ASSUME NEW limits \in [maxRequestsNumber : Int, multiplexingEnabled : BOOLEAN]
  PROVE  AllIds(limits) \subseteq RequestIds
<1>1. \A i \in Int : i % IdLimit \in 0..(IdLimit - 1)
  BY IdAssumption
<1> QED
  BY <1>1, IdAssumption DEF AllIds, generateRequestIds, RequestIds

-----------------------------------------------------------------------------
(* Types                                                                    *)

\* A call of a handler without a response.
LEMMA NoResponseType ==
  ASSUME NEW status \in {"Successful", "Failed", "Cancelled"}, NEW answers \in Nat
  PROVE  NoResponse(status, answers) \in Outcome
BY DEF NoResponse, Outcome

\* The fields of a request's history.
LEMMA HistoryFields ==
  ASSUME NEW history \in Seq(RequestHistory), NEW k \in DOMAIN history
  PROVE  /\ history[k] \in RequestHistory
         /\ history[k].keep \in BOOLEAN /\ history[k].outcomes \in Seq(Outcome)
         /\ history[k].sends \in Nat /\ history[k].cancelled \in Phases \cup {"no"}
         /\ history[k].handle \in {"none", "opening", "context"}
<1>1. history[k] \in RequestHistory
  OBVIOUS
<1> QED
  BY <1>1 DEF RequestHistory

\* A history with one field changed.
LEMMA HistoryUpdate ==
  ASSUME NEW h \in RequestHistory
  PROVE  /\ \A s \in Seq(Outcome) : [h EXCEPT !.outcomes = s] \in RequestHistory
         /\ \A n \in Nat : [h EXCEPT !.sends = n] \in RequestHistory
         /\ \A p \in Phases : [h EXCEPT !.cancelled = p] \in RequestHistory
<1> DEFINE OutcomeLists == Seq(Outcome)
           Cancellations == Phases \cup {"no"}
<1>1. RequestHistory = [keep : BOOLEAN, handle : {"none", "opening", "context"},
                        cancelled : Cancellations, sends : Nat, outcomes : OutcomeLists]
  BY DEF RequestHistory
<1>2. Phases \subseteq Cancellations
  OBVIOUS
<1> HIDE DEF OutcomeLists, Cancellations
<1>3. /\ \A s \in OutcomeLists : [h EXCEPT !.outcomes = s] \in RequestHistory
      /\ \A n \in Nat : [h EXCEPT !.sends = n] \in RequestHistory
      /\ \A p \in Phases : [h EXCEPT !.cancelled = p] \in RequestHistory
  BY <1>1, <1>2
<1> QED
  BY <1>3 DEF OutcomeLists

\* A handler is called.
LEMMA CallType ==
  ASSUME NEW history \in Seq(RequestHistory), NEW k, NEW outcome \in Outcome
  PROVE  /\ CallsHandler(history, k, outcome) \in Seq(RequestHistory)
         /\ Len(CallsHandler(history, k, outcome)) = Len(history)
         /\ DOMAIN CallsHandler(history, k, outcome) = DOMAIN history
<1> DEFINE called == [history[k] EXCEPT !.outcomes = Append(@, outcome)]
<1>1. CallsHandler(history, k, outcome) = [history EXCEPT ![k] = called]
  BY DEF CallsHandler
<1>2. CASE k \in DOMAIN history
  <2>1. Append(history[k].outcomes, outcome) \in Seq(Outcome)
    BY <1>2, HistoryFields, AppendProperties
  <2>2. called \in RequestHistory
    BY <1>2, <2>1, HistoryFields, HistoryUpdate
  <2> HIDE DEF called
  <2> QED
    BY <1>1, <1>2, <2>2, ExceptSeq
<1>3. CASE k \notin DOMAIN history
  <2> HIDE DEF called
  <2>1. history \in [1..Len(history) -> RequestHistory]
    BY SeqDef, LenProperties
  <2>2. [history EXCEPT ![k] = called] = history
    BY <1>3, <2>1
  <2> QED
    BY <1>1, <2>2
<1> QED
  BY <1>2, <1>3

\* A context of the map.
LEMMA ContextFields ==
  ASSUME TypeOK, NEW id \in RequestIds, InUse(id)
  PROVE  /\ responseMap[id] \in ResponseContext
         /\ responseMap[id].request \in Requests /\ responseMap[id].keepConnection \in BOOLEAN
         /\ responseMap[id].data \in Seq(Piece) /\ responseMap[id].errorMsg \in Seq(Piece)
<1>1. responseMap[id] \in ResponseContext
  BY DEF TypeOK, InUse
<1> QED
  BY <1>1 DEF ResponseContext

-----------------------------------------------------------------------------
(* What doSendRequest does                                                  *)

NewContext(k, keep) ==
  [request |-> k, keepConnection |-> keep, data |-> <<>>, errorMsg |-> <<>>]

\* Request k is refused, or sent under an id of the pool.
Refuses(k, pool, history) ==
  /\ pool = {}
  /\ requests' = CallsHandler(history, k, NoResponse("Failed", 0))
  /\ requestIdPool' = pool
  /\ UNCHANGED <<responseMap, serving>>

SendsUnder(id, k, pool, history) ==
  /\ id \in pool
  /\ requestIdPool' = pool \ {id}
  /\ responseMap' = IF InUse(id) THEN responseMap
                    ELSE [responseMap EXCEPT ![id] = NewContext(k, history[k].keep)]
  /\ requests' = [history EXCEPT ![k].sends = @ + 1]
  /\ \/ UNCHANGED serving
     \/ serving[id] = 0 /\ serving' = [serving EXCEPT ![id] = k]

LEMMA SendCases ==
  ASSUME NEW k, NEW pool, pool \subseteq RequestIds, NEW history,
         NEW completes, DoSendRequest(k, pool, history, completes)
  PROVE  Refuses(k, pool, history) \/ \E id \in pool : SendsUnder(id, k, pool, history)
<1> DEFINE id == SmallestOf(pool)
<1>1. CASE pool = {}
  BY <1>1 DEF DoSendRequest, Refuses
<1>2. CASE pool # {}
  <2>1. id \in pool
    BY <1>2, SmallestId
  <2>2. \/ ServerGets(k, id)
        \/ UNCHANGED serving
    BY <1>2 DEF DoSendRequest
  <2>3. /\ requestIdPool' = pool \ {id}
        /\ requests' = [history EXCEPT ![k].sends = @ + 1]
        /\ responseMap' = IF InUse(id) THEN responseMap
                          ELSE [responseMap EXCEPT ![id] = NewContext(k, history[k].keep)]
    BY <1>2 DEF DoSendRequest, TakeId, NewContext
  <2> QED
    BY <2>1, <2>2, <2>3 DEF SendsUnder, ServerGets
<1> QED
  BY <1>1, <1>2

\* A request is sent once more.
LEMMA SendsType ==
  ASSUME NEW history \in Seq(RequestHistory), NEW k \in DOMAIN history
  PROVE  /\ [history EXCEPT ![k].sends = @ + 1] \in Seq(RequestHistory)
         /\ Len([history EXCEPT ![k].sends = @ + 1]) = Len(history)
         /\ DOMAIN [history EXCEPT ![k].sends = @ + 1] = DOMAIN history
<1> DEFINE sent == [history[k] EXCEPT !.sends = @ + 1]
<1>1. sent \in RequestHistory
  <2>1. history[k].sends + 1 \in Nat
    BY HistoryFields
  <2> QED
    BY <2>1, HistoryFields, HistoryUpdate
<1>2. [history EXCEPT ![k].sends = @ + 1] = [history EXCEPT ![k] = sent]
  OBVIOUS
<1> HIDE DEF sent
<1> QED
  BY <1>1, <1>2, ExceptSeq

LEMMA SendTypes ==
  ASSUME TypeOK, NEW history \in Seq(RequestHistory), NEW k \in DOMAIN history,
         Len(requests) <= Len(history), Len(history) <= MaxRequests,
         NEW pool, pool \subseteq RequestIds,
         NEW completes, DoSendRequest(k, pool, history, completes)
  PROVE  /\ requestIdPool' \subseteq RequestIds
         /\ responseMap' \in [RequestIds -> ResponseContext \cup {NoContext}]
         /\ requests' \in Seq(RequestHistory) /\ Len(requests') = Len(history)
         /\ serving' \in [RequestIds -> 0..Len(history)]
<1>0. /\ serving \in [RequestIds -> 0..Len(history)]
      /\ Len(history) \in Nat /\ k \in 1..Len(history) /\ k \in Requests
  BY BoundsAssumption, SMTT(30) DEF TypeOK, Requests
<1>1. CASE Refuses(k, pool, history)
  BY <1>0, <1>1, CallType, NoResponseType DEF Refuses, TypeOK
<1>2. ASSUME NEW id \in pool, SendsUnder(id, k, pool, history)
      PROVE  /\ requestIdPool' \subseteq RequestIds
             /\ responseMap' \in [RequestIds -> ResponseContext \cup {NoContext}]
             /\ requests' \in Seq(RequestHistory) /\ Len(requests') = Len(history)
             /\ serving' \in [RequestIds -> 0..Len(history)]
  <2>1. NewContext(k, history[k].keep) \in ResponseContext
    BY <1>0, HistoryFields DEF NewContext, ResponseContext
  <2>2. responseMap' \in [RequestIds -> ResponseContext \cup {NoContext}]
    BY <1>2, <2>1 DEF SendsUnder, TypeOK
  <2>3. serving' \in [RequestIds -> 0..Len(history)]
    BY <1>0, <1>2 DEF SendsUnder
  <2> QED
    BY <1>2, <2>2, <2>3, SendsType DEF SendsUnder
<1> QED
  BY <1>1, <1>2, SendCases

-----------------------------------------------------------------------------
(* Type correctness, one lemma per operation                                *)

\* The records of the server, by type.
LEMMA ServerRecordFields ==
  ASSUME NEW r \in ServerRecord
  PROVE  /\ r.type \in StreamTypes \cup {"GetValuesResult", "EndRequest", "UnknownType"}
         /\ r.type = "GetValuesResult" =>
              /\ r.kind \in {"valid", "empty", "badMaxReqs", "badMpxsConns"}
              /\ r.maxReqs \in Int /\ r.mpxs \in BOOLEAN
         /\ r.type # "GetValuesResult" => r.id \in RequestIds
         /\ r.type \in StreamTypes => r.piece \in Piece
         /\ r.type = "EndRequest" => r.request \in Requests
BY ValuesAssumption DEF ServerRecord, StreamTypes

\* The record that is received.
LEMMA HeadOfIncoming ==
  ASSUME TypeOK, NEW r, incoming # <<>>, r = Head(incoming)
  PROVE  /\ r \in ServerRecord /\ Tail(incoming) \in Seq(ServerRecord)
         /\ r = incoming[1] /\ Len(incoming) \in Nat \ {0}
         /\ Len(Tail(incoming)) = Len(incoming) - 1
         /\ \A i \in 1..(Len(incoming) - 1) : Tail(incoming)[i] = incoming[i + 1]
BY HeadTailProperties, EmptySeq, LenProperties DEF TypeOK

\* A request is added to the history.
LEMMA NewRequestType ==
  ASSUME TypeOK, Len(requests) < MaxRequests, NEW keep \in KeepModes,
         NEW handle \in {"none", "opening", "context"}, NEW request,
         request = [keep |-> keep, handle |-> handle, cancelled |-> "no",
                    sends |-> 0, outcomes |-> <<>>]
  PROVE  /\ request \in RequestHistory
         /\ Append(requests, request) \in Seq(RequestHistory)
         /\ Len(Append(requests, request)) = Len(requests) + 1
         /\ Len(requests) + 1 <= MaxRequests
         /\ Append(requests, request)[Len(requests) + 1] = request
         /\ \A k \in DOMAIN requests : Append(requests, request)[k] = requests[k]
<1>1. request \in RequestHistory
  BY ValuesAssumption DEF RequestHistory
<1>2. requests \in Seq(RequestHistory) /\ Len(requests) \in Nat
  BY DEF TypeOK
<1> QED
  BY <1>1, <1>2, BoundsAssumption, AppendProperties

\* Failures are counted, and ended or thrown at most.
FailureRecord ==
  [extras : Nat, unasked : Nat, exceptions : Nat, died : BOOLEAN, threw : BOOLEAN,
   left : [Requests -> Nat], lost : SUBSET Piece]

LEMMA FailureTypes ==
  ASSUME NEW f \in FailureRecord
  PROVE  /\ [f EXCEPT !.extras = @ + 1] \in FailureRecord
         /\ [f EXCEPT !.unasked = @ + 1] \in FailureRecord
         /\ [f EXCEPT !.exceptions = @ + 1] \in FailureRecord
         /\ [f EXCEPT !.died = TRUE] \in FailureRecord
         /\ [f EXCEPT !.threw = TRUE] \in FailureRecord
         /\ \A k \in Requests : [f EXCEPT !.left[k] = @ + 1] \in FailureRecord
         /\ \A pieces \in SUBSET Piece : [f EXCEPT !.lost = @ \cup pieces] \in FailureRecord
<1>1. f.extras \in Nat /\ f.unasked \in Nat /\ f.exceptions \in Nat
  BY DEF FailureRecord
<1>2. f.extras + 1 \in Nat /\ f.unasked + 1 \in Nat /\ f.exceptions + 1 \in Nat
  BY <1>1
<1>3. \A n \in Nat :
        /\ [f EXCEPT !.extras = n] \in FailureRecord
        /\ [f EXCEPT !.unasked = n] \in FailureRecord
        /\ [f EXCEPT !.exceptions = n] \in FailureRecord
  BY DEF FailureRecord
<1>4. [f EXCEPT !.died = TRUE] \in FailureRecord /\ [f EXCEPT !.threw = TRUE] \in FailureRecord
  BY DEF FailureRecord
<1>5. ASSUME NEW k \in Requests
      PROVE  [f EXCEPT !.left[k] = @ + 1] \in FailureRecord
  <2>1. [f.left EXCEPT ![k] = @ + 1] \in [Requests -> Nat]
    BY DEF FailureRecord
  <2>2. [f EXCEPT !.left = [f.left EXCEPT ![k] = @ + 1]] \in FailureRecord
    BY <2>1 DEF FailureRecord
  <2> QED
    BY <2>2
<1>6. ASSUME NEW pieces \in SUBSET Piece
      PROVE  [f EXCEPT !.lost = @ \cup pieces] \in FailureRecord
  BY DEF FailureRecord
<1> QED
  BY <1>2, <1>3, <1>4, <1>5, <1>6

\* What an exception does to the records on their way: the first n are lost.
LEMMA LossType ==
  ASSUME TypeOK, NEW n \in Nat, NEW counted \in FailureRecord, LosesRecords(n, counted)
  PROVE  /\ incoming' \in Seq(ServerRecord)
         /\ failures' \in FailureRecord
         /\ \A i \in DOMAIN incoming' : i + n \in DOMAIN incoming /\ incoming'[i] = incoming[i + n]
         /\ \A i \in DOMAIN incoming : i > n => i - n \in DOMAIN incoming'
<1>1. incoming \in Seq(ServerRecord) /\ Len(incoming) \in Nat
  BY DEF TypeOK
<1>2. incoming' = SubSeq(incoming, n + 1, Len(incoming))
  BY DEF LosesRecords
<1>3. \A i \in DOMAIN incoming : incoming[i] \in ServerRecord
  BY <1>1, ElementOfSeq
<1>4. \A i \in (n + 1)..Len(incoming) : incoming[i] \in ServerRecord
  BY <1>1, <1>3
<1>5. /\ incoming' \in Seq(ServerRecord)
      /\ Len(incoming') = IF n + 1 <= Len(incoming) THEN Len(incoming) - n ELSE 0
      /\ \A i \in 1..Len(incoming') : incoming'[i] = incoming[i + n]
  BY <1>1, <1>2, <1>4, SubSeqProperties
<1>6. failures' \in FailureRecord
  <2> DEFINE given == {i \in DOMAIN incoming : i <= n /\ incoming[i].type \in StreamTypes}
             pieces == {incoming[i].piece : i \in given}
  <2>1. failures' = [counted EXCEPT !.lost = @ \cup pieces]
    BY DEF LosesRecords
  <2>2. pieces \in SUBSET Piece
    BY <1>3, ServerRecordFields
  <2> HIDE DEF pieces
  <2> QED
    BY <2>1, <2>2, FailureTypes
<1> QED
  BY <1>1, <1>5, <1>6

\* A record is received, whether the call returns or throws.
LEMMA ReceivedType ==
  ASSUME TypeOK, NEW r, NEW counted \in FailureRecord,
         Receive(r) \/ ReceiveAndThrow(r, counted)
  PROVE  /\ r \in ServerRecord /\ r = incoming[1] /\ Len(incoming) > 0 /\ ending = <<>>
         /\ incoming' \in Seq(ServerRecord)
         /\ ReceiveAndThrow(r, counted) \/ failures' = counted => failures' \in FailureRecord
         /\ \E n \in 1..Len(incoming) :
              /\ \A i \in DOMAIN incoming' :
                   i + n \in DOMAIN incoming /\ incoming'[i] = incoming[i + n]
              /\ \A i \in DOMAIN incoming : i > n => i - n \in DOMAIN incoming'
<1>1. /\ r \in ServerRecord /\ Tail(incoming) \in Seq(ServerRecord)
      /\ r = incoming[1] /\ Len(incoming) \in Nat \ {0}
      /\ Len(Tail(incoming)) = Len(incoming) - 1
      /\ \A i \in 1..(Len(incoming) - 1) : Tail(incoming)[i] = incoming[i + 1]
      /\ ending = <<>>
  BY HeadOfIncoming DEF Receive, ReceiveAndThrow, IsNext, Receives
<1>2. CASE Receive(r) /\ ~ReceiveAndThrow(r, counted)
  <2>1. incoming' = Tail(incoming)
    BY <1>2 DEF Receive
  <2>2. /\ \A i \in DOMAIN incoming' :
             i + 1 \in DOMAIN incoming /\ incoming'[i] = incoming[i + 1]
        /\ \A i \in DOMAIN incoming : i > 1 => i - 1 \in DOMAIN incoming'
    BY <1>1, <2>1
  <2>3. 1 \in 1..Len(incoming)
    BY <1>1
  <2> QED
    BY <1>1, <1>2, <2>1, <2>2, <2>3
<1>3. CASE ReceiveAndThrow(r, counted)
  <2>1. PICK n \in 1..Len(incoming) : LosesRecords(n, counted)
    BY <1>3 DEF ReceiveAndThrow
  <2>2. n \in Nat
    BY <2>1
  <2> QED
    BY <1>1, <2>1, <2>2, LossType
<1> QED
  BY <1>2, <1>3

\* What a step adds to the counters and to the lost pieces.
LEMMA FailureFields ==
  ASSUME NEW f \in FailureRecord, NEW g,
         \/ g = f
         \/ g = [f EXCEPT !.exceptions = @ + 1]
         \/ g = [f EXCEPT !.died = TRUE]
         \/ g = [f EXCEPT !.threw = TRUE]
         \/ g = [f EXCEPT !.extras = @ + 1]
         \/ g = [f EXCEPT !.unasked = @ + 1]
  PROVE  /\ g.left = f.left /\ g.lost = f.lost
         /\ \/ g.unasked = f.unasked
            \/ g = [f EXCEPT !.unasked = @ + 1] /\ g.unasked = f.unasked + 1
<1>1. \A n : LET h == [f EXCEPT !.exceptions = n]
             IN  h.left = f.left /\ h.lost = f.lost /\ h.unasked = f.unasked
  BY DEF FailureRecord
<1>2. \A n : LET h == [f EXCEPT !.extras = n]
             IN  h.left = f.left /\ h.lost = f.lost /\ h.unasked = f.unasked
  BY DEF FailureRecord
<1>3. \A n : LET h == [f EXCEPT !.died = n]
             IN  h.left = f.left /\ h.lost = f.lost /\ h.unasked = f.unasked
  BY DEF FailureRecord
<1>4. \A n : LET h == [f EXCEPT !.threw = n]
             IN  h.left = f.left /\ h.lost = f.lost /\ h.unasked = f.unasked
  BY DEF FailureRecord
<1>5. \A n : LET h == [f EXCEPT !.unasked = n]
             IN  h.left = f.left /\ h.lost = f.lost /\ h.unasked = n
  BY DEF FailureRecord
<1>6. CASE g = [f EXCEPT !.exceptions = @ + 1]
  BY <1>1, <1>6
<1>7. CASE g = [f EXCEPT !.extras = @ + 1]
  BY <1>2, <1>7
<1>8. CASE g = [f EXCEPT !.died = TRUE]
  BY <1>3, <1>8
<1>9. CASE g = [f EXCEPT !.threw = TRUE]
  BY <1>4, <1>9
<1>10. CASE g = [f EXCEPT !.unasked = @ + 1]
  BY <1>5, <1>10
<1> QED
  BY <1>6, <1>7, <1>8, <1>9, <1>10

LEMMA LossFields ==
  ASSUME NEW n, NEW f \in FailureRecord, LosesRecords(n, f)
  PROVE  /\ failures'.left = f.left /\ failures'.unasked = f.unasked /\ f.lost \subseteq failures'.lost
         /\ \A i \in DOMAIN incoming :
              i <= n /\ incoming[i].type \in StreamTypes => incoming[i].piece \in failures'.lost
<1> DEFINE given == {i \in DOMAIN incoming : i <= n /\ incoming[i].type \in StreamTypes}
           pieces == {incoming[i].piece : i \in given}
<1>1. failures' = [f EXCEPT !.lost = @ \cup pieces]
  BY DEF LosesRecords
<1>2. \A i \in DOMAIN incoming :
        i <= n /\ incoming[i].type \in StreamTypes => incoming[i].piece \in pieces
  OBVIOUS
<1> HIDE DEF pieces
<1> QED
  BY <1>1, <1>2 DEF FailureRecord

LEMMA OpenType ==
  ASSUME TypeOK, NEW keep \in KeepModes, OpenConnection(keep)
  PROVE  TypeOK'
<1> DEFINE k == Len(requests) + 1
<1>1. PICK handle \in {"none", "opening", "context"} :
        requests' = Append(requests, [keep |-> keep, handle |-> handle, cancelled |-> "no",
                                      sends |-> 0, outcomes |-> <<>>])
  BY DEF OpenConnection
<1>2. requests' \in Seq(RequestHistory) /\ Len(requests') = k /\ k <= MaxRequests
  BY <1>1, NewRequestType DEF OpenConnection
<1>3. Len(requests) \in Nat /\ k \in 0..k /\ 0..Len(requests) \subseteq 0..k
  BY DEF TypeOK
<1>4. cancelHandler' \in [request : 0..k, does : RequestIds \cup {Opening}]
  BY <1>3 DEF OpenConnection, TypeOK
<1>5. getValuesOwed' \in Nat
  BY DEF OpenConnection, TypeOK
<1>6. failures' \in FailureRecord
  <2>1. failures \in FailureRecord
    BY DEF TypeOK, FailureRecord
  <2>2. failures' = failures \/ failures' = [failures EXCEPT !.exceptions = @ + 1]
    BY DEF OpenConnection, Throws, OneMoreException
  <2> QED
    BY <2>1, <2>2, FailureTypes
<1> QED
  BY <1>2, <1>3, <1>4, <1>5, <1>6 DEF OpenConnection, TypeOK, FailureRecord

LEMMA SendType ==
  ASSUME TypeOK, NEW keep \in KeepModes, SendRequest(keep)
  PROVE  TypeOK'
<1> DEFINE k == Len(requests) + 1
           new(handle) == [keep |-> keep, handle |-> handle, cancelled |-> "no",
                           sends |-> 0, outcomes |-> <<>>]
<1>1. \E handle \in {"none", "opening", "context"}, completes \in BOOLEAN :
        DoSendRequest(k, requestIdPool, Append(requests, new(handle)), completes)
  BY DEF SendRequest
<1>2. PICK handle \in {"none", "opening", "context"}, completes \in BOOLEAN :
        DoSendRequest(k, requestIdPool, Append(requests, new(handle)), completes)
  BY <1>1
<1> DEFINE history == Append(requests, new(handle))
<1>3. /\ history \in Seq(RequestHistory) /\ Len(history) = k /\ k <= MaxRequests
      /\ Len(requests) \in Nat /\ k \in DOMAIN history /\ requestIdPool \subseteq RequestIds
  BY NewRequestType DEF SendRequest, TypeOK
<1>4. DoSendRequest(k, requestIdPool, history, completes)
  BY <1>2
<1>5. Len(requests) <= Len(history)
  BY <1>3
<1> HIDE DEF history, new, k
<1>6. /\ requestIdPool' \subseteq RequestIds
      /\ responseMap' \in [RequestIds -> ResponseContext \cup {NoContext}]
      /\ requests' \in Seq(RequestHistory) /\ Len(requests') = k
      /\ serving' \in [RequestIds -> 0..k]
  BY <1>3, <1>4, <1>5, SendTypes
<1>7. 0..Len(requests) \subseteq 0..k
  BY <1>3 DEF k
<1>8. failures' \in FailureRecord
  <2>1. failures \in FailureRecord
    BY DEF TypeOK, FailureRecord
  <2> QED
    BY <2>1, FailureTypes DEF SendRequest, Throws, OneMoreException
<1> QED
  BY <1>3, <1>6, <1>7, <1>8 DEF SendRequest, TypeOK, FailureRecord

LEMMA RejectType ==
  ASSUME TypeOK, NEW keep \in KeepModes, RejectRequest(keep)
  PROVE  TypeOK'
<1>1. /\ requests' \in Seq(RequestHistory) /\ Len(requests') = Len(requests) + 1
      /\ Len(requests) + 1 <= MaxRequests
  BY NewRequestType DEF RejectRequest
<1>2. Len(requests) \in Nat /\ 0..Len(requests) \subseteq 0..(Len(requests) + 1)
  BY DEF TypeOK
<1> QED
  BY <1>1, <1>2 DEF RejectRequest, TypeOK, serverVars

\* doEndRequest calls the handler of the request the id stands for.
LEMMA BeginEndType ==
  ASSUME TypeOK, NEW id \in RequestIds, InUse(id), NEW answers \in Nat,
         NEW status \in {"Successful", "Failed", "Cancelled"},
         NEW history \in Seq(RequestHistory),
         NEW rest \in Nat, BeginEndRequest(id, status, answers, history, rest)
  PROVE  /\ requests' \in Seq(RequestHistory) /\ Len(requests') = Len(history)
         /\ ending' \in Seq([id : RequestIds, status : {"Successful", "Failed", "Cancelled"},
                             context : ResponseContext, rest : Nat])
<1> DEFINE context == responseMap[id]
           outcome == IF status = "Successful"
                      THEN [status |-> status, answers |-> answers, data |-> context.data,
                            errorMsg |-> context.errorMsg]
                      ELSE NoResponse(status, answers)
           call == [id |-> id, status |-> status, context |-> context, rest |-> rest]
<1>1. outcome \in Outcome
  BY ContextFields, NoResponseType DEF Outcome
<1>2. requests' = CallsHandler(history, context.request, outcome) /\ ending' = Append(ending, call)
  BY DEF BeginEndRequest
<1>3. call \in [id : RequestIds, status : {"Successful", "Failed", "Cancelled"},
                context : ResponseContext, rest : Nat]
  BY ContextFields
<1> HIDE DEF outcome, call
<1> QED
  BY <1>1, <1>2, <1>3, CallType, AppendProperties DEF TypeOK

\* The call of doEndRequest on top of the stack is over.
LEMMA PopType ==
  ASSUME TypeOK, ending # <<>>
  PROVE  /\ Last(ending) \in [id : RequestIds, status : {"Successful", "Failed", "Cancelled"},
                               context : ResponseContext, rest : Nat]
         /\ SubSeq(ending, 1, Len(ending) - 1) \in
              Seq([id : RequestIds, status : {"Successful", "Failed", "Cancelled"},
                   context : ResponseContext, rest : Nat])
         /\ Last(ending).id \in RequestIds /\ Last(ending).context.request \in Requests
         /\ Last(ending).rest \in Nat
<1> DEFINE Call == [id : RequestIds, status : {"Successful", "Failed", "Cancelled"},
                    context : ResponseContext, rest : Nat]
<1>1. ending \in Seq(Call)
  BY DEF TypeOK
<1> HIDE DEF Call
<1>2. Len(ending) \in Nat \ {0} /\ \A i \in 1..Len(ending) : ending[i] \in Call
  BY <1>1, EmptySeq, LenProperties, ElementOfSeq
<1>3. Last(ending) \in Call
  BY <1>2 DEF Last
<1>4. SubSeq(ending, 1, Len(ending) - 1) \in Seq(Call)
  BY <1>1, <1>2, SubSeqProperties
<1>5. /\ Last(ending).id \in RequestIds /\ Last(ending).context \in ResponseContext
      /\ Last(ending).rest \in Nat
  BY <1>3 DEF Call
<1>6. Last(ending).context.request \in Requests
  BY <1>5 DEF ResponseContext
<1> QED
  BY <1>3, <1>4, <1>5, <1>6 DEF Call

LEMMA FinishType ==
  ASSUME TypeOK, FinishEndRequest
  PROVE  TypeOK'
<1>1. Last(ending).id \in RequestIds
      /\ SubSeq(ending, 1, Len(ending) - 1) \in
           Seq([id : RequestIds, status : {"Successful", "Failed", "Cancelled"},
                context : ResponseContext, rest : Nat])
  BY PopType DEF FinishEndRequest
<1>2. /\ ending' = SubSeq(ending, 1, Len(ending) - 1)
      /\ responseMap' = [responseMap EXCEPT ![Last(ending).id] = NoContext]
      /\ requestIdPool' = requestIdPool \cup {Last(ending).id}
  BY DEF FinishEndRequest, EraseContext
<1>3. closed' \in BOOLEAN
  <2>1. PICK keep : closed' = (closed \/ (Last(ending).status # "Cancelled" /\ ~keep))
    BY DEF FinishEndRequest
  <2> QED
    BY <2>1
<1> QED
  BY <1>1, <1>2, <1>3 DEF FinishEndRequest, TypeOK, serverVars

\* An exception leaves doEndRequest.
LEMMA LeaveType ==
  ASSUME TypeOK, LeaveEndRequest
  PROVE  TypeOK'
<1> DEFINE k == Last(ending).context.request
           counted == [OneMoreException EXCEPT !.left[k] = @ + 1]
<1>1. /\ Last(ending).id \in RequestIds /\ k \in Requests /\ Last(ending).rest \in Nat
      /\ SubSeq(ending, 1, Len(ending) - 1) \in
           Seq([id : RequestIds, status : {"Successful", "Failed", "Cancelled"},
                context : ResponseContext, rest : Nat])
  BY PopType DEF LeaveEndRequest
<1>2. counted \in FailureRecord
  <2>1. failures \in FailureRecord
    BY DEF TypeOK, FailureRecord
  <2>2. OneMoreException \in FailureRecord
    BY <2>1, FailureTypes DEF OneMoreException
  <2> QED
    BY <1>1, <2>2, FailureTypes
<1>3. PICK n \in 0..Last(ending).rest : LosesRecords(n, counted)
  BY DEF LeaveEndRequest
<1> HIDE DEF counted
<1>4. incoming' \in Seq(ServerRecord) /\ failures' \in FailureRecord
  <2>1. n \in Nat
    BY <1>1, <1>3
  <2> QED
    BY <1>2, <1>3, <2>1, LossType
<1>5. closed' \in BOOLEAN
  <2>1. PICK keep : closed' \in {closed, closed \/ (Last(ending).status # "Cancelled" /\ ~keep)}
    BY DEF LeaveEndRequest
  <2> QED
    BY <2>1 DEF TypeOK
<1>6. responseMap' \in [RequestIds -> ResponseContext \cup {NoContext}]
  <2> DEFINE emptied == [responseMap[Last(ending).id] EXCEPT !.data = <<>>, !.errorMsg = <<>>]
  <2>1. CASE responseMap' = responseMap
    BY <2>1 DEF TypeOK
  <2>2. CASE HasEntry(Last(ending)) /\ responseMap' = [responseMap EXCEPT ![Last(ending).id] = emptied]
    <3>1. responseMap[Last(ending).id] \in ResponseContext
      BY <1>1, <2>2, ContextFields DEF HasEntry
    <3>2. emptied \in ResponseContext
      <4>1. <<>> \in Seq(Piece)
        OBVIOUS
      <4> DEFINE Lists == Seq(Piece)
      <4>2. ResponseContext = [request : Requests, keepConnection : BOOLEAN, data : Lists,
                               errorMsg : Lists]
        BY DEF ResponseContext
      <4>3. <<>> \in Lists
        BY <4>1
      <4> HIDE DEF Lists
      <4> QED
        BY <3>1, <4>2, <4>3
    <3> HIDE DEF emptied
    <3> QED
      BY <2>2, <3>2 DEF TypeOK
  <2> QED
    BY <2>1, <2>2 DEF LeaveEndRequest
<1> QED
  BY <1>1, <1>4, <1>5, <1>6 DEF LeaveEndRequest, TypeOK, serverVars, FailureRecord

\* What a handle leads to.
LEMMA TargetsType ==
  ASSUME TypeOK, NEW k
  PROVE  CancelTargets(k) \subseteq RequestIds \cup {Opening}
BY DEF TypeOK, CancelTargets, IdsOf

\* A request is cancelled.
LEMMA CancelledHistory ==
  ASSUME TypeOK, NEW k \in DOMAIN requests, NEW history,
         history = [requests EXCEPT ![k].cancelled = Phase(k)]
  PROVE  /\ history \in Seq(RequestHistory) /\ Len(history) = Len(requests)
         /\ DOMAIN history = DOMAIN requests
         /\ history[k] = [requests[k] EXCEPT !.cancelled = Phase(k)]
         /\ \A j \in DOMAIN requests : j # k => history[j] = requests[j]
<1> DEFINE cancelled == [requests[k] EXCEPT !.cancelled = Phase(k)]
<1>1. Phase(k) \in Phases
  BY DEF Phase, Phases
<1>2. requests \in Seq(RequestHistory) /\ k \in 1..Len(requests)
  BY DEF TypeOK
<1>3. cancelled \in RequestHistory
  BY <1>1, <1>2, HistoryFields, HistoryUpdate
<1>4. history = [requests EXCEPT ![k] = cancelled]
  OBVIOUS
<1>5. history[k] = cancelled
  BY <1>2, <1>4
<1> HIDE DEF cancelled
<1>6. /\ history \in Seq(RequestHistory) /\ Len(history) = Len(requests)
      /\ \A j \in 1..Len(requests) : history[j] = IF j = k THEN cancelled ELSE requests[j]
  BY <1>2, <1>3, <1>4, ExceptSeq
<1> QED
  BY <1>2, <1>5, <1>6 DEF cancelled
LEMMA CancelType ==
  ASSUME TypeOK, NEW k \in DOMAIN requests, CancelRequest(k)
  PROVE  TypeOK'
<1> DEFINE history == [requests EXCEPT ![k].cancelled = Phase(k)]
           Call == [id : RequestIds, status : {"Successful", "Failed", "Cancelled"},
                    context : ResponseContext, rest : Nat]
<1>1. history \in Seq(RequestHistory) /\ Len(history) = Len(requests)
  BY CancelledHistory
<1>2. failures \in FailureRecord /\ ending \in Seq(Call) /\ Len(requests) <= MaxRequests
  BY DEF TypeOK, FailureRecord
<1>3. \/ requests' = history /\ ending' = ending
      \/ requests' = CallsHandler(history, k, NoResponse("Cancelled", 0)) /\ ending' = ending
      \/ \E id \in CancelTargets(k) \ {Opening} :
           InUse(id) /\ BeginEndRequest(id, "Cancelled", 0, history, 0)
  BY DEF CancelRequest
<1>4. failures' \in FailureRecord
  <2>1. failures' = failures \/ failures' = [failures EXCEPT !.threw = TRUE]
    BY DEF CancelRequest
  <2> QED
    BY <1>2, <2>1, FailureTypes
<1>5. connectionState' \in {"NotConnected", "ConnectionInProgress", "Connected"}
  BY DEF CancelRequest, TypeOK
<1> HIDE DEF history, Call
<1>6. /\ requests' \in Seq(RequestHistory) /\ Len(requests') = Len(requests)
      /\ ending' \in Seq(Call)
  <2>1. ASSUME NEW id \in CancelTargets(k) \ {Opening}, InUse(id),
               BeginEndRequest(id, "Cancelled", 0, history, 0)
        PROVE  /\ requests' \in Seq(RequestHistory) /\ Len(requests') = Len(requests)
               /\ ending' \in Seq(Call)
    <3>1. id \in RequestIds
      BY TargetsType
    <3> QED
      BY <1>1, <2>1, <3>1, BeginEndType DEF Call
  <2> QED
    BY <1>1, <1>2, <1>3, <2>1, CallType, NoResponseType
<1> QED
  BY <1>2, <1>4, <1>5, <1>6 DEF CancelRequest, TypeOK, serverVars, FailureRecord, Call

LEMMA InvalidResultType ==
  ASSUME TypeOK, NEW r, OnInvalidGetValuesResult(r)
  PROVE  TypeOK'
<1>0. failures \in FailureRecord /\ OneMoreException \in FailureRecord
  BY FailureTypes DEF TypeOK, FailureRecord, OneMoreException
<1>1. r \in ServerRecord /\ incoming' \in Seq(ServerRecord) /\ failures' \in FailureRecord
  BY <1>0, ReceivedType DEF OnInvalidGetValuesResult
<1>2. cfg' \in [maxRequestsNumber : Int, multiplexingEnabled : BOOLEAN]
  BY <1>1, ServerRecordFields DEF OnInvalidGetValuesResult, TypeOK
<1>3. requests' \in Seq(RequestHistory) /\ Len(requests') = Len(requests)
  BY CallType, NoResponseType DEF OnInvalidGetValuesResult, ConnectionFails, TypeOK
<1>4. connectionState' \in {"NotConnected", "ConnectionInProgress", "Connected"}
  BY DEF OnInvalidGetValuesResult, ConnectionFails, TypeOK
<1> QED
  BY <1>1, <1>2, <1>3, <1>4 DEF OnInvalidGetValuesResult, TypeOK, serverVars, FailureRecord

\* The limits that a GetValuesResult leaves.
LimitsOf(r) ==
  IF r.kind = "empty" THEN cfg
  ELSE [maxRequestsNumber |-> r.maxReqs, multiplexingEnabled |-> r.mpxs]

\* What onConnectionSuccess_ does: nothing, or the pending request is sent or refused.
LEMMA ResultCases ==
  ASSUME NEW r, OnGetValuesResult(r)
  PROVE  /\ cfg' = LimitsOf(r)
         /\ \/ /\ pendingRequest = 0
               /\ ReceiveAndThrow(r, failures)
               /\ UNCHANGED <<connectionState, requestIdPool, responseMap, cancelHandler,
                              requests, serving>>
            \/ /\ pendingRequest # 0
               /\ connectionState' = "Connected"
               /\ \E completes :
                    DoSendRequest(pendingRequest, AllIds(LimitsOf(r)), requests, completes)
               /\ \/ /\ Receive(r)
                     /\ RedirectHandle({id \in RequestIds : responseMap'[id] # NoContext})
                  \/ /\ Faults < MaxFaults
                     /\ ReceiveAndThrow(r, OneMoreException)
                     /\ UNCHANGED cancelHandler
BY DEF OnGetValuesResult, LimitsOf

LEMMA ResultType ==
  ASSUME TypeOK, NEW r, OnGetValuesResult(r)
  PROVE  TypeOK'
<1>0. failures \in FailureRecord /\ OneMoreException \in FailureRecord
  BY FailureTypes DEF TypeOK, FailureRecord, OneMoreException
<1>1. r \in ServerRecord /\ incoming' \in Seq(ServerRecord) /\ failures' \in FailureRecord
  <2>1. CASE Receive(r) /\ RedirectHandle({id \in RequestIds : responseMap'[id] # NoContext})
    <3>1. failures' = failures \/ failures' = [failures EXCEPT !.died = TRUE]
      BY <2>1 DEF RedirectHandle
    <3>2. failures' \in FailureRecord
      BY <1>0, <3>1, FailureTypes
    <3> QED
      BY <1>0, <2>1, <3>2, ReceivedType
  <2>2. CASE ReceiveAndThrow(r, failures)
    BY <1>0, <2>2, ReceivedType
  <2>3. CASE ReceiveAndThrow(r, OneMoreException)
    BY <1>0, <2>3, ReceivedType
  <2> QED
    BY <2>1, <2>2, <2>3, ResultCases
<1>2. LimitsOf(r) \in [maxRequestsNumber : Int, multiplexingEnabled : BOOLEAN]
  BY <1>1, ServerRecordFields DEF OnGetValuesResult, TypeOK, LimitsOf
<1>3. AllIds(LimitsOf(r)) \subseteq RequestIds
  BY <1>2, AllIdsType
<1>4. CASE UNCHANGED <<connectionState, requestIdPool, responseMap, cancelHandler,
                       requests, serving>>
  BY <1>1, <1>2, <1>4, ResultCases DEF OnGetValuesResult, TypeOK, FailureRecord
<1>5. ASSUME pendingRequest # 0, connectionState' = "Connected", NEW completes,
             DoSendRequest(pendingRequest, AllIds(LimitsOf(r)), requests, completes),
             \/ RedirectHandle({id \in RequestIds : responseMap'[id] # NoContext})
             \/ UNCHANGED cancelHandler
      PROVE  TypeOK'
  <2> DEFINE used == {id \in RequestIds : responseMap'[id] # NoContext}
  <2>1. /\ requests \in Seq(RequestHistory) /\ Len(requests) \in Nat
        /\ Len(requests) <= Len(requests) /\ pendingRequest \in DOMAIN requests /\ Len(requests) <= MaxRequests
    BY <1>5 DEF TypeOK
  <2>2. /\ requestIdPool' \subseteq RequestIds
        /\ responseMap' \in [RequestIds -> ResponseContext \cup {NoContext}]
        /\ requests' \in Seq(RequestHistory) /\ Len(requests') = Len(requests)
        /\ serving' \in [RequestIds -> 0..Len(requests)]
    BY <1>3, <1>5, <2>1, SendTypes
  <2>5. used # {} => SmallestOf(used) \in RequestIds
    BY SmallestId
  <2> HIDE DEF used
  <2>6. cancelHandler' \in [request : 0..Len(requests), does : RequestIds \cup {Opening}]
    <3>1. \/ cancelHandler' = cancelHandler
          \/ used # {} /\ cancelHandler' = [cancelHandler EXCEPT !.does = SmallestOf(used)]
      BY <1>5 DEF RedirectHandle, used
    <3> QED
      BY <2>5, <3>1 DEF TypeOK
  <2> QED
    BY <1>1, <1>2, <1>5, <2>1, <2>2, <2>6, ResultCases
       DEF OnGetValuesResult, TypeOK, FailureRecord
<1> QED
  BY <1>4, <1>5, ResultCases

LEMMA PieceType ==
  ASSUME TypeOK, NEW r, OnStdOut(r) \/ OnStdErr(r)
  PROVE  TypeOK'
<1> DEFINE context == responseMap[r.id]
<1>1. /\ r \in ServerRecord /\ incoming' \in Seq(ServerRecord)
      /\ r.id \in RequestIds /\ r.piece \in Piece /\ InUse(r.id)
  BY HeadOfIncoming, ServerRecordFields DEF OnStdOut, OnStdErr, Receive, IsNext, StreamTypes
<1>2. /\ context \in ResponseContext
      /\ Append(context.data, r.piece) \in Seq(Piece)
      /\ Append(context.errorMsg, r.piece) \in Seq(Piece)
  BY <1>1, ContextFields, AppendProperties
<1>3. /\ [context EXCEPT !.data = Append(@, r.piece)] \in ResponseContext
      /\ [context EXCEPT !.errorMsg = Append(@, r.piece)] \in ResponseContext
  BY <1>2 DEF ResponseContext
<1>4. \/ responseMap' = [responseMap EXCEPT ![r.id] = [context EXCEPT !.data = Append(@, r.piece)]]
      \/ responseMap' = [responseMap EXCEPT ![r.id] =
                           [context EXCEPT !.errorMsg = Append(@, r.piece)]]
  BY DEF OnStdOut, OnStdErr
<1>5. responseMap' \in [RequestIds -> ResponseContext \cup {NoContext}]
  BY <1>1, <1>3, <1>4 DEF TypeOK
<1> QED
  BY <1>1, <1>5 DEF OnStdOut, OnStdErr, TypeOK, serverVars

LEMMA EndRequestType ==
  ASSUME TypeOK, NEW r, OnEndRequest(r)
  PROVE  TypeOK'
<1>1. /\ r \in ServerRecord /\ incoming' \in Seq(ServerRecord)
      /\ r.id \in RequestIds /\ r.request \in Nat /\ InUse(r.id)
  BY HeadOfIncoming, ServerRecordFields, BoundsAssumption
     DEF OnEndRequest, Receive, IsNext, StreamTypes, Requests
<1>2. PICK status \in {"Successful", "Failed", "Cancelled"} :
        BeginEndRequest(r.id, status, r.request, requests, Len(Tail(incoming)))
  BY DEF OnEndRequest
<1>3. requests \in Seq(RequestHistory)
  BY DEF TypeOK
<1>4. /\ requests' \in Seq(RequestHistory) /\ Len(requests') = Len(requests)
      /\ ending' \in Seq([id : RequestIds, status : {"Successful", "Failed", "Cancelled"},
                          context : ResponseContext, rest : Nat])
  <2>1. Len(Tail(incoming)) \in Nat
    BY HeadOfIncoming DEF OnEndRequest, Receive, IsNext
  <2> QED
    BY <1>1, <1>2, <1>3, <2>1, BeginEndType
<1> QED
  BY <1>1, <1>4 DEF OnEndRequest, TypeOK, serverVars

LEMMA UnknownTypeType ==
  ASSUME TypeOK, NEW r, OnUnknownType(r)
  PROVE  TypeOK'
<1>1. /\ r \in ServerRecord /\ Tail(incoming) \in Seq(ServerRecord) /\ r.id \in RequestIds
  BY HeadOfIncoming, ServerRecordFields DEF OnUnknownType, Receive, ReceiveAndThrow, IsNext
<1> DEFINE end == [type |-> "EndRequest", id |-> r.id, status |-> "RequestComplete",
                   request |-> serving[r.id]]
<1>2. ASSUME serving[r.id] # 0, incoming' = Append(Tail(incoming), end)
      PROVE  incoming' \in Seq(ServerRecord)
  <2>1. serving[r.id] \in Requests
    BY <1>1, <1>2, BoundsAssumption, SMTT(30) DEF TypeOK, Requests
  <2>2. end \in ServerRecord
    BY <1>1, <2>1 DEF ServerRecord
  <2> HIDE DEF end
  <2> QED
    BY <1>1, <1>2, <2>2, AppendProperties
<1>3. incoming' \in Seq(ServerRecord) /\ failures' \in FailureRecord
  <2>1. failures \in FailureRecord /\ OneMoreException \in FailureRecord
    BY FailureTypes DEF TypeOK, FailureRecord, OneMoreException
  <2>2. CASE ReceiveAndThrow(r, OneMoreException)
    BY <2>1, <2>2, ReceivedType
  <2> QED
    BY <1>1, <1>2, <2>1, <2>2 DEF OnUnknownType, Receive
<1>4. serving' \in [RequestIds -> 0..Len(requests)]
  <2>1. Len(requests) \in Nat /\ serving \in [RequestIds -> 0..Len(requests)]
    BY DEF TypeOK
  <2>2. serving' = serving \/ serving' = [serving EXCEPT ![r.id] = 0]
    BY DEF OnUnknownType
  <2> QED
    BY <2>1, <2>2
<1> QED
  BY <1>3, <1>4 DEF OnUnknownType, TypeOK, requesterVars, FailureRecord

\* What one step of the server adds to the records on the way.
LEMMA ServerAdds ==
  ASSUME TypeOK, ServerStep
  PROVE  /\ \E r \in ServerRecord : incoming' = Append(incoming, r)
         /\ UNCHANGED <<requesterVars, closed>>
         /\ serving' \in [RequestIds -> 0..Len(requests)]
         /\ output' \in [Requests -> Seq(StreamTypes)]
         /\ getValuesOwed' \in Nat /\ failures' \in FailureRecord
<1>1. /\ serving \in [RequestIds -> 0..Len(requests)] /\ Len(requests) \in Nat
      /\ Len(requests) <= MaxRequests /\ failures \in FailureRecord
      /\ output \in [Requests -> Seq(StreamTypes)] /\ getValuesOwed \in Nat
      /\ \A id \in RequestIds : serving[id] # 0 => serving[id] \in Requests
  <2>1. /\ serving \in [RequestIds -> 0..Len(requests)]
        /\ requests \in Seq(RequestHistory) /\ Len(requests) <= MaxRequests
        /\ failures \in FailureRecord
        /\ output \in [Requests -> Seq(StreamTypes)] /\ getValuesOwed \in Nat
    BY DEF TypeOK, FailureRecord
  <2>2. Len(requests) \in Nat
    BY <2>1, LenProperties
  <2>3. \A id \in RequestIds : serving[id] # 0 => serving[id] \in Requests
    BY <2>1, <2>2, BoundsAssumption DEF Requests
  <2> QED
    BY <2>1, <2>2, <2>3
<1>2. CASE AnswerGetValues
  <2>1. PICK kind \in ResultKinds, maxReqs \in MaxReqsValues, mpxs \in MultiplexingModes :
          incoming' = Append(incoming, [type |-> "GetValuesResult", kind |-> kind,
                                        maxReqs |-> maxReqs, mpxs |-> mpxs])
    BY <1>2 DEF AnswerGetValues, ServerSends
  <2>2. [type |-> "GetValuesResult", kind |-> kind, maxReqs |-> maxReqs, mpxs |-> mpxs]
          \in ServerRecord
    BY DEF ServerRecord
  <2>3. \E r \in ServerRecord : incoming' = Append(incoming, r)
    BY <2>1, <2>2
  <2>4. failures' = failures \/ failures' = [failures EXCEPT !.unasked = @ + 1]
    BY <1>2 DEF AnswerGetValues
  <2>5. failures' \in FailureRecord
    BY <1>1, <2>4, FailureTypes
  <2> QED
    BY <1>1, <1>2, <2>3, <2>5 DEF AnswerGetValues
<1>3. ASSUME NEW id \in RequestIds, EndServing(id)
      PROVE  /\ \E r \in ServerRecord : incoming' = Append(incoming, r)
             /\ UNCHANGED <<requesterVars, closed, output, getValuesOwed, failures>>
             /\ serving' \in [RequestIds -> 0..Len(requests)]
  <2>1. PICK status \in Statuses :
          incoming' = Append(incoming, [type |-> "EndRequest", id |-> id, status |-> status,
                                        request |-> serving[id]])
    BY <1>3 DEF EndServing, ServerSends
  <2>2. [type |-> "EndRequest", id |-> id, status |-> status, request |-> serving[id]]
          \in ServerRecord
    BY <1>1, <1>3 DEF ServerRecord, EndServing
  <2> QED
    BY <1>1, <1>3, <2>1, <2>2 DEF EndServing
<1>4. ASSUME NEW id \in RequestIds, SendUnknownType(id)
      PROVE  /\ \E r \in ServerRecord : incoming' = Append(incoming, r)
             /\ UNCHANGED <<requesterVars, closed, serving, output, getValuesOwed>>
             /\ failures' \in FailureRecord
  <2>1. incoming' = Append(incoming, [type |-> "UnknownType", id |-> id])
    BY <1>4 DEF SendUnknownType, ServerSends
  <2>2. [type |-> "UnknownType", id |-> id] \in ServerRecord
    BY DEF ServerRecord
  <2> QED
    BY <1>1, <1>4, <2>1, <2>2, FailureTypes DEF SendUnknownType, serverVars
<1>5. ASSUME NEW id \in RequestIds, NEW type \in StreamTypes, SendPiece(id, type)
      PROVE  /\ \E r \in ServerRecord : incoming' = Append(incoming, r)
             /\ UNCHANGED <<requesterVars, closed, serving, getValuesOwed, failures>>
             /\ output' \in [Requests -> Seq(StreamTypes)]
  <2> DEFINE k == serving[id]
             piece == [request |-> k, n |-> Len(output[k]) + 1]
  <2>1. /\ incoming' = Append(incoming, [type |-> type, id |-> id, piece |-> piece])
        /\ output' = [output EXCEPT ![k] = Append(@, type)] /\ k \in Requests
    BY <1>1, <1>5 DEF SendPiece, ServerSends
  <2>2. output[k] \in Seq(StreamTypes)
    BY <1>1, <2>1
  <2>3. Append(output[k], type) \in Seq(StreamTypes) /\ Len(output[k]) \in Nat
    BY <2>2, AppendProperties, LenProperties
  <2>4. piece \in Piece
    BY <2>1, <2>3 DEF Piece
  <2> HIDE DEF piece, k
  <2>5. [type |-> type, id |-> id, piece |-> piece] \in ServerRecord
    BY <2>4 DEF ServerRecord
  <2> QED
    BY <1>1, <1>5, <2>1, <2>3, <2>5 DEF SendPiece
<1> QED
  BY <1>1, <1>2, <1>3, <1>4, <1>5 DEF ServerStep

\* The numbers of the requests made so far are numbers of requests.
LEMMA HistoryNumbers ==
  ASSUME NEW history \in Seq(RequestHistory), Len(history) <= MaxRequests
  PROVE  DOMAIN history \subseteq Requests
<1>1. DOMAIN history = 1..Len(history) /\ Len(history) \in Nat
  BY LenProperties
<1> QED
  BY <1>1, BoundsAssumption DEF Requests

LEMMA ServerType ==
  ASSUME TypeOK, ServerStep
  PROVE  TypeOK'
<1>1. PICK r \in ServerRecord : incoming' = Append(incoming, r)
  BY ServerAdds
<1>2. incoming' \in Seq(ServerRecord)
  BY <1>1, AppendProperties DEF TypeOK
<1> QED
  BY <1>2, ServerAdds DEF TypeOK, requesterVars, FailureRecord

\* The first state has the types ...
LEMMA InitTypes ==
  ASSUME Init
  PROVE  TypeOK
<1>1. Len(requests) = 0 /\ requests \in Seq(RequestHistory) /\ incoming \in Seq(ServerRecord)
  BY DEF Init
<1>2. /\ ending \in Seq([id : RequestIds, status : {"Successful", "Failed", "Cancelled"},
                        context : ResponseContext, rest : Nat])
      /\ output \in [Requests -> Seq(StreamTypes)]
  BY DEF Init
<1>3. /\ pendingRequest \in 0..Len(requests) /\ serving \in [RequestIds -> 0..Len(requests)]
      /\ cancelHandler \in [request : 0..Len(requests), does : RequestIds \cup {Opening}]
  BY <1>1 DEF Init
<1>4. cfg \in [maxRequestsNumber : Int, multiplexingEnabled : BOOLEAN]
  BY DEF Init
<1>5. Len(requests) <= MaxRequests
  BY <1>1, BoundsAssumption
<1>6. /\ connectionState \in {"NotConnected", "ConnectionInProgress", "Connected"}
      /\ requestIdPool \subseteq RequestIds
      /\ responseMap \in [RequestIds -> ResponseContext \cup {NoContext}]
      /\ getValuesOwed \in Nat /\ closed \in BOOLEAN
  BY DEF Init
<1>7. failures \in FailureRecord
  BY DEF Init, FailureRecord
<1> QED
  BY <1>1, <1>2, <1>3, <1>4, <1>5, <1>6, <1>7 DEF TypeOK, FailureRecord

\* ... and every step keeps them.
LEMMA NextTypes ==
  ASSUME TypeOK, [Next]_vars
  PROVE  TypeOK'
<1>1. CASE UNCHANGED vars
  BY <1>1 DEF vars, requesterVars, serverVars, TypeOK
<1>2. ASSUME NEW r, OnUnexpectedRecord(r) PROVE TypeOK'
  <2>1. incoming' \in Seq(ServerRecord)
    BY <1>2, HeadOfIncoming DEF OnUnexpectedRecord, Receive, IsNext
  <2> QED
    BY <1>2, <2>1 DEF OnUnexpectedRecord, TypeOK, requesterVars, serverVars
<1>3. CASE OnRecordRead
  BY <1>2, <1>3, InvalidResultType, ResultType, PieceType, EndRequestType, UnknownTypeType
     DEF OnRecordRead
<1>4. CASE ApplicationStep
  BY <1>4, OpenType, SendType, RejectType, CancelType DEF ApplicationStep
<1> QED
  BY <1>1, <1>3, <1>4, FinishType, LeaveType, ServerType DEF Next

\* The requester never holds a value the code's types do not allow, whatever the
\* server reports, sends and leaves out, and whatever is cancelled.
THEOREM RequesterTypes == Spec => []TypeOK
<1> QED
  BY InitTypes, NextTypes, PTL DEF Spec

=============================================================================
