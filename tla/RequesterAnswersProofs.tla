------------------------ MODULE RequesterAnswersProofs -------------------------
(***************************************************************************)
(* If no request is cancelled and the server reports its limits only when  *)
(* it is asked, each handler gets the whole response to its own request,   *)
(* and an id that is available is not used any more, although ids are used *)
(* again, records of several requests are mixed, sendData, disconnect and  *)
(* the handlers may throw and requests may be aborted (UnknownType).  What *)
(* is missing of a response was given up by RecordReader when one of them  *)
(* threw.                                                                  *)
(***************************************************************************)
EXTENDS RequesterOrderProofs

-----------------------------------------------------------------------------
(* The invariant                                                            *)

\* The id stands for a request whose handler was not called.  (An exception out
\* of doEndRequest leaves ids whose handler was.)
Owner(id) == responseMap[id].request
Awaits(id) == InUse(id) /\ ~IsEndingId(id) /\ requests[Owner(id)].outcomes = <<>>
IsPiece(r) == r.type \in StreamTypes

\* What the server serves under an id is the request that waits there.
ServedPart ==
  \A id \in RequestIds : serving[id] # 0 => Awaits(id) /\ Owner(id) = serving[id]

\* Records q are for requests that wait ...
OnWay(q) == \A i \in DOMAIN q : q[i].type # "GetValuesResult" => Awaits(q[i].id)

\* ... EndRequest is the last one, when the server has ended the request ...
LastPart(q) ==
  \A i \in DOMAIN q : q[i].type = "EndRequest" =>
    /\ serving[q[i].id] = 0 /\ q[i].request = Owner(q[i].id)
    /\ \A j \in DOMAIN q : IsFor(q[j], q[i].id) => j <= i

\* ... pieces are the request's own, in order, behind those of the context ...
OwnPart(q) ==
  \A i \in DOMAIN q : IsPiece(q[i]) =>
    /\ q[i].piece.request = Owner(q[i].id)
    /\ q[i].piece.n \in DOMAIN output[Owner(q[i].id)]
    /\ output[Owner(q[i].id)][q[i].piece.n] = q[i].type
InOrder(q) ==
  \A i, j \in DOMAIN q :
    IsPiece(q[i]) /\ IsPiece(q[j]) /\ q[i].id = q[j].id /\ i < j =>
      q[i].piece.n < q[j].piece.n
BehindPart(q) ==
  \A i \in DOMAIN q : IsPiece(q[i]) =>
    /\ \A m \in DOMAIN responseMap[q[i].id].data :
         responseMap[q[i].id].data[m].n < q[i].piece.n
    /\ \A m \in DOMAIN responseMap[q[i].id].errorMsg :
         responseMap[q[i].id].errorMsg[m].n < q[i].piece.n

\* ... which holds pieces of its own request, in order ...
KeptPart ==
  \A id \in RequestIds : Awaits(id) =>
    /\ ArePieces(responseMap[id].data, Owner(id), "StdOut")
    /\ ArePieces(responseMap[id].errorMsg, Owner(id), "StdErr")

\* ... and no piece is missing but those that were lost.
CoveredPart(q) ==
  \A id \in RequestIds : Awaits(id) => \A n \in DOMAIN output[Owner(id)] :
    \/ [request |-> Owner(id), n |-> n] \in failures.lost
    \/ \E m \in DOMAIN responseMap[id].data : responseMap[id].data[m].n = n
    \/ \E m \in DOMAIN responseMap[id].errorMsg : responseMap[id].errorMsg[m].n = n
    \/ \E i \in DOMAIN q : IsPiece(q[i]) /\ q[i].id = id /\ q[i].piece.n = n

Queue(q) ==
  OnWay(q) /\ LastPart(q) /\ OwnPart(q) /\ InOrder(q) /\ BehindPart(q) /\ CoveredPart(q)

\* The server sends nothing for a request that does not exist, or has no id yet.
UnsentPart ==
  /\ \A k \in Requests : k \notin DOMAIN requests => output[k] = <<>>
  /\ \A k \in DOMAIN requests :
       requests[k].outcomes = <<>> /\ IdsOf(k) = {} => output[k] = <<>>

\* What was lost stays lost.
LostStay == failures.lost \subseteq failures'.lost

AnswersInv ==
  /\ ServedPart /\ KeptPart /\ UnsentPart /\ ResponseIsOwnAndWhole
  /\ Queue(incoming)

-----------------------------------------------------------------------------
(* The queue of records                                                     *)

\* The first n records are taken off.
LEMMA QueueDropped ==
  ASSUME NEW q, NEW t, NEW n \in Nat, DOMAIN q \subseteq Nat, DOMAIN t \subseteq Nat, Queue(q),
         \A i \in DOMAIN t : i + n \in DOMAIN q /\ t[i] = q[i + n]
  PROVE  OnWay(t) /\ LastPart(t) /\ OwnPart(t) /\ InOrder(t) /\ BehindPart(t)
<1>1. \A i, j \in DOMAIN t : /\ i < j => i + n < j + n
                             /\ j + n <= i + n => j <= i
  OBVIOUS
<1>2. OnWay(t)
  BY DEF Queue, OnWay
<1>3. OwnPart(t)
  BY DEF Queue, OwnPart
<1>4. BehindPart(t)
  BY DEF Queue, BehindPart
<1>5. LastPart(t)
  BY <1>1 DEF Queue, LastPart
<1>6. InOrder(t)
  BY <1>1 DEF Queue, InOrder
<1> QED
  BY <1>2, <1>3, <1>4, <1>5, <1>6

\* A record is taken off.
LEMMA QueueTail ==
  ASSUME NEW q \in Seq(ServerRecord), q # <<>>, Queue(q)
  PROVE  /\ OnWay(Tail(q)) /\ LastPart(Tail(q)) /\ OwnPart(Tail(q)) /\ InOrder(Tail(q))
         /\ BehindPart(Tail(q))
         /\ ~IsPiece(Head(q)) => CoveredPart(Tail(q))
<1> DEFINE t == Tail(q)
<1>1. /\ Len(q) \in Nat \ {0} /\ DOMAIN q = 1..Len(q) /\ DOMAIN t = 1..(Len(q) - 1)
      /\ Head(q) = q[1] /\ \A i \in 1..(Len(q) - 1) : t[i] = q[i + 1]
  BY HeadTailProperties, EmptySeq, LenProperties
<1>2. /\ \A i \in DOMAIN t : i + 1 \in DOMAIN q /\ t[i] = q[i + 1]
      /\ DOMAIN q \subseteq Nat /\ DOMAIN t \subseteq Nat
  BY <1>1
<1>3. \A i \in DOMAIN q : i = 1 \/ (i - 1 \in DOMAIN t /\ t[i - 1] = q[i])
  BY <1>1
<1> HIDE DEF t
<1>4. OnWay(t) /\ LastPart(t) /\ OwnPart(t) /\ InOrder(t) /\ BehindPart(t)
  <2>1. PICK one \in Nat : one = 1
    OBVIOUS
  <2>2. \A i \in DOMAIN t : i + one \in DOMAIN q /\ t[i] = q[i + one]
    BY <1>2, <2>1
  <2> QED
    BY <1>2, <2>2, QueueDropped
<1>8. ASSUME ~IsPiece(Head(q))
      PROVE  CoveredPart(t)
  <2>1. \A i \in DOMAIN q : IsPiece(q[i]) => i - 1 \in DOMAIN t /\ t[i - 1] = q[i]
    BY <1>1, <1>3, <1>8
  <2>2. \A i \in DOMAIN q : IsPiece(q[i]) => \E j \in DOMAIN t : t[j] = q[i]
    BY <2>1
  <2>3. ASSUME NEW id, NEW n, NEW i \in DOMAIN q,
               IsPiece(q[i]) /\ q[i].id = id /\ q[i].piece.n = n
        PROVE  \E j \in DOMAIN t : IsPiece(t[j]) /\ t[j].id = id /\ t[j].piece.n = n
    BY <2>2, <2>3
  <2> HIDE DEF IsPiece
  <2> QED
    BY <2>3 DEF Queue, CoveredPart
<1> QED
  BY <1>4, <1>8 DEF t

\* The requester's side changes, but not for the ids the records are for; other ids
\* lose their request, or get one of which nothing was sent.
LEMMA QueueStays ==
  ASSUME NEW q, OnWay(q), LastPart(q), OwnPart(q), InOrder(q), BehindPart(q),
         KeptPart, LostStay, UNCHANGED output,
         \A i \in DOMAIN q : q[i].type # "GetValuesResult" =>
           /\ Awaits(q[i].id)'
           /\ responseMap'[q[i].id] = responseMap[q[i].id] /\ serving'[q[i].id] = serving[q[i].id],
         \A id \in RequestIds : Awaits(id)' =>
           \/ Awaits(id) /\ responseMap'[id] = responseMap[id]
           \/ /\ responseMap'[id].data = <<>> /\ responseMap'[id].errorMsg = <<>>
              /\ output[responseMap'[id].request] = <<>>
  PROVE  /\ OnWay(q)' /\ LastPart(q)' /\ OwnPart(q)' /\ InOrder(q)' /\ BehindPart(q)'
         /\ CoveredPart(q) => CoveredPart(q)'
         /\ KeptPart'
<1>1. \A i \in DOMAIN q : IsPiece(q[i]) => q[i].type # "GetValuesResult"
  BY DEF IsPiece, StreamTypes
<1>2. OnWay(q)'
  BY DEF OnWay
<1>3. LastPart(q)'
  BY DEF LastPart, Owner
<1>4. OwnPart(q)'
  BY <1>1 DEF OwnPart, Owner
<1>5. InOrder(q)'
  BY DEF InOrder
<1>6. BehindPart(q)'
  BY <1>1 DEF BehindPart
<1>7. CoveredPart(q) => CoveredPart(q)'
  BY DEF CoveredPart, Owner, LostStay
<1>8. \A k, type : ArePieces(<<>>, k, type)'
  BY DEF ArePieces
<1>9. KeptPart'
  BY <1>8 DEF KeptPart, ArePieces, Owner
<1> QED
  BY <1>2, <1>3, <1>4, <1>5, <1>6, <1>7, <1>9

\* The queue is the one that was left.
LEMMA QueueIs ==
  ASSUME NEW q, incoming' = q, Queue(q)'
  PROVE  Queue(incoming)'
BY DEF Queue, OnWay, LastPart, OwnPart, InOrder, BehindPart, CoveredPart

\* A record is added.
LEMMA Appended ==
  ASSUME NEW q \in Seq(ServerRecord), NEW r, NEW t, t = Append(q, r)
  PROVE  \E n \in Nat \ {0} :
           /\ DOMAIN t = 1..n /\ t[n] = r /\ DOMAIN q \subseteq DOMAIN t
           /\ \A i \in DOMAIN t : i # n => i \in DOMAIN q /\ t[i] = q[i]
           /\ \A i \in DOMAIN q : i < n /\ t[i] = q[i]
<1>1. /\ Len(q) \in Nat /\ DOMAIN q = 1..Len(q) /\ DOMAIN t = 1..(Len(q) + 1)
      /\ t[Len(q) + 1] = r /\ \A i \in 1..Len(q) : t[i] = q[i]
  BY AppendProperties, LenProperties
<1> QED
  BY <1>1

-----------------------------------------------------------------------------
(* Use is orderly                                                           *)

Uncancelled ==
  failures.unasked = 0 /\ \A k \in DOMAIN requests : requests[k].cancelled = "no"

LEMMA NextUncancelled ==
  ASSUME Cancels = {}, ~Volunteers, TypeOK, Uncancelled, [Next]_vars
  PROVE  Uncancelled'
<1>1. ~AnswerGetValues \/ failures' = failures
  BY DEF AnswerGetValues
<1>2. failures \in FailureRecord
  BY DEF TypeOK, FailureRecord
<1>3. failures'.unasked = failures.unasked
  BY <1>1, <1>2, FailureSteps
<1>4. \A k : ~CancelRequest(k)
  BY DEF CancelRequest
<1>5. Remembers(requests', {})
  BY <1>4, NextRemembers
<1> QED
  BY <1>3, <1>5 DEF Uncancelled, Remembers

LEMMA UncancelledIsOrderly == Uncancelled => Orderly
BY DEF Uncancelled, Orderly, CancelledIn

\* Without cancellations, and results nobody asked for, the connection is used as
\* intended.
THEOREM OrderlyTheorem ==
  ASSUME Cancels = {}, ~Volunteers
  PROVE  Spec => []Orderly
<1>1. Init => Uncancelled
  BY DEF Init, Uncancelled
<1>2. TypeOK /\ Uncancelled /\ [Next]_vars => Uncancelled'
  BY NextUncancelled
<1> QED
  BY <1>1, <1>2, UncancelledIsOrderly, RequesterTypes, PTL DEF Spec

-----------------------------------------------------------------------------
(* Steps that pass no answer on                                             *)

\* Ids that wait for an answer are left alone; others do not wait, or begin to.
Unmoved ==
  \A id \in RequestIds :
    \/ /\ Awaits(id)' /\ Awaits(id)
       /\ responseMap'[id] = responseMap[id] /\ serving'[id] = serving[id]
    \/ /\ ~Awaits(id)' /\ ~Awaits(id)
       /\ serving'[id] = serving[id]
    \/ /\ Awaits(id)' /\ ~Awaits(id)
       /\ serving'[id] \in {serving[id], responseMap'[id].request}
       /\ responseMap'[id].data = <<>> /\ responseMap'[id].errorMsg = <<>>
       /\ output[responseMap'[id].request] = <<>>

\* No handler is told about a response, and what was not sent stays so.
ToldNothing ==
  /\ DOMAIN requests \subseteq DOMAIN requests'
  /\ \A k \in DOMAIN requests' :
       \/ k \in DOMAIN requests /\ requests'[k].outcomes = requests[k].outcomes
       \/ \A i \in DOMAIN requests'[k].outcomes : requests'[k].outcomes[i].status # "Successful"
  /\ \A k \in DOMAIN requests : requests'[k].outcomes = <<>> =>
       requests[k].outcomes = <<>> /\ IdsOf(k) \subseteq IdsOf(k)'

LEMMA UnmovedQueue ==
  ASSUME ServedPart, KeptPart, LostStay, Unmoved, UNCHANGED output, NEW q \in Seq(ServerRecord),
         OnWay(q), LastPart(q), OwnPart(q), InOrder(q), BehindPart(q)
  PROVE  /\ ServedPart' /\ KeptPart'
         /\ OnWay(q)' /\ LastPart(q)' /\ OwnPart(q)' /\ InOrder(q)' /\ BehindPart(q)'
         /\ CoveredPart(q) => CoveredPart(q)'
<1>1. ASSUME NEW i \in DOMAIN q, q[i].type # "GetValuesResult"
      PROVE  /\ Awaits(q[i].id)'
             /\ responseMap'[q[i].id] = responseMap[q[i].id]
             /\ serving'[q[i].id] = serving[q[i].id]
  <2>1. q[i] \in ServerRecord
    BY ElementOfSeq, LenProperties
  <2>2. q[i].id \in RequestIds /\ Awaits(q[i].id)
    BY <1>1, <2>1, ServerRecordFields DEF OnWay
  <2> QED
    BY <2>2 DEF Unmoved
<1>2. \A id \in RequestIds : Awaits(id)' =>
           \/ Awaits(id) /\ responseMap'[id] = responseMap[id]
           \/ /\ responseMap'[id].data = <<>> /\ responseMap'[id].errorMsg = <<>>
              /\ output[responseMap'[id].request] = <<>>
  BY DEF Unmoved
<1>3. ServedPart'
  BY DEF ServedPart, Unmoved, Owner
<1> QED
  BY <1>1, <1>2, <1>3, QueueStays

\* The output of the server stays, so its pieces are what they were.
LEMMA PiecesStay ==
  ASSUME UNCHANGED output, LostStay, NEW pieces, NEW k, NEW type
  PROVE  AreAllPieces(pieces, k, type) => AreAllPieces(pieces, k, type)'
<1>1. ArePieces(pieces, k, type)' <=> ArePieces(pieces, k, type)
  BY DEF ArePieces
<1> QED
  BY <1>1 DEF AreAllPieces, LostStay

\* Responses that were passed on stay whole.
LEMMA PassedOnStay ==
  ASSUME ResponseIsOwnAndWhole, LostStay, UNCHANGED <<requests, output>>
  PROVE  ResponseIsOwnAndWhole'
<1>1. ASSUME NEW k \in DOMAIN requests, NEW i \in DOMAIN requests[k].outcomes, NEW outcome,
             outcome = requests[k].outcomes[i], outcome.status = "Successful"
      PROVE  /\ outcome.answers = k
             /\ AreAllPieces(outcome.data, k, "StdOut")'
             /\ AreAllPieces(outcome.errorMsg, k, "StdErr")'
  <2>1. /\ outcome.answers = k
        /\ AreAllPieces(outcome.data, k, "StdOut") /\ AreAllPieces(outcome.errorMsg, k, "StdErr")
    BY <1>1 DEF ResponseIsOwnAndWhole
  <2> QED
    BY <2>1, PiecesStay
<1> QED
  BY <1>1 DEF ResponseIsOwnAndWhole

LEMMA ToldNothingWhole ==
  ASSUME TypeOK', UnsentPart, ResponseIsOwnAndWhole, ToldNothing, LostStay, UNCHANGED output
  PROVE  UnsentPart' /\ ResponseIsOwnAndWhole'
<1>0. DOMAIN requests' \subseteq Requests
  <2>1. requests' \in Seq(RequestHistory) /\ Len(requests') <= MaxRequests
    BY DEF TypeOK
  <2> QED
    BY <2>1, HistoryNumbers
<1>1. UnsentPart'
  <2>1. ASSUME NEW k \in Requests, k \notin DOMAIN requests'
        PROVE  output[k] = <<>>
    BY <2>1 DEF UnsentPart, ToldNothing
  <2>2. ASSUME NEW k \in DOMAIN requests', requests'[k].outcomes = <<>>, IdsOf(k)' = {}
        PROVE  output[k] = <<>>
    BY <1>0, <2>2 DEF UnsentPart, ToldNothing
  <2> QED
    BY <2>1, <2>2 DEF UnsentPart
<1>2. ASSUME NEW k \in DOMAIN requests', NEW i \in DOMAIN requests'[k].outcomes,
             requests'[k].outcomes[i].status = "Successful"
      PROVE  /\ requests'[k].outcomes[i].answers = k
             /\ AreAllPieces(requests'[k].outcomes[i].data, k, "StdOut")
             /\ AreAllPieces(requests'[k].outcomes[i].errorMsg, k, "StdErr")
  BY <1>2 DEF ToldNothing, ResponseIsOwnAndWhole
<1>3. ASSUME NEW k \in DOMAIN requests', NEW i \in DOMAIN requests'[k].outcomes, NEW outcome,
             outcome = requests'[k].outcomes[i], outcome.status = "Successful"
      PROVE  /\ outcome.answers = k
             /\ AreAllPieces(outcome.data, k, "StdOut")'
             /\ AreAllPieces(outcome.errorMsg, k, "StdErr")'
  <2>1. /\ outcome.answers = k
        /\ AreAllPieces(outcome.data, k, "StdOut") /\ AreAllPieces(outcome.errorMsg, k, "StdErr")
    BY <1>2, <1>3
  <2> QED
    BY <2>1, PiecesStay
<1>4. ResponseIsOwnAndWhole'
  BY <1>3 DEF ResponseIsOwnAndWhole
<1> QED
  BY <1>1, <1>4

\* The first n records are taken off, and their pieces are lost.
Dropped(n) ==
  /\ \A i \in DOMAIN incoming' : i + n \in DOMAIN incoming /\ incoming'[i] = incoming[i + n]
  /\ \A i \in DOMAIN incoming :
       \/ i > n /\ i - n \in DOMAIN incoming'
       \/ i <= n /\ (IsPiece(incoming[i]) => incoming[i].piece \in failures'.lost)

LEMMA StayDropped ==
  ASSUME TypeOK, incoming' = incoming
  PROVE  \E n \in Nat : Dropped(n)
<1>1. incoming \in Seq(ServerRecord)
  BY DEF TypeOK
<1>2. PICK n \in Nat : n = 0
  OBVIOUS
<1>3. \A i \in DOMAIN incoming : i > n /\ i - n = i /\ i + n = i
  BY <1>1, <1>2, LenProperties
<1> QED
  BY <1>3 DEF Dropped

LEMMA TailDropped ==
  ASSUME TypeOK, NEW r, Receive(r), ~IsPiece(r)
  PROVE  \E n \in Nat : Dropped(n)
<1>1. /\ incoming # <<>> /\ incoming \in Seq(ServerRecord) /\ r = Head(incoming)
      /\ incoming' = Tail(incoming)
  BY DEF TypeOK, Receive, IsNext
<1>2. /\ Len(incoming) \in Nat \ {0} /\ DOMAIN incoming = 1..Len(incoming)
      /\ DOMAIN incoming' = 1..(Len(incoming) - 1) /\ r = incoming[1]
      /\ \A i \in 1..(Len(incoming) - 1) : incoming'[i] = incoming[i + 1]
  BY <1>1, HeadTailProperties, EmptySeq, LenProperties
<1>3. PICK n \in Nat : n = 1
  OBVIOUS
<1>4. \A i \in DOMAIN incoming' : i + n \in DOMAIN incoming /\ incoming'[i] = incoming[i + n]
  BY <1>2, <1>3
<1>5. \A i \in DOMAIN incoming : (i > n /\ i - n \in DOMAIN incoming') \/ (i <= n /\ i = 1)
  BY <1>2, <1>3
<1> QED
  BY <1>2, <1>4, <1>5 DEF Dropped

LEMMA LossDropped ==
  ASSUME TypeOK, NEW n \in Nat, NEW counted \in FailureRecord, LosesRecords(n, counted)
  PROVE  \E m \in Nat : Dropped(m)
<1>1. /\ \A i \in DOMAIN incoming' : i + n \in DOMAIN incoming /\ incoming'[i] = incoming[i + n]
      /\ \A i \in DOMAIN incoming : i > n => i - n \in DOMAIN incoming'
  BY LossType
<1>2. \A i \in DOMAIN incoming : i <= n /\ IsPiece(incoming[i]) => incoming[i].piece \in failures'.lost
  BY LossFields DEF IsPiece
<1>3. \A i \in DOMAIN incoming : i > n \/ i <= n
  <2>1. incoming \in Seq(ServerRecord)
    BY DEF TypeOK
  <2> QED
    BY <2>1, LenProperties
<1> QED
  BY <1>1, <1>2, <1>3 DEF Dropped

\* Such a step keeps the invariant, when the pieces it takes off are lost.
LEMMA AnswersStay ==
  ASSUME TypeOK, TypeOK', AnswersInv, Unmoved, ToldNothing, LostStay, UNCHANGED output,
         NEW n \in Nat, Dropped(n)
  PROVE  AnswersInv'
<1>1. incoming \in Seq(ServerRecord) /\ Queue(incoming)
  BY DEF TypeOK, AnswersInv
<1>2. PICK q \in Seq(ServerRecord) : incoming' = q
  BY DEF TypeOK
<1>3. PICK before \in Seq(ServerRecord) : incoming = before
  BY <1>1
<1>4. DOMAIN before \subseteq Nat /\ DOMAIN q \subseteq Nat
  BY LenProperties
<1>5. /\ \A i \in DOMAIN q : i + n \in DOMAIN before /\ q[i] = before[i + n]
      /\ \A i \in DOMAIN before :
           \/ i > n /\ i - n \in DOMAIN q
           \/ i <= n /\ (IsPiece(before[i]) => before[i].piece \in failures'.lost)
  BY <1>2, <1>3 DEF Dropped
<1>6. OnWay(q) /\ LastPart(q) /\ OwnPart(q) /\ InOrder(q) /\ BehindPart(q)
  BY <1>1, <1>3, <1>4, <1>5, QueueDropped
<1>7. /\ ServedPart' /\ KeptPart'
      /\ OnWay(q)' /\ LastPart(q)' /\ OwnPart(q)' /\ InOrder(q)' /\ BehindPart(q)'
  BY <1>6, UnmovedQueue DEF AnswersInv
<1>8. ASSUME NEW i \in DOMAIN before, IsPiece(before[i])
      PROVE  \/ \E j \in DOMAIN q : q[j] = before[i]
             \/ [request |-> Owner(before[i].id), n |-> before[i].piece.n] \in failures'.lost
  <2>1. CASE i > n /\ i - n \in DOMAIN q
    <3>1. (i - n) + n = i
      BY <1>4
    <3> QED
      BY <1>5, <2>1, <3>1
  <2>2. CASE i <= n /\ before[i].piece \in failures'.lost
    <3>1. before[i].piece \in Piece
      BY <1>8, ElementOfSeq, LenProperties, ServerRecordFields DEF IsPiece
    <3>2. before[i].piece.request = Owner(before[i].id)
      BY <1>1, <1>3, <1>8 DEF Queue, OwnPart
    <3>3. before[i].piece = [request |-> before[i].piece.request, n |-> before[i].piece.n]
      BY <3>1 DEF Piece
    <3> QED
      BY <2>2, <3>2, <3>3
  <2> QED
    BY <1>5, <1>8, <2>1, <2>2
<1>9. ASSUME NEW id \in RequestIds, Awaits(id)', NEW m \in DOMAIN output'[Owner(id)']
      PROVE  \/ [request |-> Owner(id)', n |-> m] \in failures'.lost
             \/ \E i \in DOMAIN responseMap'[id].data : responseMap'[id].data[i].n = m
             \/ \E i \in DOMAIN responseMap'[id].errorMsg : responseMap'[id].errorMsg[i].n = m
             \/ \E i \in DOMAIN q : IsPiece(q[i]) /\ q[i].id = id /\ q[i].piece.n = m
  <2>1. Awaits(id) /\ responseMap'[id] = responseMap[id] /\ Owner(id)' = Owner(id)
    BY <1>9 DEF Unmoved, Owner
  <2>2. \/ [request |-> Owner(id), n |-> m] \in failures.lost
        \/ \E i \in DOMAIN responseMap[id].data : responseMap[id].data[i].n = m
        \/ \E i \in DOMAIN responseMap[id].errorMsg : responseMap[id].errorMsg[i].n = m
        \/ \E i \in DOMAIN before : IsPiece(before[i]) /\ before[i].id = id /\ before[i].piece.n = m
    BY <1>1, <1>3, <1>9, <2>1 DEF Queue, CoveredPart
  <2> HIDE DEF IsPiece
  <2> QED
    BY <1>8, <2>1, <2>2 DEF LostStay
<1>10. CoveredPart(q)'
  BY <1>9 DEF CoveredPart
<1>11. Queue(incoming)'
  BY <1>2, <1>7, <1>10, QueueIs DEF Queue
<1>12. UnsentPart' /\ ResponseIsOwnAndWhole'
  BY ToldNothingWhole DEF AnswersInv
<1> QED
  BY <1>7, <1>11, <1>12 DEF AnswersInv

\* doSendRequest.
LEMMA SendAnswers ==
  ASSUME TypeOK, ClientInv, NEW k, NEW pool, NEW history, Sendable(k, pool, history),
         k \in DOMAIN requests => requests[k].outcomes = <<>>, output[k] = <<>>,
         NEW completes, DoSendRequest(k, pool, history, completes), UNCHANGED <<ending, output>>
  PROVE  Unmoved /\ ToldNothing
<1>0. /\ history \in Seq(RequestHistory) /\ k \in DOMAIN history /\ history[k].outcomes = <<>>
      /\ pool \subseteq RequestIds
  BY DEF Sendable
<1>1. \A id : IsEndingId(id)' <=> IsEndingId(id)
  BY DEF IsEndingId
<1>2. CASE Refuses(k, pool, history)
  <2>1. /\ DOMAIN requests' = DOMAIN history /\ requests'[k].outcomes # <<>>
        /\ \A i \in DOMAIN requests'[k].outcomes :
             requests'[k].outcomes[i] = NoResponse("Failed", 0)
        /\ \A j \in DOMAIN history : j # k => requests'[j] = history[j]
    BY <1>0, <1>2, FirstCall, NoResponseType DEF Refuses
  <2>2. NoResponse("Failed", 0).status # "Successful"
    BY DEF NoResponse
  <2>3. responseMap' = responseMap /\ serving' = serving
    BY <1>2 DEF Refuses
  <2>4. \A j : IdsOf(j)' = IdsOf(j)
    BY <2>3 DEF IdsOf, InUse
  <2>5. Unmoved
    <3>1. \A i \in RequestIds : InUse(i) =>
            Owner(i) \in DOMAIN requests /\ Owner(i) \in DOMAIN history /\ Owner(i) # k
      BY DEF Sendable, ClientInv, ContextsPart, Owner
    <3>2. \A i \in RequestIds : InUse(i) => requests'[Owner(i)] = requests[Owner(i)]
      BY <2>1, <3>1 DEF Sendable
    <3>3. \A i \in RequestIds : (InUse(i)' <=> InUse(i)) /\ Owner(i)' = Owner(i)
      BY <2>3 DEF InUse, Owner
    <3>4. \A i \in RequestIds : Awaits(i)' <=> Awaits(i)
      BY <1>1, <3>2, <3>3 DEF Awaits
    <3> QED
      BY <2>3, <3>4 DEF Unmoved
  <2> QED
    BY <2>1, <2>2, <2>4, <2>5 DEF ToldNothing, Sendable
<1>3. ASSUME NEW id \in pool, SendsUnder(id, k, pool, history)
      PROVE  Unmoved /\ ToldNothing
  <2> DEFINE context == NewContext(k, history[k].keep)
  <2>1. /\ DOMAIN requests' = DOMAIN history /\ requests'[k].outcomes = <<>>
        /\ \A j \in DOMAIN history : j # k => requests'[j] = history[j]
    <3>1. requests' = [history EXCEPT ![k].sends = @ + 1]
      BY <1>3 DEF SendsUnder
    <3> QED
      BY <1>0, <3>1, SendEffect
  <2>2. /\ context.request = k /\ context.data = <<>> /\ context.errorMsg = <<>>
        /\ context # NoContext
    <3>1. context \in ResponseContext
      BY HistoryFields DEF NewContext, ResponseContext, Sendable
    <3> QED
      BY <3>1, NoContextAssumption DEF NewContext
  <2>3. id \in RequestIds /\ ~InUse(id)
    BY <1>0 DEF Sendable, UsedIds
  <2>4. responseMap' = [responseMap EXCEPT ![id] = context]
    BY <1>3, <2>3 DEF SendsUnder
  <2>5. serving' = serving \/ serving' = [serving EXCEPT ![id] = k]
    BY <1>3 DEF SendsUnder
  <2> HIDE DEF context
  <2>6. responseMap'[id] = context /\ \A i \in RequestIds : i # id => responseMap'[i] = responseMap[i]
    BY <2>3, <2>4 DEF TypeOK
  <2>7. /\ serving'[id] \in {serving[id], k}
        /\ \A i \in RequestIds : i # id => serving'[i] = serving[i]
    BY <2>3, <2>5 DEF TypeOK
  <2>8. Unmoved
    <3>1. ASSUME NEW i \in RequestIds, i # id
          PROVE  /\ Awaits(i)' <=> Awaits(i)
                 /\ responseMap'[i] = responseMap[i] /\ serving'[i] = serving[i]
      <4>1. responseMap'[i] = responseMap[i] /\ serving'[i] = serving[i]
        BY <2>6, <2>7, <3>1
      <4>2. InUse(i) =>
              Owner(i) \in DOMAIN requests /\ Owner(i) \in DOMAIN history /\ Owner(i) # k
        BY DEF Sendable, ClientInv, ContextsPart, Owner
      <4>3. InUse(i) => requests'[Owner(i)] = requests[Owner(i)]
        BY <2>1, <4>2 DEF Sendable
      <4>4. (InUse(i)' <=> InUse(i)) /\ Owner(i)' = Owner(i)
        BY <4>1 DEF InUse, Owner
      <4> QED
        BY <1>1, <4>1, <4>3, <4>4 DEF Awaits
    <3>2. ~Awaits(id)
      BY <2>3 DEF Awaits
    <3>3. Awaits(id)'
      <4>1. ~IsEndingId(id)
        BY <2>3 DEF IsEndingId, ClientInv, EndingPart
      <4>2. InUse(id)' /\ Owner(id)' = k
        BY <2>2, <2>6 DEF InUse, Owner
      <4> QED
        BY <1>1, <2>1, <4>1, <4>2 DEF Awaits
    <3> QED
      BY <2>2, <2>6, <2>7, <3>1, <3>2, <3>3 DEF Unmoved
  <2>9. \A j : IdsOf(j) \subseteq IdsOf(j)'
    BY <2>3, <2>6 DEF IdsOf, InUse
  <2>10. ToldNothing
    BY <2>1, <2>9 DEF ToldNothing, Sendable
  <2> QED
    BY <2>8, <2>10
<1> QED
  BY <1>0, <1>2, <1>3, SendCases

LEMMA SendRequestAnswers ==
  ASSUME TypeOK, ClientInv, AnswersInv, NEW keep \in KeepModes, SendRequest(keep)
  PROVE  Unmoved /\ ToldNothing
<1> DEFINE k == Len(requests) + 1
           new(handle) == [keep |-> keep, handle |-> handle, cancelled |-> "no",
                           sends |-> 0, outcomes |-> <<>>]
<1>1. \E handle \in {"none", "opening", "context"}, completes \in BOOLEAN :
        DoSendRequest(k, requestIdPool, Append(requests, new(handle)), completes)
  BY DEF SendRequest
<1>2. PICK handle \in {"none", "opening", "context"}, completes \in BOOLEAN :
        DoSendRequest(k, requestIdPool, Append(requests, new(handle)), completes)
  BY <1>1
<1> DEFINE history == Append(requests, new(handle))
<1>3. /\ history \in Seq(RequestHistory) /\ k \in DOMAIN history /\ k \notin DOMAIN requests
      /\ DOMAIN history = DOMAIN requests \cup {k} /\ history[k].outcomes = <<>>
      /\ \A j \in DOMAIN requests : history[j] = requests[j]
  BY NewRequest, ZenonT(60) DEF SendRequest
<1>4. DoSendRequest(k, requestIdPool, history, completes)
  BY <1>2
<1>5. k \in Requests
  BY BoundsAssumption DEF SendRequest, TypeOK, Requests
<1> HIDE DEF history, new, k
<1>6. \A id \in RequestIds : InUse(id) => responseMap[id].request # k
  BY <1>3 DEF ClientInv, ContextsPart
<1>7. connectionState = "Connected" /\ UNCHANGED <<ending, output>>
  BY DEF SendRequest
<1>8. Sendable(k, requestIdPool, history)
  BY <1>3, <1>5, <1>6, <1>7 DEF Sendable, ClientInv, IdsPart, TypeOK
<1>9. output[k] = <<>>
  BY <1>3, <1>5 DEF AnswersInv, UnsentPart
<1> QED
  BY <1>3, <1>4, <1>7, <1>8, <1>9, SendAnswers

LEMMA ResultAnswers ==
  ASSUME TypeOK, ClientInv, AskedOnce, AnswersInv, NEW r, OnGetValuesResult(r)
  PROVE  Unmoved /\ ToldNothing
<1> DEFINE k == pendingRequest
           pool == AllIds(LimitsOf(r))
<1>1. connectionState = "ConnectionInProgress" /\ r \in ServerRecord
  BY ReceivedHead DEF AskedOnce
<1>2. /\ k # 0 /\ requests[k].outcomes = <<>>
      /\ \A id \in RequestIds : ~InUse(id)
  BY <1>1 DEF ClientInv, OpensOnce
<1>3. k \in DOMAIN requests /\ k \in Requests /\ requests \in Seq(RequestHistory)
  BY <1>2, BoundsAssumption DEF TypeOK, Requests
<1>4. LimitsOf(r) \in [maxRequestsNumber : Int, multiplexingEnabled : BOOLEAN]
  BY <1>1, ServerRecordFields DEF OnGetValuesResult, TypeOK, LimitsOf
<1>5. pool \subseteq RequestIds
  BY <1>4, AllIdsType
<1>6. UNCHANGED <<ending, output>> /\ \E completes : DoSendRequest(k, pool, requests, completes)
  BY <1>2, ResultCases DEF OnGetValuesResult
<1>7. UsedIds = {} /\ IdsOf(k) = {}
  BY <1>2 DEF UsedIds, IdsOf
<1>8. output[k] = <<>>
  BY <1>2, <1>3, <1>7 DEF AnswersInv, UnsentPart
<1> HIDE DEF k, pool
<1>9. Sendable(k, pool, requests)
  BY <1>2, <1>3, <1>5, <1>7 DEF Sendable, k
<1> QED
  BY <1>2, <1>6, <1>8, <1>9, SendAnswers

\* Before the connection is open nothing waits for an answer.
LEMMA OpeningAnswers ==
  ASSUME TypeOK, ClientInv, AskedOnce,
         \/ \E keep \in KeepModes : OpenConnection(keep) \/ RejectRequest(keep)
         \/ \E r : OnInvalidGetValuesResult(r)
  PROVE  Unmoved /\ ToldNothing
<1>1. connectionState # "Connected" /\ UNCHANGED <<responseMap, ending, serving>>
  <2>1. ASSUME NEW r, OnInvalidGetValuesResult(r)
        PROVE  connectionState # "Connected" /\ UNCHANGED <<responseMap, ending, serving>>
    <3>1. connectionState = "ConnectionInProgress"
      BY <2>1, ReceivedHead DEF AskedOnce
    <3> QED
      BY <2>1, <3>1 DEF OnInvalidGetValuesResult, serverVars
  <2> QED
    BY <2>1 DEF OpenConnection, RejectRequest, serverVars
<1>2. Unmoved
  <2>1. \A id \in RequestIds : ~InUse(id) /\ ~InUse(id)'
    BY <1>1 DEF ClientInv, OpensOnce, InUse
  <2> QED
    BY <1>1, <2>1 DEF Unmoved, Awaits
<1>3. \A j : IdsOf(j)' = IdsOf(j)
  BY <1>1 DEF IdsOf, InUse
<1>4. ASSUME NEW keep \in KeepModes, OpenConnection(keep) \/ RejectRequest(keep)
      PROVE  ToldNothing
  <2>1. PICK handle \in {"none", "opening", "context"} :
          requests' = Append(requests, [keep |-> keep, handle |-> handle, cancelled |-> "no",
                                        sends |-> 0, outcomes |-> <<>>])
    BY <1>4 DEF OpenConnection, RejectRequest
  <2>2. \E k : /\ DOMAIN requests' = DOMAIN requests \cup {k} /\ requests'[k].outcomes = <<>>
               /\ \A j \in DOMAIN requests : requests'[j] = requests[j]
    BY <1>4, <2>1, NewRequest DEF OpenConnection, RejectRequest
  <2> QED
    BY <1>3, <2>2 DEF ToldNothing
<1>5. ASSUME NEW r, OnInvalidGetValuesResult(r)
      PROVE  ToldNothing
  <2> DEFINE k == pendingRequest
  <2>1. connectionState = "ConnectionInProgress"
    BY <1>5, ReceivedHead DEF AskedOnce
  <2>2. k \in DOMAIN requests /\ requests[k].outcomes = <<>> /\ requests \in Seq(RequestHistory)
    BY <2>1 DEF ClientInv, OpensOnce, TypeOK
  <2>3. requests' = CallsHandler(requests, k, NoResponse("Failed", 0))
    BY <1>5, <2>1 DEF OnInvalidGetValuesResult, ConnectionFails, ClientInv, OpensOnce
  <2> HIDE DEF k
  <2>4. /\ DOMAIN requests' = DOMAIN requests /\ requests'[k].outcomes # <<>>
        /\ \A i \in DOMAIN requests'[k].outcomes :
             requests'[k].outcomes[i] = NoResponse("Failed", 0)
        /\ \A j \in DOMAIN requests : j # k => requests'[j] = requests[j]
    BY <2>2, <2>3, FirstCall, NoResponseType
  <2>5. NoResponse("Failed", 0).status # "Successful"
    BY DEF NoResponse
  <2> QED
    BY <1>3, <2>4, <2>5 DEF ToldNothing
<1> QED
  BY <1>2, <1>4, <1>5

\* The rest of doEndRequest erases a context whose request was answered.
LEMMA FinishAnswers ==
  ASSUME TypeOK, ClientInv, FinishEndRequest
  PROVE  Unmoved /\ ToldNothing
<1>1. PICK n \in Nat \ {0}, id \in RequestIds :
        /\ n = Len(ending) /\ DOMAIN ending = 1..n /\ id = ending[n].id
        /\ DOMAIN ending' = 1..(n - 1) /\ \A i \in 1..(n - 1) : ending'[i] = ending[i]
  BY FinishedCall
<1>2. EraseContext(id)
  BY <1>1 DEF FinishEndRequest, Last
<1>3. InUse(id) /\ requests[responseMap[id].request].outcomes # <<>> /\ IsEndingId(id)
  BY <1>1 DEF ClientInv, EndingPart, IsEndingId
<1>4. responseMap' = [responseMap EXCEPT ![id] = NoContext] /\ UNCHANGED <<requests, serving>>
  BY <1>2 DEF FinishEndRequest, EraseContext, serverVars
<1>5. /\ ~InUse(id)'
      /\ \A i \in RequestIds : i # id => (InUse(i)' <=> InUse(i)) /\ responseMap'[i] = responseMap[i]
  BY <1>4 DEF InUse, TypeOK
<1>6. \A i \in RequestIds : i # id => (IsEndingId(i)' <=> IsEndingId(i))
  <2>1. /\ \A i \in 1..n : i \in 1..(n - 1) \/ i = n
        /\ \A i \in 1..(n - 1) : i \in 1..n
    OBVIOUS
  <2> QED
    BY <1>1, <2>1 DEF IsEndingId
<1>7. Unmoved
  <2>1. \A i \in RequestIds : i # id => Owner(i)' = Owner(i)
    BY <1>5 DEF Owner
  <2>2. \A i \in RequestIds : i # id => (Awaits(i)' <=> Awaits(i))
    BY <1>4, <1>5, <1>6, <2>1 DEF Awaits
  <2>3. ~Awaits(id) /\ ~Awaits(id)'
    BY <1>3, <1>5 DEF Awaits
  <2> QED
    BY <1>4, <1>5, <2>2, <2>3 DEF Unmoved
<1>8. ToldNothing
  <2>1. ASSUME NEW k \in DOMAIN requests, requests[k].outcomes = <<>>
        PROVE  IdsOf(k) \subseteq IdsOf(k)'
    BY <1>3, <1>5, <2>1 DEF IdsOf
  <2> QED
    BY <1>4, <2>1 DEF ToldNothing
<1> QED
  BY <1>7, <1>8

\* An exception out of doEndRequest leaves the context of a request that was answered.
LEMMA LeaveAnswers ==
  ASSUME TypeOK, ClientInv, LeaveEndRequest
  PROVE  Unmoved /\ ToldNothing /\ \E n \in Nat : Dropped(n)
<1>1. PICK n \in Nat \ {0}, id \in RequestIds :
        /\ n = Len(ending) /\ DOMAIN ending = 1..n /\ id = ending[n].id
        /\ DOMAIN ending' = 1..(n - 1) /\ \A i \in 1..(n - 1) : ending'[i] = ending[i]
  BY FinishedCall
<1>2. /\ InUse(id) /\ requests[Owner(id)].outcomes # <<>> /\ IsEndingId(id)
      /\ UNCHANGED <<requests, serving>>
  BY <1>1 DEF ClientInv, EndingPart, IsEndingId, Owner, LeaveEndRequest, serverVars
<1>3. \A i \in RequestIds :
        /\ InUse(i)' <=> InUse(i)
        /\ InUse(i) => Owner(i)' = Owner(i)
        /\ i # id => responseMap'[i] = responseMap[i]
  <2> DEFINE emptied == [responseMap[id] EXCEPT !.data = <<>>, !.errorMsg = <<>>]
  <2>1. responseMap' = responseMap \/ responseMap' = [responseMap EXCEPT ![id] = emptied]
    BY <1>1 DEF LeaveEndRequest, Last
  <2>2. emptied.request = responseMap[id].request /\ emptied # NoContext
    <3>1. responseMap[id] \in ResponseContext
      BY <1>2, ContextFields
    <3>2. emptied.request = responseMap[id].request
      BY <3>1 DEF ResponseContext
    <3>3. emptied \in ResponseContext
      <4>1. <<>> \in Seq(Piece)
        OBVIOUS
      <4> DEFINE Lists == Seq(Piece)
      <4>2. ResponseContext = [request : Requests, keepConnection : BOOLEAN, data : Lists,
                               errorMsg : Lists]
        BY DEF ResponseContext
      <4>3. <<>> \in Lists
        BY <4>1
      <4> HIDE DEF Lists
      <4> QED
        BY <3>1, <4>2, <4>3
    <3> HIDE DEF emptied
    <3> QED
      BY <3>2, <3>3, NoContextAssumption
  <2> HIDE DEF emptied
  <2> QED
    BY <1>2, <2>1, <2>2 DEF InUse, TypeOK, Owner
<1>4. \A i \in RequestIds : i # id => (IsEndingId(i)' <=> IsEndingId(i))
  <2>1. /\ \A i \in 1..n : i \in 1..(n - 1) \/ i = n
        /\ \A i \in 1..(n - 1) : i \in 1..n
    OBVIOUS
  <2> QED
    BY <1>1, <2>1 DEF IsEndingId
<1>5. Unmoved
  <2>1. \A i \in RequestIds : i # id => (Awaits(i)' <=> Awaits(i))
    BY <1>2, <1>3, <1>4 DEF Awaits
  <2>2. ~Awaits(id) /\ ~Awaits(id)'
    BY <1>2, <1>3 DEF Awaits
  <2> QED
    BY <1>2, <1>3, <2>1, <2>2 DEF Unmoved
<1>6. ToldNothing
  <2>1. \A j : IdsOf(j)' = IdsOf(j)
    BY <1>3 DEF IdsOf, Owner
  <2> QED
    BY <1>2, <2>1 DEF ToldNothing
<1>7. \E m \in Nat : Dropped(m)
  <2> DEFINE k == Last(ending).context.request
             counted == [OneMoreException EXCEPT !.left[k] = @ + 1]
  <2>1. k \in Requests /\ Last(ending).rest \in Nat
    BY PopType DEF LeaveEndRequest
  <2>2. counted \in FailureRecord
    <3>1. failures \in FailureRecord
      BY DEF TypeOK, FailureRecord
    <3>2. OneMoreException \in FailureRecord
      BY <3>1, FailureTypes DEF OneMoreException
    <3> QED
      BY <2>1, <3>2, FailureTypes
  <2>3. \E m \in 0..Last(ending).rest : LosesRecords(m, counted)
    BY DEF LeaveEndRequest
  <2> HIDE DEF counted, k
  <2> QED
    BY <2>1, <2>2, <2>3, LossDropped
<1> QED
  BY <1>5, <1>6, <1>7

-----------------------------------------------------------------------------
(* The server adds a record                                                 *)

\* Nothing but the queue changes, and what it depends on.
LEMMA RequesterStays ==
  ASSUME UNCHANGED <<responseMap, ending, requests>>
  PROVE  \A id : (Awaits(id)' <=> Awaits(id)) /\ Owner(id)' = Owner(id)
BY DEF Awaits, Owner, InUse, IsEndingId

\* What a step of the server leaves, and a record that is dropped.
LEMMA WholeStays ==
  ASSUME UnsentPart, ResponseIsOwnAndWhole, LostStay, UNCHANGED <<responseMap, requests, output>>
  PROVE  UnsentPart' /\ ResponseIsOwnAndWhole'
<1>1. \A k : IdsOf(k)' = IdsOf(k)
  BY DEF IdsOf, InUse
<1>2. UnsentPart'
  BY <1>1 DEF UnsentPart
<1> QED
  BY <1>2, PassedOnStay

\* GetValuesResult, or UnknownType for a request it serves.
LEMMA OtherAdded ==
  ASSUME TypeOK, ServedPart, KeptPart, NEW q \in Seq(ServerRecord), Queue(q),
         NEW r, r.type = "GetValuesResult" \/ (r.type = "UnknownType" /\ r.id \in RequestIds
                                               /\ serving[r.id] # 0),
         UNCHANGED <<responseMap, ending, requests, serving, output>>, LostStay
  PROVE  ServedPart' /\ KeptPart' /\ Queue(Append(q, r))'
<1> DEFINE t == Append(q, r)
<1>1. PICK n \in Nat \ {0} :
           /\ DOMAIN t = 1..n /\ t[n] = r /\ DOMAIN q \subseteq DOMAIN t
           /\ \A i \in DOMAIN t : i # n => i \in DOMAIN q /\ t[i] = q[i]
           /\ \A i \in DOMAIN q : i < n /\ t[i] = q[i]
  BY Appended
<1> HIDE DEF t
<1>2. \A id : (Awaits(id)' <=> Awaits(id)) /\ Owner(id)' = Owner(id)
  BY RequesterStays
<1>3. ~IsPiece(r) /\ r.type # "EndRequest"
  BY DEF IsPiece, StreamTypes
<1>4. ServedPart' /\ KeptPart'
  BY <1>2 DEF ServedPart, KeptPart, ArePieces
<1>5. OnWay(t)'
  BY <1>1, <1>2 DEF OnWay, Queue, ServedPart
<1>6. LastPart(t)'
  <2>1. ASSUME NEW i \in DOMAIN t, t[i].type = "EndRequest"
        PROVE  /\ serving[t[i].id] = 0 /\ t[i].request = Owner(t[i].id)
               /\ \A j \in DOMAIN t : IsFor(t[j], t[i].id) => j <= i
    <3>1. i \in DOMAIN q /\ t[i] = q[i]
      BY <1>1, <1>3, <2>1
    <3>2. /\ serving[t[i].id] = 0 /\ t[i].request = Owner(t[i].id)
          /\ \A j \in DOMAIN q : IsFor(q[j], t[i].id) => j <= i
      BY <2>1, <3>1 DEF Queue, LastPart
    <3>3. ~IsFor(r, t[i].id)
      BY <3>2 DEF IsFor
    <3> QED
      BY <1>1, <3>2, <3>3
  <2> QED
    BY <1>2, <2>1 DEF LastPart
<1>7. \A i \in DOMAIN t : IsPiece(t[i]) => i \in DOMAIN q /\ t[i] = q[i]
  BY <1>1, <1>3
<1>8. OwnPart(t)'
  BY <1>2, <1>7 DEF Queue, OwnPart
<1>9. InOrder(t)'
  BY <1>7 DEF Queue, InOrder
<1>10. BehindPart(t)'
  BY <1>7 DEF Queue, BehindPart
<1>11. CoveredPart(t)'
  <2>1. \A i \in DOMAIN q : i \in DOMAIN t /\ t[i] = q[i]
    BY <1>1
  <2> QED
    BY <1>2, <2>1 DEF Queue, CoveredPart, LostStay
<1> QED
  BY <1>4, <1>5, <1>6, <1>8, <1>9, <1>10, <1>11 DEF Queue, t

\* The server ends what it serves under an id.
LEMMA EndAdded ==
  ASSUME TypeOK, ServedPart, KeptPart, NEW q \in Seq(ServerRecord), Queue(q),
         NEW r, r.type = "EndRequest", NEW id \in RequestIds, r.id = id,
         serving[id] # 0, r.request = serving[id], serving' = [serving EXCEPT ![id] = 0],
         UNCHANGED <<responseMap, ending, requests, output>>, LostStay
  PROVE  ServedPart' /\ KeptPart' /\ Queue(Append(q, r))'
<1> DEFINE t == Append(q, r)
<1>1. PICK n \in Nat \ {0} :
           /\ DOMAIN t = 1..n /\ t[n] = r /\ DOMAIN q \subseteq DOMAIN t
           /\ \A i \in DOMAIN t : i # n => i \in DOMAIN q /\ t[i] = q[i]
           /\ \A i \in DOMAIN q : i < n /\ t[i] = q[i]
  BY Appended
<1> HIDE DEF t
<1>2. \A i : (Awaits(i)' <=> Awaits(i)) /\ Owner(i)' = Owner(i)
  BY RequesterStays
<1>3. ~IsPiece(r)
  BY DEF IsPiece, StreamTypes
<1>4. /\ Awaits(id) /\ Owner(id) = serving[id] /\ serving'[id] = 0
      /\ \A i \in RequestIds : i # id => serving'[i] = serving[i]
  BY DEF ServedPart, TypeOK
<1>5. ServedPart' /\ KeptPart'
  BY <1>2, <1>4 DEF ServedPart, KeptPart, ArePieces
<1>6. OnWay(t)'
  BY <1>1, <1>2, <1>4 DEF OnWay, Queue
<1>7. LastPart(t)'
  <2>1. ASSUME NEW i \in DOMAIN t, t[i].type = "EndRequest", i # n
        PROVE  /\ serving'[t[i].id] = 0 /\ t[i].request = Owner(t[i].id)
               /\ \A j \in DOMAIN t : IsFor(t[j], t[i].id) => j <= i
    <3>1. i \in DOMAIN q /\ t[i] = q[i] /\ q[i] \in ServerRecord
      BY <1>1, <2>1, ElementOfSeq, LenProperties
    <3>2. /\ serving[t[i].id] = 0 /\ t[i].request = Owner(t[i].id)
          /\ \A j \in DOMAIN q : IsFor(q[j], t[i].id) => j <= i
      BY <2>1, <3>1 DEF Queue, LastPart
    <3>3. t[i].id \in RequestIds /\ t[i].id # id
      BY <2>1, <3>1, <3>2, ServerRecordFields
    <3>4. ~IsFor(r, t[i].id)
      BY <3>3 DEF IsFor
    <3> QED
      BY <1>1, <1>4, <3>2, <3>3, <3>4
  <2>2. \A j \in DOMAIN t : j <= n
    BY <1>1
  <2> QED
    BY <1>1, <1>2, <1>4, <2>1, <2>2 DEF LastPart
<1>8. \A i \in DOMAIN t : IsPiece(t[i]) => i \in DOMAIN q /\ t[i] = q[i]
  BY <1>1, <1>3
<1>9. OwnPart(t)'
  BY <1>2, <1>8 DEF Queue, OwnPart
<1>10. InOrder(t)'
  BY <1>8 DEF Queue, InOrder
<1>11. BehindPart(t)'
  BY <1>8 DEF Queue, BehindPart
<1>12. CoveredPart(t)'
  <2>1. \A i \in DOMAIN q : i \in DOMAIN t /\ t[i] = q[i]
    BY <1>1
  <2> QED
    BY <1>2, <2>1 DEF Queue, CoveredPart, LostStay
<1> QED
  BY <1>5, <1>6, <1>7, <1>9, <1>10, <1>11, <1>12 DEF Queue, t

\* The server sends a piece of the response of the request it serves.
LEMMA PieceAdded ==
  ASSUME TypeOK, ClientInv, AnswersInv, NEW id \in RequestIds, NEW type \in StreamTypes,
         SendPiece(id, type)
  PROVE  AnswersInv'
<1> DEFINE r == [type |-> type, id |-> id,
                 piece |-> [request |-> serving[id], n |-> Len(output[serving[id]]) + 1]]
           q == incoming
<1>1. PICK k \in Nat : k = serving[id]
  BY DEF TypeOK
<1>2. /\ k # 0 /\ k \in Requests /\ Awaits(id) /\ Owner(id) = k
      /\ k \in DOMAIN requests /\ requests[k].outcomes = <<>> /\ IdsOf(k) # {}
  <2>1. k # 0 /\ Awaits(id) /\ Owner(id) = k
    BY <1>1 DEF SendPiece, AnswersInv, ServedPart
  <2>2. k \in DOMAIN requests /\ requests[k].outcomes = <<>> /\ IdsOf(k) # {}
    BY <2>1 DEF ClientInv, ContextsPart, Awaits, Owner, IdsOf
  <2>3. k \in Requests
    BY <2>2, BoundsAssumption DEF TypeOK, Requests
  <2> QED
    BY <2>1, <2>2, <2>3
<1>3. PICK m \in Nat : m = Len(output[k]) + 1
  BY <1>2 DEF TypeOK
<1>4. /\ UNCHANGED <<responseMap, ending, requests, serving, failures>> /\ incoming' = Append(incoming, r)
      /\ output' = [output EXCEPT ![k] = Append(@, type)]
  BY <1>1 DEF SendPiece, ServerSends, requesterVars
<1>5. r.type = type /\ r.id = id /\ r.piece.request = k /\ r.piece.n = m
  BY <1>1, <1>3
<1> HIDE DEF r
<1>6. /\ DOMAIN output[k] = 1..(m - 1) /\ DOMAIN output'[k] = 1..m /\ output'[k][m] = type
      /\ \A n \in 1..(m - 1) : output'[k][n] = output[k][n]
      /\ \A j \in Requests : j # k => output'[j] = output[j]
  <2>1. output[k] \in Seq(StreamTypes) /\ output'[k] = Append(output[k], type)
    BY <1>2, <1>4 DEF TypeOK
  <2>2. \A j \in Requests : j # k => output'[j] = output[j]
    BY <1>4 DEF TypeOK
  <2> QED
    BY <1>3, <2>1, <2>2, AppendProperties, LenProperties
<1>7. /\ \A j \in Requests : DOMAIN output[j] \subseteq DOMAIN output'[j]
      /\ \A j \in Requests : \A n \in DOMAIN output[j] : output'[j][n] = output[j][n]
  BY <1>6
<1>8. q \in Seq(ServerRecord) /\ Queue(q)
  BY DEF TypeOK, AnswersInv
<1> DEFINE t == Append(q, r)
<1>9. PICK n \in Nat \ {0} :
           /\ DOMAIN t = 1..n /\ t[n] = r /\ DOMAIN q \subseteq DOMAIN t
           /\ \A i \in DOMAIN t : i # n => i \in DOMAIN q /\ t[i] = q[i]
           /\ \A i \in DOMAIN q : i < n /\ t[i] = q[i]
  BY <1>8, Appended
<1>10. incoming' = t
  BY <1>4
<1> HIDE DEF t
<1>11. \A i : (Awaits(i)' <=> Awaits(i)) /\ Owner(i)' = Owner(i)
  BY <1>4, RequesterStays
<1>12. \A i \in RequestIds : Awaits(i) =>
         /\ Owner(i) \in Requests
         /\ Owner(i) = k => i = id
  BY <1>2, ContextFields DEF Awaits, Owner, ClientInv, ContextsPart
<1>13. ServedPart' /\ KeptPart'
  <2>1. \A pieces, j, kind : j \in Requests /\ ArePieces(pieces, j, kind) =>
          ArePieces(pieces, j, kind)'
    BY <1>7 DEF ArePieces
  <2>2. KeptPart'
    <3>1. ASSUME NEW i \in RequestIds, Awaits(i)
          PROVE  /\ ArePieces(responseMap[i].data, Owner(i), "StdOut")'
                 /\ ArePieces(responseMap[i].errorMsg, Owner(i), "StdErr")'
      <4>1. /\ ArePieces(responseMap[i].data, Owner(i), "StdOut")
            /\ ArePieces(responseMap[i].errorMsg, Owner(i), "StdErr")
        BY <3>1 DEF AnswersInv, KeptPart
      <4>2. PICK j \in Requests : j = Owner(i)
        BY <1>12, <3>1
      <4>3. Owner(i)' = j /\ responseMap'[i] = responseMap[i]
        BY <1>4, <1>11, <4>2
      <4>4. ArePieces(responseMap[i].data, Owner(i), "StdOut")'
        BY <1>7, <4>1, <4>2, <4>3 DEF ArePieces
      <4>5. ArePieces(responseMap[i].errorMsg, Owner(i), "StdErr")'
        BY <1>7, <4>1, <4>2, <4>3 DEF ArePieces
      <4> QED
        BY <4>4, <4>5
    <3> QED
      BY <1>11, <3>1 DEF KeptPart
  <2>3. ServedPart'
    BY <1>4, <1>11 DEF AnswersInv, ServedPart
  <2> QED
    BY <2>2, <2>3
<1>14. \A i \in DOMAIN q : q[i] \in ServerRecord
  BY <1>8, ElementOfSeq, LenProperties
<1>15. \A i \in DOMAIN q : IsPiece(q[i]) => q[i].id \in RequestIds /\ Awaits(q[i].id)
  BY <1>8, <1>14, ServerRecordFields DEF Queue, OnWay, IsPiece, StreamTypes
<1>16. OnWay(incoming)'
  BY <1>2, <1>5, <1>8, <1>9, <1>10, <1>11 DEF OnWay, Queue
<1>17. LastPart(incoming)'
  <2>1. ASSUME NEW i \in DOMAIN t, t[i].type = "EndRequest"
        PROVE  /\ serving[t[i].id] = 0 /\ t[i].request = Owner(t[i].id)
               /\ \A j \in DOMAIN t : IsFor(t[j], t[i].id) => j <= i
    <3>1. i \in DOMAIN q /\ t[i] = q[i]
      BY <1>5, <1>9, <2>1 DEF StreamTypes
    <3>2. /\ serving[t[i].id] = 0 /\ t[i].request = Owner(t[i].id)
          /\ \A j \in DOMAIN q : IsFor(q[j], t[i].id) => j <= i
      BY <1>8, <2>1, <3>1 DEF Queue, LastPart
    <3>3. ~IsFor(r, t[i].id)
      BY <1>1, <1>2, <1>5, <3>2 DEF IsFor
    <3> QED
      BY <1>9, <3>2, <3>3
  <2> QED
    BY <1>4, <1>10, <1>11, <2>1 DEF LastPart
<1>18. OwnPart(incoming)'
  <2>1. ASSUME NEW i \in DOMAIN q, IsPiece(q[i])
        PROVE  /\ q[i].piece.request = Owner(q[i].id)
               /\ q[i].piece.n \in DOMAIN output'[Owner(q[i].id)]
               /\ output'[Owner(q[i].id)][q[i].piece.n] = q[i].type
    <3>1. /\ q[i].piece.request = Owner(q[i].id) /\ Owner(q[i].id) \in Requests
          /\ q[i].piece.n \in DOMAIN output[Owner(q[i].id)]
          /\ output[Owner(q[i].id)][q[i].piece.n] = q[i].type
      BY <1>8, <1>12, <1>15, <2>1 DEF Queue, OwnPart
    <3> QED
      BY <1>7, <3>1
  <2>2. m \in 1..m
    BY <1>3, <1>6, <1>2 DEF TypeOK
  <2> QED
    BY <1>2, <1>5, <1>6, <1>9, <1>10, <1>11, <2>1, <2>2 DEF OwnPart
<1>19. \A i \in DOMAIN q : IsPiece(q[i]) /\ q[i].id = id => q[i].piece.n < m
  BY <1>2, <1>6, <1>8 DEF Queue, OwnPart
<1>20. InOrder(incoming)'
  <2>1. \A i, j \in DOMAIN t : i < j => i # n /\ (j = n \/ j \in DOMAIN q)
    BY <1>9
  <2>2. ASSUME NEW i \in DOMAIN t, NEW j \in DOMAIN t, i < j, IsPiece(t[i]), IsPiece(t[j]),
               t[i].id = t[j].id
        PROVE  t[i].piece.n < t[j].piece.n
    <3>1. i \in DOMAIN q /\ t[i] = q[i]
      BY <1>9, <2>1, <2>2
    <3>2. CASE j = n
      BY <1>5, <1>9, <1>19, <2>2, <3>1, <3>2
    <3>3. CASE j # n
      BY <1>8, <1>9, <2>2, <3>1, <3>3 DEF Queue, InOrder
    <3> QED
      BY <3>2, <3>3
  <2> QED
    BY <1>10, <2>2 DEF InOrder
<1>21. BehindPart(incoming)'
  <2>1. /\ \A i \in DOMAIN responseMap[id].data : responseMap[id].data[i].n < m
        /\ \A i \in DOMAIN responseMap[id].errorMsg : responseMap[id].errorMsg[i].n < m
    BY <1>2, <1>6 DEF AnswersInv, KeptPart, ArePieces
  <2> QED
    BY <1>4, <1>5, <1>8, <1>9, <1>10, <2>1 DEF Queue, BehindPart
<1>22. CoveredPart(incoming)'
  <2>1. ASSUME NEW i \in RequestIds, Awaits(i), NEW p \in DOMAIN output'[Owner(i)]
        PROVE  \/ [request |-> Owner(i), n |-> p] \in failures.lost
               \/ \E j \in DOMAIN responseMap[i].data : responseMap[i].data[j].n = p
               \/ \E j \in DOMAIN responseMap[i].errorMsg : responseMap[i].errorMsg[j].n = p
               \/ \E j \in DOMAIN t : IsPiece(t[j]) /\ t[j].id = i /\ t[j].piece.n = p
    <3>1. CASE p \in DOMAIN output[Owner(i)]
      <4>1. \/ [request |-> Owner(i), n |-> p] \in failures.lost
            \/ \E j \in DOMAIN responseMap[i].data : responseMap[i].data[j].n = p
            \/ \E j \in DOMAIN responseMap[i].errorMsg : responseMap[i].errorMsg[j].n = p
            \/ \E j \in DOMAIN q : IsPiece(q[j]) /\ q[j].id = i /\ q[j].piece.n = p
        BY <1>8, <2>1, <3>1 DEF Queue, CoveredPart
      <4> QED
        BY <1>9, <4>1
    <3>2. CASE p \notin DOMAIN output[Owner(i)]
      <4>1. i = id /\ Owner(i) = k
        BY <1>6, <1>12, <2>1, <3>2
      <4>2. p = m
        BY <1>6, <2>1, <3>2, <4>1
      <4> QED
        BY <1>5, <1>9, <4>1, <4>2 DEF IsPiece
    <3> QED
      BY <3>1, <3>2
  <2> QED
    BY <1>4, <1>10, <1>11, <2>1 DEF CoveredPart
<1>23. UnsentPart'
  <2>1. \A j : IdsOf(j)' = IdsOf(j)
    BY <1>4 DEF IdsOf, InUse
  <2>2. DOMAIN requests \subseteq Requests
    <3>1. requests \in Seq(RequestHistory) /\ Len(requests) <= MaxRequests
      BY DEF TypeOK
    <3> QED
      BY <3>1, HistoryNumbers
  <2> QED
    BY <1>2, <1>4, <1>6, <2>1, <2>2 DEF AnswersInv, UnsentPart
<1>24. ResponseIsOwnAndWhole'
  <2>1. DOMAIN requests \subseteq Requests
    <3>1. requests \in Seq(RequestHistory) /\ Len(requests) <= MaxRequests
      BY DEF TypeOK
    <3> QED
      BY <3>1, HistoryNumbers
  <2>2. ASSUME NEW j \in DOMAIN requests, NEW i \in DOMAIN requests[j].outcomes
        PROVE  output'[j] = output[j]
    <3>1. j # k
      BY <1>2
    <3>2. j \in Requests
      BY <2>1
    <3> QED
      BY <1>6, <3>1, <3>2
  <2>3. ASSUME NEW j \in DOMAIN requests, output'[j] = output[j]
        PROVE  \A pieces, kind : AreAllPieces(pieces, j, kind) => AreAllPieces(pieces, j, kind)'
    BY <1>4, <2>3 DEF AreAllPieces, ArePieces
  <2>4. ASSUME NEW j \in DOMAIN requests, NEW i \in DOMAIN requests[j].outcomes, NEW outcome,
               outcome = requests[j].outcomes[i], outcome.status = "Successful"
        PROVE  /\ outcome.answers = j
               /\ AreAllPieces(outcome.data, j, "StdOut")'
               /\ AreAllPieces(outcome.errorMsg, j, "StdErr")'
    <3>1. /\ outcome.answers = j
          /\ AreAllPieces(outcome.data, j, "StdOut") /\ AreAllPieces(outcome.errorMsg, j, "StdErr")
      BY <2>4 DEF AnswersInv, ResponseIsOwnAndWhole
    <3> QED
      BY <2>2, <2>3, <3>1
  <2> QED
    BY <1>4, <2>4 DEF ResponseIsOwnAndWhole
<1> QED
  BY <1>13, <1>16, <1>17, <1>18, <1>20, <1>21, <1>22, <1>23, <1>24 DEF AnswersInv, Queue

-----------------------------------------------------------------------------
(* A record is received                                                     *)

\* Pieces `more' are `pieces' and one more.
IsMore(more, pieces, piece) ==
  /\ \A m \in DOMAIN more : more[m] = piece \/ \E j \in DOMAIN pieces : more[m] = pieces[j]
  /\ \A j \in DOMAIN pieces : \E m \in DOMAIN more : more[m] = pieces[j]
  /\ \E m \in DOMAIN more : more[m] = piece

\* The piece that comes next is kept behind the others.
LEMMA MorePieces ==
  ASSUME NEW pieces \in Seq(Piece), NEW k, NEW type, ArePieces(pieces, k, type),
         NEW piece \in Piece, piece.request = k, piece.n \in DOMAIN output[k],
         output[k][piece.n] = type,
         \A m \in DOMAIN pieces : pieces[m].n < piece.n,
         NEW more, more = Append(pieces, piece)
  PROVE  ArePieces(more, k, type) /\ IsMore(more, pieces, piece)
<1>1. /\ Len(pieces) \in Nat /\ DOMAIN pieces = 1..Len(pieces)
      /\ DOMAIN more = 1..(Len(pieces) + 1) /\ more[Len(pieces) + 1] = piece
      /\ \A i \in 1..Len(pieces) : more[i] = pieces[i]
  BY AppendProperties, LenProperties
<1>2. PICK n \in Nat \ {0} :
        /\ DOMAIN more = 1..n /\ more[n] = piece /\ DOMAIN pieces = 1..(n - 1)
        /\ \A i \in 1..(n - 1) : more[i] = pieces[i]
  BY <1>1
<1>3. /\ \A i \in DOMAIN more : i = n \/ i \in DOMAIN pieces
      /\ \A i \in DOMAIN pieces : i \in DOMAIN more /\ more[i] = pieces[i]
      /\ n \in DOMAIN more
      /\ \A i, j \in DOMAIN more : i < j => i \in DOMAIN pieces
  BY <1>2
<1>4. \A i \in DOMAIN more :
        more[i].request = k /\ more[i].n \in DOMAIN output[k] /\ output[k][more[i].n] = type
  BY <1>2, <1>3 DEF ArePieces
<1>5. \A i, j \in DOMAIN more : i < j => more[i].n < more[j].n
  <2>1. ASSUME NEW i \in DOMAIN more, NEW j \in DOMAIN more, i < j
        PROVE  more[i].n < more[j].n
    <3>1. i \in DOMAIN pieces /\ more[i] = pieces[i]
      BY <1>3, <2>1
    <3>2. CASE j = n
      BY <1>2, <3>1, <3>2
    <3>3. CASE j # n
      BY <1>3, <2>1, <3>1, <3>3 DEF ArePieces
    <3> QED
      BY <3>2, <3>3
  <2> QED
    BY <2>1
<1> QED
  BY <1>2, <1>3, <1>4, <1>5 DEF ArePieces, IsMore

\* No piece of request Owner(id) that was not lost is missing among r, q and those
\* that are kept.
Covers(r, q, id) ==
  \A n \in DOMAIN output[Owner(id)] :
    \/ [request |-> Owner(id), n |-> n] \in failures.lost
    \/ \E m \in DOMAIN responseMap[id].data : responseMap[id].data[m].n = n
    \/ \E m \in DOMAIN responseMap[id].errorMsg : responseMap[id].errorMsg[m].n = n
    \/ IsPiece(r) /\ r.id = id /\ r.piece.n = n
    \/ \E i \in DOMAIN q : IsPiece(q[i]) /\ q[i].id = id /\ q[i].piece.n = n

\* What the first record of the queue tells.
LEMMA FirstRecord ==
  ASSUME TypeOK, AnswersInv, NEW r, incoming # <<>>, r = Head(incoming),
         r.type # "GetValuesResult", NEW q, q = Tail(incoming)
  PROVE  /\ r \in ServerRecord /\ r.id \in RequestIds /\ Awaits(r.id) /\ q \in Seq(ServerRecord)
         /\ OnWay(q) /\ LastPart(q) /\ OwnPart(q) /\ InOrder(q) /\ BehindPart(q)
         /\ ~IsPiece(r) => CoveredPart(q)
         /\ IsPiece(r) =>
              /\ r.piece \in Piece /\ r.piece.request = Owner(r.id)
              /\ r.piece.n \in DOMAIN output[Owner(r.id)]
              /\ output[Owner(r.id)][r.piece.n] = r.type
              /\ \A m \in DOMAIN responseMap[r.id].data : responseMap[r.id].data[m].n < r.piece.n
              /\ \A m \in DOMAIN responseMap[r.id].errorMsg :
                   responseMap[r.id].errorMsg[m].n < r.piece.n
              /\ \A j \in DOMAIN q : IsPiece(q[j]) /\ q[j].id = r.id => r.piece.n < q[j].piece.n
         /\ r.type = "EndRequest" =>
              /\ serving[r.id] = 0 /\ r.request = Owner(r.id)
              /\ \A j \in DOMAIN q : ~IsFor(q[j], r.id)
         /\ \A id \in RequestIds : Awaits(id) => Covers(r, q, id)
<1>1. /\ r \in ServerRecord /\ q \in Seq(ServerRecord) /\ r = incoming[1]
      /\ Len(incoming) \in Nat \ {0} /\ Len(q) = Len(incoming) - 1
      /\ \A i \in 1..(Len(incoming) - 1) : q[i] = incoming[i + 1]
  BY HeadOfIncoming
<1>2. /\ DOMAIN incoming = 1..Len(incoming) /\ DOMAIN q = 1..(Len(incoming) - 1)
  BY <1>1, LenProperties DEF TypeOK
<1>3. /\ 1 \in DOMAIN incoming
      /\ \A i \in DOMAIN q : i + 1 \in DOMAIN incoming /\ q[i] = incoming[i + 1]
                             /\ 1 < i + 1 /\ ~(i + 1 <= 1)
      /\ \A i \in DOMAIN incoming : incoming[i] = r \/ \E j \in DOMAIN q : q[j] = incoming[i]
  <2>1. \A i \in DOMAIN incoming : i = 1 \/ (i - 1 \in DOMAIN q /\ q[i - 1] = incoming[i])
    BY <1>1, <1>2
  <2>2. \A i \in DOMAIN incoming : incoming[i] = r \/ \E j \in DOMAIN q : q[j] = incoming[i]
    BY <1>1, <2>1
  <2>3. /\ 1 \in DOMAIN incoming
        /\ \A i \in DOMAIN q : i + 1 \in DOMAIN incoming /\ 1 < i + 1 /\ ~(i + 1 <= 1)
    BY <1>1, <1>2
  <2>4. \A i \in DOMAIN q : q[i] = incoming[i + 1]
    BY <1>1, <1>2
  <2> QED
    BY <2>2, <2>3, <2>4
<1>4. Queue(incoming) /\ incoming \in Seq(ServerRecord)
  BY DEF AnswersInv, TypeOK
<1>5. /\ OnWay(q) /\ LastPart(q) /\ OwnPart(q) /\ InOrder(q) /\ BehindPart(q)
      /\ ~IsPiece(r) => CoveredPart(q)
  BY <1>4, QueueTail
<1>6. r.id \in RequestIds /\ Awaits(r.id) /\ (IsPiece(r) => r.piece \in Piece)
  BY <1>1, <1>3, <1>4, ServerRecordFields DEF Queue, OnWay, IsPiece
<1>7. ASSUME IsPiece(r)
      PROVE  /\ r.piece.request = Owner(r.id)
             /\ r.piece.n \in DOMAIN output[Owner(r.id)]
             /\ output[Owner(r.id)][r.piece.n] = r.type
             /\ \A m \in DOMAIN responseMap[r.id].data : responseMap[r.id].data[m].n < r.piece.n
             /\ \A m \in DOMAIN responseMap[r.id].errorMsg :
                  responseMap[r.id].errorMsg[m].n < r.piece.n
  <2>1. /\ r.piece.request = Owner(r.id) /\ r.piece.n \in DOMAIN output[Owner(r.id)]
        /\ output[Owner(r.id)][r.piece.n] = r.type
    BY <1>1, <1>3, <1>4, <1>7 DEF Queue, OwnPart
  <2>2. /\ \A m \in DOMAIN responseMap[r.id].data : responseMap[r.id].data[m].n < r.piece.n
        /\ \A m \in DOMAIN responseMap[r.id].errorMsg :
             responseMap[r.id].errorMsg[m].n < r.piece.n
    BY <1>1, <1>3, <1>4, <1>7 DEF Queue, BehindPart
  <2> QED
    BY <2>1, <2>2
<1>8. ASSUME IsPiece(r), NEW j \in DOMAIN q, IsPiece(q[j]), q[j].id = r.id
      PROVE  r.piece.n < q[j].piece.n
  BY <1>1, <1>3, <1>4, <1>8, SMTT(30) DEF Queue, InOrder
<1>9. ASSUME r.type = "EndRequest"
      PROVE  /\ serving[r.id] = 0 /\ r.request = Owner(r.id)
             /\ \A j \in DOMAIN q : ~IsFor(q[j], r.id)
  BY <1>1, <1>3, <1>4, <1>9 DEF Queue, LastPart
<1>10. ASSUME NEW id \in RequestIds, Awaits(id), NEW n \in DOMAIN output[Owner(id)]
       PROVE  \/ [request |-> Owner(id), n |-> n] \in failures.lost
              \/ \E m \in DOMAIN responseMap[id].data : responseMap[id].data[m].n = n
              \/ \E m \in DOMAIN responseMap[id].errorMsg : responseMap[id].errorMsg[m].n = n
              \/ IsPiece(r) /\ r.id = id /\ r.piece.n = n
              \/ \E i \in DOMAIN q : IsPiece(q[i]) /\ q[i].id = id /\ q[i].piece.n = n
  <2>1. \/ [request |-> Owner(id), n |-> n] \in failures.lost
        \/ \E m \in DOMAIN responseMap[id].data : responseMap[id].data[m].n = n
        \/ \E m \in DOMAIN responseMap[id].errorMsg : responseMap[id].errorMsg[m].n = n
        \/ \E i \in DOMAIN incoming :
             IsPiece(incoming[i]) /\ incoming[i].id = id /\ incoming[i].piece.n = n
    BY <1>4, <1>10 DEF Queue, CoveredPart
  <2> QED
    BY <1>3, <2>1
<1> QED
  BY <1>1, <1>5, <1>6, <1>7, <1>8, <1>9, <1>10 DEF Covers

\* onStdOut and onStdErr.
LEMMA PieceReceived ==
  ASSUME TypeOK, ClientInv, AnswersInv, NEW r, OnStdOut(r) \/ OnStdErr(r)
  PROVE  AnswersInv'
<1>1. /\ incoming # <<>> /\ r = Head(incoming) /\ IsPiece(r) /\ r.type # "GetValuesResult"
      /\ UNCHANGED <<ending, requests, serving, output, failures>> /\ incoming' = Tail(incoming)
      /\ LostStay
  BY DEF OnStdOut, OnStdErr, Receive, IsNext, serverVars, IsPiece, StreamTypes, LostStay
<1>2. PICK id \in RequestIds : id = r.id
  BY <1>1, FirstRecord
<1>3. PICK k, q : k = Owner(id) /\ q = Tail(incoming)
  OBVIOUS
<1>4. /\ q \in Seq(ServerRecord) /\ Awaits(id) /\ r.piece \in Piece /\ r.piece.request = k
      /\ OnWay(q) /\ LastPart(q) /\ OwnPart(q) /\ InOrder(q) /\ BehindPart(q)
      /\ r.piece.n \in DOMAIN output[k] /\ output[k][r.piece.n] = r.type
      /\ \A m \in DOMAIN responseMap[id].data : responseMap[id].data[m].n < r.piece.n
      /\ \A m \in DOMAIN responseMap[id].errorMsg : responseMap[id].errorMsg[m].n < r.piece.n
      /\ \A j \in DOMAIN q : IsPiece(q[j]) /\ q[j].id = id => r.piece.n < q[j].piece.n
  BY <1>1, <1>2, <1>3, FirstRecord
<1>5. \A i \in RequestIds : Awaits(i) => Covers(r, q, i)
  BY <1>1, <1>3, FirstRecord
<1>6. PICK context \in ResponseContext : context = responseMap[id]
  BY <1>4, ContextFields DEF Awaits
<1>7. /\ context.request = k /\ context.data \in Seq(Piece) /\ context.errorMsg \in Seq(Piece)
      /\ ArePieces(context.data, k, "StdOut") /\ ArePieces(context.errorMsg, k, "StdErr")
  BY <1>3, <1>4, <1>6 DEF ResponseContext, Owner, AnswersInv, KeptPart
\* What is kept now: the pieces there were, and this one.
<1>8. \E data \in Seq(Piece), errorMsg \in Seq(Piece) :
        /\ responseMap' = [responseMap EXCEPT ![id] =
             [context EXCEPT !.data = data, !.errorMsg = errorMsg]]
        /\ ArePieces(data, k, "StdOut") /\ ArePieces(errorMsg, k, "StdErr")
        /\ \/ IsMore(data, context.data, r.piece) /\ errorMsg = context.errorMsg
           \/ data = context.data /\ IsMore(errorMsg, context.errorMsg, r.piece)
  <2>1. CASE OnStdOut(r)
    <3>1. r.type = "StdOut"
          /\ responseMap' = [responseMap EXCEPT ![id].data = Append(@, r.piece)]
      BY <1>2, <2>1 DEF OnStdOut
    <3>2. PICK more \in Seq(Piece) : more = Append(context.data, r.piece)
      BY <1>4, <1>7, AppendProperties
    <3>3. [context EXCEPT !.data = more] = [context EXCEPT !.data = more, !.errorMsg = context.errorMsg]
      BY DEF ResponseContext
    <3>4. responseMap' = [responseMap EXCEPT ![id] =
            [context EXCEPT !.data = more, !.errorMsg = context.errorMsg]]
      BY <1>6, <3>1, <3>2, <3>3
    <3>5. ArePieces(more, k, "StdOut") /\ IsMore(more, context.data, r.piece)
      <4>1. PICK pieces \in Seq(Piece), piece \in Piece : pieces = context.data /\ piece = r.piece
        BY <1>4, <1>7
      <4>2. /\ ArePieces(pieces, k, "StdOut") /\ piece.request = k /\ piece.n \in DOMAIN output[k]
            /\ output[k][piece.n] = "StdOut" /\ \A m \in DOMAIN pieces : pieces[m].n < piece.n
            /\ more = Append(pieces, piece)
        BY <1>4, <1>6, <1>7, <3>1, <3>2, <4>1
      <4> QED
        BY <4>1, <4>2, MorePieces
    <3> QED
      BY <1>7, <3>4, <3>5
  <2>2. CASE OnStdErr(r)
    <3>1. r.type = "StdErr"
          /\ responseMap' = [responseMap EXCEPT ![id].errorMsg = Append(@, r.piece)]
      BY <1>2, <2>2 DEF OnStdErr
    <3>2. PICK more \in Seq(Piece) : more = Append(context.errorMsg, r.piece)
      BY <1>4, <1>7, AppendProperties
    <3>3. [context EXCEPT !.errorMsg = more] = [context EXCEPT !.data = context.data, !.errorMsg = more]
      BY DEF ResponseContext
    <3>4. responseMap' = [responseMap EXCEPT ![id] =
            [context EXCEPT !.data = context.data, !.errorMsg = more]]
      BY <1>6, <3>1, <3>2, <3>3
    <3>5. ArePieces(more, k, "StdErr") /\ IsMore(more, context.errorMsg, r.piece)
      <4>1. PICK pieces \in Seq(Piece), piece \in Piece : pieces = context.errorMsg /\ piece = r.piece
        BY <1>4, <1>7
      <4>2. /\ ArePieces(pieces, k, "StdErr") /\ piece.request = k /\ piece.n \in DOMAIN output[k]
            /\ output[k][piece.n] = "StdErr" /\ \A m \in DOMAIN pieces : pieces[m].n < piece.n
            /\ more = Append(pieces, piece)
        BY <1>4, <1>6, <1>7, <3>1, <3>2, <4>1
      <4> QED
        BY <4>1, <4>2, MorePieces
    <3> QED
      BY <1>7, <3>4, <3>5
  <2> QED
    BY <2>1, <2>2
<1>9. PICK data \in Seq(Piece), errorMsg \in Seq(Piece) :
        /\ responseMap' = [responseMap EXCEPT ![id] =
             [context EXCEPT !.data = data, !.errorMsg = errorMsg]]
        /\ ArePieces(data, k, "StdOut") /\ ArePieces(errorMsg, k, "StdErr")
        /\ \/ IsMore(data, context.data, r.piece) /\ errorMsg = context.errorMsg
           \/ data = context.data /\ IsMore(errorMsg, context.errorMsg, r.piece)
  BY <1>8
<1>10. /\ responseMap'[id].request = k /\ responseMap'[id] # NoContext
       /\ responseMap'[id].data = data /\ responseMap'[id].errorMsg = errorMsg
       /\ \A i \in RequestIds : i # id => responseMap'[i] = responseMap[i]
  <2> DEFINE more == [context EXCEPT !.data = data, !.errorMsg = errorMsg]
  <2>1. /\ more \in ResponseContext /\ more.request = k /\ more.data = data
        /\ more.errorMsg = errorMsg
    BY <1>7 DEF ResponseContext
  <2>2. responseMap' = [responseMap EXCEPT ![id] = more]
    BY <1>9
  <2> HIDE DEF more
  <2> QED
    BY <2>1, <2>2, NoContextAssumption DEF TypeOK
<1>11. \A i \in RequestIds : (Awaits(i)' <=> Awaits(i)) /\ (InUse(i)' <=> InUse(i))
                             /\ Owner(i)' = Owner(i)
  BY <1>1, <1>3, <1>4, <1>10 DEF Awaits, InUse, IsEndingId, Owner
<1>12. \A i \in DOMAIN q : q[i] \in ServerRecord
  BY <1>4, ElementOfSeq, LenProperties
<1>13. \A i \in DOMAIN q : q[i].type # "GetValuesResult" => q[i].id \in RequestIds
  BY <1>12, ServerRecordFields
<1>14. \A i \in DOMAIN q : IsPiece(q[i]) => q[i].id \in RequestIds
  BY <1>13 DEF IsPiece, StreamTypes
<1>15. ServedPart' /\ KeptPart'
  <2>1. ServedPart'
    BY <1>1, <1>11 DEF AnswersInv, ServedPart
  <2>2. ASSUME NEW i \in RequestIds, Awaits(i), NEW j, j = Owner(i),
               NEW out, out = responseMap'[i].data, NEW err, err = responseMap'[i].errorMsg
        PROVE  ArePieces(out, j, "StdOut") /\ ArePieces(err, j, "StdErr")
    <3>1. CASE i = id
      BY <1>3, <1>9, <1>10, <2>2, <3>1 DEF Owner
    <3>2. CASE i # id
      BY <1>10, <2>2, <3>2 DEF AnswersInv, KeptPart
    <3> QED
      BY <3>1, <3>2
  <2>3. ASSUME NEW i \in RequestIds, Awaits(i)'
        PROVE  /\ ArePieces(responseMap[i].data, Owner(i), "StdOut")'
               /\ ArePieces(responseMap[i].errorMsg, Owner(i), "StdErr")'
    <3>1. PICK j : j = Owner(i)
      OBVIOUS
    <3>2. Owner(i)' = j /\ output' = output
      BY <1>1, <1>11, <3>1
    <3>3. ArePieces(responseMap'[i].data, j, "StdOut")
      BY <1>11, <2>2, <2>3, <3>1, Zenon
    <3>4. ArePieces(responseMap'[i].errorMsg, j, "StdErr")
      BY <1>11, <2>2, <2>3, <3>1, Zenon
    <3>5. ArePieces(responseMap[i].data, Owner(i), "StdOut")'
      BY <3>2, <3>3 DEF ArePieces
    <3>6. ArePieces(responseMap[i].errorMsg, Owner(i), "StdErr")'
      BY <3>2, <3>4 DEF ArePieces
    <3> QED
      BY <3>5, <3>6
  <2> QED
    BY <2>1, <2>3 DEF KeptPart
<1>16. OnWay(q)' /\ LastPart(q)'
  BY <1>1, <1>4, <1>11, <1>13 DEF OnWay, LastPart
<1>17. OwnPart(q)' /\ InOrder(q)'
  BY <1>1, <1>4, <1>11, <1>14 DEF OwnPart, InOrder
<1>18. BehindPart(q)'
  <2>1. ASSUME NEW i \in DOMAIN q, IsPiece(q[i]), q[i].id = id
        PROVE  /\ \A m \in DOMAIN data : data[m].n < q[i].piece.n
               /\ \A m \in DOMAIN errorMsg : errorMsg[m].n < q[i].piece.n
    <3>1. /\ r.piece.n < q[i].piece.n
          /\ \A m \in DOMAIN context.data : context.data[m].n < q[i].piece.n
          /\ \A m \in DOMAIN context.errorMsg : context.errorMsg[m].n < q[i].piece.n
      BY <1>4, <1>6, <2>1 DEF BehindPart
    <3> QED
      BY <1>9, <3>1 DEF IsMore
  <2> QED
    BY <1>4, <1>10, <1>14, <2>1 DEF BehindPart
<1>19. CoveredPart(q)'
  <2>1. ASSUME NEW n \in DOMAIN output[k]
        PROVE  \/ [request |-> k, n |-> n] \in failures.lost
               \/ \E m \in DOMAIN data : data[m].n = n
               \/ \E m \in DOMAIN errorMsg : errorMsg[m].n = n
               \/ \E j \in DOMAIN q : IsPiece(q[j]) /\ q[j].id = id /\ q[j].piece.n = n
    <3>1. \/ [request |-> k, n |-> n] \in failures.lost
          \/ \E m \in DOMAIN context.data : context.data[m].n = n
          \/ \E m \in DOMAIN context.errorMsg : context.errorMsg[m].n = n
          \/ r.piece.n = n
          \/ \E j \in DOMAIN q : IsPiece(q[j]) /\ q[j].id = id /\ q[j].piece.n = n
      <4>1. Covers(r, q, id) /\ n \in DOMAIN output[Owner(id)]
        BY <1>3, <1>4, <1>5, <2>1
      <4> HIDE DEF IsPiece, Owner
      <4> QED
        BY <1>3, <1>6, <4>1, Zenon DEF Covers
    <3> QED
      BY <1>9, <3>1 DEF IsMore
  <2>2. ASSUME NEW i \in RequestIds, i # id, Awaits(i), NEW n \in DOMAIN output[Owner(i)]
        PROVE  \/ [request |-> Owner(i), n |-> n] \in failures.lost
               \/ \E m \in DOMAIN responseMap[i].data : responseMap[i].data[m].n = n
               \/ \E m \in DOMAIN responseMap[i].errorMsg : responseMap[i].errorMsg[m].n = n
               \/ \E j \in DOMAIN q : IsPiece(q[j]) /\ q[j].id = i /\ q[j].piece.n = n
    BY <1>2, <1>5, <2>2 DEF Covers
  <2>3. ASSUME NEW i \in RequestIds, Awaits(i), NEW n \in DOMAIN output[Owner(i)]
        PROVE  \/ [request |-> Owner(i), n |-> n] \in failures.lost
               \/ \E m \in DOMAIN responseMap'[i].data : responseMap'[i].data[m].n = n
               \/ \E m \in DOMAIN responseMap'[i].errorMsg : responseMap'[i].errorMsg[m].n = n
               \/ \E j \in DOMAIN q : IsPiece(q[j]) /\ q[j].id = i /\ q[j].piece.n = n
    <3>1. CASE i = id
      BY <1>3, <1>10, <2>1, <2>3, <3>1
    <3>2. CASE i # id
      BY <1>10, <2>2, <2>3, <3>2
    <3> QED
      BY <3>1, <3>2
  <2>4. ASSUME NEW i \in RequestIds, Awaits(i)', NEW n \in DOMAIN output'[Owner(i)']
        PROVE  \/ [request |-> Owner(i)', n |-> n] \in failures'.lost
               \/ \E m \in DOMAIN responseMap'[i].data : responseMap'[i].data[m].n = n
               \/ \E m \in DOMAIN responseMap'[i].errorMsg : responseMap'[i].errorMsg[m].n = n
               \/ \E j \in DOMAIN q : IsPiece(q[j]) /\ q[j].id = i /\ q[j].piece.n = n
    <3>1. Awaits(i) /\ n \in DOMAIN output[Owner(i)] /\ Owner(i)' = Owner(i)
      BY <1>1, <1>11, <2>4
    <3> QED
      BY <1>1, <2>3, <3>1
  <2> QED
    BY <2>4 DEF CoveredPart
<1>20. Queue(incoming)'
  BY <1>1, <1>3, <1>16, <1>17, <1>18, <1>19, QueueIs DEF Queue
<1>21. UnsentPart' /\ ResponseIsOwnAndWhole'
  <2>1. \A j : IdsOf(j)' = IdsOf(j)
    BY <1>11 DEF IdsOf, Owner
  <2>2. UnsentPart'
    BY <1>1, <2>1 DEF AnswersInv, UnsentPart
  <2> QED
    BY <1>1, <2>2, PassedOnStay DEF AnswersInv
<1> QED
  BY <1>15, <1>20, <1>21 DEF AnswersInv

\* onEndRequest: the response that is passed on is whole.
LEMMA EndReceived ==
  ASSUME TypeOK, ClientInv, AnswersInv, NEW r, OnEndRequest(r)
  PROVE  AnswersInv'
<1>1. /\ incoming # <<>> /\ r = Head(incoming) /\ r.type = "EndRequest" /\ ending = <<>>
      /\ ~IsPiece(r) /\ UNCHANGED <<responseMap, serving, output, failures>>
      /\ incoming' = Tail(incoming) /\ LostStay
  BY DEF OnEndRequest, Receive, IsNext, Receives, serverVars, IsPiece, StreamTypes, LostStay
<1>2. PICK id \in RequestIds : id = r.id
  BY <1>1, FirstRecord
<1>3. PICK k, q : k = Owner(id) /\ q = Tail(incoming)
  OBVIOUS
<1>4. /\ q \in Seq(ServerRecord) /\ Awaits(id) /\ Queue(q)
      /\ serving[id] = 0 /\ r.request = k /\ \A j \in DOMAIN q : ~IsFor(q[j], id)
  BY <1>1, <1>2, <1>3, FirstRecord DEF Queue
<1>5. Covers(r, q, id)
  BY <1>1, <1>2, <1>3, <1>4, FirstRecord
<1>6. /\ k \in DOMAIN requests /\ requests[k].outcomes = <<>> /\ k \in Nat
      /\ requests \in Seq(RequestHistory)
      /\ \A i \in RequestIds : InUse(i) /\ responseMap[i].request = k => i = id
  BY <1>3, <1>4 DEF Awaits, Owner, ClientInv, ContextsPart, TypeOK
<1>7. PICK context \in ResponseContext : context = responseMap[id]
  BY <1>4, ContextFields DEF Awaits
<1>8. /\ context.request = k /\ context.data \in Seq(Piece) /\ context.errorMsg \in Seq(Piece)
      /\ ArePieces(context.data, k, "StdOut") /\ ArePieces(context.errorMsg, k, "StdErr")
  BY <1>3, <1>4, <1>7 DEF ResponseContext, Owner, AnswersInv, KeptPart
<1>9. AreAllPieces(context.data, k, "StdOut") /\ AreAllPieces(context.errorMsg, k, "StdErr")
  <2>1. \A j \in DOMAIN q : IsPiece(q[j]) => q[j].id # id
    BY <1>4 DEF IsFor, IsPiece, StreamTypes
  <2>2. \A n \in DOMAIN output[k] :
          \/ [request |-> k, n |-> n] \in failures.lost
          \/ \E m \in DOMAIN context.data : context.data[m].n = n
          \/ \E m \in DOMAIN context.errorMsg : context.errorMsg[m].n = n
    BY <1>1, <1>3, <1>5, <1>7, <2>1 DEF Covers
  <2>3. /\ \A m \in DOMAIN context.data : output[k][context.data[m].n] = "StdOut"
        /\ \A m \in DOMAIN context.errorMsg : output[k][context.errorMsg[m].n] = "StdErr"
    BY <1>8 DEF ArePieces
  <2> QED
    BY <1>8, <2>2, <2>3 DEF AreAllPieces
<1>10. \E outcome \in Outcome :
         /\ requests' = CallsHandler(requests, k, outcome)
         /\ outcome.status = "Successful" =>
              outcome.answers = k /\ outcome.data = context.data /\ outcome.errorMsg = context.errorMsg
  <2>1. PICK status \in {"Successful", "Failed"} :
          BeginEndRequest(id, status, k, requests, Len(Tail(incoming)))
    BY <1>2, <1>4 DEF OnEndRequest
  <2>2. CASE status = "Successful"
    <3> DEFINE outcome == [status |-> status, answers |-> k, data |-> context.data,
                           errorMsg |-> context.errorMsg]
    <3>1. requests' = CallsHandler(requests, k, outcome)
      BY <1>7, <1>8, <2>1, <2>2 DEF BeginEndRequest
    <3>2. outcome \in Outcome
      BY <1>6, <1>8 DEF Outcome
    <3> QED
      BY <3>1, <3>2
  <2>3. CASE status # "Successful"
    <3>1. requests' = CallsHandler(requests, k, NoResponse(status, k))
      BY <1>7, <1>8, <2>1, <2>3 DEF BeginEndRequest
    <3>2. NoResponse(status, k) \in Outcome /\ NoResponse(status, k).status = status
      BY <1>6, NoResponseType DEF NoResponse
    <3> QED
      BY <2>3, <3>1, <3>2
  <2> QED
    BY <2>2, <2>3
<1>11. PICK outcome \in Outcome :
         /\ requests' = CallsHandler(requests, k, outcome)
         /\ outcome.status = "Successful" =>
              outcome.answers = k /\ outcome.data = context.data /\ outcome.errorMsg = context.errorMsg
  BY <1>10
<1>12. /\ DOMAIN requests' = DOMAIN requests /\ requests'[k].outcomes # <<>>
       /\ \A i \in DOMAIN requests'[k].outcomes : requests'[k].outcomes[i] = outcome
       /\ \A j \in DOMAIN requests : j # k => requests'[j] = requests[j]
  BY <1>6, <1>11, FirstCall
<1>13. \A i : IsEndingId(i)' <=> i = id
  <2>1. \E status, rest :
          ending' = <<[id |-> id, status |-> status, context |-> context, rest |-> rest]>>
    <3>1. \E status, rest :
            ending' = Append(<<>>, [id |-> id, status |-> status, context |-> context, rest |-> rest])
      BY <1>1, <1>2, <1>7 DEF OnEndRequest, BeginEndRequest
    <3>2. \A x : Append(<<>>, x) = <<x>>
      OBVIOUS
    <3> QED
      BY <3>1, <3>2
  <2>2. DOMAIN ending' = {1} /\ ending'[1].id = id
    BY <2>1
  <2> QED
    BY <2>2 DEF IsEndingId
<1>14. \A i \in RequestIds : Awaits(i)' <=> (Awaits(i) /\ i # id)
  <2>1. \A i : (InUse(i)' <=> InUse(i)) /\ Owner(i)' = Owner(i) /\ ~IsEndingId(i)
    BY <1>1 DEF InUse, Owner, IsEndingId
  <2>2. \A i \in RequestIds : InUse(i) /\ i # id => Owner(i) \in DOMAIN requests /\ Owner(i) # k
    BY <1>6 DEF ClientInv, ContextsPart, Owner
  <2>3. \A i \in RequestIds : InUse(i) /\ i # id => requests'[Owner(i)] = requests[Owner(i)]
    BY <1>12, <2>2
  <2> QED
    BY <1>13, <2>1, <2>3 DEF Awaits
<1>15. ServedPart'
  BY <1>1, <1>4, <1>14 DEF AnswersInv, ServedPart, Owner
<1>16. Queue(q)' /\ KeptPart'
  <2>1. ASSUME NEW i \in DOMAIN q, q[i].type # "GetValuesResult"
        PROVE  Awaits(q[i].id)'
    <3>1. q[i] \in ServerRecord
      BY <1>4, ElementOfSeq, LenProperties
    <3>2. q[i].id \in RequestIds /\ q[i].id # id /\ Awaits(q[i].id)
      BY <1>4, <2>1, <3>1, ServerRecordFields DEF IsFor, Queue, OnWay
    <3> QED
      BY <1>14, <3>2
  <2> QED
    BY <1>1, <1>4, <1>14, <2>1, QueueStays DEF AnswersInv, Queue
<1>17. Queue(incoming)'
  BY <1>1, <1>3, <1>16, QueueIs
<1>18. UnsentPart'
  <2>1. \A j : IdsOf(j)' = IdsOf(j)
    BY <1>1 DEF IdsOf, InUse
  <2> QED
    BY <1>1, <1>12, <2>1 DEF AnswersInv, UnsentPart
<1>19. ResponseIsOwnAndWhole'
  <2>1. \A pieces, j, type : AreAllPieces(pieces, j, type) => AreAllPieces(pieces, j, type)'
    BY <1>1 DEF AreAllPieces, ArePieces
  <2>2. ASSUME NEW j \in DOMAIN requests', NEW i \in DOMAIN requests'[j].outcomes, NEW o,
               o = requests'[j].outcomes[i], o.status = "Successful"
        PROVE  /\ o.answers = j
               /\ AreAllPieces(o.data, j, "StdOut") /\ AreAllPieces(o.errorMsg, j, "StdErr")
    <3>1. CASE j = k
      <4>1. o = outcome
        BY <1>12, <2>2, <3>1
      <4> QED
        BY <1>9, <1>11, <2>2, <3>1, <4>1
    <3>2. CASE j # k
      BY <1>12, <2>2, <3>2 DEF AnswersInv, ResponseIsOwnAndWhole
    <3> QED
      BY <3>1, <3>2
  <2>3. ASSUME NEW j \in DOMAIN requests', NEW i \in DOMAIN requests'[j].outcomes, NEW o,
               o = requests'[j].outcomes[i], o.status = "Successful"
        PROVE  /\ o.answers = j
               /\ AreAllPieces(o.data, j, "StdOut")' /\ AreAllPieces(o.errorMsg, j, "StdErr")'
    BY <2>1, <2>2, <2>3
  <2> QED
    BY <2>3 DEF ResponseIsOwnAndWhole
<1> QED
  BY <1>15, <1>16, <1>17, <1>18, <1>19 DEF AnswersInv

\* UnknownType: AbortRequest makes the server end what it serves under the id.
LEMMA UnknownReceived ==
  ASSUME TypeOK, TypeOK', AnswersInv, LostStay, NEW r, OnUnknownType(r)
  PROVE  AnswersInv'
<1>1. /\ IsNext(r) /\ incoming # <<>> /\ r = Head(incoming) /\ r.type = "UnknownType" /\ ~IsPiece(r)
      /\ UNCHANGED <<responseMap, ending, requests, output>>
  BY DEF OnUnknownType, Receive, ReceiveAndThrow, IsNext, IsPiece, StreamTypes, requesterVars
<1>2. PICK id \in RequestIds : id = r.id
  BY <1>1, FirstRecord
<1>3. PICK q : q = Tail(incoming)
  OBVIOUS
<1>4. q \in Seq(ServerRecord) /\ Queue(q)
  BY <1>1, <1>3, FirstRecord DEF Queue
<1>5. UnsentPart' /\ ResponseIsOwnAndWhole'
  BY <1>1, WholeStays DEF AnswersInv
<1>6. ASSUME UNCHANGED serving, NEW n \in Nat, Dropped(n)
      PROVE  AnswersInv'
  <2>1. Unmoved /\ ToldNothing
    BY <1>1, <1>6 DEF Unmoved, ToldNothing, Awaits, Owner, InUse, IsEndingId, IdsOf
  <2> QED
    BY <1>1, <1>6, <2>1, AnswersStay
<1>7. CASE Receive(r) /\ UNCHANGED serving
  BY <1>1, <1>6, <1>7, TailDropped
<1>8. CASE ReceiveAndThrow(r, OneMoreException) /\ UNCHANGED serving
  <2>1. OneMoreException \in FailureRecord
    BY FailureTypes DEF TypeOK, FailureRecord, OneMoreException
  <2>2. PICK n \in 1..Len(incoming) : LosesRecords(n, OneMoreException)
    BY <1>8 DEF ReceiveAndThrow
  <2>3. n \in Nat
    OBVIOUS
  <2> QED
    BY <1>6, <1>8, <2>1, <2>2, <2>3, LossDropped
<1>9. CASE serving[id] # 0 /\ serving' = [serving EXCEPT ![id] = 0]
           /\ incoming' = Append(q, [type |-> "EndRequest", id |-> id,
                                     status |-> "RequestComplete", request |-> serving[id]])
  <2>1. PICK end : /\ end.type = "EndRequest" /\ end.id = id /\ end.request = serving[id]
                   /\ incoming' = Append(q, end)
    <3>1. \A k : /\ [type |-> "EndRequest", id |-> id, status |-> "RequestComplete",
                     request |-> k].type = "EndRequest"
                 /\ [type |-> "EndRequest", id |-> id, status |-> "RequestComplete",
                     request |-> k].id = id
                 /\ [type |-> "EndRequest", id |-> id, status |-> "RequestComplete",
                     request |-> k].request = k
      OBVIOUS
    <3> QED
      BY <1>9, <3>1
  <2>2. ServedPart' /\ KeptPart' /\ Queue(Append(q, end))'
    BY <1>1, <1>4, <1>9, <2>1, EndAdded DEF AnswersInv
  <2>3. Queue(incoming)'
    BY <2>1, <2>2, QueueIs
  <2> QED
    BY <1>5, <2>2, <2>3 DEF AnswersInv
<1> QED
  BY <1>2, <1>3, <1>7, <1>8, <1>9 DEF OnUnknownType

\* Steps of the server.
LEMMA ServerAnswers ==
  ASSUME TypeOK, ClientInv, AnswersInv, LostStay, ServerStep
  PROVE  AnswersInv'
<1>1. PICK q : q = incoming
  OBVIOUS
<1>2. q \in Seq(ServerRecord) /\ Queue(q)
  BY <1>1 DEF TypeOK, AnswersInv
<1>3. ASSUME NEW r, incoming' = Append(q, r), ServedPart' /\ KeptPart' /\ Queue(Append(q, r))',
             UNCHANGED <<responseMap, requests, output>>
      PROVE  AnswersInv'
  <2>1. Queue(incoming)'
    BY <1>3, QueueIs
  <2> QED
    BY <1>3, <2>1, WholeStays DEF AnswersInv
<1>4. ASSUME NEW r, incoming' = Append(q, r),
             r.type = "GetValuesResult" \/ (r.type = "UnknownType" /\ r.id \in RequestIds
                                             /\ serving[r.id] # 0),
             UNCHANGED <<responseMap, ending, requests, serving, output>>
      PROVE  AnswersInv'
  <2>1. ServedPart' /\ KeptPart' /\ Queue(Append(q, r))'
    BY <1>2, <1>4, OtherAdded DEF AnswersInv
  <2> QED
    BY <1>3, <1>4, <2>1
<1>5. CASE AnswerGetValues
  <2>1. \E r : r.type = "GetValuesResult" /\ incoming' = Append(q, r)
    <3>1. PICK kind, maxReqs, mpxs :
            incoming' = Append(q, [type |-> "GetValuesResult", kind |-> kind,
                                   maxReqs |-> maxReqs, mpxs |-> mpxs])
      BY <1>1, <1>5 DEF AnswerGetValues, ServerSends
    <3>2. [type |-> "GetValuesResult", kind |-> kind, maxReqs |-> maxReqs,
           mpxs |-> mpxs].type = "GetValuesResult"
      OBVIOUS
    <3> QED
      BY <3>1, <3>2
  <2>2. UNCHANGED <<responseMap, ending, requests, serving, output>>
    BY <1>5 DEF AnswerGetValues, requesterVars
  <2> QED
    BY <1>4, <2>1, <2>2
<1>6. ASSUME NEW id \in RequestIds, SendUnknownType(id)
      PROVE  AnswersInv'
  <2>1. \E r : r.type = "UnknownType" /\ r.id = id /\ incoming' = Append(q, r)
    <3>1. /\ [type |-> "UnknownType", id |-> id].type = "UnknownType"
          /\ [type |-> "UnknownType", id |-> id].id = id
      OBVIOUS
    <3> QED
      BY <1>1, <1>6, <3>1 DEF SendUnknownType, ServerSends
  <2>2. /\ serving[id] # 0
        /\ UNCHANGED <<responseMap, ending, requests, serving, output>>
    BY <1>6 DEF SendUnknownType, requesterVars, serverVars
  <2> QED
    BY <1>4, <2>1, <2>2
<1>7. ASSUME NEW id \in RequestIds, EndServing(id)
      PROVE  AnswersInv'
  <2>1. \E r : /\ r.type = "EndRequest" /\ r.id = id /\ r.request = serving[id]
               /\ incoming' = Append(q, r)
    <3>1. PICK status : incoming' = Append(q, [type |-> "EndRequest", id |-> id,
                                               status |-> status, request |-> serving[id]])
      BY <1>1, <1>7 DEF EndServing, ServerSends
    <3>2. \A k : /\ [type |-> "EndRequest", id |-> id, status |-> status,
                     request |-> k].type = "EndRequest"
                 /\ [type |-> "EndRequest", id |-> id, status |-> status, request |-> k].id = id
                 /\ [type |-> "EndRequest", id |-> id, status |-> status, request |-> k].request = k
      OBVIOUS
    <3> QED
      BY <3>1, <3>2
  <2>2. /\ serving[id] # 0 /\ serving' = [serving EXCEPT ![id] = 0]
        /\ UNCHANGED <<responseMap, ending, requests, output>>
    BY <1>7 DEF EndServing, requesterVars
  <2>3. PICK r : /\ r.type = "EndRequest" /\ r.id = id /\ r.request = serving[id]
                 /\ incoming' = Append(q, r)
    BY <2>1
  <2>4. ServedPart' /\ KeptPart' /\ Queue(Append(q, r))'
    BY <1>2, <2>2, <2>3, EndAdded DEF AnswersInv
  <2> QED
    BY <1>3, <2>2, <2>3, <2>4
<1> QED
  BY <1>5, <1>6, <1>7, PieceAdded DEF ServerStep

\* Every step, without cancellations.
LEMMA NextAnswers ==
  ASSUME TypeOK, TypeOK', ClientInv, AskedOnce, AnswersInv, Cancels = {}, [Next]_vars
  PROVE  AnswersInv'
<1>0. LostStay
  BY FailureSteps DEF LostStay
<1>1. CASE OnRecordRead
  <2>1. PICK r : \/ OnInvalidGetValuesResult(r)
                 \/ OnGetValuesResult(r)
                 \/ OnUnexpectedRecord(r)
                 \/ OnStdOut(r)
                 \/ OnStdErr(r)
                 \/ OnEndRequest(r)
                 \/ OnUnknownType(r)
    BY <1>1 DEF OnRecordRead
  <2>2. CASE OnInvalidGetValuesResult(r) \/ OnGetValuesResult(r)
    <3>1. UNCHANGED output /\ ~IsPiece(r)
      BY <2>2 DEF OnInvalidGetValuesResult, OnGetValuesResult, serverVars, IsPiece, StreamTypes
    <3>2. Unmoved /\ ToldNothing
      BY <2>2, OpeningAnswers, ResultAnswers
    <3>3. failures \in FailureRecord /\ OneMoreException \in FailureRecord
      BY FailureTypes DEF TypeOK, FailureRecord, OneMoreException
    <3>4. \/ Receive(r)
          \/ \E counted \in FailureRecord, n \in 1..Len(incoming) : LosesRecords(n, counted)
      BY <2>2, <3>3 DEF OnInvalidGetValuesResult, OnGetValuesResult, ReceiveAndThrow
    <3>5. ASSUME NEW counted \in FailureRecord, NEW n \in 1..Len(incoming),
                 LosesRecords(n, counted)
          PROVE  \E m \in Nat : Dropped(m)
      <4>1. n \in Nat
        OBVIOUS
      <4> QED
        BY <3>5, <4>1, LossDropped
    <3>6. \E n \in Nat : Dropped(n)
      BY <3>1, <3>4, <3>5, TailDropped
    <3> QED
      BY <1>0, <3>1, <3>2, <3>6, AnswersStay
  <2>3. ~OnUnexpectedRecord(r)
    BY FirstRecord DEF OnUnexpectedRecord, Receive, IsNext, Awaits
  <2> QED
    BY <1>0, <2>1, <2>2, <2>3, PieceReceived, EndReceived, UnknownReceived
<1>2. CASE FinishEndRequest
  <2>1. UNCHANGED <<output, incoming>>
    BY <1>2 DEF FinishEndRequest, serverVars
  <2> QED
    BY <1>0, <1>2, <2>1, FinishAnswers, StayDropped, AnswersStay
<1>5. CASE LeaveEndRequest
  <2>1. UNCHANGED output
    BY <1>5 DEF LeaveEndRequest, serverVars
  <2> QED
    BY <1>0, <1>5, <2>1, LeaveAnswers, AnswersStay
<1>3. CASE ApplicationStep
  <2>1. PICK keep \in KeepModes : OpenConnection(keep) \/ SendRequest(keep) \/ RejectRequest(keep)
    BY <1>3 DEF ApplicationStep, CancelRequest
  <2>2. UNCHANGED <<output, incoming>>
    BY <2>1 DEF OpenConnection, SendRequest, RejectRequest, serverVars
  <2>3. Unmoved /\ ToldNothing
    BY <2>1, OpeningAnswers, SendRequestAnswers
  <2> QED
    BY <1>0, <2>2, <2>3, StayDropped, AnswersStay
<1>4. CASE UNCHANGED vars
  <2>1. UNCHANGED <<responseMap, ending, requests, serving, output, incoming>>
    BY <1>4 DEF vars, requesterVars, serverVars
  <2>2. Unmoved /\ ToldNothing
    BY <2>1 DEF Unmoved, ToldNothing, Awaits, Owner, InUse, IsEndingId, IdsOf
  <2> QED
    BY <1>0, <2>1, <2>2, StayDropped, AnswersStay
<1> QED
  BY <1>0, <1>1, <1>2, <1>3, <1>4, <1>5, ServerAnswers DEF Next

-----------------------------------------------------------------------------
(* The promises                                                             *)

\* All of it is one inductive invariant, which a connection with a real server
\* takes up (Session).
RequesterInv == TypeOK /\ Uncancelled /\ OrderInv /\ AnswersInv

LEMMA InitRequester ==
  ASSUME Init
  PROVE  RequesterInv
<1>1. OrderInv
  BY DEF Init, OrderInv, AskedOnce, ClientInv, OpensOnce, IdsPart, ContextsPart, EndingPart,
         HandlePart, OutcomesPart, InUse, IsResult
<1>2. AnswersInv
  BY DEF Init, AnswersInv, ServedPart, KeptPart, UnsentPart, ResponseIsOwnAndWhole, Awaits, InUse,
         Queue, OnWay, LastPart, OwnPart, InOrder, BehindPart, CoveredPart
<1>3. Uncancelled
  BY DEF Init, Uncancelled
<1> QED
  BY <1>1, <1>2, <1>3, InitTypes DEF RequesterInv

LEMMA NextRequester ==
  ASSUME Cancels = {}, ~Volunteers, RequesterInv, [Next]_vars
  PROVE  RequesterInv'
<1>1. TypeOK /\ Uncancelled /\ Orderly /\ AskedOnce /\ ClientInv /\ AnswersInv
  BY UncancelledIsOrderly DEF RequesterInv, OrderInv
<1>2. TypeOK' /\ Uncancelled'
  BY <1>1, NextTypes, NextUncancelled
<1>3. "ending" \notin Cancels
  OBVIOUS
<1>4. OrderInv'
  BY <1>1, <1>3, NextAsked, NextClient DEF OrderInv
<1>5. AnswersInv'
  BY <1>1, <1>2, NextAnswers
<1> QED
  BY <1>2, <1>4, <1>5 DEF RequesterInv

\* What the server serves, and what is on its way and kept, is as it should be,
\* through exceptions out of sendData, disconnect_ and the handlers, aborted requests
\* and ids used again; a piece that is neither kept nor on its way is one of those
\* RecordReader gave up with the rest of a chunk when something threw.
THEOREM AnswersInvariant ==
  ASSUME Cancels = {}, ~Volunteers
  PROVE  Spec => []AnswersInv
<1>1. Init => RequesterInv
  BY InitRequester
<1>2. RequesterInv /\ [Next]_vars => RequesterInv'
  BY NextRequester
<1>3. RequesterInv => AnswersInv
  BY DEF RequesterInv
<1> QED
  BY <1>1, <1>2, <1>3, PTL DEF Spec

\* The response passed to a request's handler is what the server sent for that
\* request, in order, StdOut and StdErr apart; all of it, but for the records
\* RecordReader gave up with the rest of a chunk when something threw.
THEOREM ResponseTheorem ==
  ASSUME Cancels = {}, ~Volunteers
  PROVE  Spec => []ResponseIsOwnAndWhole
<1>1. AnswersInv => ResponseIsOwnAndWhole
  BY DEF AnswersInv
<1> QED
  BY <1>1, AnswersInvariant, PTL

\* No id in the pool is used by the server, and no record for it is on its way.
THEOREM FreeIdsTheorem ==
  ASSUME Cancels = {}, ~Volunteers
  PROVE  Spec => []AvailableIdsAreFree
<1>1. ASSUME TypeOK, Orderly, OrderInv, AnswersInv, connectionState = "Connected",
             NEW id \in requestIdPool
      PROVE  serving[id] = 0 /\ \A i \in DOMAIN incoming : ~IsFor(incoming[i], id)
  <2>1. id \in RequestIds /\ ~InUse(id)
    BY <1>1 DEF TypeOK, OrderInv, ClientInv, IdsPart, UsedIds
  <2> QED
    BY <1>1, <2>1 DEF AnswersInv, ServedPart, Queue, OnWay, Awaits, IsFor
<1>2. TypeOK /\ Orderly /\ OrderInv /\ AnswersInv => AvailableIdsAreFree
  BY <1>1 DEF AvailableIdsAreFree
<1>3. "ending" \notin Cancels
  OBVIOUS
<1> QED
  BY <1>2, <1>3, RequesterTypes, OrderlyTheorem, OrderInvariant, AnswersInvariant, PTL
=============================================================================
