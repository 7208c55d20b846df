-------------------------- MODULE ResponderWireProofs ---------------------------
(***************************************************************************)
(* What ResponderImpl tells the web server, for every set of request ids,  *)
(* every content, limit and bound: which requests EndRequest ends and how  *)
(* often, when the connection is closed, that answers go out whole, that   *)
(* no request is lost and that none is left that nobody can answer.        *)
(***************************************************************************)
EXTENDS ResponderImplProofs

-----------------------------------------------------------------------------
(* The events a step adds to the wire                                       *)

\* The fields of a request the application was given.
LEMMA HandedFields ==
  ASSUME TypeOK, NEW k \in DOMAIN handed
  PROVE  /\ k \in 1..Len(handed) /\ Len(handed) \in Nat
         /\ handed[k] \in HandedRequest
         /\ handed[k].id \in RequestIds /\ handed[k].begin \in Nat
<1>1. DOMAIN handed = 1..Len(handed) /\ Len(handed) \in Nat /\ handed[k] \in HandedRequest
  BY ElementOfSeq, LenProperties DEF TypeOK
<1> QED
  BY <1>1 DEF HandedRequest

\* The first n of the events go out, after what was sent before.
SendsFirst(n, events) ==
  /\ Len(wire') = Len(wire) + n
  /\ \A i \in 1..Len(wire) : wire'[i] = wire[i]
  /\ \A i \in 1..n : wire'[Len(wire) + i] = events[i]

\* All calls of a handler are made unless one of them throws.
LEMMA HandlerSends ==
  ASSUME TypeOK, NEW events \in Seq(OutgoingEvent), Emit(events) \/ EmitThrows(events)
  PROVE  \E n \in 0..Len(events) :
           SendsFirst(n, events) /\ (exceptions' = exceptions => n = Len(events))
<1>1. wire \in Seq(OutgoingEvent) /\ Len(wire) \in Nat /\ Len(events) \in Nat
  BY LenProperties DEF TypeOK
<1>2. CASE Emit(events)
  <2>1. wire' = wire \o events
    BY <1>2 DEF Emit
  <2>2. SendsFirst(Len(events), events)
    BY <1>1, <2>1, ConcatProperties DEF SendsFirst
  <2> QED
    BY <1>1, <2>2
<1>3. CASE EmitThrows(events)
  <2>1. PICK n \in 0..(Len(events) - 1) : wire' = wire \o SubSeq(events, 1, n)
    BY <1>3 DEF EmitThrows
  <2>2. exceptions' # exceptions
    BY <1>3 DEF EmitThrows, TypeOK
  <2>3. n \in Nat /\ n \in 0..Len(events) /\ \A i \in 1..n : events[i] \in OutgoingEvent
    BY <1>1, <2>1, ElementOfSeq
  <2>4. /\ SubSeq(events, 1, n) \in Seq(OutgoingEvent)
        /\ Len(SubSeq(events, 1, n)) = n
        /\ \A i \in 1..n : SubSeq(events, 1, n)[i] = events[i]
    BY <2>3, SubSeqProperties
  <2>5. SendsFirst(n, events)
    BY <1>1, <2>1, <2>3, <2>4, ConcatProperties DEF SendsFirst
  <2> QED
    BY <2>2, <2>3, <2>5
<1> QED
  BY <1>2, <1>3

\* Record i of the streams of answer k, which are `size' records, the first `split'
\* of them StdOut.
StreamRecord(k, split, size, id, i) ==
  [type |-> IF i <= split THEN "StdOut" ELSE "StdErr", id |-> id, answer |-> k,
   last |-> i \in {split, size}]

\* What ends a request on the wire: `size' stream records of answer k, the first
\* `split' of them StdOut, then EndRequest, then disconnect unless the
\* connection is kept.
EndBlock(k, split, size, id, status, begin, keep) ==
  [i \in 1..(size + IF keep THEN 1 ELSE 2) |->
     IF i <= size THEN StreamRecord(k, split, size, id, i)
     ELSE IF i = size + 1 THEN EndRequestRecord(id, status, begin)
     ELSE Disconnect]

\* A refusal is such a block without streams.
LEMMA EndBlockWithoutStreams ==
  ASSUME NEW id \in RequestIds, NEW begin \in Nat, NEW keep \in BOOLEAN,
         NEW status \in {"RequestComplete", "UnknownRole", "CantMpxConn", "Overloaded"}
  PROVE  <<EndRequestRecord(id, status, begin)>> \o (IF keep THEN <<>> ELSE <<Disconnect>>)
           = EndBlock(0, 0, 0, id, status, begin, keep)
<1> DEFINE end == EndRequestRecord(id, status, begin)
           tail == IF keep THEN <<>> ELSE <<Disconnect>>
           block == EndBlock(0, 0, 0, id, status, begin, keep)
<1>1. end \in OutgoingEvent /\ Disconnect \in OutgoingEvent
  BY EventTypes
<1>2. Len(tail) = (IF keep THEN 0 ELSE 1) /\ (~keep => tail[1] = Disconnect)
  OBVIOUS
<1>3. block = [i \in 1..(IF keep THEN 1 ELSE 2) |-> IF i = 1 THEN end ELSE Disconnect]
  BY DEF EndBlock
<1> HIDE DEF end, tail, block
<1>4. <<end>> \in Seq(OutgoingEvent) /\ tail \in Seq(OutgoingEvent)
  BY <1>1 DEF tail
<1>5. block \in Seq(OutgoingEvent)
  BY <1>1, <1>3
<1>6. /\ <<end>> \o tail \in Seq(OutgoingEvent)
      /\ Len(<<end>> \o tail) = 1 + Len(tail)
      /\ \A i \in 1..(1 + Len(tail)) :
           (<<end>> \o tail)[i] = IF i <= 1 THEN end ELSE tail[i - 1]
  BY <1>4, ConcatProperties
<1>7. Len(<<end>> \o tail) = Len(block)
      /\ \A i \in 1..Len(block) : (<<end>> \o tail)[i] = block[i]
  BY <1>2, <1>3, <1>6
<1>8. <<end>> \o tail = block
  BY <1>5, <1>6, <1>7, SeqEqual
<1> QED
  BY <1>8 DEF end, tail, block

\* endRequest is a block without streams, too.
LEMMA EndEventsIsBlock ==
  ASSUME TypeOK, NEW id \in RequestIds, Registered(id)
  PROVE  EndEvents(id) = EndBlock(0, 0, 0, id, "RequestComplete", requestRegistry[id].begin,
                                  requestRegistry[id].keepConnection)
BY EntryType, EndBlockWithoutStreams DEF EndEvents

\* The two streams of an answer.
Streams(id, k, nOut, nErr) ==
  MakeStream("StdOut", id, k, nOut) \o MakeStream("StdErr", id, k, nErr)

\* They make one sequence, whose last records are marked.
LEMMA StreamsOfAnswer ==
  ASSUME NEW id \in RequestIds, NEW k \in Nat, NEW nOut \in Nat, NEW nErr \in Nat
  PROVE  /\ Streams(id, k, nOut, nErr) \in Seq(OutgoingEvent)
         /\ Len(Streams(id, k, nOut, nErr)) = nOut + nErr + 2
         /\ \A i \in 1..(nOut + nErr + 2) : 
              Streams(id, k, nOut, nErr)[i]
                = StreamRecord(k, nOut + 1, nOut + nErr + 2, id, i)
<1> DEFINE out == MakeStream("StdOut", id, k, nOut)
           err == MakeStream("StdErr", id, k, nErr)
<1>1. out \in Seq(OutgoingEvent) /\ err \in Seq(OutgoingEvent)
  BY MakeStreamType
<1>2. /\ Len(out) = nOut + 1 /\ Len(err) = nErr + 1
      /\ \A i \in 1..(nOut + 1) :
           out[i] = [type |-> "StdOut", id |-> id, answer |-> k, last |-> i = nOut + 1]
      /\ \A i \in 1..(nErr + 1) :
           err[i] = [type |-> "StdErr", id |-> id, answer |-> k, last |-> i = nErr + 1]
  BY DEF MakeStream
<1> HIDE DEF out, err
<1>3. /\ out \o err \in Seq(OutgoingEvent)
      /\ Len(out \o err) = nOut + nErr + 2
      /\ \A i \in 1..(nOut + nErr + 2) :
           (out \o err)[i] = IF i <= nOut + 1 THEN out[i] ELSE err[i - (nOut + 1)]
  <2>1. /\ out \o err \in Seq(OutgoingEvent)
        /\ Len(out \o err) = Len(out) + Len(err)
        /\ \A i \in 1..(Len(out) + Len(err)) :
             (out \o err)[i] = IF i <= Len(out) THEN out[i] ELSE err[i - Len(out)]
    BY <1>1, ConcatProperties
  <2>2. Len(out) + Len(err) = nOut + nErr + 2
    BY <1>2
  <2> QED
    BY <1>2, <2>1, <2>2
<1>4. ASSUME NEW i \in 1..(nOut + nErr + 2)
      PROVE  (out \o err)[i] = StreamRecord(k, nOut + 1, nOut + nErr + 2, id, i)
  <2>1. CASE i <= nOut + 1
    <3>1. i \in 1..(nOut + 1) /\ ((i = nOut + 1) <=> i \in {nOut + 1, nOut + nErr + 2})
      BY <2>1
    <3>2. (i = nOut + 1) = (i \in {nOut + 1, nOut + nErr + 2})
      BY <3>1
    <3> QED
      BY <1>2, <1>3, <2>1, <3>1, <3>2 DEF StreamRecord
  <2>2. CASE ~(i <= nOut + 1)
    <3> DEFINE j == i - (nOut + 1)
    <3>1. j \in 1..(nErr + 1) /\ ((j = nErr + 1) <=> i \in {nOut + 1, nOut + nErr + 2})
      BY <2>2
    <3>2. (j = nErr + 1) = (i \in {nOut + 1, nOut + nErr + 2})
      BY <3>1
    <3>3. (out \o err)[i] = err[j]
      BY <1>3, <2>2
    <3> HIDE DEF j
    <3> QED
      BY <1>2, <2>2, <3>1, <3>2, <3>3 DEF StreamRecord
  <2> QED
    BY <2>1, <2>2
<1> QED
  BY <1>3, <1>4 DEF out, err, Streams

\* What endRequest sends.
EndCalls(id, begin, keep) ==
  <<EndRequestRecord(id, "RequestComplete", begin)>> \o (IF keep THEN <<>> ELSE <<Disconnect>>)

\* The calls of an answer of nOut and nErr pieces of output, and the block they make.
AnswerCalls(id, k, nOut, nErr, begin, keep) ==
  Streams(id, k, nOut, nErr) \o EndCalls(id, begin, keep)

AnswerBlock(id, k, nOut, nErr, begin, keep) ==
  EndBlock(k, nOut + 1, nOut + nErr + 2, id, "RequestComplete", begin, keep)

\* Streams and what endRequest sends behind them make one block.
LEMMA StreamsMakeBlock ==
  ASSUME NEW id \in RequestIds, NEW k \in Nat, NEW nOut \in Nat, NEW nErr \in Nat,
         NEW begin \in Nat, NEW keep \in BOOLEAN
  PROVE  AnswerCalls(id, k, nOut, nErr, begin, keep)
           = AnswerBlock(id, k, nOut, nErr, begin, keep)
<1> DEFINE streams == Streams(id, k, nOut, nErr)
           size == nOut + nErr + 2
           end == EndRequestRecord(id, "RequestComplete", begin)
           tail == <<end>> \o (IF keep THEN <<>> ELSE <<Disconnect>>)
           split == nOut + 1
           record(i) == StreamRecord(k, split, size, id, i)
           block == EndBlock(k, split, size, id, "RequestComplete", begin, keep)
<1>1. streams \in Seq(OutgoingEvent) /\ Len(streams) = size
      /\ \A i \in 1..size : streams[i] = record(i)
  BY StreamsOfAnswer
<1>11. size \in Nat
  OBVIOUS
<1> HIDE DEF streams, size, split
<1>2. tail \in Seq(OutgoingEvent) /\ keep \in BOOLEAN
  <2>1. end \in OutgoingEvent /\ Disconnect \in OutgoingEvent
    BY EventTypes
  <2> HIDE DEF end
  <2>2. <<end>> \in Seq(OutgoingEvent) /\ (IF keep THEN <<>> ELSE <<Disconnect>>) \in Seq(OutgoingEvent)
    BY <2>1
  <2> QED
    BY <2>2, ConcatProperties
<1>3. tail = [i \in 1..(IF keep THEN 1 ELSE 2) |-> IF i = 1 THEN end ELSE Disconnect]
  <2>1. tail = EndBlock(0, 0, 0, id, "RequestComplete", begin, keep)
    BY EndBlockWithoutStreams
  <2>2. EndBlock(0, 0, 0, id, "RequestComplete", begin, keep)
          = [i \in 1..(IF keep THEN 1 ELSE 2) |-> IF i = 1 THEN end ELSE Disconnect]
    BY DEF EndBlock
  <2> HIDE DEF tail, end
  <2> QED
    BY <2>1, <2>2
<1>4. block = [i \in 1..(size + IF keep THEN 1 ELSE 2) |->
                 IF i <= size THEN record(i) ELSE IF i = size + 1 THEN end ELSE Disconnect]
  BY DEF EndBlock
<1>5. size \in Nat
  BY <1>11
<1> HIDE DEF end, tail, record, block
<1>6. /\ streams \o tail \in Seq(OutgoingEvent)
      /\ Len(streams \o tail) = size + IF keep THEN 1 ELSE 2
      /\ \A i \in 1..(size + IF keep THEN 1 ELSE 2) : (streams \o tail)[i] =
           IF i <= size THEN streams[i] ELSE tail[i - size]
  <2>1. Len(tail) = IF keep THEN 1 ELSE 2
    BY <1>2, <1>3
  <2>2. /\ streams \o tail \in Seq(OutgoingEvent)
        /\ Len(streams \o tail) = size + Len(tail)
        /\ \A i \in 1..(size + Len(tail)) : (streams \o tail)[i] =
             IF i <= size THEN streams[i] ELSE tail[i - size]
    BY <1>1, <1>2, ConcatProperties
  <2> QED
    BY <2>1, <2>2
<1>7. ASSUME NEW i \in 1..(size + IF keep THEN 1 ELSE 2)
      PROVE  (streams \o tail)[i] = block[i]
  <2>1. CASE i <= size
    BY <1>1, <1>4, <1>5, <1>6, <2>1
  <2>2. CASE ~(i <= size)
    <3>1. i - size \in 1..(IF keep THEN 1 ELSE 2) /\ (i - size = 1 <=> i = size + 1)
      BY <1>2, <1>5, <2>2
    <3>2. (streams \o tail)[i] = IF i = size + 1 THEN end ELSE Disconnect
      BY <1>3, <1>6, <2>2, <3>1
    <3> QED
      BY <1>4, <2>2, <3>2
  <2> QED
    BY <2>1, <2>2
<1>8. block \in Seq(OutgoingEvent)
  <2>1. \A i \in 1..(size + IF keep THEN 1 ELSE 2) : block[i] \in OutgoingEvent
    BY <1>6, <1>7, ElementOfSeq
  <2> DEFINE total == size + IF keep THEN 1 ELSE 2
  <2>2. total \in Nat
    BY <1>2, <1>5
  <2>3. block = [i \in 1..total |-> block[i]]
    BY <1>4
  <2>4. \A i \in 1..total : block[i] \in OutgoingEvent
    BY <2>1
  <2> HIDE DEF total
  <2> QED
    BY <2>2, <2>3, <2>4
<1>9. Len(block) = size + IF keep THEN 1 ELSE 2
  BY <1>2, <1>4, <1>5
<1>10. streams \o tail = block
  BY <1>6, <1>7, <1>8, <1>9, SeqEqual
<1> QED
  BY <1>10 DEF streams, size, split, tail, end, block, EndCalls, AnswerCalls, AnswerBlock

\* sendResponse sends one block, also when its request is gone.
LEMMA AnswerIsBlock ==
  ASSUME TypeOK, NEW id \in RequestIds, Registered(id),
         NEW k \in Nat, NEW nOut \in Nat, NEW nErr \in Nat
  PROVE  Streams(id, k, nOut, nErr) \o EndEvents(id)
           = EndBlock(k, nOut + 1, nOut + nErr + 2, id, "RequestComplete",
                      requestRegistry[id].begin, requestRegistry[id].keepConnection)
<1> DEFINE begin == requestRegistry[id].begin
           keep == requestRegistry[id].keepConnection
<1>1. begin \in Nat /\ keep \in BOOLEAN
  BY EntryType
<1>2. EndEvents(id) = EndCalls(id, begin, keep)
  BY DEF EndEvents, EndCalls
<1> HIDE DEF begin, keep
<1>3. AnswerCalls(id, k, nOut, nErr, begin, keep)
        = AnswerBlock(id, k, nOut, nErr, begin, keep)
  BY <1>1, StreamsMakeBlock
<1> QED
  BY <1>2, <1>3 DEF begin, keep, AnswerCalls, AnswerBlock

LEMMA UnclaimedIsBlock ==
  ASSUME NEW id \in RequestIds, NEW k \in Nat, NEW nOut \in Nat, NEW nErr \in Nat
  PROVE  Streams(id, k, nOut, nErr) \o <<EndRequestRecord(id, "RequestComplete", 0)>>
           = EndBlock(k, nOut + 1, nOut + nErr + 2, id, "RequestComplete", 0, TRUE)
<1> DEFINE end == EndRequestRecord(id, "RequestComplete", 0)
<1>1. end \in OutgoingEvent
  BY EventTypes
<1>2. <<end>> \o <<>> = <<end>>
  BY <1>1
<1>3. EndCalls(id, 0, TRUE) = <<end>>
  BY <1>2 DEF EndCalls
<1>4. AnswerCalls(id, k, nOut, nErr, 0, TRUE) = AnswerBlock(id, k, nOut, nErr, 0, TRUE)
  <2> DEFINE begin == 0
             keep == TRUE
  <2>1. begin \in Nat /\ keep \in BOOLEAN
    OBVIOUS
  <2> HIDE DEF begin, keep
  <2>2. AnswerCalls(id, k, nOut, nErr, begin, keep) = AnswerBlock(id, k, nOut, nErr, begin, keep)
    BY <2>1, StreamsMakeBlock
  <2> QED
    BY <2>2 DEF begin, keep
<1> QED
  BY <1>3, <1>4 DEF AnswerCalls, AnswerBlock

-----------------------------------------------------------------------------
(* What each step sends                                                     *)

\* The calls of a block are made in order, all of them unless one throws.
SendsBlock(k, split, size, id, status, begin, keep) ==
  LET block == EndBlock(k, split, size, id, status, begin, keep)
  IN  \E n \in 0..Len(block) :
        SendsFirst(n, block) /\ (exceptions' = exceptions => n = Len(block))

\* A question of the web server is answered.
Replies ==
  /\ UNCHANGED requestRegistry
  /\ \E n \in {0, 1}, e \in {x \in OutgoingEvent : x.type \in {"GetValuesResult", "UnknownType"}} :
       SendsFirst(n, <<e>>)

\* A BeginRequest is turned down.
Refuses(r) ==
  /\ Receive(r) /\ r.type = "BeginRequest" /\ ~Registered(r.id)
  /\ UNCHANGED <<requestRegistry, handed>>
  /\ \E status \in {"UnknownRole", "CantMpxConn", "Overloaded"} :
       SendsBlock(0, 0, 0, r.id, status, Len(received) + 1, r.keep)

\* A request is ended: by an abort, without streams, or by an answer with them.
\* Its entry goes if no call throws.
EndsRequest(id) ==
  /\ Registered(id)
  /\ \/ exceptions' = exceptions /\ DeleteRequest(id)
     \/ exceptions' # exceptions /\ UNCHANGED requestRegistry
  /\ \E k \in Nat, split \in Nat, size \in Nat :
       /\ (split = 0 /\ size = 0) \/ (0 < split /\ split < size)
       /\ SendsBlock(k, split, size, id, "RequestComplete", requestRegistry[id].begin,
                     requestRegistry[id].keepConnection)

\* A stale Response is sent: streams, and an EndRequest for no open request.
SendsUnclaimed ==
  /\ UNCHANGED <<requestRegistry, handed, received>>
  /\ \E j \in DOMAIN handed :
       /\ handed[j].response = "valid" /\ ~Registered(handed[j].id)
       /\ \E k \in Nat, split \in Nat, size \in Nat :
            /\ 0 < split /\ split < size
            /\ SendsBlock(k, split, size, handed[j].id, "RequestComplete", 0, TRUE)

\* The way out of onBeginRequest with a refusal.
LEMMA RefusalSends ==
  ASSUME TypeOK, NEW r \in IncomingRecord, OnBeginRequest(r), Refusal(r) # "none"
  PROVE  Refuses(r)
<1> DEFINE refuse == <<EndRequestRecord(r.id, Refusal(r), Len(received) + 1)>>
                       \o (IF r.keep THEN <<>> ELSE <<Disconnect>>)
           block == EndBlock(0, 0, 0, r.id, Refusal(r), Len(received) + 1, r.keep)
<1>1. /\ Receive(r) /\ r.type = "BeginRequest" /\ r.id \in RequestIds /\ r.keep \in BOOLEAN
      /\ ~Registered(r.id) /\ UNCHANGED <<requestRegistry, handed>>
      /\ Emit(refuse) \/ EmitThrows(refuse)
  BY RecordFields DEF OnBeginRequest, IsRecordExpected
<1>2. Refusal(r) \in {"UnknownRole", "CantMpxConn", "Overloaded"}
  BY DEF Refusal
<1>3. Len(received) + 1 \in Nat
  BY LenProperties DEF TypeOK
<1> HIDE DEF refuse
<1>4. refuse = block
  BY <1>1, <1>2, <1>3, EndBlockWithoutStreams, ZenonT(60) DEF refuse
<1>5. refuse \in Seq(OutgoingEvent)
  <2>1. EndRequestRecord(r.id, Refusal(r), Len(received) + 1) \in OutgoingEvent
        /\ Disconnect \in OutgoingEvent
    BY <1>1, <1>2, <1>3, EventTypes
  <2>2. <<EndRequestRecord(r.id, Refusal(r), Len(received) + 1)>> \in Seq(OutgoingEvent)
        /\ (IF r.keep THEN <<>> ELSE <<Disconnect>>) \in Seq(OutgoingEvent)
    BY <2>1
  <2> QED
    BY <2>2, ConcatProperties DEF refuse
<1>6. SendsBlock(0, 0, 0, r.id, Refusal(r), Len(received) + 1, r.keep)
  BY <1>1, <1>4, <1>5, HandlerSends DEF SendsBlock
<1> QED
  BY <1>1, <1>2, <1>6 DEF Refuses

\* An abort.
LEMMA AbortSends ==
  ASSUME TypeOK, NEW r \in IncomingRecord, OnAbortRequest(r)
  PROVE  r.id \in RequestIds /\ EndsRequest(r.id)
<1>1. r.id \in RequestIds /\ Registered(r.id)
  BY RecordFields DEF OnAbortRequest, IsRecordExpected
<1>2. EndEvents(r.id) \in Seq(OutgoingEvent)
  BY <1>1, EndEventsType
<1>3. Emit(EndEvents(r.id)) \/ EmitThrows(EndEvents(r.id))
  BY DEF OnAbortRequest
<1>4. SendsBlock(0, 0, 0, r.id, "RequestComplete", requestRegistry[r.id].begin,
                 requestRegistry[r.id].keepConnection)
  BY <1>1, <1>2, <1>3, HandlerSends, EndEventsIsBlock DEF SendsBlock
<1>5. \/ exceptions' = exceptions /\ DeleteRequest(r.id)
      \/ exceptions' # exceptions /\ UNCHANGED requestRegistry
  BY DEF OnAbortRequest, Emit, EmitThrows, TypeOK
<1>6. \E k \in Nat, split \in Nat, size \in Nat :
        /\ (split = 0 /\ size = 0) \/ (0 < split /\ split < size)
        /\ SendsBlock(k, split, size, r.id, "RequestComplete", requestRegistry[r.id].begin,
                      requestRegistry[r.id].keepConnection)
  <2> WITNESS 0 \in Nat, 0 \in Nat, 0 \in Nat
  <2> QED
    BY <1>4
<1> QED
  BY <1>1, <1>5, <1>6 DEF EndsRequest

\* GetValuesResult and UnknownType.
LEMMA ManagementSends ==
  ASSUME TypeOK, NEW r \in IncomingRecord, OnGetValues(r) \/ OnInvalidRecordType(r)
  PROVE  Replies
<1> DEFINE S == {x \in OutgoingEvent : x.type \in {"GetValuesResult", "UnknownType"}}
<1>1. PICK e \in S : Emit(<<e>>) \/ EmitThrows(<<e>>)
  <2> DEFINE result == [type |-> "GetValuesResult", maxConns |-> cfg.maxConnectionsNumber,
                        maxReqs |-> cfg.maxRequestsNumber, mpxs |-> cfg.multiplexingEnabled]
  <2>1. result \in S /\ [type |-> "UnknownType"] \in S
    BY DEF TypeOK, OutgoingEvent, OutgoingRecord
  <2> QED
    BY <2>1 DEF OnGetValues, OnInvalidRecordType
<1>2. <<e>> \in Seq(OutgoingEvent) /\ Len(<<e>>) = 1
  OBVIOUS
<1>3. PICK n \in 0..Len(<<e>>) : SendsFirst(n, <<e>>)
  BY <1>1, <1>2, HandlerSends
<1>4. n \in {0, 1}
  BY <1>2
<1>5. UNCHANGED requestRegistry
  BY DEF OnGetValues, OnInvalidRecordType
<1> QED
  BY <1>3, <1>4, <1>5 DEF Replies

\* An answer, for an open request or for one that is gone.
LEMMA ResponseSends ==
  ASSUME TypeOK, NEW k \in DOMAIN handed, SendResponse(k)
  PROVE  EndsRequest(handed[k].id) \/ SendsUnclaimed
<1> DEFINE id == handed[k].id
<1>1. id \in RequestIds /\ k \in Nat
  BY HandedFields
<1>2. PICK nOut \in 0..MaxStreamRecords, nErr \in 0..MaxStreamRecords :
        \/ /\ Registered(id)
           /\ \/ Emit(Streams(id, k, nOut, nErr) \o EndEvents(id)) /\ DeleteRequest(id)
              \/ EmitThrows(Streams(id, k, nOut, nErr) \o EndEvents(id))
                 /\ UNCHANGED <<requestRegistry, handed>>
        \/ /\ ~Registered(id)
           /\ \/ Emit(Streams(id, k, nOut, nErr) \o <<EndRequestRecord(id, "RequestComplete", 0)>>)
              \/ EmitThrows(Streams(id, k, nOut, nErr)
                              \o <<EndRequestRecord(id, "RequestComplete", 0)>>)
           /\ UNCHANGED <<requestRegistry, handed>>
  BY DEF SendResponse, AfterException, Streams
<1>3. nOut \in Nat /\ nErr \in Nat
  BY BoundsAssumption
<1>4. /\ Streams(id, k, nOut, nErr) \in Seq(OutgoingEvent)
      /\ nOut + 1 \in Nat /\ nOut + nErr + 2 \in Nat
      /\ 0 < nOut + 1 /\ nOut + 1 < nOut + nErr + 2
  BY <1>1, <1>3, StreamsOfAnswer
<1> HIDE DEF id
<1>5. CASE Registered(id)
  <2> DEFINE events == Streams(id, k, nOut, nErr) \o EndEvents(id)
  <2>1. events \in Seq(OutgoingEvent)
    BY <1>1, <1>4, <1>5, EndEventsType, ConcatProperties
  <2>2. events = EndBlock(k, nOut + 1, nOut + nErr + 2, id, "RequestComplete",
                          requestRegistry[id].begin, requestRegistry[id].keepConnection)
    BY <1>1, <1>3, <1>5, AnswerIsBlock
  <2>3. Emit(events) \/ EmitThrows(events)
    BY <1>2, <1>5
  <2>4. \/ exceptions' = exceptions /\ DeleteRequest(id)
        \/ exceptions' # exceptions /\ UNCHANGED requestRegistry
    BY <1>2, <1>5 DEF Emit, EmitThrows, TypeOK
  <2> HIDE DEF events
  <2>5. SendsBlock(k, nOut + 1, nOut + nErr + 2, id, "RequestComplete",
                   requestRegistry[id].begin, requestRegistry[id].keepConnection)
    BY <2>1, <2>2, <2>3, HandlerSends DEF SendsBlock
  <2>7. EndsRequest(id)
    BY <1>1, <1>4, <1>5, <2>4, <2>5 DEF EndsRequest
  <2> QED
    BY <2>7 DEF id
<1>6. CASE ~Registered(id)
  <2> DEFINE end == EndRequestRecord(id, "RequestComplete", 0)
             events == Streams(id, k, nOut, nErr) \o <<end>>
  <2>1. end \in OutgoingEvent
    BY <1>1, EventTypes
  <2> HIDE DEF end
  <2>2. <<end>> \in Seq(OutgoingEvent)
    BY <2>1
  <2>3. events \in Seq(OutgoingEvent)
    BY <1>4, <2>2, ConcatProperties
  <2>4. events = EndBlock(k, nOut + 1, nOut + nErr + 2, id, "RequestComplete", 0, TRUE)
    BY <1>1, <1>3, UnclaimedIsBlock DEF end
  <2>5. Emit(events) \/ EmitThrows(events)
    BY <1>2, <1>6 DEF end
  <2> HIDE DEF events
  <2>6. SendsBlock(k, nOut + 1, nOut + nErr + 2, id, "RequestComplete", 0, TRUE)
    BY <2>3, <2>4, <2>5, HandlerSends DEF SendsBlock
  <2>7. UNCHANGED <<requestRegistry, handed, received>> /\ handed[k].response = "valid"
    BY <1>2, <1>6 DEF SendResponse
  <2> QED
    BY <1>1, <1>4, <1>6, <2>6, <2>7 DEF SendsUnclaimed, id
<1> QED
  BY <1>5, <1>6

\* There are no other steps that send anything.
LEMMA NextSends ==
  ASSUME TypeOK, [Next]_vars
  PROVE  \/ UNCHANGED wire
         \/ Replies
         \/ \E r \in IncomingRecord : Refuses(r)
         \/ \E id \in RequestIds : EndsRequest(id)
         \/ SendsUnclaimed
<1>1. CASE UNCHANGED vars
  BY <1>1 DEF vars
<1>2. ASSUME NEW r \in IncomingRecord, HandleRecord(r)
      PROVE  UNCHANGED wire \/ Replies \/ Refuses(r) \/ \E id \in RequestIds : EndsRequest(id)
  <2>1. CASE OnUnexpectedRecord(r) \/ OnParams(r) \/ OnStdIn(r) \/ OnOtherRecord(r)
    BY <2>1 DEF OnUnexpectedRecord, OnParams, OnStdIn, OnOtherRecord
  <2>2. CASE OnBeginRequest(r)
    <3>1. CASE Refusal(r) = "none"
      BY <2>2, <3>1 DEF OnBeginRequest
    <3>2. CASE Refusal(r) # "none"
      BY <2>2, <3>2, RefusalSends
    <3> QED
      BY <3>1, <3>2
  <2>3. CASE OnAbortRequest(r)
    BY <2>3, AbortSends
  <2>4. CASE OnGetValues(r) \/ OnInvalidRecordType(r)
    BY <2>4, ManagementSends
  <2> QED
    BY <1>2, <2>1, <2>2, <2>3, <2>4 DEF HandleRecord
<1>3. ASSUME NEW k \in DOMAIN handed, SendResponse(k)
      PROVE  SendsUnclaimed \/ \E id \in RequestIds : EndsRequest(id)
  BY <1>3, ResponseSends, HandedFields
<1>4. CASE OnRecordRead
  BY <1>2, <1>4 DEF OnRecordRead
<1>5. CASE ApplicationStep
  BY <1>3, <1>5 DEF ApplicationStep, SendOrphanedResponse, DropResponse,
     SetMaximumConnectionsNumber, SetMaximumRequestsNumber, SetMultiplexingEnabled, DestroyResponder
<1> QED
  BY <1>1, <1>4, <1>5 DEF Next

\* The history of received records only grows.
LEMMA NextReceives ==
  ASSUME TypeOK, [Next]_vars
  PROVE  /\ Len(received) \in Nat /\ Len(received') \in Nat
         /\ Len(received) <= Len(received') /\ Len(received') <= Len(received) + 1
         /\ \A n \in 1..Len(received) : received'[n] = received[n]
<1>1. received' = received \/ \E r \in IncomingRecord : Receive(r)
  BY DEF Next, vars, OnRecordRead, HandleRecord, OnUnexpectedRecord, OnBeginRequest,
     OnAbortRequest, OnGetValues, OnInvalidRecordType, OnParams, OnStdIn, OnOtherRecord,
     ApplicationStep, SendResponse, SendOrphanedResponse, DropResponse,
     SetMaximumConnectionsNumber, SetMaximumRequestsNumber, SetMultiplexingEnabled, DestroyResponder
<1>2. received \in Seq(IncomingRecord) /\ Len(received) \in Nat
  BY LenProperties DEF TypeOK
<1>3. CASE received' = received
  BY <1>2, <1>3
<1>4. ASSUME NEW r \in IncomingRecord, Receive(r)
      PROVE  Len(received') = Len(received) + 1
             /\ \A n \in 1..Len(received) : received'[n] = received[n]
  BY <1>2, <1>4, AppendProperties DEF Receive
<1> QED
  BY <1>1, <1>2, <1>3, <1>4

\* An accepted BeginRequest.
Accepts(r) ==
  /\ Receive(r) /\ r.type = "BeginRequest" /\ r.id \in RequestIds /\ ~Registered(r.id)
  /\ requestRegistry' = [requestRegistry EXCEPT ![r.id] =
       [keepConnection |-> r.keep, usedInRequest |-> FALSE,
        params |-> <<>>, stdIn |-> <<>>, begin |-> Len(received) + 1]]
  /\ UNCHANGED <<wire, exceptions, alive, handed>>

\* A record of a registered request that only adds content or hands it over.
Collects(r) ==
  /\ Receive(r) /\ r.id \in RequestIds /\ Registered(r.id)
  /\ \E data \in RequestData :
       /\ requestRegistry' = [requestRegistry EXCEPT ![r.id] = data]
       /\ data.begin = requestRegistry[r.id].begin
       /\ data.keepConnection = requestRegistry[r.id].keepConnection
       /\ requestRegistry[r.id].usedInRequest => data.usedInRequest
       /\ \/ handed' = handed /\ data.usedInRequest = requestRegistry[r.id].usedInRequest
          \/ /\ ~requestRegistry[r.id].usedInRequest
             /\ \E h \in HandedRequest :
                  /\ handed' = Append(handed, h)
                  /\ h.id = r.id /\ h.begin = data.begin /\ h.response = "valid"
  /\ UNCHANGED <<wire, exceptions, alive>>

\* onParams collects.
LEMMA ParamsCollects ==
  ASSUME TypeOK, NEW r \in IncomingRecord, OnParams(r)
  PROVE  Collects(r)
<1> DEFINE data == requestRegistry[r.id]
           more == [data EXCEPT !.params = @ \o r.content]
<1>1. r.id \in RequestIds /\ Registered(r.id) /\ Receive(r) /\ r.content \in Seq(Params)
  BY RecordFields DEF OnParams, IsRecordExpected
<1>2. data \in RequestData /\ data.params \in Seq(Params)
  BY <1>1, EntryType
<1>3. data.params \o r.content \in Seq(Params)
  BY <1>1, <1>2, ConcatProperties
<1>4. /\ more \in RequestData /\ more.begin = data.begin
      /\ more.keepConnection = data.keepConnection /\ more.usedInRequest = data.usedInRequest
  BY <1>2, <1>3 DEF RequestData
<1>5. requestRegistry' = [requestRegistry EXCEPT ![r.id] = more]
      /\ UNCHANGED <<handed, wire, exceptions, alive>>
  BY DEF OnParams, AddParams
<1> HIDE DEF more
<1> QED
  BY <1>1, <1>4, <1>5 DEF Collects

\* onStdIn collects.
LEMMA StdInCollects ==
  ASSUME TypeOK, NEW r \in IncomingRecord, OnStdIn(r)
  PROVE  Collects(r)
<1> DEFINE data == requestRegistry[r.id]
           more == [data EXCEPT !.stdIn = @ \o r.content]
           used == [data EXCEPT !.usedInRequest = TRUE, !.params = <<>>, !.stdIn = <<>>]
           request == [id |-> r.id, begin |-> data.begin, end |-> Len(received) + 1,
                       params |-> data.params, stdIn |-> data.stdIn, response |-> "valid"]
<1>1. r.id \in RequestIds /\ Registered(r.id) /\ Receive(r) /\ r.content \in Seq(Bytes)
  BY RecordFields DEF OnStdIn, IsRecordExpected
<1>2. /\ data \in RequestData /\ data.stdIn \in Seq(Bytes) /\ data.params \in Seq(Params)
      /\ data.begin \in Nat
  BY <1>1, EntryType
<1>3. data.stdIn \o r.content \in Seq(Bytes)
  BY <1>1, <1>2, ConcatProperties
<1>4. /\ more \in RequestData /\ more.begin = data.begin
      /\ more.keepConnection = data.keepConnection /\ more.usedInRequest = data.usedInRequest
  BY <1>2, <1>3 DEF RequestData
<1>5. /\ used \in RequestData /\ used.begin = data.begin
      /\ used.keepConnection = data.keepConnection /\ used.usedInRequest
  BY <1>2, EmptySeq DEF RequestData
<1>6. request \in HandedRequest /\ request.id = r.id /\ request.begin = data.begin
      /\ request.response = "valid"
  <2>1. Len(received) + 1 \in Nat
    BY LenProperties DEF TypeOK
  <2> QED
    BY <1>1, <1>2, <2>1 DEF HandedRequest
<1>7. UNCHANGED <<wire, exceptions, alive>>
  BY DEF OnStdIn
<1>8. \/ requestRegistry' = [requestRegistry EXCEPT ![r.id] = more] /\ handed' = handed
      \/ /\ requestRegistry' = [requestRegistry EXCEPT ![r.id] = used]
         /\ handed' = Append(handed, request)
         /\ ~data.usedInRequest
  BY DEF OnStdIn, AddStdIn, MakesRequest
<1> HIDE DEF more, used, request
<1> QED
  BY <1>1, <1>4, <1>5, <1>6, <1>7, <1>8 DEF Collects

\* What a step does to the registry and to the requests handed over.
LEMMA NextEntries ==
  ASSUME TypeOK, [Next]_vars
  PROVE  \/ UNCHANGED <<requestRegistry, handed>>
         \/ \E r \in IncomingRecord : Accepts(r)
         \/ \E r \in IncomingRecord : Collects(r)
         \/ \E id \in RequestIds : EndsRequest(id) /\ UNCHANGED handed
         \/ \E k \in DOMAIN handed :
              /\ alive /\ EndsRequest(handed[k].id)
              /\ UNCHANGED handed \/ (ResponseState(k, "sent") /\ exceptions' = exceptions)
         \/ /\ UNCHANGED requestRegistry
            /\ \E k \in DOMAIN handed, state \in {"sent", "dropped"} :
                 /\ handed[k].response = "valid" /\ ResponseState(k, state)
                 /\ state = "sent" => ~alive
                 /\ state = "dropped" => DropsResponses
<1>1. CASE UNCHANGED vars
  BY <1>1 DEF vars
<1>2. ASSUME NEW r \in IncomingRecord, HandleRecord(r)
      PROVE  \/ UNCHANGED <<requestRegistry, handed>> \/ Accepts(r) \/ Collects(r)
             \/ \E id \in RequestIds : EndsRequest(id) /\ UNCHANGED handed
  <2>1. CASE OnUnexpectedRecord(r) \/ OnGetValues(r) \/ OnInvalidRecordType(r) \/ OnOtherRecord(r)
    BY <2>1 DEF OnUnexpectedRecord, OnGetValues, OnInvalidRecordType, OnOtherRecord
  <2>2. CASE OnBeginRequest(r)
    <3>1. CASE Refusal(r) = "none"
      BY <2>2, <3>1, RecordFields DEF OnBeginRequest, IsRecordExpected, Accepts
    <3>2. CASE Refusal(r) # "none"
      BY <2>2, <3>2 DEF OnBeginRequest
    <3> QED
      BY <3>1, <3>2
  <2>3. CASE OnAbortRequest(r)
    <3>1. handed' = handed
      BY <2>3 DEF OnAbortRequest
    <3> QED
      BY <2>3, <3>1, AbortSends
  <2>4. CASE OnParams(r) \/ OnStdIn(r)
    BY <2>4, ParamsCollects, StdInCollects
  <2> QED
    BY <1>2, <2>1, <2>2, <2>3, <2>4 DEF HandleRecord
<1>3. ASSUME NEW k \in DOMAIN handed, SendResponse(k)
      PROVE  \/ UNCHANGED <<requestRegistry, handed>>
             \/ /\ alive /\ EndsRequest(handed[k].id)
                /\ UNCHANGED handed \/ (ResponseState(k, "sent") /\ exceptions' = exceptions)
  <2>1. UNCHANGED handed \/ (ResponseState(k, "sent") /\ exceptions' = exceptions)
    BY <1>3 DEF SendResponse, AfterSend, AfterException, Emit
  <2>2. alive
    BY <1>3 DEF SendResponse
  <2> QED
    BY <1>3, <2>1, <2>2, ResponseSends DEF SendsUnclaimed
<1>4. ASSUME NEW k \in DOMAIN handed, SendOrphanedResponse(k) \/ DropResponse(k)
      PROVE  UNCHANGED requestRegistry /\ \E state \in {"sent", "dropped"} :
               /\ handed[k].response = "valid" /\ ResponseState(k, state)
               /\ state = "sent" => ~alive
               /\ state = "dropped" => DropsResponses
  BY <1>4 DEF SendOrphanedResponse, DropResponse
<1>5. CASE OnRecordRead
  BY <1>2, <1>5 DEF OnRecordRead
<1>6. CASE ApplicationStep
  BY <1>3, <1>4, <1>6 DEF ApplicationStep, SetMaximumConnectionsNumber, SetMaximumRequestsNumber,
     SetMultiplexingEnabled, DestroyResponder
<1> QED
  BY <1>1, <1>5, <1>6 DEF Next

-----------------------------------------------------------------------------
(* Every request begins with the record it is said to begin with            *)

\* received[n] begins a request of `id'.
Begins(n, id) ==
  n \in 1..Len(received) /\ received[n].type = "BeginRequest" /\ received[n].id = id

\* What the entries of the registry, the requests handed over and the
\* EndRequest records say of the record that began them.
BeginInv ==
  /\ \A id \in RequestIds : Registered(id) =>
       /\ Begins(requestRegistry[id].begin, id)
       /\ received[requestRegistry[id].begin].keep = requestRegistry[id].keepConnection
  /\ \A k \in DOMAIN handed : Begins(handed[k].begin, handed[k].id)
  /\ \A i \in DOMAIN wire : IsEnd(i) /\ wire[i].begin # 0 => Begins(wire[i].begin, wire[i].id)

\* What began a request stays in the history.
LEMMA BeginsStay ==
  ASSUME TypeOK, [Next]_vars, NEW n, NEW id, Begins(n, id)
  PROVE  Begins(n, id)' /\ received'[n] = received[n]
BY NextReceives DEF Begins

\* A BeginRequest that is received begins a request.
LEMMA ReceivedBegins ==
  ASSUME TypeOK, NEW r \in IncomingRecord, Receive(r), r.type = "BeginRequest",
         NEW n, n = Len(received) + 1
  PROVE  Begins(n, r.id)' /\ received'[n] = r
<1>1. received \in Seq(IncomingRecord) /\ Len(received) \in Nat
  BY LenProperties DEF TypeOK
<1>2. Len(received') = Len(received) + 1 /\ received'[Len(received) + 1] = r
  BY <1>1, AppendProperties DEF Receive
<1> QED
  BY <1>1, <1>2 DEF Begins

\* The first n events of a block are on the wire, behind those that were there.
SentOfBlock(n, k, split, size, id, status, begin, keep) ==
  /\ n \in 0..(size + IF keep THEN 1 ELSE 2)
  /\ exceptions' = exceptions => n = size + IF keep THEN 1 ELSE 2
  /\ DOMAIN wire = 1..Len(wire) /\ DOMAIN wire' = 1..(Len(wire) + n)
  /\ Len(wire) \in Nat /\ Len(wire') = Len(wire) + n
  /\ \A i \in 1..Len(wire) : wire'[i] = wire[i]
  /\ \A i \in 1..n : wire'[Len(wire) + i] =
       IF i <= size THEN StreamRecord(k, split, size, id, i)
       ELSE IF i = size + 1 THEN EndRequestRecord(id, status, begin)
       ELSE Disconnect

\* A block that is sent arrives, up to an exception.
LEMMA BlockEvents ==
  ASSUME TypeOK, TypeOK', NEW k \in Nat, NEW split \in Nat, NEW size \in Nat, NEW id,
         NEW status, NEW begin, NEW keep \in BOOLEAN,
         SendsBlock(k, split, size, id, status, begin, keep)
  PROVE  \E n \in Nat : SentOfBlock(n, k, split, size, id, status, begin, keep)
<1> DEFINE block == EndBlock(k, split, size, id, status, begin, keep)
           total == size + IF keep THEN 1 ELSE 2
<1>1. total \in Nat /\ Len(block) = total
      /\ \A i \in 1..total : block[i] =
           IF i <= size THEN StreamRecord(k, split, size, id, i)
           ELSE IF i = size + 1 THEN EndRequestRecord(id, status, begin)
           ELSE Disconnect
  BY DEF EndBlock
<1>2. PICK n \in 0..Len(block) :
        SendsFirst(n, block) /\ (exceptions' = exceptions => n = Len(block))
  BY DEF SendsBlock
<1>3. /\ DOMAIN wire = 1..Len(wire) /\ Len(wire) \in Nat
      /\ DOMAIN wire' = 1..Len(wire') /\ Len(wire') \in Nat
  BY LenProperties DEF TypeOK
<1> HIDE DEF block
<1>4. SentOfBlock(n, k, split, size, id, status, begin, keep)
  <2>1. n \in 0..total /\ n \in Nat /\ (exceptions' = exceptions => n = total)
    BY <1>1, <1>2
  <2>2. /\ Len(wire') = Len(wire) + n
        /\ \A i \in 1..Len(wire) : wire'[i] = wire[i]
        /\ \A i \in 1..n : wire'[Len(wire) + i] = block[i]
    BY <1>2 DEF SendsFirst
  <2>3. DOMAIN wire' = 1..(Len(wire) + n)
    BY <1>3, <2>2
  <2>4. \A i \in 1..n : i \in 1..total
    BY <1>1, <2>1
  <2>5. \A i \in 1..n : wire'[Len(wire) + i] =
           IF i <= size THEN StreamRecord(k, split, size, id, i)
           ELSE IF i = size + 1 THEN EndRequestRecord(id, status, begin)
           ELSE Disconnect
    <3> HIDE DEF total
    <3> QED
      BY <1>1, <2>2, <2>4
  <2> QED
    BY <1>3, <2>1, <2>2, <2>3, <2>5 DEF SentOfBlock
<1> QED
  BY <1>1, <1>2, <1>4

\* EndRequest is sent for what the block is for.
LEMMA BlockEnds ==
  ASSUME NEW n \in Nat, NEW k \in Nat, NEW split \in Nat, NEW size \in Nat, NEW id,
         NEW status, NEW begin, NEW keep \in BOOLEAN,
         SentOfBlock(n, k, split, size, id, status, begin, keep),
         NEW i \in DOMAIN wire', IsEnd(i)'
  PROVE  \/ i \in DOMAIN wire /\ wire'[i] = wire[i]
         \/ /\ i = Len(wire) + size + 1 /\ i \notin DOMAIN wire
            /\ wire'[i] = EndRequestRecord(id, status, begin)
<1>1. CASE i \in DOMAIN wire
  BY <1>1 DEF SentOfBlock
<1>2. CASE i \notin DOMAIN wire
  <2> DEFINE j == i - Len(wire)
  <2>1. j \in 1..n /\ i = Len(wire) + j
    BY <1>2 DEF SentOfBlock
  <2>2. wire'[i].type = "EndRequest"
    BY DEF IsEnd
  <2> HIDE DEF j
  <2>3. wire'[i] = IF j <= size THEN StreamRecord(k, split, size, id, j)
                   ELSE IF j = size + 1 THEN EndRequestRecord(id, status, begin)
                   ELSE Disconnect
    BY <2>1 DEF SentOfBlock
  <2>4. StreamRecord(k, split, size, id, j).type # "EndRequest" /\ Disconnect.type # "EndRequest"
    BY DEF StreamRecord, Disconnect
  <2>5. j = size + 1
    BY <2>1, <2>2, <2>3, <2>4
  <2>6. ~(j <= size)
    BY <2>5
  <2> QED
    BY <1>2, <2>1, <2>3, <2>5, <2>6 DEF SentOfBlock
<1> QED
  BY <1>1, <1>2

\* An EndRequest that is new on the wire names 0, an open request, or the
\* BeginRequest that is turned down.
LEMMA NewEnds ==
  ASSUME TypeOK, TypeOK', [Next]_vars, NEW i \in DOMAIN wire', IsEnd(i)'
  PROVE  \/ i \in DOMAIN wire /\ wire'[i] = wire[i]
         \/ wire'[i].begin = 0
         \/ /\ wire'[i].id \in RequestIds /\ Registered(wire'[i].id)
            /\ wire'[i].begin = requestRegistry[wire'[i].id].begin
         \/ \E r \in IncomingRecord : /\ Receive(r) /\ r.type = "BeginRequest"
                                      /\ wire'[i].id = r.id
                                      /\ wire'[i].begin = Len(received) + 1
<1>0. /\ DOMAIN wire = 1..Len(wire) /\ Len(wire) \in Nat
      /\ DOMAIN wire' = 1..Len(wire') /\ Len(wire') \in Nat
  BY LenProperties DEF TypeOK
<1>1. CASE UNCHANGED wire
  BY <1>1
<1>2. CASE Replies
  <2>1. PICK n \in {0, 1}, e \in {x \in OutgoingEvent : x.type \in {"GetValuesResult", "UnknownType"}} :
          SendsFirst(n, <<e>>)
    BY <1>2 DEF Replies
  <2>2. CASE i \in 1..Len(wire)
    BY <1>0, <2>1, <2>2 DEF SendsFirst
  <2>3. CASE i \notin 1..Len(wire)
    <3>1. n = 1 /\ i = Len(wire) + 1
      BY <1>0, <2>1, <2>3 DEF SendsFirst
    <3>2. wire'[i] = e
      BY <2>1, <3>1 DEF SendsFirst
    <3> QED
      BY <2>1, <3>2 DEF IsEnd
  <2> QED
    BY <2>2, <2>3
<1>3. ASSUME NEW r \in IncomingRecord, Refuses(r)
      PROVE  \/ i \in DOMAIN wire /\ wire'[i] = wire[i]
             \/ Receive(r) /\ r.type = "BeginRequest" /\ wire'[i].id = r.id
                /\ wire'[i].begin = Len(received) + 1
  <2>1. Receive(r) /\ r.type = "BeginRequest" /\ r.keep \in BOOLEAN
    BY <1>3, RecordFields DEF Refuses
  <2>2. PICK status \in {"UnknownRole", "CantMpxConn", "Overloaded"} :
          SendsBlock(0, 0, 0, r.id, status, Len(received) + 1, r.keep)
    BY <1>3 DEF Refuses
  <2>3. PICK n \in Nat : SentOfBlock(n, 0, 0, 0, r.id, status, Len(received) + 1, r.keep)
    BY <2>1, <2>2, BlockEvents
  <2>4. \/ i \in DOMAIN wire /\ wire'[i] = wire[i]
        \/ wire'[i] = EndRequestRecord(r.id, status, Len(received) + 1)
    BY <2>1, <2>3, BlockEnds
  <2> QED
    BY <2>1, <2>4 DEF EndRequestRecord
<1>4. ASSUME NEW id \in RequestIds, EndsRequest(id)
      PROVE  \/ i \in DOMAIN wire /\ wire'[i] = wire[i]
             \/ /\ wire'[i].id = id /\ Registered(id)
                /\ wire'[i].begin = requestRegistry[id].begin
  <2> DEFINE begin == requestRegistry[id].begin
             keep == requestRegistry[id].keepConnection
  <2>1. Registered(id) /\ keep \in BOOLEAN
    BY <1>4, EntryType DEF EndsRequest
  <2>2. PICK k \in Nat, split \in Nat, size \in Nat :
          SendsBlock(k, split, size, id, "RequestComplete", begin, keep)
    BY <1>4 DEF EndsRequest
  <2>3. PICK n \in Nat : SentOfBlock(n, k, split, size, id, "RequestComplete", begin, keep)
    BY <2>1, <2>2, BlockEvents
  <2>4. \/ i \in DOMAIN wire /\ wire'[i] = wire[i]
        \/ wire'[i] = EndRequestRecord(id, "RequestComplete", begin)
    BY <2>1, <2>3, BlockEnds
  <2> QED
    BY <2>1, <2>4 DEF EndRequestRecord
<1>5. CASE SendsUnclaimed
  <2>1. PICK id \in RequestIds, k \in Nat, split \in Nat, size \in Nat :
          SendsBlock(k, split, size, id, "RequestComplete", 0, TRUE)
    BY <1>5, HandedFields DEF SendsUnclaimed
  <2>2. PICK n \in Nat : SentOfBlock(n, k, split, size, id, "RequestComplete", 0, TRUE)
    BY <2>1, BlockEvents
  <2>3. \/ i \in DOMAIN wire /\ wire'[i] = wire[i]
        \/ wire'[i] = EndRequestRecord(id, "RequestComplete", 0)
    <3> DEFINE begin == 0
               keep == TRUE
    <3>1. keep \in BOOLEAN /\ SentOfBlock(n, k, split, size, id, "RequestComplete", begin, keep)
      BY <2>2
    <3> HIDE DEF begin, keep
    <3>2. \/ i \in DOMAIN wire /\ wire'[i] = wire[i]
          \/ wire'[i] = EndRequestRecord(id, "RequestComplete", begin)
      BY <3>1, BlockEnds
    <3> QED
      BY <3>2 DEF begin
  <2> QED
    BY <2>3 DEF EndRequestRecord
<1> QED
  BY <1>1, <1>2, <1>3, <1>4, <1>5, NextSends
\* Where the entries of the registry come from: each is new, or has been there
\* with the same beginning, flag and at most the mark as used changed.
LEMMA NextRegistry ==
  ASSUME TypeOK, [Next]_vars, NEW id \in RequestIds, Registered(id)'
  PROVE  \/ /\ Registered(id)
            /\ requestRegistry'[id].begin = requestRegistry[id].begin
            /\ requestRegistry'[id].keepConnection = requestRegistry[id].keepConnection
         \/ \E r \in IncomingRecord :
              /\ Accepts(r) /\ r.id = id
              /\ requestRegistry'[id].begin = Len(received) + 1
              /\ requestRegistry'[id].keepConnection = r.keep
<1>1. requestRegistry \in [RequestIds -> RequestData \cup {Unregistered}]
  BY DEF TypeOK
<1>2. CASE UNCHANGED requestRegistry
  BY <1>2 DEF Registered
<1>3. ASSUME NEW r \in IncomingRecord, Accepts(r)
      PROVE  \/ Registered(id) /\ requestRegistry'[id] = requestRegistry[id]
             \/ /\ r.id = id
                /\ requestRegistry'[id].begin = Len(received) + 1
                /\ requestRegistry'[id].keepConnection = r.keep
  BY <1>1, <1>3 DEF Accepts, Registered
<1>4. ASSUME NEW r \in IncomingRecord, Collects(r)
      PROVE  /\ Registered(id)
             /\ requestRegistry'[id].begin = requestRegistry[id].begin
             /\ requestRegistry'[id].keepConnection = requestRegistry[id].keepConnection
  BY <1>1, <1>4 DEF Collects, Registered
<1>5. ASSUME NEW jd \in RequestIds, EndsRequest(jd)
      PROVE  Registered(id) /\ requestRegistry'[id] = requestRegistry[id]
  BY <1>5, DeletedEntries DEF EndsRequest
<1>6. \A k \in DOMAIN handed : handed[k].id \in RequestIds
  BY HandedFields
<1> QED
  BY <1>2, <1>3, <1>4, <1>5, <1>6, NextEntries

\* Where the requests handed over come from: each has been there, with the same
\* request, or it is handed over now and has its id.
LEMMA NextHanded ==
  ASSUME TypeOK, [Next]_vars, NEW k \in DOMAIN handed'
  PROVE  \/ /\ k \in DOMAIN handed
            /\ handed'[k].id = handed[k].id /\ handed'[k].begin = handed[k].begin
         \/ \E r \in IncomingRecord :
              /\ Collects(r) /\ k = Len(handed) + 1
              /\ handed'[k].id = r.id /\ handed'[k].response = "valid"
              /\ handed'[k].begin = requestRegistry[r.id].begin
<1>1. handed \in Seq(HandedRequest) /\ DOMAIN handed = 1..Len(handed) /\ Len(handed) \in Nat
  BY LenProperties DEF TypeOK
<1>2. CASE UNCHANGED handed
  BY <1>2
<1>3. ASSUME NEW r \in IncomingRecord, Collects(r)
      PROVE  \/ k \in DOMAIN handed /\ handed'[k] = handed[k]
             \/ /\ k = Len(handed) + 1
                /\ handed'[k].id = r.id /\ handed'[k].response = "valid"
                /\ handed'[k].begin = requestRegistry[r.id].begin
  <2>1. CASE handed' = handed
    BY <2>1
  <2>2. ASSUME NEW h \in HandedRequest, handed' = Append(handed, h), h.id = r.id,
               h.begin = requestRegistry[r.id].begin, h.response = "valid"
        PROVE  \/ k \in DOMAIN handed /\ handed'[k] = handed[k]
               \/ k = Len(handed) + 1 /\ handed'[k] = h
    BY <1>1, <2>2, AppendProperties
  <2>3. handed' = handed \/ \E h \in HandedRequest :
          /\ handed' = Append(handed, h) /\ h.id = r.id
          /\ h.begin = requestRegistry[r.id].begin /\ h.response = "valid"
    BY <1>3 DEF Collects
  <2> QED
    BY <2>1, <2>2, <2>3
<1>4. ASSUME NEW j \in DOMAIN handed, NEW state \in {"sent", "dropped"}, ResponseState(j, state)
      PROVE  /\ k \in DOMAIN handed
             /\ handed'[k].id = handed[k].id /\ handed'[k].begin = handed[k].begin
  BY <1>4, ResponseStateType
<1> QED
  BY <1>2, <1>3, <1>4, NextEntries DEF Accepts

\* The same of the history after a step.
BeginsAfter(n, id) ==
  n \in 1..Len(received') /\ received'[n].type = "BeginRequest" /\ received'[n].id = id

\* Every step keeps track of where requests begin.
LEMMA NextBegins ==
  ASSUME TypeOK, TypeOK', BeginInv, [Next]_vars
  PROVE  BeginInv'
<1>1. ASSUME NEW id \in RequestIds, Registered(id)'
      PROVE  /\ BeginsAfter(requestRegistry'[id].begin, id)
             /\ received'[requestRegistry'[id].begin].keep = requestRegistry'[id].keepConnection
  <2>1. CASE /\ Registered(id)
             /\ requestRegistry'[id].begin = requestRegistry[id].begin
             /\ requestRegistry'[id].keepConnection = requestRegistry[id].keepConnection
    <3>1. Begins(requestRegistry[id].begin, id)
          /\ received[requestRegistry[id].begin].keep = requestRegistry[id].keepConnection
      BY <2>1 DEF BeginInv
    <3> QED
      BY <2>1, <3>1, NextReceives DEF Begins, BeginsAfter
  <2>2. ASSUME NEW r \in IncomingRecord, Accepts(r), r.id = id,
               requestRegistry'[id].begin = Len(received) + 1,
               requestRegistry'[id].keepConnection = r.keep
        PROVE  /\ BeginsAfter(requestRegistry'[id].begin, id)
               /\ received'[requestRegistry'[id].begin].keep = requestRegistry'[id].keepConnection
    <3>1. Receive(r) /\ r.type = "BeginRequest"
      BY <2>2 DEF Accepts
    <3>2. received' = Append(received, r) /\ received \in Seq(IncomingRecord)
      BY <3>1 DEF Receive, TypeOK
    <3> QED
      BY <2>2, <3>1, <3>2, AppendProperties, LenProperties DEF BeginsAfter
  <2> QED
    BY <1>1, <2>1, <2>2, NextRegistry
<1>2. ASSUME NEW k \in DOMAIN handed'
      PROVE  BeginsAfter(handed'[k].begin, handed'[k].id)
  <2>1. \E n, id : /\ handed'[k].begin = n /\ handed'[k].id = id /\ Begins(n, id)
    <3>1. CASE /\ k \in DOMAIN handed
               /\ handed'[k].id = handed[k].id /\ handed'[k].begin = handed[k].begin
      BY <3>1 DEF BeginInv
    <3>2. ASSUME NEW r \in IncomingRecord, Collects(r), handed'[k].id = r.id,
                 handed'[k].begin = requestRegistry[r.id].begin
          PROVE  Begins(requestRegistry[r.id].begin, r.id)
      BY <3>2 DEF Collects, BeginInv
    <3> QED
      BY <3>1, <3>2, NextHanded
  <2> QED
    BY <2>1, NextReceives DEF Begins, BeginsAfter
<1>3. ASSUME NEW i \in DOMAIN wire', IsEnd(i)', wire'[i].begin # 0
      PROVE  BeginsAfter(wire'[i].begin, wire'[i].id)
  <2>1. CASE i \in DOMAIN wire /\ wire'[i] = wire[i]
    <3>1. Begins(wire[i].begin, wire[i].id)
      BY <1>3, <2>1 DEF IsEnd, BeginInv
    <3> QED
      BY <2>1, <3>1, NextReceives DEF Begins, BeginsAfter
  <2>2. CASE /\ wire'[i].id \in RequestIds /\ Registered(wire'[i].id)
             /\ wire'[i].begin = requestRegistry[wire'[i].id].begin
    <3>1. Begins(wire'[i].begin, wire'[i].id)
      BY <2>2 DEF BeginInv
    <3> QED
      BY <3>1, NextReceives DEF Begins, BeginsAfter
  <2>3. ASSUME NEW r \in IncomingRecord, Receive(r), r.type = "BeginRequest",
               wire'[i].id = r.id, wire'[i].begin = Len(received) + 1
        PROVE  BeginsAfter(wire'[i].begin, wire'[i].id)
    <3>1. received' = Append(received, r) /\ received \in Seq(IncomingRecord)
      BY <2>3 DEF Receive, TypeOK
    <3> QED
      BY <2>3, <3>1, AppendProperties, LenProperties DEF BeginsAfter
  <2> QED
    BY <1>3, <2>1, <2>2, <2>3, NewEnds
<1> QED
  BY <1>1, <1>2, <1>3 DEF BeginInv, BeginsAfter, Begins

\* Registry, requests handed over and EndRequest records always refer to the
\* BeginRequest that began the request, under the right id and with its
\* keep-connection flag.
THEOREM BeginInvariant == Spec => []BeginInv
<1>1. Init => BeginInv
  BY DEF Init, BeginInv, Registered
<1>2. TypeOK /\ TypeOK' /\ BeginInv /\ [Next]_vars => BeginInv'
  BY NextBegins
<1> QED
  BY <1>1, <1>2, ResponderTypes, PTL DEF Spec
-----------------------------------------------------------------------------
(* EndRequest is sent once for each request, while no callback throws       *)

\* What was sent stays, and of the EndRequest records that are new there is one,
\* at place p, which is e.
AddsEnd(p, e) ==
  /\ p \notin DOMAIN wire
  /\ \A i \in DOMAIN wire : i \in DOMAIN wire' /\ wire'[i] = wire[i]
  /\ \A i \in DOMAIN wire' : IsEnd(i)' =>
       (i \in DOMAIN wire /\ wire'[i] = wire[i]) \/ (i = p /\ wire'[i] = e)

\* No EndRequest is new.
AddsNoEnd ==
  /\ \A i \in DOMAIN wire : i \in DOMAIN wire' /\ wire'[i] = wire[i]
  /\ \A i \in DOMAIN wire' : IsEnd(i)' => i \in DOMAIN wire /\ wire'[i] = wire[i]

\* A block has one EndRequest at most, and has it if no call throws.
LEMMA BlockAddsEnd ==
  ASSUME TypeOK, TypeOK', NEW k \in Nat, NEW split \in Nat, NEW size \in Nat, NEW id,
         NEW status, NEW begin, NEW keep \in BOOLEAN,
         SendsBlock(k, split, size, id, status, begin, keep)
  PROVE  \E p \in Nat : /\ AddsEnd(p, EndRequestRecord(id, status, begin))
                        /\ exceptions' = exceptions =>
                             p \in DOMAIN wire' /\ wire'[p] = EndRequestRecord(id, status, begin)
<1>1. PICK n \in Nat : SentOfBlock(n, k, split, size, id, status, begin, keep)
  BY BlockEvents
<1> DEFINE e == EndRequestRecord(id, status, begin)
           p == Len(wire) + size + 1
<1>2. /\ DOMAIN wire = 1..Len(wire) /\ DOMAIN wire' = 1..(Len(wire) + n)
      /\ Len(wire) \in Nat /\ \A i \in 1..Len(wire) : wire'[i] = wire[i]
  BY <1>1 DEF SentOfBlock
<1>3. p \in Nat /\ p \notin DOMAIN wire
  BY <1>2
<1>4. ASSUME NEW i \in DOMAIN wire', IsEnd(i)'
      PROVE  (i \in DOMAIN wire /\ wire'[i] = wire[i]) \/ (i = p /\ wire'[i] = e)
  BY <1>1, <1>4, BlockEnds
<1>5. AddsEnd(p, e)
  BY <1>2, <1>3, <1>4 DEF AddsEnd
<1>6. ASSUME exceptions' = exceptions
      PROVE  p \in DOMAIN wire' /\ wire'[p] = e
  <2>1. n = size + (IF keep THEN 1 ELSE 2)
    BY <1>1, <1>6 DEF SentOfBlock
  <2>2. size + 1 \in 1..n /\ ~(size + 1 <= size)
    BY <2>1
  <2>3. wire'[Len(wire) + (size + 1)] = e
    BY <1>1, <2>2 DEF SentOfBlock
  <2> QED
    BY <1>2, <2>2, <2>3
<1> HIDE DEF p, e
<1>7. AddsEnd(p, e) /\ (exceptions' = exceptions => p \in DOMAIN wire' /\ wire'[p] = e)
  BY <1>5, <1>6
<1> QED
  BY <1>3, <1>7 DEF e

\* A step adds one EndRequest at most: for the request it ends, for the
\* BeginRequest it refuses, or, when a stale Response is sent, for none.
LEMMA NextAddsEnd ==
  ASSUME TypeOK, TypeOK', [Next]_vars
  PROVE  \/ AddsNoEnd /\ (UNCHANGED wire \/ Replies)
         \/ \E id \in RequestIds, p \in Nat :
              /\ EndsRequest(id)
              /\ AddsEnd(p, EndRequestRecord(id, "RequestComplete", requestRegistry[id].begin))
              /\ exceptions' = exceptions => p \in DOMAIN wire' /\ IsEnd(p)'
                   /\ wire'[p].begin = requestRegistry[id].begin
         \/ \E r \in IncomingRecord, p \in Nat :
              \E status \in {"UnknownRole", "CantMpxConn", "Overloaded"} :
                /\ Refuses(r)
                /\ AddsEnd(p, EndRequestRecord(r.id, status, Len(received) + 1))
                /\ exceptions' = exceptions => p \in DOMAIN wire' /\ IsEnd(p)'
                     /\ wire'[p].begin = Len(received) + 1
         \/ SendsUnclaimed /\ \E id \in RequestIds, p \in Nat :
              AddsEnd(p, EndRequestRecord(id, "RequestComplete", 0))
<1>0. /\ DOMAIN wire = 1..Len(wire) /\ Len(wire) \in Nat
      /\ DOMAIN wire' = 1..Len(wire') /\ Len(wire') \in Nat
  BY LenProperties DEF TypeOK
<1>1. CASE UNCHANGED wire
  BY <1>1 DEF AddsNoEnd
<1>2. CASE Replies
  <2>1. PICK n \in {0, 1}, e \in {x \in OutgoingEvent : x.type \in {"GetValuesResult", "UnknownType"}} :
          SendsFirst(n, <<e>>)
    BY <1>2 DEF Replies
  <2>2. ASSUME NEW i \in DOMAIN wire', IsEnd(i)'
        PROVE  i \in DOMAIN wire /\ wire'[i] = wire[i]
    <3>1. CASE i \in 1..Len(wire)
      BY <1>0, <2>1, <3>1 DEF SendsFirst
    <3>2. CASE i \notin 1..Len(wire)
      <4>1. n = 1 /\ i = Len(wire) + 1
        BY <1>0, <2>1, <3>2 DEF SendsFirst
      <4>2. wire'[i] = e
        BY <2>1, <4>1 DEF SendsFirst
      <4> QED
        BY <2>1, <2>2, <4>2 DEF IsEnd
    <3> QED
      BY <3>1, <3>2
  <2>3. \A i \in DOMAIN wire : i \in DOMAIN wire' /\ wire'[i] = wire[i]
    BY <1>0, <2>1 DEF SendsFirst
  <2> QED
    BY <1>2, <2>2, <2>3 DEF AddsNoEnd
<1>3. ASSUME NEW r \in IncomingRecord, Refuses(r)
      PROVE  \E p \in Nat : \E status \in {"UnknownRole", "CantMpxConn", "Overloaded"} :
               /\ AddsEnd(p, EndRequestRecord(r.id, status, Len(received) + 1))
               /\ exceptions' = exceptions => p \in DOMAIN wire' /\ IsEnd(p)'
                    /\ wire'[p].begin = Len(received) + 1
  <2>1. r.keep \in BOOLEAN
    BY <1>3, RecordFields DEF Refuses
  <2>2. PICK status \in {"UnknownRole", "CantMpxConn", "Overloaded"} :
          SendsBlock(0, 0, 0, r.id, status, Len(received) + 1, r.keep)
    BY <1>3 DEF Refuses
  <2> DEFINE e == EndRequestRecord(r.id, status, Len(received) + 1)
  <2>3. PICK p \in Nat : AddsEnd(p, e) /\ (exceptions' = exceptions => p \in DOMAIN wire' /\ wire'[p] = e)
    BY <2>1, <2>2, BlockAddsEnd
  <2>4. e.type = "EndRequest" /\ e.begin = Len(received) + 1
    BY DEF EndRequestRecord
  <2> QED
    BY <2>3, <2>4 DEF IsEnd
<1>4. ASSUME NEW id \in RequestIds, EndsRequest(id)
      PROVE  \E p \in Nat :
               /\ AddsEnd(p, EndRequestRecord(id, "RequestComplete", requestRegistry[id].begin))
               /\ exceptions' = exceptions => p \in DOMAIN wire' /\ IsEnd(p)'
                    /\ wire'[p].begin = requestRegistry[id].begin
  <2> DEFINE begin == requestRegistry[id].begin
             keep == requestRegistry[id].keepConnection
             e == EndRequestRecord(id, "RequestComplete", begin)
  <2>1. keep \in BOOLEAN
    BY <1>4, EntryType DEF EndsRequest
  <2>2. PICK k \in Nat, split \in Nat, size \in Nat :
          SendsBlock(k, split, size, id, "RequestComplete", begin, keep)
    BY <1>4 DEF EndsRequest
  <2>3. PICK p \in Nat : AddsEnd(p, e) /\ (exceptions' = exceptions => p \in DOMAIN wire' /\ wire'[p] = e)
    BY <2>1, <2>2, BlockAddsEnd
  <2>4. e.type = "EndRequest" /\ e.begin = begin
    BY DEF EndRequestRecord
  <2> QED
    BY <2>3, <2>4 DEF IsEnd
<1>5. ASSUME SendsUnclaimed
      PROVE  \E id \in RequestIds, p \in Nat :
               AddsEnd(p, EndRequestRecord(id, "RequestComplete", 0))
  <2>1. PICK id \in RequestIds, k \in Nat, split \in Nat, size \in Nat :
          SendsBlock(k, split, size, id, "RequestComplete", 0, TRUE)
    BY <1>5, HandedFields DEF SendsUnclaimed
  <2> QED
    BY <2>1, BlockAddsEnd
<1> QED
  BY <1>1, <1>2, <1>3, <1>4, <1>5, NextSends

\* EndRequestIsFinal, as far as it does not follow from BeginInv: an EndRequest that
\* ends a request is its only one, and the request is not open any more.
EndInv ==
  /\ \A i, j \in DOMAIN wire :
       IsEnd(i) /\ IsEnd(j) /\ wire[i].begin = wire[j].begin /\ wire[i].begin # 0 => i = j
  /\ \A i \in DOMAIN wire, id \in RequestIds :
       IsEnd(i) /\ Registered(id) => wire[i].begin # requestRegistry[id].begin

\* The EndRequest of something that has none yet, and that is not open afterwards,
\* keeps that.
LEMMA AddedEndKeeps ==
  ASSUME EndInv, NEW p, NEW id, NEW status, NEW begin,
         AddsEnd(p, EndRequestRecord(id, status, begin)),
         begin # 0 => \A i \in DOMAIN wire : IsEnd(i) => wire[i].begin # begin,
         \A jd \in RequestIds : Registered(jd)' =>
           /\ Registered(jd) /\ requestRegistry'[jd] = requestRegistry[jd]
           /\ requestRegistry[jd].begin # begin
  PROVE  EndInv'
<1> DEFINE e == EndRequestRecord(id, status, begin)
<1>1. e.begin = begin
  BY DEF EndRequestRecord
<1>2. AddsEnd(p, e)
  OBVIOUS
<1> HIDE DEF e
<1>3. ASSUME NEW i \in DOMAIN wire', IsEnd(i)'
      PROVE  \/ i \in DOMAIN wire /\ wire'[i] = wire[i] /\ IsEnd(i)
             \/ i = p /\ wire'[i].begin = begin
  BY <1>1, <1>2, <1>3 DEF AddsEnd, IsEnd
<1> QED
  BY <1>3 DEF EndInv

\* As long as no callback throws, each request has one EndRequest.
LEMMA NextEndsOnce ==
  ASSUME TypeOK, TypeOK', OnceInv, BeginInv, EndInv, [Next]_vars, exceptions' = exceptions
  PROVE  EndInv'
<1>1. /\ Len(received) \in Nat
      /\ \A i \in DOMAIN wire : IsEnd(i) => wire[i].begin \in 0..Len(received)
      /\ \A id \in RequestIds : Registered(id) => requestRegistry[id].begin \in 1..Len(received)
  BY LenProperties DEF EndInv, BeginInv, Begins, TypeOK
<1>2. CASE AddsNoEnd
  <2>1. ASSUME NEW i \in DOMAIN wire', IsEnd(i)'
        PROVE  i \in DOMAIN wire /\ wire'[i] = wire[i] /\ IsEnd(i)
    BY <1>2, <2>1 DEF AddsNoEnd, IsEnd
  <2>2. ASSUME NEW i \in DOMAIN wire', NEW id \in RequestIds, IsEnd(i)', Registered(id)'
        PROVE  wire'[i].begin # requestRegistry'[id].begin
    <3>1. i \in DOMAIN wire /\ wire'[i] = wire[i] /\ IsEnd(i)
      BY <2>1, <2>2
    <3>2. \/ Registered(id) /\ requestRegistry'[id].begin = requestRegistry[id].begin
          \/ requestRegistry'[id].begin = Len(received) + 1
      BY <2>2, NextRegistry
    <3> QED
      BY <1>1, <3>1, <3>2 DEF EndInv
  <2> QED
    BY <2>1, <2>2 DEF EndInv
<1>3. ASSUME NEW id \in RequestIds, NEW p \in Nat, EndsRequest(id),
             AddsEnd(p, EndRequestRecord(id, "RequestComplete", requestRegistry[id].begin))
      PROVE  EndInv'
  <2>1. Registered(id) /\ DeleteRequest(id)
    BY <1>3 DEF EndsRequest
  <2>2. ASSUME NEW jd \in RequestIds, Registered(jd)'
        PROVE  /\ Registered(jd) /\ requestRegistry'[jd] = requestRegistry[jd]
               /\ requestRegistry[jd].begin # requestRegistry[id].begin
    <3>1. Registered(jd) /\ requestRegistry'[jd] = requestRegistry[jd]
      BY <2>1, <2>2, DeletedEntries
    <3>2. jd # id
      BY <2>1, <2>2 DEF DeleteRequest, Registered, TypeOK
    <3> QED
      BY <2>1, <3>1, <3>2 DEF OnceInv
  <2>3. requestRegistry[id].begin # 0
        /\ \A i \in DOMAIN wire : IsEnd(i) => wire[i].begin # requestRegistry[id].begin
    BY <1>1, <2>1 DEF EndInv
  <2> QED
    BY <1>3, <2>2, <2>3, AddedEndKeeps
<1>4. ASSUME NEW r \in IncomingRecord, NEW p \in Nat,
             NEW status \in {"UnknownRole", "CantMpxConn", "Overloaded"}, Refuses(r),
             AddsEnd(p, EndRequestRecord(r.id, status, Len(received) + 1))
      PROVE  EndInv'
  <2>1. requestRegistry' = requestRegistry
    BY <1>4 DEF Refuses
  <2>2. \A jd \in RequestIds : Registered(jd)' =>
          /\ Registered(jd) /\ requestRegistry'[jd] = requestRegistry[jd]
          /\ requestRegistry[jd].begin # Len(received) + 1
    BY <1>1, <2>1 DEF Registered
  <2>3. Len(received) + 1 # 0
        /\ \A i \in DOMAIN wire : IsEnd(i) => wire[i].begin # Len(received) + 1
    BY <1>1
  <2> QED
    BY <1>4, <2>2, <2>3, AddedEndKeeps
<1>5. ASSUME SendsUnclaimed, NEW id \in RequestIds, NEW p \in Nat,
             AddsEnd(p, EndRequestRecord(id, "RequestComplete", 0))
      PROVE  EndInv'
  <2>1. requestRegistry' = requestRegistry
    BY <1>5 DEF SendsUnclaimed
  <2>2. \A jd \in RequestIds : Registered(jd)' =>
          /\ Registered(jd) /\ requestRegistry'[jd] = requestRegistry[jd]
          /\ requestRegistry[jd].begin # 0
    BY <1>1, <2>1 DEF Registered
  <2> QED
    BY <1>5, <2>2, AddedEndKeeps
<1> QED
  BY <1>2, <1>3, <1>4, <1>5, NextAddsEnd

\* Exceptions are only counted up.
LEMMA NextExceptions ==
  ASSUME TypeOK, [Next]_vars
  PROVE  exceptions' = exceptions \/ exceptions' = exceptions + 1
<1>1. ASSUME NEW events, Emit(events) \/ EmitThrows(events)
      PROVE  exceptions' = exceptions \/ exceptions' = exceptions + 1
  BY <1>1 DEF Emit, EmitThrows
<1>2. ASSUME NEW r \in IncomingRecord, HandleRecord(r)
      PROVE  exceptions' = exceptions \/ exceptions' = exceptions + 1
  <2>1. CASE OnUnexpectedRecord(r) \/ OnParams(r) \/ OnStdIn(r) \/ OnOtherRecord(r)
    BY <2>1 DEF OnUnexpectedRecord, OnParams, OnStdIn, OnOtherRecord
  <2>2. CASE OnBeginRequest(r) \/ OnAbortRequest(r) \/ OnGetValues(r) \/ OnInvalidRecordType(r)
    BY <1>1, <2>2 DEF OnBeginRequest, OnAbortRequest, OnGetValues, OnInvalidRecordType
  <2> QED
    BY <1>2, <2>1, <2>2 DEF HandleRecord
<1>3. ASSUME NEW k \in DOMAIN handed,
             SendResponse(k) \/ SendOrphanedResponse(k) \/ DropResponse(k)
      PROVE  exceptions' = exceptions \/ exceptions' = exceptions + 1
  BY <1>1, <1>3 DEF SendResponse, SendOrphanedResponse, DropResponse
<1>4. CASE ApplicationStep
  BY <1>3, <1>4 DEF ApplicationStep, SetMaximumConnectionsNumber, SetMaximumRequestsNumber,
     SetMultiplexingEnabled, DestroyResponder
<1> QED
  BY <1>2, <1>4 DEF Next, OnRecordRead, vars

\* As long as neither callback throws, EndRequest closes a request for good,
\* whatever is aborted, copied or stale.
THEOREM FinalTheorem == Spec => []EndRequestIsFinal
<1>1. Init => (exceptions = 0 => EndInv)
  BY DEF Init, EndInv
<1>2. TypeOK /\ TypeOK' /\ OnceInv /\ BeginInv /\ (exceptions = 0 => EndInv) /\ [Next]_vars
        => (exceptions = 0 => EndInv)'
  <2> SUFFICES ASSUME TypeOK, TypeOK', OnceInv, BeginInv, exceptions = 0 => EndInv,
                      [Next]_vars, exceptions' = 0
               PROVE  EndInv'
    OBVIOUS
  <2>1. exceptions = 0 /\ exceptions' = exceptions
    BY NextExceptions DEF TypeOK
  <2> QED
    BY <2>1, NextEndsOnce
<1>3. BeginInv /\ (exceptions = 0 => EndInv) => EndRequestIsFinal
  BY DEF BeginInv, Begins, EndInv, EndRequestIsFinal, RegisteredIds
<1> QED
  BY <1>1, <1>2, <1>3, ResponderInvariant, BeginInvariant, PTL DEF Spec

\* Each EndRequest names a BeginRequest: no stale Response was sent.
ClaimedInv == \A i \in DOMAIN wire : IsEnd(i) => wire[i].begin # 0

\* There are no stale Responses as long as each valid one stands for its request.
LEMMA NextClaimed ==
  ASSUME TypeOK, TypeOK', BeginInv, ValidResponseCanBeSent, ClaimedInv, [Next]_vars
  PROVE  ClaimedInv'
<1>1. ~SendsUnclaimed
  BY DEF SendsUnclaimed, ValidResponseCanBeSent
<1>2. Len(received) + 1 # 0
      /\ \A id \in RequestIds : Registered(id) => requestRegistry[id].begin # 0
  BY LenProperties DEF BeginInv, Begins, TypeOK
<1>3. ASSUME NEW p, NEW id, NEW status, NEW begin, begin # 0,
             AddsEnd(p, EndRequestRecord(id, status, begin))
      PROVE  ClaimedInv'
  <2>1. EndRequestRecord(id, status, begin).begin = begin
    BY DEF EndRequestRecord
  <2> QED
    BY <1>3, <2>1 DEF AddsEnd, ClaimedInv, IsEnd
<1>4. CASE AddsNoEnd
  BY <1>4 DEF AddsNoEnd, ClaimedInv, IsEnd
<1>5. ASSUME NEW id \in RequestIds, NEW p \in Nat, EndsRequest(id),
             AddsEnd(p, EndRequestRecord(id, "RequestComplete", requestRegistry[id].begin))
      PROVE  ClaimedInv'
  BY <1>2, <1>3, <1>5 DEF EndsRequest
<1> QED
  BY <1>1, <1>2, <1>3, <1>4, <1>5, NextAddsEnd

\* If neither what the application holds is aborted nor Responses are copied,
\* EndRequest is, as long as neither callback throws, only sent for requests that
\* are open, and once for each.
THEOREM EndsOnceTheorem ==
  ~AbortsProcessing /\ ~CopiesResponses => (Spec => [](exceptions = 0 => EndsOpenRequestOnce))
<1> SUFFICES ASSUME ~AbortsProcessing, ~CopiesResponses
             PROVE  Spec => [](exceptions = 0 => EndsOpenRequestOnce)
  OBVIOUS
<1>1. Init => ClaimedInv
  BY DEF Init, ClaimedInv
<1>2. TypeOK /\ TypeOK' /\ BeginInv /\ ValidResponseCanBeSent /\ ClaimedInv /\ [Next]_vars
        => ClaimedInv'
  BY NextClaimed
<1>3. ClaimedInv /\ EndRequestIsFinal => (exceptions = 0 => EndsOpenRequestOnce)
  BY DEF ClaimedInv, EndRequestIsFinal, EndsOpenRequestOnce
<1>4. Spec => []ValidResponseCanBeSent
  BY ValidResponseTheorem
<1> QED
  BY <1>1, <1>2, <1>3, <1>4, ResponderTypes, BeginInvariant, FinalTheorem, PTL DEF Spec
-----------------------------------------------------------------------------
(* All of it                                                                *)

\* The invariants of a Responder whose callbacks do not throw are one, which is
\* inductive, and which a connection with a real web server takes up (Session).
ResponderInv ==
  TypeOK /\ OnceInv /\ BeginInv /\ EndInv /\ ClaimedInv /\ ValidResponseCanBeSent

LEMMA InitResponder ==
  ASSUME Init
  PROVE  ResponderInv
<1>1. OnceInv /\ BeginInv /\ EndInv /\ ClaimedInv /\ ValidResponseCanBeSent
  BY DEF Init, OnceInv, ProcessedOnce, BeginInv, EndInv, ClaimedInv, ValidResponseCanBeSent,
     Registered
<1> QED
  BY <1>1, InitTypeOK DEF ResponderInv

LEMMA NextResponder ==
  ASSUME ~AbortsProcessing, ~CopiesResponses, ResponderInv, [Next]_vars, exceptions' = exceptions
  PROVE  ResponderInv'
<1>1. TypeOK'
  BY NextTypeOK DEF ResponderInv
<1> QED
  BY <1>1, NextOnce, NextBegins, NextEndsOnce, NextClaimed, NextValid DEF ResponderInv

-----------------------------------------------------------------------------
(* What a step may never do                                                 *)

\* An entry that goes was ended in this step, by a handler that ran to its end.
LEMMA EntryGoes ==
  ASSUME TypeOK, [Next]_vars, NEW id \in RequestIds, Registered(id),
         requestRegistry'[id] = Unregistered
  PROVE  EndsRequest(id) /\ exceptions' = exceptions
<1>1. requestRegistry \in [RequestIds -> RequestData \cup {Unregistered}]
      /\ Unregistered \notin RequestData
  BY RegistryAssumption DEF TypeOK
<1>2. requestRegistry'[id] # requestRegistry[id]
  BY DEF Registered
<1>3. ASSUME NEW r \in IncomingRecord, Accepts(r)
      PROVE  FALSE
  <2>1. r.id # id
    BY <1>3 DEF Accepts
  <2> QED
    BY <1>1, <1>2, <1>3, <2>1 DEF Accepts
<1>4. ASSUME NEW r \in IncomingRecord, Collects(r)
      PROVE  FALSE
  BY <1>1, <1>2, <1>4 DEF Collects
<1>5. ASSUME NEW jd \in RequestIds, EndsRequest(jd)
      PROVE  jd = id /\ exceptions' = exceptions
  BY <1>1, <1>2, <1>5 DEF EndsRequest, DeleteRequest
<1>6. \A k \in DOMAIN handed : handed[k].id \in RequestIds
  BY HandedFields
<1> QED
  BY <1>2, <1>3, <1>4, <1>5, <1>6, NextEntries

\* Its EndRequest is the last record of the step, and is followed by disconnect
\* unless the connection is kept.
LEMMA EndIsSent ==
  ASSUME TypeOK, TypeOK', NEW id \in RequestIds, EndsRequest(id), exceptions' = exceptions
  PROVE  LET end == IF requestRegistry[id].keepConnection THEN Len(wire') ELSE Len(wire') - 1
         IN  /\ end > Len(wire)
             /\ wire'[end] = EndRequestRecord(id, "RequestComplete", requestRegistry[id].begin)
<1> DEFINE begin == requestRegistry[id].begin
           keep == requestRegistry[id].keepConnection
           e == EndRequestRecord(id, "RequestComplete", begin)
<1>1. keep \in BOOLEAN
  BY EntryType DEF EndsRequest
<1>2. PICK k \in Nat, split \in Nat, size \in Nat :
        SendsBlock(k, split, size, id, "RequestComplete", begin, keep)
  BY DEF EndsRequest
<1>3. PICK n \in Nat : SentOfBlock(n, k, split, size, id, "RequestComplete", begin, keep)
  BY <1>1, <1>2, BlockEvents
<1>4. /\ n = size + (IF keep THEN 1 ELSE 2)
      /\ Len(wire) \in Nat /\ Len(wire') = Len(wire) + n
  BY <1>3 DEF SentOfBlock
<1>5. size + 1 \in 1..n /\ ~(size + 1 <= size)
  BY <1>1, <1>4
<1>6. wire'[Len(wire) + (size + 1)] = e
  BY <1>3, <1>5 DEF SentOfBlock
<1> HIDE DEF keep, e, begin
<1>7. (IF keep THEN Len(wire') ELSE Len(wire') - 1) = Len(wire) + (size + 1)
  BY <1>1, <1>4
<1>8. Len(wire) + (size + 1) > Len(wire)
  BY <1>4
<1>9. wire'[IF keep THEN Len(wire') ELSE Len(wire') - 1] = e
      /\ (IF keep THEN Len(wire') ELSE Len(wire') - 1) > Len(wire)
  BY <1>6, <1>7, <1>8
<1> QED
  BY <1>9 DEF keep, e, begin

\* No request leaves the registry without its EndRequest, and its disconnect,
\* having been sent, whatever the callbacks throw before.
THEOREM LeavesTheorem == Spec => LeavesWithEndRequest
<1> DEFINE Leaves ==
      \A id \in RequestIds :
        Registered(id) /\ requestRegistry'[id] # requestRegistry[id]
          /\ requestRegistry'[id] = Unregistered =>
        LET begin == requestRegistry[id].begin
            end == IF received[begin].keep THEN Len(wire') ELSE Len(wire') - 1
        IN  /\ end > Len(wire)
            /\ wire'[end] = EndRequestRecord(id, "RequestComplete", begin)
<1>1. TypeOK /\ TypeOK' /\ BeginInv /\ [Next]_vars => Leaves
  <2> SUFFICES ASSUME TypeOK, TypeOK', BeginInv, [Next]_vars,
                      NEW id \in RequestIds, Registered(id), requestRegistry'[id] = Unregistered
               PROVE  LET begin == requestRegistry[id].begin
                          end == IF received[begin].keep THEN Len(wire') ELSE Len(wire') - 1
                      IN  /\ end > Len(wire)
                          /\ wire'[end] = EndRequestRecord(id, "RequestComplete", begin)
    OBVIOUS
  <2>1. received[requestRegistry[id].begin].keep = requestRegistry[id].keepConnection
    BY DEF BeginInv
  <2>2. EndsRequest(id) /\ exceptions' = exceptions
    BY EntryGoes
  <2> QED
    BY <2>1, <2>2, EndIsSent
<1> QED
  BY <1>1, ResponderTypes, BeginInvariant, PTL DEF Spec, LeavesWithEndRequest

-----------------------------------------------------------------------------
(* The connection is closed when it should be, and answers go out whole,    *)
(* while no callback throws                                                 *)

\* The block a handler sends, seen from the wire: streams, EndRequest, and
\* disconnect as the last event or none.
SentWhole(n, k, split, size, id, status, begin, keep) ==
  /\ n = size + IF keep THEN 1 ELSE 2
  /\ DOMAIN wire = 1..Len(wire) /\ DOMAIN wire' = 1..Len(wire')
  /\ Len(wire) \in Nat /\ Len(wire') = Len(wire) + n
  /\ \A i \in 1..Len(wire) : wire'[i] = wire[i]
  /\ \A i \in (Len(wire) + 1)..(Len(wire) + size) :
       wire'[i] = StreamRecord(k, split, size, id, i - Len(wire))
  /\ wire'[Len(wire) + size + 1] = EndRequestRecord(id, status, begin)
  /\ ~keep => wire'[Len(wire) + size + 2] = Disconnect

\* A handler that runs to its end sends its block whole.
LEMMA WholeBlock ==
  ASSUME NEW n \in Nat, NEW k \in Nat, NEW split \in Nat, NEW size \in Nat, NEW id,
         NEW status, NEW begin, NEW keep \in BOOLEAN,
         SentOfBlock(n, k, split, size, id, status, begin, keep), exceptions' = exceptions
  PROVE  SentWhole(n, k, split, size, id, status, begin, keep)
<1>1. /\ n = size + IF keep THEN 1 ELSE 2
      /\ DOMAIN wire = 1..Len(wire) /\ DOMAIN wire' = 1..Len(wire')
      /\ Len(wire) \in Nat /\ Len(wire') = Len(wire) + n
      /\ \A i \in 1..Len(wire) : wire'[i] = wire[i]
  BY DEF SentOfBlock
<1>2. ASSUME NEW j \in 1..n
      PROVE  wire'[Len(wire) + j] = IF j <= size THEN StreamRecord(k, split, size, id, j)
                                    ELSE IF j = size + 1 THEN EndRequestRecord(id, status, begin)
                                    ELSE Disconnect
  BY <1>2 DEF SentOfBlock
<1>3. ASSUME NEW i \in (Len(wire) + 1)..(Len(wire) + size)
      PROVE  wire'[i] = StreamRecord(k, split, size, id, i - Len(wire))
  <2> DEFINE j == i - Len(wire)
  <2>1. j \in 1..n /\ j <= size /\ i = Len(wire) + j
    BY <1>1
  <2> HIDE DEF j
  <2>2. wire'[Len(wire) + j] = StreamRecord(k, split, size, id, j)
    BY <1>2, <2>1
  <2> QED
    BY <2>1, <2>2 DEF j
<1>4. size + 1 \in 1..n /\ ~(size + 1 <= size) /\ Len(wire) + size + 1 = Len(wire) + (size + 1)
  BY <1>1
<1>5. ~keep => size + 2 \in 1..n /\ ~(size + 2 <= size) /\ size + 2 # size + 1
                 /\ Len(wire) + size + 2 = Len(wire) + (size + 2)
  BY <1>1
<1>6. wire'[Len(wire) + size + 1] = EndRequestRecord(id, status, begin)
  BY <1>2, <1>4
<1>7. ~keep => wire'[Len(wire) + size + 2] = Disconnect
  BY <1>2, <1>5
<1> QED
  BY <1>1, <1>3, <1>6, <1>7 DEF SentWhole

\* A whole block honours the flag of the request it ends.
LEMMA BlockHonours ==
  ASSUME TypeOK, KeepConnectionIsHonoured, BeginInv,
         NEW n \in Nat, NEW k \in Nat, NEW split \in Nat, NEW size \in Nat, NEW id,
         NEW status, NEW begin, NEW keep \in BOOLEAN,
         SentOfBlock(n, k, split, size, id, status, begin, keep), exceptions' = exceptions,
         \A m \in 1..Len(received) : received'[m] = received[m],
         begin # 0 => received'[begin].keep = keep
  PROVE  KeepConnectionIsHonoured'
<1> DEFINE p == Len(wire) + size + 1
<1>1. /\ n = size + IF keep THEN 1 ELSE 2
      /\ DOMAIN wire = 1..Len(wire) /\ DOMAIN wire' = 1..Len(wire')
      /\ Len(wire) \in Nat /\ Len(wire') = Len(wire) + n
      /\ \A i \in 1..Len(wire) : wire'[i] = wire[i]
      /\ \A i \in (Len(wire) + 1)..(Len(wire) + size) :
           wire'[i] = StreamRecord(k, split, size, id, i - Len(wire))
      /\ wire'[p] = EndRequestRecord(id, status, begin)
      /\ ~keep => wire'[Len(wire) + size + 2] = Disconnect
  <2>1. SentWhole(n, k, split, size, id, status, begin, keep)
    BY WholeBlock
  <2> QED
    BY <2>1 DEF SentWhole
<1>2. /\ p \in Nat /\ p > Len(wire) /\ Len(wire') = IF keep THEN p ELSE p + 1
      /\ ~keep => wire'[p + 1] = Disconnect
  <2>1. p \in Nat /\ p > Len(wire) /\ p + 1 = Len(wire) + size + 2
    BY <1>1
  <2>2. Len(wire) + (size + 1) = p /\ Len(wire) + (size + 2) = p + 1
    BY <1>1
  <2>3. n = IF keep THEN size + 1 ELSE size + 2
    BY <1>1
  <2> QED
    BY <1>1, <2>1, <2>2, <2>3
<1>3. \A i \in (Len(wire) + 1)..(p - 1) :
        wire'[i].type \in {"StdOut", "StdErr"}
  <2>1. \A i \in (Len(wire) + 1)..(p - 1) : i \in (Len(wire) + 1)..(Len(wire) + size)
    BY <1>1
  <2>2. \A j : StreamRecord(k, split, size, id, j).type \in {"StdOut", "StdErr"}
    BY DEF StreamRecord
  <2> QED
    BY <1>1, <2>1, <2>2
<1>4. wire'[p].type = "EndRequest" /\ wire'[p].begin = begin /\ Disconnect.type = "disconnect"
  BY <1>1 DEF EndRequestRecord, Disconnect
<1> HIDE DEF p
<1>7. ASSUME NEW i \in DOMAIN wire'
      PROVE  i \in 1..Len(wire) \/ i \in (Len(wire) + 1)..(p - 1) \/ i = p \/ i = p + 1
  <2>1. i \in 1..Len(wire') /\ (Len(wire') = p \/ Len(wire') = p + 1) /\ Len(wire) \in Nat
    BY <1>1, <1>2
  <2> QED
    BY <1>2, <2>1
<1>5. ASSUME NEW i \in DOMAIN wire', wire'[i] = Disconnect
      PROVE  i > 1 /\ wire'[i - 1].type = "EndRequest"
  <2>1. i \in 1..Len(wire) \/ i \in (Len(wire) + 1)..(p - 1) \/ i = p \/ i = p + 1
    BY <1>7
  <2>2. CASE i \in 1..Len(wire)
    <3>1. i > 1 /\ IsEnd(i - 1)
      BY <1>1, <1>5, <2>2 DEF KeepConnectionIsHonoured
    <3> QED
      BY <1>1, <2>2, <3>1 DEF IsEnd
  <2>3. CASE i \in (Len(wire) + 1)..(p - 1)
    <3>1. wire'[i].type \in {"StdOut", "StdErr"}
      BY <1>3, <2>3
    <3> QED
      BY <1>4, <1>5, <3>1
  <2>4. i # p
    BY <1>4, <1>5
  <2>5. CASE i = p + 1
    BY <1>1, <1>2, <1>4, <2>5
  <2> QED
    BY <2>1, <2>2, <2>3, <2>4, <2>5
<1>6. ASSUME NEW i \in DOMAIN wire', wire'[i].type = "EndRequest", wire'[i].begin # 0
      PROVE  received'[wire'[i].begin].keep <=> ~(i < Len(wire') /\ wire'[i + 1] = Disconnect)
  <2>1. i \in 1..Len(wire) \/ i \in (Len(wire) + 1)..(p - 1) \/ i = p \/ i = p + 1
    BY <1>7
  <2>2. CASE i \in 1..Len(wire)
    <3>1. IsEnd(i) /\ wire[i].begin # 0 /\ wire'[i] = wire[i]
      BY <1>1, <1>6, <2>2 DEF IsEnd
    <3>2. received'[wire[i].begin] = received[wire[i].begin]
      BY <1>1, <2>2, <3>1 DEF BeginInv, Begins
    <3>3. received[wire[i].begin].keep <=> ~(i < Len(wire) /\ wire[i + 1] = Disconnect)
      BY <1>1, <2>2, <3>1 DEF KeepConnectionIsHonoured
    <3>4. CASE i < Len(wire)
      BY <1>1, <1>2, <2>2, <3>1, <3>2, <3>3, <3>4
    <3>5. CASE i = Len(wire)
      <4>1. i + 1 \in (Len(wire) + 1)..(p - 1) \/ i + 1 = p
        BY <1>1, <1>2, <3>5
      <4>2. wire'[i + 1] # Disconnect
        BY <1>3, <1>4, <4>1
      <4> QED
        BY <3>1, <3>2, <3>3, <3>5, <4>2
    <3> QED
      BY <1>1, <2>2, <3>4, <3>5
  <2>3. i \notin (Len(wire) + 1)..(p - 1)
    BY <1>3, <1>6
  <2>4. CASE i = p
    <3>1. wire'[i].begin = begin /\ received'[begin].keep = keep
      BY <1>4, <1>6, <2>4
    <3> QED
      BY <1>1, <1>2, <1>4, <2>4, <3>1
  <2>5. i # p + 1
    BY <1>1, <1>2, <1>4, <1>6
  <2> QED
    BY <2>1, <2>2, <2>3, <2>4, <2>5
<1> QED
  BY <1>5, <1>6 DEF KeepConnectionIsHonoured, IsEnd

\* A step that sends a question's answer, or nothing.
LEMMA ReplyHonours ==
  ASSUME TypeOK, TypeOK', KeepConnectionIsHonoured, BeginInv,
         UNCHANGED wire \/ Replies,
         \A m \in 1..Len(received) : received'[m] = received[m]
  PROVE  KeepConnectionIsHonoured'
<1>1. /\ DOMAIN wire = 1..Len(wire) /\ Len(wire) \in Nat
      /\ DOMAIN wire' = 1..Len(wire') /\ Len(wire') \in Nat
  BY LenProperties DEF TypeOK
<1>2. PICK n \in {0, 1} :
        /\ Len(wire') = Len(wire) + n
        /\ \A i \in 1..Len(wire) : wire'[i] = wire[i]
        /\ n = 1 => wire'[Len(wire) + 1].type \notin {"EndRequest", "disconnect"}
  <2>1. CASE UNCHANGED wire
    BY <1>1, <2>1
  <2>2. CASE Replies
    <3>1. PICK m \in {0, 1}, e \in {x \in OutgoingEvent : x.type \in {"GetValuesResult", "UnknownType"}} :
            SendsFirst(m, <<e>>)
      BY <2>2 DEF Replies
    <3>2. /\ Len(wire') = Len(wire) + m
          /\ \A i \in 1..Len(wire) : wire'[i] = wire[i]
          /\ m = 1 => wire'[Len(wire) + 1] = e
      BY <3>1 DEF SendsFirst
    <3> QED
      BY <3>1, <3>2
  <2> QED
    BY <2>1, <2>2
<1>3. ASSUME NEW i \in DOMAIN wire', wire'[i].type \in {"EndRequest", "disconnect"}
      PROVE  i \in DOMAIN wire /\ wire'[i] = wire[i]
  <2>1. i \in 1..Len(wire) \/ (n = 1 /\ i = Len(wire) + 1)
    BY <1>1, <1>2
  <2> QED
    BY <1>1, <1>2, <1>3, <2>1
<1>4. Disconnect.type = "disconnect"
  BY DEF Disconnect
<1>5. ASSUME NEW i \in DOMAIN wire', wire'[i] = Disconnect
      PROVE  i > 1 /\ wire'[i - 1].type = "EndRequest"
  <2>1. i \in DOMAIN wire /\ wire[i] = Disconnect
    BY <1>3, <1>4, <1>5
  <2>2. i > 1 /\ IsEnd(i - 1)
    BY <2>1 DEF KeepConnectionIsHonoured
  <2> QED
    BY <1>1, <1>2, <2>1, <2>2 DEF IsEnd
<1>6. ASSUME NEW i \in DOMAIN wire', wire'[i].type = "EndRequest", wire'[i].begin # 0
      PROVE  received'[wire'[i].begin].keep <=> ~(i < Len(wire') /\ wire'[i + 1] = Disconnect)
  <2>1. i \in DOMAIN wire /\ wire'[i] = wire[i] /\ IsEnd(i)
    BY <1>3, <1>6 DEF IsEnd
  <2>2. received'[wire[i].begin] = received[wire[i].begin]
    BY <1>6, <2>1 DEF BeginInv, Begins
  <2>3. received[wire[i].begin].keep <=> ~(i < Len(wire) /\ wire[i + 1] = Disconnect)
    BY <1>6, <2>1 DEF KeepConnectionIsHonoured
  <2>4. (i < Len(wire') /\ wire'[i + 1] = Disconnect) <=> (i < Len(wire) /\ wire[i + 1] = Disconnect)
    <3>1. CASE i < Len(wire)
      BY <1>1, <1>2, <2>1, <3>1
    <3>2. CASE i = Len(wire)
      <4>1. ASSUME i < Len(wire'), wire'[i + 1] = Disconnect
            PROVE  FALSE
        <5>1. n = 1 /\ wire'[Len(wire) + 1] = Disconnect
          BY <1>1, <1>2, <3>2, <4>1
        <5> QED
          BY <1>2, <1>4, <5>1
      <4> QED
        BY <1>1, <3>2, <4>1
    <3> QED
      BY <1>1, <2>1, <3>1, <3>2
  <2> QED
    BY <2>1, <2>2, <2>3, <2>4
<1> QED
  BY <1>5, <1>6 DEF KeepConnectionIsHonoured, IsEnd

\* Each step without an exception closes the connection where it should be closed.
LEMMA NextHonours ==
  ASSUME TypeOK, TypeOK', BeginInv, KeepConnectionIsHonoured, [Next]_vars,
         exceptions' = exceptions
  PROVE  KeepConnectionIsHonoured'
<1>1. \A m \in 1..Len(received) : received'[m] = received[m]
  BY NextReceives
<1>2. CASE UNCHANGED wire \/ Replies
  BY <1>1, <1>2, ReplyHonours
<1>3. ASSUME NEW r \in IncomingRecord, Refuses(r)
      PROVE  KeepConnectionIsHonoured'
  <2> DEFINE begin == Len(received) + 1
  <2>1. Receive(r) /\ r.keep \in BOOLEAN
    BY <1>3, RecordFields DEF Refuses
  <2>2. PICK status \in {"UnknownRole", "CantMpxConn", "Overloaded"} :
          SendsBlock(0, 0, 0, r.id, status, begin, r.keep)
    BY <1>3 DEF Refuses
  <2>3. PICK n \in Nat : SentOfBlock(n, 0, 0, 0, r.id, status, begin, r.keep)
    BY <2>1, <2>2, BlockEvents
  <2>4. received'[begin] = r
    BY <2>1, AppendProperties DEF Receive, TypeOK
  <2> HIDE DEF begin
  <2> QED
    BY <1>1, <2>1, <2>3, <2>4, BlockHonours
<1>4. ASSUME NEW id \in RequestIds, EndsRequest(id)
      PROVE  KeepConnectionIsHonoured'
  <2> DEFINE begin == requestRegistry[id].begin
             keep == requestRegistry[id].keepConnection
  <2>1. Registered(id) /\ keep \in BOOLEAN
    BY <1>4, EntryType DEF EndsRequest
  <2>2. PICK k \in Nat, split \in Nat, size \in Nat :
          SendsBlock(k, split, size, id, "RequestComplete", begin, keep)
    BY <1>4 DEF EndsRequest
  <2>3. PICK n \in Nat : SentOfBlock(n, k, split, size, id, "RequestComplete", begin, keep)
    BY <2>1, <2>2, BlockEvents
  <2>4. received'[begin].keep = keep
    BY <1>1, <2>1 DEF BeginInv, Begins
  <2> HIDE DEF begin, keep
  <2> QED
    BY <1>1, <2>1, <2>3, <2>4, BlockHonours
<1>5. CASE SendsUnclaimed
  <2>1. PICK id \in RequestIds, k \in Nat, split \in Nat, size \in Nat :
          SendsBlock(k, split, size, id, "RequestComplete", 0, TRUE)
    BY <1>5, HandedFields DEF SendsUnclaimed
  <2>2. PICK n \in Nat : SentOfBlock(n, k, split, size, id, "RequestComplete", 0, TRUE)
    BY <2>1, BlockEvents
  <2> QED
    BY <1>1, <2>2, BlockHonours
<1> QED
  BY <1>2, <1>3, <1>4, <1>5, NextSends

\* As long as neither callback throws, disconnect is called right after the
\* EndRequest of each request that did not ask to keep the connection, and never
\* otherwise.
THEOREM KeepTheorem == Spec => [](exceptions = 0 => KeepConnectionIsHonoured)
<1>1. Init => (exceptions = 0 => KeepConnectionIsHonoured)
  BY DEF Init, KeepConnectionIsHonoured
<1>2. TypeOK /\ TypeOK' /\ BeginInv /\ (exceptions = 0 => KeepConnectionIsHonoured) /\ [Next]_vars
        => (exceptions = 0 => KeepConnectionIsHonoured)'
  <2> SUFFICES ASSUME TypeOK, TypeOK', BeginInv, exceptions = 0 => KeepConnectionIsHonoured,
                      [Next]_vars, exceptions' = 0
               PROVE  KeepConnectionIsHonoured'
    OBVIOUS
  <2>1. exceptions = 0 /\ exceptions' = exceptions
    BY NextExceptions DEF TypeOK
  <2> QED
    BY <2>1, NextHonours
<1> QED
  BY <1>1, <1>2, ResponderTypes, BeginInvariant, PTL DEF Spec

\* wire'[first..end] is one answer, as IsAnswer says, after a step.
AnswerAfter(first, split, end) ==
  /\ wire'[end].type = "EndRequest"
  /\ \A i \in first..(end - 1) :
       /\ wire'[i].type = IF i <= split THEN "StdOut" ELSE "StdErr"
       /\ wire'[i].id = wire'[end].id
       /\ wire'[i].answer = wire'[first].answer
       /\ wire'[i].last <=> i \in {split, end - 1}

\* wire'[i] belongs to one.
AnswerFollows(i) ==
  \E end \in (i + 1)..Len(wire') : \E first \in 1..i, split \in 1..(end - 2) :
    first <= split /\ AnswerAfter(first, split, end)

\* An answer that is on the wire stays there.
LEMMA AnswerStays ==
  ASSUME NEW i \in DOMAIN wire, i \in 1..Len(wire), IsStream(wire[i]), EndFollowsWholeAnswer,
         Len(wire) \in Nat, Len(wire') \in Nat, Len(wire) <= Len(wire'),
         \A j \in 1..Len(wire) : wire'[j] = wire[j]
  PROVE  AnswerFollows(i)
<1>0. PICK end \in (i + 1)..Len(wire) : \E first \in 1..i, split \in 1..(end - 2) :
        first <= split /\ IsAnswer(first, split, end)
  BY DEF EndFollowsWholeAnswer
<1>1. PICK first \in 1..i, split \in 1..(end - 2) :
        first <= split /\ IsAnswer(first, split, end)
  BY <1>0
<1>2. end \in (i + 1)..Len(wire') /\ end \in 1..Len(wire) /\ first \in 1..Len(wire)
      /\ \A j \in first..(end - 1) : j \in 1..Len(wire)
  OBVIOUS
<1>3. AnswerAfter(first, split, end)
  <2>1. wire'[end] = wire[end] /\ wire'[first] = wire[first]
        /\ \A j \in first..(end - 1) : wire'[j] = wire[j]
    BY <1>2
  <2>2. IsAnswer(first, split, end)
    BY <1>1
  <2> QED
    BY <2>1, <2>2 DEF IsAnswer, AnswerAfter, IsEnd
<1> QED
  BY <1>1, <1>2, <1>3 DEF AnswerFollows

\* A whole block is an answer, if there are streams in it.
LEMMA BlockIsAnswer ==
  ASSUME NEW n \in Nat, NEW k \in Nat, NEW split \in Nat, NEW size \in Nat, NEW id,
         NEW begin, NEW keep \in BOOLEAN, (split = 0 /\ size = 0) \/ (0 < split /\ split < size),
         SentOfBlock(n, k, split, size, id, "RequestComplete", begin, keep),
         exceptions' = exceptions,
         NEW i \in DOMAIN wire', i \notin DOMAIN wire, IsStream(wire'[i])
  PROVE  AnswerFollows(i)
<1> DEFINE old == Len(wire)
           p == old + size + 1
<1>1. /\ n = size + IF keep THEN 1 ELSE 2
      /\ DOMAIN wire = 1..old /\ DOMAIN wire' = 1..Len(wire')
      /\ old \in Nat /\ Len(wire') = old + n
      /\ \A j \in (old + 1)..(old + size) : wire'[j] = StreamRecord(k, split, size, id, j - old)
      /\ wire'[p] = EndRequestRecord(id, "RequestComplete", begin)
      /\ ~keep => wire'[old + size + 2] = Disconnect
  <2>1. SentWhole(n, k, split, size, id, "RequestComplete", begin, keep)
    BY WholeBlock
  <2> QED
    BY <2>1 DEF SentWhole
<1> HIDE DEF old
<1>2. ASSUME NEW j \in (old + 1)..(old + size)
      PROVE  /\ wire'[j].type = IF j <= old + split THEN "StdOut" ELSE "StdErr"
             /\ wire'[j].id = id /\ wire'[j].answer = k
             /\ wire'[j].last <=> j \in {old + split, old + size}
  <2> DEFINE m == j - old
             record == StreamRecord(k, split, size, id, m)
  <2>1. wire'[j] = record
    BY <1>1, <1>2
  <2>2. /\ m <= split <=> j <= old + split
        /\ m \in {split, size} <=> j \in {old + split, old + size}
    BY <1>1, <1>2
  <2> HIDE DEF m
  <2>3. /\ record.type = IF m <= split THEN "StdOut" ELSE "StdErr"
        /\ record.id = id /\ record.answer = k /\ record.last = (m \in {split, size})
    BY DEF StreamRecord
  <2> HIDE DEF record
  <2>4. wire'[j].type = IF j <= old + split THEN "StdOut" ELSE "StdErr"
    BY <2>1, <2>2, <2>3
  <2>5. wire'[j].last <=> j \in {old + split, old + size}
    BY <2>1, <2>2, <2>3
  <2> QED
    BY <2>1, <2>3, <2>4, <2>5
<1>3. wire'[p].type = "EndRequest" /\ wire'[p].id = id
  BY <1>1 DEF EndRequestRecord
<1>4. i \in (old + 1)..(old + size)
  <2>1. n = size + 1 \/ (n = size + 2 /\ ~keep)
    BY <1>1
  <2>2. i \in (old + 1)..(old + size) \/ i = p \/ (~keep /\ i = old + size + 2)
    BY <1>1, <2>1
  <2>3. i # p
    BY <1>3 DEF IsStream
  <2>4. ~(~keep /\ i = old + size + 2)
    BY <1>1 DEF IsStream, Disconnect
  <2> QED
    BY <2>2, <2>3, <2>4
<1>5. size # 0 /\ 0 < split /\ split < size
  BY <1>1, <1>4
<1>6. /\ p \in (i + 1)..Len(wire') /\ old + 1 \in 1..i /\ old + split \in 1..(p - 2)
      /\ old + 1 <= old + split /\ p - 1 = old + size
  <2>1. n >= size + 1
    BY <1>1
  <2> QED
    BY <1>1, <1>4, <1>5, <2>1
<1>7. old + 1 \in (old + 1)..(old + size)
  BY <1>1, <1>5
<1>8. AnswerAfter(old + 1, old + split, p)
  <2> DEFINE first == old + 1
             mid == old + split
  <2>1. \A j \in first..(p - 1) :
          /\ wire'[j].type = IF j <= mid THEN "StdOut" ELSE "StdErr"
          /\ wire'[j].id = wire'[p].id /\ wire'[j].answer = wire'[first].answer
          /\ wire'[j].last <=> j \in {mid, p - 1}
    BY <1>2, <1>3, <1>6, <1>7
  <2> QED
    BY <1>3, <2>1 DEF AnswerAfter
<1> HIDE DEF p
<1> QED
  BY <1>6, <1>8 DEF AnswerFollows

\* Each step without an exception sends whole answers.
LEMMA NextWhole ==
  ASSUME TypeOK, TypeOK', EndFollowsWholeAnswer, [Next]_vars, exceptions' = exceptions
  PROVE  EndFollowsWholeAnswer'
<1>1. /\ DOMAIN wire = 1..Len(wire) /\ Len(wire) \in Nat
      /\ DOMAIN wire' = 1..Len(wire') /\ Len(wire') \in Nat
  BY LenProperties DEF TypeOK
<1> SUFFICES ASSUME NEW i \in DOMAIN wire', IsStream(wire'[i])
             PROVE  AnswerFollows(i)
  BY DEF EndFollowsWholeAnswer, AnswerFollows, AnswerAfter, IsAnswer, IsEnd
<1>2. ASSUME Len(wire) <= Len(wire'), \A j \in 1..Len(wire) : wire'[j] = wire[j],
             i \in DOMAIN wire
      PROVE  AnswerFollows(i)
  BY <1>1, <1>2, AnswerStays
<1>3. CASE UNCHANGED wire
  BY <1>1, <1>2, <1>3
<1>4. CASE Replies
  <2>1. PICK n \in {0, 1}, e \in {x \in OutgoingEvent : x.type \in {"GetValuesResult", "UnknownType"}} :
          SendsFirst(n, <<e>>)
    BY <1>4 DEF Replies
  <2>2. /\ Len(wire') = Len(wire) + n
        /\ \A j \in 1..Len(wire) : wire'[j] = wire[j]
        /\ n = 1 => wire'[Len(wire) + 1] = e
    BY <2>1 DEF SendsFirst
  <2>3. i \in DOMAIN wire
    <3>1. i \in DOMAIN wire \/ (n = 1 /\ i = Len(wire) + 1)
      BY <1>1, <2>1, <2>2
    <3> QED
      BY <2>1, <2>2, <3>1 DEF IsStream
  <2> QED
    BY <1>1, <1>2, <2>2, <2>3
<1>5. ASSUME NEW id, NEW status, NEW begin, NEW keep \in BOOLEAN, NEW n \in Nat,
             NEW k \in Nat, NEW split \in Nat, NEW size \in Nat,
             SentOfBlock(n, k, split, size, id, status, begin, keep)
      PROVE  /\ Len(wire) <= Len(wire') /\ \A j \in 1..Len(wire) : wire'[j] = wire[j]
             /\ size = 0 => i \in DOMAIN wire
  <2>0. SentWhole(n, k, split, size, id, status, begin, keep)
    BY <1>5, WholeBlock
  <2>1. /\ n = size + IF keep THEN 1 ELSE 2
        /\ Len(wire') = Len(wire) + n /\ \A j \in 1..Len(wire) : wire'[j] = wire[j]
        /\ wire'[Len(wire) + size + 1] = EndRequestRecord(id, status, begin)
        /\ ~keep => wire'[Len(wire) + size + 2] = Disconnect
    BY <2>0 DEF SentWhole
  <2>2. ASSUME size = 0
        PROVE  i \in DOMAIN wire
    <3>1. n = 1 \/ (n = 2 /\ ~keep)
      BY <2>1, <2>2
    <3>2. i \in DOMAIN wire \/ i = Len(wire) + 1 \/ (~keep /\ i = Len(wire) + 2)
      BY <1>1, <2>1, <3>1
    <3>3. Len(wire) + size + 1 = Len(wire) + 1 /\ Len(wire) + size + 2 = Len(wire) + 2
      BY <1>1, <2>2
    <3>4. ~IsStream(EndRequestRecord(id, status, begin)) /\ ~IsStream(Disconnect)
      BY DEF IsStream, EndRequestRecord, Disconnect
    <3> QED
      BY <2>1, <3>2, <3>3, <3>4
  <2>3. Len(wire) <= Len(wire')
    BY <1>1, <2>1
  <2> QED
    BY <2>1, <2>2, <2>3
<1>6. ASSUME NEW r \in IncomingRecord, Refuses(r)
      PROVE  AnswerFollows(i)
  <2> DEFINE begin == Len(received) + 1
  <2>1. r.keep \in BOOLEAN
    BY <1>6, RecordFields DEF Refuses
  <2>2. PICK status \in {"UnknownRole", "CantMpxConn", "Overloaded"} :
          SendsBlock(0, 0, 0, r.id, status, begin, r.keep)
    BY <1>6 DEF Refuses
  <2>3. PICK n \in Nat : SentOfBlock(n, 0, 0, 0, r.id, status, begin, r.keep)
    BY <2>1, <2>2, BlockEvents
  <2> HIDE DEF begin
  <2> QED
    BY <1>2, <1>5, <2>1, <2>3
<1>7. ASSUME NEW id \in RequestIds, EndsRequest(id)
      PROVE  AnswerFollows(i)
  <2> DEFINE begin == requestRegistry[id].begin
             keep == requestRegistry[id].keepConnection
  <2>1. keep \in BOOLEAN
    BY <1>7, EntryType DEF EndsRequest
  <2>2. PICK k \in Nat, split \in Nat, size \in Nat :
          /\ (split = 0 /\ size = 0) \/ (0 < split /\ split < size)
          /\ SendsBlock(k, split, size, id, "RequestComplete", begin, keep)
    BY <1>7 DEF EndsRequest
  <2>3. PICK n \in Nat : SentOfBlock(n, k, split, size, id, "RequestComplete", begin, keep)
    BY <2>1, <2>2, BlockEvents
  <2> HIDE DEF begin, keep
  <2>4. CASE i \in DOMAIN wire
    BY <1>2, <1>5, <2>1, <2>3, <2>4
  <2>5. CASE i \notin DOMAIN wire
    BY <2>1, <2>2, <2>3, <2>5, BlockIsAnswer
  <2> QED
    BY <2>4, <2>5
<1>8. CASE SendsUnclaimed
  <2>1. PICK id \in RequestIds, k \in Nat, split \in Nat, size \in Nat :
          0 < split /\ split < size /\ SendsBlock(k, split, size, id, "RequestComplete", 0, TRUE)
    BY <1>8, HandedFields DEF SendsUnclaimed
  <2>2. PICK n \in Nat : SentOfBlock(n, k, split, size, id, "RequestComplete", 0, TRUE)
    BY <2>1, BlockEvents
  <2>3. CASE i \in DOMAIN wire
    BY <1>2, <1>5, <2>2, <2>3
  <2>4. CASE i \notin DOMAIN wire
    BY <2>1, <2>2, <2>4, BlockIsAnswer
  <2> QED
    BY <2>3, <2>4
<1> QED
  BY <1>3, <1>4, <1>6, <1>7, <1>8, NextSends

\* As long as neither callback throws, every stream record belongs to a whole
\* answer, to which its EndRequest belongs as well.
THEOREM WholeAnswerTheorem == Spec => [](exceptions = 0 => EndFollowsWholeAnswer)
<1>1. Init => (exceptions = 0 => EndFollowsWholeAnswer)
  BY DEF Init, EndFollowsWholeAnswer
<1>2. TypeOK /\ TypeOK' /\ (exceptions = 0 => EndFollowsWholeAnswer) /\ [Next]_vars
        => (exceptions = 0 => EndFollowsWholeAnswer)'
  <2> SUFFICES ASSUME TypeOK, TypeOK', exceptions = 0 => EndFollowsWholeAnswer,
                      [Next]_vars, exceptions' = 0
               PROVE  EndFollowsWholeAnswer'
    OBVIOUS
  <2>1. exceptions = 0 /\ exceptions' = exceptions
    BY NextExceptions DEF TypeOK
  <2> QED
    BY <2>1, NextWhole
<1> QED
  BY <1>1, <1>2, ResponderTypes, PTL DEF Spec
-----------------------------------------------------------------------------
(* No request is left that nobody can answer                                *)

\* A Responder that is gone does not come back.
LEMMA NextAlive ==
  ASSUME TypeOK, [Next]_vars, alive'
  PROVE  alive
BY DEF Next, vars, OnRecordRead, HandleRecord, OnUnexpectedRecord, OnBeginRequest,
   OnAbortRequest, OnGetValues, OnInvalidRecordType, OnParams, OnStdIn, OnOtherRecord, Receive,
   ApplicationStep, SendResponse, SendOrphanedResponse, DropResponse, MayReconfigure,
   SetMaximumConnectionsNumber, SetMaximumRequestsNumber, SetMultiplexingEnabled, DestroyResponder

\* Request `id' is with the application, which has a Response for it.
Answerable(id) ==
  \E k \in DOMAIN handed : /\ handed[k].begin = requestRegistry[id].begin
                           /\ handed[k].response = "valid"

\* A Response that is not the one sent stays.
LEMMA AnswerableStays ==
  ASSUME TypeOK, NEW id \in RequestIds, requestRegistry'[id].begin = requestRegistry[id].begin,
         NEW k \in DOMAIN handed, handed[k].begin = requestRegistry[id].begin,
         handed[k].response = "valid",
         \/ UNCHANGED handed
         \/ \E h \in HandedRequest : handed' = Append(handed, h)
         \/ \E j \in DOMAIN handed, state \in {"sent", "dropped"} :
              j # k /\ ResponseState(j, state)
  PROVE  Answerable(id)'
<1>1. handed \in Seq(HandedRequest) /\ DOMAIN handed = 1..Len(handed) /\ Len(handed) \in Nat
  BY LenProperties DEF TypeOK
<1>2. k \in DOMAIN handed' /\ handed'[k] = handed[k]
  <2>1. CASE UNCHANGED handed
    BY <2>1
  <2>2. ASSUME NEW h \in HandedRequest, handed' = Append(handed, h)
        PROVE  k \in DOMAIN handed' /\ handed'[k] = handed[k]
    <3>1. k \in 1..Len(handed)
      BY <1>1
    <3>2. /\ Append(handed, h) \in Seq(HandedRequest)
          /\ Len(Append(handed, h)) = Len(handed) + 1 /\ Append(handed, h)[k] = handed[k]
      BY <1>1, <3>1, AppendProperties
    <3>3. DOMAIN Append(handed, h) = 1..Len(Append(handed, h))
      BY <3>2, LenProperties
    <3>4. k \in DOMAIN Append(handed, h)
      BY <1>1, <3>1, <3>2, <3>3
    <3> QED
      BY <2>2, <3>2, <3>4
  <2>3. ASSUME NEW j \in DOMAIN handed, NEW state \in {"sent", "dropped"}, j # k,
               ResponseState(j, state)
        PROVE  k \in DOMAIN handed' /\ handed'[k] = handed[k]
    <3>1. /\ DOMAIN handed' = DOMAIN handed
          /\ \A m \in DOMAIN handed : m # j => handed'[m] = handed[m]
      BY <2>3, ResponseStateType
    <3> QED
      BY <2>3, <3>1
  <2> QED
    BY <2>1, <2>2, <2>3
<1> QED
  BY <1>2 DEF Answerable

\* Each step leaves the open requests with their Responses, if none is dropped.
LEMMA NextAnswerable ==
  ASSUME TypeOK, TypeOK', BeginInv, OpenRequestIsAnswerable, ~DropsResponses, [Next]_vars
  PROVE  OpenRequestIsAnswerable'
<1> SUFFICES ASSUME NEW id \in RequestIds, alive', Registered(id)',
                    requestRegistry'[id].usedInRequest
             PROVE  Answerable(id)'
  BY DEF OpenRequestIsAnswerable, Answerable
<1>1. alive /\ requestRegistry \in [RequestIds -> RequestData \cup {Unregistered}]
  BY NextAlive DEF TypeOK
<1>2. ASSUME Registered(id), requestRegistry[id].usedInRequest
      PROVE  \E k \in DOMAIN handed : /\ handed[k].begin = requestRegistry[id].begin
                                      /\ handed[k].response = "valid"
  BY <1>1, <1>2 DEF OpenRequestIsAnswerable
<1>3. CASE UNCHANGED <<requestRegistry, handed>>
  <2>1. Registered(id) /\ requestRegistry[id].usedInRequest
    BY <1>3 DEF Registered
  <2>2. PICK k \in DOMAIN handed : /\ handed[k].begin = requestRegistry[id].begin
                                   /\ handed[k].response = "valid"
    BY <1>2, <2>1
  <2> QED
    BY <1>3, <2>2 DEF Answerable
<1>4. ASSUME NEW r \in IncomingRecord, Accepts(r)
      PROVE  Answerable(id)'
  <2>1. r.id # id
    BY <1>1, <1>4 DEF Accepts
  <2>2. requestRegistry'[id] = requestRegistry[id] /\ handed' = handed
    BY <1>1, <1>4, <2>1 DEF Accepts
  <2>3. PICK k \in DOMAIN handed : /\ handed[k].begin = requestRegistry[id].begin
                                   /\ handed[k].response = "valid"
    BY <1>2, <2>2 DEF Registered
  <2> QED
    BY <2>2, <2>3 DEF Answerable
<1>5. ASSUME NEW r \in IncomingRecord, Collects(r)
      PROVE  Answerable(id)'
  <2>1. PICK data \in RequestData :
          /\ requestRegistry' = [requestRegistry EXCEPT ![r.id] = data]
          /\ data.begin = requestRegistry[r.id].begin
          /\ \/ handed' = handed /\ data.usedInRequest = requestRegistry[r.id].usedInRequest
             \/ /\ ~requestRegistry[r.id].usedInRequest
                /\ \E h \in HandedRequest :
                     /\ handed' = Append(handed, h)
                     /\ h.id = r.id /\ h.begin = data.begin /\ h.response = "valid"
    BY <1>5 DEF Collects
  <2>2. r.id \in RequestIds /\ Registered(r.id)
    BY <1>5 DEF Collects
  <2>3. requestRegistry'[id].begin = requestRegistry[id].begin /\ Registered(id)
    BY <1>1, <2>1, <2>2 DEF Registered
  <2>4. CASE requestRegistry[id].usedInRequest
    <3>1. PICK k \in DOMAIN handed : /\ handed[k].begin = requestRegistry[id].begin
                                     /\ handed[k].response = "valid"
      BY <1>2, <2>3, <2>4
    <3>2. UNCHANGED handed \/ \E h \in HandedRequest : handed' = Append(handed, h)
      BY <2>1
    <3> QED
      BY <2>3, <3>1, <3>2, AnswerableStays
  <2>5. CASE ~requestRegistry[id].usedInRequest
    <3>1. id = r.id /\ data.usedInRequest # requestRegistry[r.id].usedInRequest
      BY <1>1, <2>1, <2>2, <2>5
    <3>2. PICK h \in HandedRequest :
            handed' = Append(handed, h) /\ h.begin = data.begin /\ h.response = "valid"
      BY <2>1, <3>1
    <3>3. Len(handed) + 1 \in DOMAIN handed' /\ handed'[Len(handed) + 1] = h
      BY <3>2, AppendProperties, LenProperties DEF TypeOK
    <3> QED
      BY <2>1, <2>3, <3>1, <3>2, <3>3 DEF Answerable
  <2> QED
    BY <2>4, <2>5
<1>6. ASSUME NEW jd \in RequestIds, EndsRequest(jd), UNCHANGED handed
      PROVE  Answerable(id)'
  <2>1. Registered(id) /\ requestRegistry'[id] = requestRegistry[id]
    BY <1>6, DeletedEntries DEF EndsRequest
  <2>2. PICK k \in DOMAIN handed : /\ handed[k].begin = requestRegistry[id].begin
                                   /\ handed[k].response = "valid"
    BY <1>2, <2>1
  <2> QED
    BY <1>6, <2>1, <2>2 DEF Answerable
<1>7. ASSUME NEW j \in DOMAIN handed, EndsRequest(handed[j].id),
             ResponseState(j, "sent"), exceptions' = exceptions
      PROVE  Answerable(id)'
  <2>1. handed[j].id \in RequestIds /\ DeleteRequest(handed[j].id)
    BY <1>7, HandedFields DEF EndsRequest
  <2>2. Registered(id) /\ requestRegistry'[id] = requestRegistry[id] /\ id # handed[j].id
    BY <1>1, <2>1, DeletedEntries DEF DeleteRequest, Registered
  <2>3. PICK k \in DOMAIN handed : /\ handed[k].begin = requestRegistry[id].begin
                                   /\ handed[k].response = "valid"
    BY <1>2, <2>2
  <2>4. j # k
    <3>1. Begins(handed[j].begin, handed[j].id) /\ Begins(requestRegistry[id].begin, id)
      BY <2>2 DEF BeginInv
    <3> QED
      BY <2>2, <2>3, <3>1 DEF Begins
  <2> QED
    BY <1>7, <2>2, <2>3, <2>4, AnswerableStays
<1>8. \A k \in DOMAIN handed : handed[k].id \in RequestIds
  BY HandedFields
<1> QED
  BY <1>1, <1>3, <1>4, <1>5, <1>6, <1>7, <1>8, NextEntries

\* If the application drops no Response, every open request that was passed to
\* it can be answered: aborts, copies, exceptions and the reuse of ids take its
\* Response from no open request.
THEOREM AnswerableTheorem == ~DropsResponses => (Spec => []OpenRequestIsAnswerable)
<1> SUFFICES ASSUME ~DropsResponses PROVE Spec => []OpenRequestIsAnswerable
  OBVIOUS
<1>1. Init => OpenRequestIsAnswerable
  BY DEF Init, OpenRequestIsAnswerable, Registered
<1>2. TypeOK /\ TypeOK' /\ BeginInv /\ OpenRequestIsAnswerable /\ [Next]_vars
        => OpenRequestIsAnswerable'
  BY NextAnswerable
<1> QED
  BY <1>1, <1>2, ResponderTypes, BeginInvariant, PTL DEF Spec
=============================================================================
