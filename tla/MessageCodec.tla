---------------------------- MODULE MessageCodec ----------------------------
(* Records and messages as bytes: what Encoder, NameValue, the Msg classes, *)
(* makeStream and Record write, what Record::read and the messages'         *)
(* fromStream make of it, and what a Request gives back of its parameters.  *)
(* One side writes the records of an exchange to its DataWriterStream, the  *)
(* other one reads them from a DataReaderStream over what was left over and *)
(* a chunk (DataStreams.tla).  What becomes of a stream after an error, and *)
(* how leftover_ is made, is RecordReader's.                                *)
(* A byte has Base values, 256 in the code: every boundary of the format    *)
(* (one byte or four for a length, two bytes for a content length) moves    *)
(* with it.                                                                 *)
EXTENDS DataStreams, FiniteSets

CONSTANTS
  Base,           \* values of a byte
  RequestIds,     \* ids of requests
  OwnParams,      \* parameters passed to sendRequest, in the order of std::map
  ForeignParams,  \* Params records of other web servers: sequences of pair lists
  Texts,          \* data for StdIn, StdOut and StdErr
  ValueName,      \* valueRequestToString
  Values,         \* values in GetValuesResult
  Cuts            \* sizes of leftover_ when the rest of a record arrives

Byte == 0..(Base - 1)
LongestShort == (Base \div 2) - 1     \* 127
LengthMark == (Base ^ 4) \div 2       \* 0x80000000
ContentLimit == Base ^ 2              \* values of std::uint16_t
MaxDataSize == ContentLimit - 1       \* hardcoded::maxDataMessageSize
HeaderSize == 8
ProtocolVersion == 1

ValueRequests == {"MaxConns", "MaxReqs", "MpxsConns"}
StreamTypes == {"StdIn", "StdOut", "StdErr", "Data"}
PairTypes == {"Params", "GetValues", "GetValuesResult"}

\* enum class RecordType, from 1
RecordTypes ==
  <<"BeginRequest", "AbortRequest", "EndRequest", "Params", "StdIn", "StdOut",
    "StdErr", "Data", "GetValues", "GetValuesResult", "UnknownType">>

ASSUME BaseAssumption == Base \in Nat /\ Base >= 16 /\ Base % 2 = 0
ASSUME IdsAssumption == RequestIds \subseteq 0..(ContentLimit - 1)
ASSUME ValueNameAssumption ==
  /\ ValueName \in [ValueRequests -> Seq(Byte)]
  /\ \A a, b \in ValueRequests : ValueName[a] = ValueName[b] => a = b

VARIABLES
  exchange,  \* [records, params, values, texts]: what is written, and what it says
  written,   \* number of records passed to sendData
  writer,    \* recordStream_ of the sender
  wire,      \* bytes passed to sendData that have not arrived
  stream,    \* dataStream_ of the receiver
  reader,    \* where Record::read is, and inputSize: what it has left to read
  received   \* the records read

vars == <<exchange, written, writer, wire, stream, reader, received>>
sender == <<exchange, written, writer, wire>>

-----------------------------------------------------------------------------
(* Encoder, Decoder and NameValue                                           *)

\* Mutant: the digits are not cut to bytes
EncodeUncut(n, width) == [i \in 1..width |-> n \div Base ^ (width - i)]

\* operator<< for integers: the bytes of n modulo the width, big-endian
Encode(n, width) == [i \in 1..width |-> (n \div Base ^ (width - i)) % Base]

Decode(bytes) == FoldLeft(LAMBDA n, byte : n * Base + byte, 0, bytes)

\* Mutant: the first length that needs the long form is written as a short one
WriteLengthTooShort(n) ==
  IF n <= LongestShort + 1 THEN Encode(n, 1) ELSE Encode(n + LengthMark, 4)

\* writeLengthToStream
WriteLength(n) ==
  IF n <= LongestShort THEN Encode(n, 1) ELSE Encode(n + LengthMark, 4)

\* NameValue::size
LengthSize(n) == IF n <= LongestShort THEN 1 ELSE 4
NameValueSize(pair) ==
  LengthSize(Len(pair.name)) + LengthSize(Len(pair.value)) + Len(pair.name) + Len(pair.value)

\* NameValue::toStream
WriteNameValue(pair) ==
  WriteLength(Len(pair.name)) \o WriteLength(Len(pair.value)) \o pair.name \o pair.value

\* readLengthFromStream: a read that fails leaves the byte read before
ReadLength(s) ==
  LET first == ReadField(s, 1)
      others == ReadBytes(first.stream, 3)
      digits == first.bytes \o others.bytes
  IN  IF Head(digits) <= LongestShort
      THEN [length |-> Head(digits), stream |-> first.stream]
      ELSE [length |-> Decode(digits \o [i \in 1..(4 - Len(digits)) |-> Last(digits)]) - LengthMark,
            stream |-> others.stream]

\* NameValue::fromStream: the lengths, and the pair, if it does not throw
ReadLengths(s) ==
  {[name |-> name.length, value |-> ReadLength(name.stream).length,
    stream |-> ReadLength(name.stream).stream] : name \in {ReadLength(s)}}
ReadPairs(lengths, maxSize) ==
  {[pair |-> [name |-> name.bytes, value |-> ReadField(name.stream, lengths.value).bytes],
    stream |-> ReadField(name.stream, lengths.value).stream] :
     name \in IF lengths.name + lengths.value > maxSize THEN {}
              ELSE {ReadField(lengths.stream, lengths.name)}}
ReadNameValues(s, maxSize) == UNION {ReadPairs(lengths, maxSize) : lengths \in ReadLengths(s)}

-----------------------------------------------------------------------------
(* Messages and records                                                     *)

PlacesIn(pairs, name) == {i \in DOMAIN pairs : pairs[i].name = name}

\* Mutant: an entry that exists is not looked for by its name
SetFirstPair(pairs, pair) ==
  IF pairs = <<>> THEN <<pair>> ELSE [pairs EXCEPT ![1].value = pair.value]

\* setParam and setRequestValue: a name keeps its first place
SetPair(pairs, pair) ==
  LET places == PlacesIn(pairs, pair.name)
  IN  IF places = {} THEN Append(pairs, pair)
      ELSE [pairs EXCEPT ![Min(places)].value = pair.value]

SetPairs(pairs) == FoldLeft(SetPair, <<>>, pairs)

\* MsgParams::paramList, and paramValue of a name that is there
ParamList(pairs) == [i \in DOMAIN pairs |-> pairs[i].name]
ParamValue(pairs, name) == pairs[Min(PlacesIn(pairs, name))].value

\* MsgGetValuesResult::requestList and requestValue
RequestList(pairs) == [i \in DOMAIN pairs |-> CHOOSE v \in ValueRequests : ValueName[v] = pairs[i].name]
RequestValue(pairs, request) == pairs[Min(PlacesIn(pairs, ValueName[request]))].value

\* toStream of each message
WriteBeginRequest(m) == Encode(m.role, 2) \o Encode(m.keep, 1) \o Zeros(5)
WriteEndRequest(m) == Encode(m.appStatus, 4) \o Encode(m.protocolStatus, 1) \o Zeros(3)
WriteUnknownType(m) == Encode(m.unknownType, 1) \o Zeros(7)
WritePairs(pairs) == FoldLeft(LAMBDA bytes, pair : bytes \o WriteNameValue(pair), <<>>, pairs)

WriteMessage(m) ==
  CASE m.type = "BeginRequest" -> WriteBeginRequest(m)
    [] m.type = "EndRequest" -> WriteEndRequest(m)
    [] m.type = "UnknownType" -> WriteUnknownType(m)
    [] m.type = "AbortRequest" -> <<>>
    [] m.type \in PairTypes -> WritePairs(m.pairs)
    [] m.type \in StreamTypes -> m.data

\* size() of each message
PairsSize(pairs) == FoldLeft(LAMBDA size, pair : size + NameValueSize(pair), 0, pairs)
FixedSize(type) == IF type = "AbortRequest" THEN 0 ELSE 8

MessageSize(m) ==
  IF m.type \in PairTypes THEN PairsSize(m.pairs)
  ELSE IF m.type \in StreamTypes THEN Len(m.data)
  ELSE FixedSize(m.type)

\* calcPaddingLength
CalcPadding(size) == IF size % 8 = 0 THEN 0 ELSE 8 - (size % 8)

TypeCode(type) == CHOOSE code \in DOMAIN RecordTypes : RecordTypes[code] = type

\* Record::write
WriteRecord(r) ==
  LET size == MessageSize(r.message)
  IN  <<ProtocolVersion, TypeCode(r.message.type)>> \o Encode(r.id, 2) \o Encode(size, 2)
        \o <<CalcPadding(size), 0>> \o WriteMessage(r.message) \o Zeros(CalcPadding(size))

\* Record::size
RecordSize(m) == HeaderSize + MessageSize(m) + CalcPadding(MessageSize(m))

RecordOf(id, m) == [id |-> id, message |-> m]
DataRecord(type, id, data) == RecordOf(id, [type |-> type, data |-> data])
PairsRecord(type, id, pairs) == RecordOf(id, [type |-> type, pairs |-> pairs])

\* operator==: compareMessages compares what the messages hold
SameRecord(lhs, rhs) ==
  lhs.id = rhs.id /\ lhs.message.type = rhs.message.type /\ lhs.message = rhs.message

\* Mutant: the rest behind the whole packets is always sent
MakeStreamWithRest(type, id, text) ==
  LET packets == Len(text) \div MaxDataSize
  IN  [i \in 1..packets |->
         DataRecord(type, id, SubSeq(text, (i - 1) * MaxDataSize + 1, i * MaxDataSize))]
      \o <<DataRecord(type, id, Dropped(text, packets * MaxDataSize)), DataRecord(type, id, <<>>)>>

\* makeStream: whole packets, the rest, and an empty record
MakeStream(type, id, text) ==
  LET packets == Len(text) \div MaxDataSize
      rest == Dropped(text, packets * MaxDataSize)
  IN  [i \in 1..packets |->
         DataRecord(type, id, SubSeq(text, (i - 1) * MaxDataSize + 1, i * MaxDataSize))]
      \o (IF rest = <<>> THEN <<>> ELSE <<DataRecord(type, id, rest)>>)
      \o <<DataRecord(type, id, <<>>)>>

-----------------------------------------------------------------------------
(* Exchanges: what the two sides of the library, and other web servers, send *)

NoTexts == [type \in StreamTypes |-> <<>>]

\* The records of a request, with its parameters in one or more Params records
RequestRecords(id, keep, lists, text) ==
  <<RecordOf(id, [type |-> "BeginRequest", role |-> 1, keep |-> keep])>>
    \o [i \in DOMAIN lists |-> PairsRecord("Params", id, lists[i])]
    \o MakeStream("StdIn", id, text)

\* doSendRequest: all parameters in one record, and an empty one if there are any
OwnRequest(id, keep, params, text) ==
  LET pairs == SetPairs(params)
  IN  [records |-> RequestRecords(id, keep,
                     <<pairs>> \o (IF params = <<>> THEN <<>> ELSE <<(<<>>)>>), text),
       params |-> params, values |-> <<>>,
       texts |-> [NoTexts EXCEPT !["StdIn"] = text]]

\* Another web server: cut parameter lists, and an abort at the end
ForeignRequest(id, lists, text) ==
  [records |-> RequestRecords(id, 0, lists \o <<(<<>>)>>, text)
                 \o <<RecordOf(id, [type |-> "AbortRequest"])>>,
   params |-> FoldLeft(LAMBDA pairs, list : pairs \o list, <<>>, lists), values |-> <<>>,
   texts |-> [NoTexts EXCEPT !["StdIn"] = text]]

\* sendResponse and endRequest
Answer(id, data, errorMsg) ==
  [records |-> MakeStream("StdOut", id, data) \o MakeStream("StdErr", id, errorMsg)
                 \o <<RecordOf(id, [type |-> "EndRequest", appStatus |-> 0, protocolStatus |-> 0])>>,
   params |-> <<>>, values |-> <<>>,
   texts |-> [NoTexts EXCEPT !["StdOut"] = data, !["StdErr"] = errorMsg]]

Records(records, values) ==
  [records |-> records, params |-> <<>>, values |-> values, texts |-> NoTexts]

\* initConnection
AskForValues ==
  Records(<<PairsRecord("GetValues", 0,
    SetPairs([i \in 1..2 |-> [name |-> ValueName[<<"MaxReqs", "MpxsConns">>[i]], value |-> <<>>]]))>>, <<>>)

\* onGetValues: a web server may ask twice for a value
ResultRecord(requests, values) ==
  PairsRecord("GetValuesResult", 0,
    SetPairs([i \in DOMAIN requests |->
                [name |-> ValueName[requests[i]], value |-> values[requests[i]]]]))

\* The handler of unknown types
UnknownTypeRecord(type) == RecordOf(0, [type |-> "UnknownType", unknownType |-> type])

Exchanges ==
  {OwnRequest(id, keep, params, text) :
     id \in RequestIds, keep \in {0, 1}, params \in OwnParams, text \in Texts}
  \cup {ForeignRequest(id, lists, text) : id \in RequestIds, lists \in ForeignParams, text \in Texts}
  \cup {Answer(id, data, errorMsg) : id \in RequestIds, data \in Texts, errorMsg \in Texts}
  \cup {AskForValues}
  \cup {Records(<<ResultRecord(<<a, b>>, values), UnknownTypeRecord(Base - 1)>>,
                [v \in {a, b} |-> values[v]]) :
          a \in ValueRequests, b \in ValueRequests, values \in [ValueRequests -> Values]}

AtHeader(inputSize) == [at |-> "header", inputSize |-> inputSize]
AtError == [at |-> "error", inputSize |-> 0]

Init ==
  /\ exchange \in Exchanges
  /\ written = 0
  /\ writer = NewWriter
  /\ wire = <<>>
  /\ stream = Open(<<>>)
  /\ reader = AtHeader(0)
  /\ received = <<>>

\* sendRecord.  The receiver reads all that has arrived before more is sent.
SendRecord ==
  /\ reader = AtHeader(0)
  /\ written < Len(exchange.records)
  /\ LET record == exchange.records[written + 1]
     IN  writer' = WriteBytes(ResetBuffer(writer, RecordSize(record.message)), WriteRecord(record))
  /\ wire' = wire \o writer'.buffer
  /\ written' = written + 1
  /\ UNCHANGED <<exchange, stream, reader, received>>

\* What was sent arrives in one chunk.  If its first record is cut, the beginning
\* is in leftover_ already (doRead).
Deliver ==
  /\ reader = AtHeader(0)
  /\ wire # <<>>
  /\ \E cut \in Cuts :
       /\ cut < HeaderSize + Decode(SubSeq(wire, 5, 6)) + wire[7]
       /\ stream' = Open(<<Taken(wire, cut), Dropped(wire, cut)>>)
  /\ reader' = AtHeader(Len(wire))
  /\ wire' = <<>>
  /\ UNCHANGED <<exchange, written, writer, received>>

-----------------------------------------------------------------------------
(* Record::read                                                             *)

Fail == reader' = AtError /\ UNCHANGED <<stream, received>>

\* UnsupportedVersion and InvalidRecordType; a record whose rest is missing waits
ReadHeader ==
  /\ reader.at = "header" /\ reader.inputSize >= HeaderSize
  /\ \E read \in {ReadField(stream, HeaderSize)} :
       LET h == read.bytes
           contentLength == Decode(SubSeq(h, 5, 6))
           left == reader.inputSize - (HeaderSize + contentLength + h[7])
       IN  \/ (h[1] # ProtocolVersion \/ h[2] \notin DOMAIN RecordTypes) /\ Fail
           \/ /\ h[1] = ProtocolVersion /\ h[2] \in DOMAIN RecordTypes /\ left >= 0
              /\ reader' = [at |-> "message", inputSize |-> left, type |-> RecordTypes[h[2]],
                            id |-> Decode(SubSeq(h, 3, 4)), contentLength |-> contentLength,
                            padding |-> h[7], pairs |-> <<>>, readBytes |-> 0]
              /\ stream' = read.stream
              /\ UNCHANGED received
  /\ UNCHANGED sender

\* initMessage
AtMessage(types) == reader.at = "message" /\ reader.type \in types

\* The messages fromStream can make of the bytes it reads: none when it throws.
ReadData(type, bytes) == {[type |-> type, data |-> bytes]}

ReadBeginRequest(bytes) ==
  {m \in {[type |-> "BeginRequest", role |-> Decode(SubSeq(bytes, 1, 2)),
           keep |-> bytes[3] % 2]} : m.role \in 1..3}
ReadEndRequest(bytes) ==
  {m \in {[type |-> "EndRequest", appStatus |-> Decode(SubSeq(bytes, 1, 4)),
           protocolStatus |-> bytes[5]]} : m.protocolStatus \in 0..3}
ReadUnknownType(bytes) == {[type |-> "UnknownType", unknownType |-> bytes[1]]}

\* They read their fields whatever the content length is
ReadFixed(type, bytes) ==
  CASE type = "BeginRequest" -> ReadBeginRequest(bytes)
    [] type = "EndRequest" -> ReadEndRequest(bytes)
    [] type = "UnknownType" -> ReadUnknownType(bytes)
    [] type = "AbortRequest" -> {[type |-> type]}

ReadMessage(messages, size) ==
  /\ \/ messages = {} /\ Fail
     \/ \E m \in messages :
          /\ received' = Append(received, RecordOf(reader.id, m))
          /\ stream' = Skip(Skip(stream, size), reader.padding)
          /\ reader' = AtHeader(reader.inputSize)
  /\ UNCHANGED sender

ReadDataRecord ==
  /\ AtMessage(StreamTypes)
  /\ LET size == reader.contentLength
     IN  ReadMessage(ReadData(reader.type, ReadField(stream, size).bytes), size)

ReadFixedRecord ==
  /\ AtMessage({"BeginRequest", "EndRequest", "UnknownType", "AbortRequest"})
  /\ LET size == FixedSize(reader.type)
     IN  ReadMessage(ReadFixed(reader.type, ReadField(stream, size).bytes), size)

\* valueRequestFromString throws for other names
IsKnown(type, pair) == type = "Params" \/ \E v \in ValueRequests : ValueName[v] = pair.name

\* MsgParams, MsgGetValues and MsgGetValuesResult read pair after pair
ReadNameValue ==
  /\ AtMessage(PairTypes) /\ reader.readBytes < reader.contentLength
  /\ LET read == {r \in ReadNameValues(stream, reader.contentLength) : IsKnown(reader.type, r.pair)}
     IN  \/ read = {} /\ Fail
         \/ \E r \in read :
              /\ reader' = [reader EXCEPT !.readBytes = @ + NameValueSize(r.pair),
                                          !.pairs = Append(@, r.pair)]
              /\ stream' = r.stream
              /\ UNCHANGED received
  /\ UNCHANGED sender

\* Mutant: the padding is left on the stream
LeavePadding == stream' = stream

SkipPadding == stream' = Skip(stream, reader.padding)

EndPairs ==
  /\ AtMessage(PairTypes) /\ reader.readBytes >= reader.contentLength
  /\ \/ /\ reader.readBytes = reader.contentLength
        /\ received' = Append(received, PairsRecord(reader.type, reader.id, reader.pairs))
        /\ SkipPadding
        /\ reader' = AtHeader(reader.inputSize)
     \/ reader.readBytes > reader.contentLength /\ Fail
  /\ UNCHANGED sender

Next ==
  \/ SendRecord
  \/ Deliver
  \/ ReadHeader
  \/ ReadDataRecord
  \/ ReadFixedRecord
  \/ ReadNameValue
  \/ EndPairs

Spec == Init /\ [][Next]_vars

\* Each record is sent, and read when it has arrived
FairSpec == Spec /\ WF_vars(Next)

-----------------------------------------------------------------------------
(* RequestData and Request                                                  *)

\* addMessage: every name of the message, with the first of its values there
AddMessage(params, pairs) ==
  params \o [i \in DOMAIN pairs |->
               [name |-> ParamList(pairs)[i], value |-> ParamValue(pairs, ParamList(pairs)[i])]]

OfType(type) == SelectSeq(received, LAMBDA r : r.message.type = type)
ReceivedParams == FoldLeft(LAMBDA params, r : AddMessage(params, r.message.pairs), <<>>, OfType("Params"))
ReceivedData(type) == FoldLeft(LAMBDA text, r : text \o r.message.data, <<>>, OfType(type))

\* operator< of std::string
Precedes(a, b) ==
  \E i \in DOMAIN b :
    /\ Len(a) >= i - 1 /\ SubSeq(a, 1, i - 1) = SubSeq(b, 1, i - 1)
    /\ Len(a) < i \/ a[i] < b[i]

\* Mutant: the list is not sorted
LeaveUnsorted(params) == {params}

\* sortPairList: std::unique removes neighbours only; std::sort leaves equal names in any order
SortPairList(params) ==
  LET kept == SelectSeq([i \in DOMAIN params |-> i],
                        LAMBDA i : i = 1 \/ params[i].name # params[i - 1].name)
      orders == {f \in Bijection(DOMAIN kept, DOMAIN kept) :
                   \A i, j \in DOMAIN kept :
                     i < j => ~Precedes(params[kept[f[j]]].name, params[kept[f[i]]].name)}
  IN  {[i \in DOMAIN kept |-> params[kept[f[i]]]] : f \in orders}

\* Request::paramList
NamesOf(list) == [i \in DOMAIN list |-> list[i].name]

\* std::equal_range and std::binary_search: where the name is, if it is there
PlacesOf(list, name) ==
  LET first == Cardinality({i \in DOMAIN list : Precedes(list[i].name, name)}) + 1
  IN  {i \in {first} : i \in DOMAIN list /\ list[i].name = name}

\* Request::hasParam, Request::param
HasParam(list, name) == PlacesOf(list, name) # {}
Param(list, name) ==
  IF HasParam(list, name) THEN list[CHOOSE i \in PlacesOf(list, name) : TRUE].value ELSE <<>>

-----------------------------------------------------------------------------
(* Properties                                                               *)

PairType == [name : Seq(Byte), value : Seq(Byte)]

\* The streams hold bytes, the sender's buffer was never too small, and a reader
\* within a record has read the pairs of one with a 16 bit length
\* (Encoder, DataWriterBuffer, Record::read).
TypeOK ==
  /\ written \in 0..Len(exchange.records) /\ wire \in Seq(Byte)
  /\ writer.buffer \in Seq(Byte) /\ ~writer.bad
  /\ stream.get \in Seq(Byte) /\ stream.bufferIndex \in 0..Len(stream.buffers)
  /\ reader.inputSize \in Nat
  /\ reader.at = "message" =>
       reader \in [at : {"message"}, inputSize : Nat, type : ToSet(RecordTypes),
                   id : 0..(ContentLimit - 1), contentLength : 0..(ContentLimit - 1),
                   padding : Byte, readBytes : Nat, pairs : Seq(PairType)]
  /\ \A i \in DOMAIN received : received[i].id \in 0..(ContentLimit - 1)

\* The number of records at the beginning whose content length fits 16 bits
Fitting ==
  LET tooLong == {i \in DOMAIN exchange.records :
                    MessageSize(exchange.records[i].message) >= ContentLimit}
  IN  IF tooLong = {} THEN Len(exchange.records) ELSE Min(tooLong) - 1

AllFit == Fitting = Len(exchange.records)

\* Up to the first record that is too long, what was written is what is read:
\* in order, with every field, name and value as it was, however the boundaries
\* of lengths, packets and padding fall and wherever a record is cut in two buffers
\* (Record::write against Record::read, MultiPartDataReaderBuffer).
MessagesArriveUnchanged ==
  /\ \A i \in DOMAIN received : i <= Fitting => SameRecord(received[i], exchange.records[i])
  /\ reader = AtError => Len(received) >= Fitting /\ Fitting < Len(exchange.records)
  /\ AllFit => Len(received) <= Fitting

\* An empty record tells the receiver that a stream is complete: it is read once,
\* after all of the stream's data (makeStream).
TerminatorEndsData ==
  AllFit =>
    \A type \in StreamTypes : \A i \in DOMAIN OfType(type) :
      OfType(type)[i].message.data = <<>> =>
        i = Len(OfType(type)) /\ ReceivedData(type) = exchange.texts[type]

SentNames == {exchange.params[i].name : i \in DOMAIN exchange.params}
SentValues(name) ==
  {exchange.params[i].value : i \in {j \in DOMAIN exchange.params : exchange.params[j].name = name}}
OtherNames == UNION {{p.name \o <<0>>, Tail(p.name)} : p \in ToSet(exchange.params)} \ SentNames

RequestIsReceived ==
  /\ AllFit
  /\ \E i \in DOMAIN received : received[i].message = [type |-> "StdIn", data |-> <<>>]

\* A request made of the received records has the parameters that were sent, in
\* whatever order, repeated or cut into records they came, and no others: paramList
\* names them, and param returns a value that was sent for the name (request.h:24).
RequestFindsItsParams ==
  RequestIsReceived =>
    \A list \in SortPairList(ReceivedParams) :
      /\ ToSet(NamesOf(list)) = SentNames
      /\ \A name \in SentNames : HasParam(list, name) /\ Param(list, name) \in SentValues(name)
      /\ \A name \in OtherNames : ~HasParam(list, name) /\ Param(list, name) = <<>>

\* What the loop of RequesterImpl::onGetValuesResult takes over
TakenOver(pairs) == [v \in ToSet(RequestList(pairs)) |-> RequestValue(pairs, v)]

\* A server's answer to GetValues holds each value that was asked for, also if it
\* was asked for twice, and no other: what the requester takes over is what the
\* server has (setRequestValue, valueRequestFromString, requestValue).
ResultTellsValues ==
  \A i \in DOMAIN received :
    received[i].message.type = "GetValuesResult" =>
      TakenOver(received[i].message.pairs) = exchange.values

\* Every record before one that is too long is read in the end.
EverythingArrives == <>(Len(received) >= Fitting)
=============================================================================
