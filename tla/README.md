# fcgi_responder in TLA+

fcgi_responder implements both ends of a FastCGI connection: a *Responder* receives requests from a web
server, passes them to an application and sends its answers, a *Requester* makes requests. Both are
single-threaded and do no I/O: the application feeds them the bytes it receives (`receiveData`) and
implements the callbacks that send bytes (`sendData`) and close the connection (`disconnect`). The hard
part is what happens between the calls: requests are multiplexed, ids are used again, answers come late,
records come in pieces, callbacks throw or call the library again.

## 1. The system

| Component | State | Operations | Talks to |
|---|---|---|---|
| `ResponderImpl` (`src/responderimpl.*`) | `cfg_`, `requestRegistry_`, `responseSender_` | `onBeginRequest`, `onParams`, `onStdIn`, `endRequest` (AbortRequest), `onGetValues`, unknown types, `sendResponse`, setters | reader, `RequestData`, `Response`; callbacks `sendData`, `disconnect`, `processRequest` |
| `RequestData` (`src/requestdata.*`) | parameters, StdIn, `keepConnection_`, `usedInRequest_` | `addMessage`, `makeRequest` | owned by the registry |
| `Response` (`src/response.cpp`) | data, `sender_` | `send`, `isValid` | holds a `weak_ptr` to `responseSender_` |
| `RecordReader` (`src/recordreader.*`) | `leftover_`, `readRecordsSize_`, `dataStream_` | `read` (`doRead`, `findRecords`, `skipBrokenRecord`, `clear`) | `Record::read`; calls the record handler and the handler of unknown types |
| `RequesterImpl` (`src/requesterimpl.*`) | `connectionState_`, `cfg_`, `requestIdPool_`, `responseMap_`, the two connection callbacks, the cancel handler of the first request | `sendRequest`, `onGetValuesResult`, `onStdOut`, `onStdErr`, `onEndRequest`, `onUnknownType`, `doEndRequest` | reader, `RequestHandle`; callbacks `sendData`, `disconnect`, response handlers |
| `RequestHandle` (`src/requester.cpp`) | a `weak_ptr` to a cancel handler | `cancelRequest` | `RequesterImpl::doEndRequest` |
| `Record`, messages, `NameValue`, `Encoder`, `Decoder`, `makeStream` | none | pure conversions between records and bytes | reader, `sendRecord` |
| `DataReaderStream`, `DataWriterStream` | two buffers and a position; a buffer of fixed size | `underflow`, `resetBuffer` | `Decoder`, `Encoder` |
| `Request` (`src/request.cpp`) | sorted parameters | `param`, `hasParam`, `paramList` | the application |
| `Responder`, `Requester` | the impl object | forward every call | the application |

What makes each of them correct:

* **Responder.** Each accepted request reaches the application once, with its own content; each
  BeginRequest is ended at most once on the wire, after a whole answer or none, with the disconnect it
  asked for; the limits hold; an exception out of a callback loses no open request.
* **Reader.** The records come out in order, once each, however the transport cuts the stream; errors
  cost no more than the code intends.
* **Requester.** Each handler is called once, with the whole response to its own request, and exceptions cost no more than
  the code gives up; every id is available or in use; cancelling a request affects that request only.
* **Both on one connection.** A requester that keeps to the limits it was told is never refused, each
  handler gets what the application answered to its own request, and every request is answered while the
  connection lasts, however records of the two sides cross.

The hazards behind these properties are in `PROJECT.json`, each at its line.

## 2. The modules

| Module | Models | Used by |
|---|---|---|
| `StreamLayout` | records on a byte stream: positions, sizes, what `Record::read` makes of each; where the stream may be cut | `RecordStream`, `RecordReader` |
| `RecordStream` | abstract specification: complete good records are delivered in order | refined by `RecordReader` |
| `RecordReader` | `RecordReader`, one step per iteration of its loops | `MCRecordReader`, `RecordReaderProofs` |
| `RequestLifecycle` | abstract specification: what happens to an id and the request that has it | refined by `ResponderImpl` |
| `ResponderImpl` | `ResponderImpl`, `RequestData`, `Response` | `MCResponderImpl`, the responder's proofs, `Session` |
| `RequesterImpl` | `RequesterImpl`, `RequestHandle`, and the FastCGI server as environment | `MCRequesterImpl`, the requester's proofs, `Session` |
| `DataStreams` | `DataReaderStream`, `DataWriterStream` | `MessageCodec` |
| `MessageCodec` | `Encoder`, `Decoder`, `NameValue`, the `Msg*` classes, `makeStream`, `Record::write` and `Record::read`, `Request` | `MCMessageCodec` |
| `Session` | a `Requester` and a `Responder` joined by a socket; composes `RequesterImpl` and `ResponderImpl` and refines the server of `RequesterImpl` | `MCSession` |

The proofs build on each other (each module EXTENDS the one it is indented under):

| Module | Proves |
|---|---|
| `RecordReaderProofs` | the reader: completeness and refinement under `GoodConditions`, order and the cost of errors without conditions |
| `ResponderImplProofs` | types, limits, one call of `processRequest`, valid Responses |
| – `ResponderWireProofs` | what goes to the web server, which requests stay open |
| – `ResponderRequestProofs` | the refinement of `RequestLifecycle`, the content handed to `processRequest` |
| `RequesterImplProofs` | types of the requester and its server |
| – `RequesterOrderProofs` | ids, handlers and handles |
| – – `RequesterAnswersProofs` | responses, and when an id is free |
| `SessionProofs` | both on one connection: refinement, no refusals, answers end to end; instantiates the proofs of both sides |

### ResponderImpl

The two sides of the responder are `OnRecordRead` (one action per handler, chosen by the record) and
`ApplicationStep` (the calls the application may make at any time between them). Because the library
is single-threaded a handler is one action. It is left half way only by an exception out of `sendData`
or `disconnect`: `Emit(events)` is the handler that makes all its calls, `EmitThrows(events)` the one
that makes some of them and then unwinds; what follows the calls in the code, such as
`deleteRequest` at the end of `endRequest`, is not done then. Sending a Response from inside
`processRequest` is `OnStdIn` followed by `SendResponse`: `processRequest` is the last thing its handler
does. The order of the hash table is never seen.

`cfg` and `requestRegistry` are the members of the same name. `received`, `handed` and `wire` are
histories: records received, requests passed to `processRequest` with the state of their Response, and
calls of `sendData` and `disconnect`. They carry two ghosts: `begin`, the position in `received` of the
BeginRequest, identifies a request although its id is used again, and `answer` tells which Response a
StdOut or StdErr record belongs to. Parameters and StdIn are sequences of opaque values; the names in one
Params record are distinct.

Five constants say what the environment may do: `AbortsProcessing`, `ReconfiguresWhileBusy`,
`DropsResponses`, `CopiesResponses`, `DestroysResponder`. A Response of which the application keeps a copy stays
valid when it is sent (`AfterSend`): each copy has a `sender_` of its own. The passing runs and the theorems name the ones they exclude,
the runs that find a violation turn them on.

`RequestLifecycle` says the same without records, streams or Responses: an id is free or stands for one
request, a request is handed out at most once and while it has its id, and gives the id back in the step
that ends it. An end may leave the id in place: that is `endRequest` left by an exception after EndRequest went
out. `LifecycleSpec` is the refinement, its liveness part included: what was handed out is ended or the
Responder is gone.

### RecordReader

A byte is its position on the stream, so `leftover_`, which holds the bytes in front of the current
chunk, is a length, and `dataStream_` a position (`cursor`). `Read(c)` passes the bytes up to `c`;
each further step is one call of `Record::fromStream` and what the loops of `findRecords` and `doRead` make of
its result: `DeliverRecord`, `FindBrokenRecord`, `FindInvalidType`, `FindBadVersion`, or not enough
bytes (`KeepLeftover`). `doRead` opens the data stream at `data + readRecordsSize_`, which after an
error counts bytes of `leftover_` that are no longer there. Two actions model what then happens: `Misread`,
where bytes that are no header are taken for one and may read as anything, and `Overrun`, where
`dataSize - readRecordsSize_` has wrapped around and the bytes behind the chunk are read until they make an
error or the process dies. `stale` counts the bytes that an exception kept in `leftover_` when it left `read`
before the `clear`. If they hold the version and the type, the next header is the same invalid type
(`FindInvalidTypeAgain`); if only the version, whatever byte arrives next is taken for the type (`Misread`).
The error-info handler is assumed not to throw.

### RequesterImpl

What the requester sends reaches the server at once; what the server sends waits in `incoming`, so that
everything the requester does can overtake it. A response handler may call the requester again while
`doEndRequest` waits for it, so `doEndRequest` is two steps, `BeginEndRequest` and `FinishEndRequest`,
with a stack (`ending`) of calls between them; `FinishEndRequest` reads `keepConnection` of an entry that
the handler may have erased, and then takes either value. If the handler or `disconnect` throws, the second step is
`LeaveEndRequest`: entry and id stay, the response is gone. Exceptions end in `RecordReader::doRead`, which gives up the rest of the chunk:
`LosesRecords` takes any number of the records that wait off the queue (whatever has arrived with the one that failed) and
notes their pieces in `failures.lost`; the chunk is taken to end with a whole record. An exception out of `cancelRequest` goes to the
application and costs no records. `onConnectionSuccess_` and `onConnectionFail_`
are `pendingRequest`, the request they captured. `connectionOpeningRequestCancelHandler_` is
`cancelHandler`: the request it was made for and what a call of it does, which `RedirectHandle` changes when the
connection is open. `failures.died` stands for the end of the process in undefined behaviour
(a null or empty map iterator dereferenced), after which nothing happens.

The server's side (`ServerStep`) is external: it answers GetValues, serves each request it accepted and
ends it on AbortRequest; it ignores a BeginRequest for an id that it serves, as `ResponderImpl` does.
Assumptions about the application: it cancels a request at most once, the error-info handler does not throw, and neither a response handler nor
`sendData` calls `receiveData`. `Cancels` gives the phases in which it cancels (`opening`, `open`,
`ending`: from inside the request's own handler, `finished`). `MaxFaults` bounds the unusual events together: exceptions
out of `sendData`, response handlers and `disconnect`, UnknownType and GetValuesResult records nobody asked for, and cancellations in the phases `opening`
and `finished`. After some of them the requester keeps none of its promises, and no document says it should;
`Orderly` names these (a GetValuesResult that was not asked for, a cancellation before the connection is open, a stale
handle), and the promises about handlers and ids are made for behaviours without them. UnknownType is no excuse. An exception
excuses what it takes away and no more: one further call of the handler for each time `doEndRequest` was left
(`failures.left`), and the pieces of a response that were given up (`failures.lost`).

### MessageCodec

The other modules treat a record as a value; this one is about its bytes. An exchange (`Exchanges`: a request of
`doSendRequest` or of another web server, an answer of `sendResponse`, the question for settings and its
answer) is written record by record (`SendRecord`: the writer's buffer has the size `Record::size` computes, and
what does not fit is lost) and arrives as one chunk (`Deliver`), whose first record may be cut: its beginning is then in the first
buffer of the reader's stream, as `leftover_` is. `ReadHeader`, `ReadFixedRecord`, `ReadDataRecord`, and `ReadNameValue` and
`EndPairs` for the three messages that are lists of name-value pairs, are the steps of `Record::read`. `Read...` operators return
the set of what can be read: empty when the code throws.
Reading stops at the first error, since what follows it is the subject of `RecordReader`. `ReceivedParams` to
`Param` are `RequestData` and `Request`; `SortPairList` is a set, because `std::sort` may leave equal names in
any order.

A byte has `Base` values. All boundaries of the format follow from it: with 16 instead of 256, lengths up to 7 take one
byte, a content length is less than 256 and a data record holds 255 bytes, so every boundary is reached with short
texts. Values of the protocol (versions, types, roles, the header's size) are those of the code.

`DataStreams` is what lies under `Encoder` and `Decoder`: `Underflow` moves to the next buffer that is not empty, a read past the last
one sets failbit and makes every later read do nothing, a write past the end sets badbit. Neither throws: the
exception mask that `RecordReader`'s constructor sets is overwritten when `doRead` assigns a new stream.

### Session

`Session` instantiates `RequesterImpl` and `ResponderImpl`, and every step is a step of one of them, or `Cross`: the next
thing the responder wrote reaches the requester's side of the socket. What the requester wrote is `sent`, of
which the responder has read `received`; what the responder wrote is `wire`, of which `taken` have crossed, and the requester's
`incoming` holds those it has not read. Both queues have any length. The
socket is that of the Qt examples: `sendData` writes to it, `onReadyRead` passes on what has arrived,
`disconnect` closes it; what is written to a closed socket is lost, and records that arrived in the chunk
with the one that made the responder disconnect are still processed.

The variables of `RequesterImpl`'s server are not variables here but the refinement mapping: `Serving` is the request that was
written under an id and whose EndRequest has not crossed, `Output` the pieces that crossed, `GetValuesOwed` the questions without an answer.
Neither side's callbacks throw in `Session`.
`RequesterSpec` says that every behaviour of the session is one of `RequesterImpl` with its server: what is checked of `RequesterImpl` with a free
server is then true of it with a real Responder.

## 3. The runs

Passing runs:

| Run | Shows | Bounds |
|---|---|---|
| `ResponderRequests` | content and answers stay with their request; limits, refusals, EndRequest once, whole answers, disconnects | 2 ids, 2 parameter lists, StdIn empty or not, both keep flags, the limit lowered from 10 to 1 and multiplexing switched off at any time when no request is open, 5 records, streams of up to 1 record and the terminator |
| `ResponderExceptions` | no request is lost or left unanswerable, EndRequest closes a request once and for good; refinement of `RequestLifecycle`, liveness included | 2 ids, both roles, all record types, aborts at any time, copied Responses, stale Responses sent once, the Responder's end, 4 records, 1 exception at any call |
| `ReaderStream` | refinement of `RecordStream` with fairness, broken records are skipped | 6 records of 8 to 16 bytes, 2 of them broken, every cut but inside the good record between the two |
| `ReaderMisread` | nothing is delivered twice or out of order, whatever is misread; an error costs no more than the rest of its chunk | 5 records with both kinds of fatal errors, every cut, throwing handlers, chunks read behind one or more stale bytes |
| `RequesterAnswers` | responses are own, in order, and whole but for what exceptions took away; free ids; every request answered unless there was an exception | 2 requests, 2 pieces for each, limits 1 and 2, both modes, both keep flags, UnknownType, 1 fault of any kind |
| `RequesterCancels` | one call of each handler under cancellation and faults, and one more for an exception out of `doEndRequest`; ids neither lost nor used twice | 3 requests, 4 ids, limits 0 and 2, both keep flags, cancellation in every phase but `ending`, 1 fault of any kind, GetValuesResult of every kind, handlers that send requests |
| `CodecExchanges` | what is written is read, whatever lengths it has; complete streams; parameters are found; values that were asked for arrive | names of 1, 7, 8 bytes, values of 0, 7, 8 and more, texts of 0, 1, 255, 256, 510 bytes, parameters repeated, unsorted, in two records, and too long for a record, values asked for twice; first records cut nowhere, in the header, behind it and in a pair's lengths |
| `SessionAnswers` | refinement of `RequesterImpl` by a real Responder; no refusals, own answers end to end, liveness | 2 requests, limits 10, 1 and 2, multiplexing on and off, both keep flags, streams of up to 1 record, queues of any length |

Why the bounds are enough: the interesting cases of the responder need two requests that overlap, an id
that is used a second time, and a limit that is reached, which 4 or 5 records and 2 ids allow; those of the
reader need a record that is cut in its header and in its content, a chunk with the end of one record and the
start of the next, and a record in three or more chunks, which every run with cuts anywhere has; those of the
requester need a second request that takes the first one's id while records for it are on their way. Four ids
stand for 2^16 in the requester's runs, `SessionAnswers` has the 11 ids up to the default limit. In
`RequesterCancels` the third request matters: with two, a stale handle that ends the wrong entry goes unnoticed. `SessionAnswers` needs two requests,
so that one takes the id of the other while its records are on their way, and one more id than the limit. The sizes in
`CodecExchanges` lie on both sides of every boundary: one byte or four for a length, a full data record, two of them, padding of
0 and more.
All runs end when the bounds are used up, so deadlock is not checked.

Runs that find a violation of what a header or a test says (quoted in `PROJECT.json`):

| Run | What the code does |
|---|---|
| `ResponderLoweredLimit` | the limit is compared with `==`: after it was lowered, any number of requests is accepted |
| `ResponderDroppedResponse` | `Response` has no destructor: a dropped Response leaves its request open |
| `ReaderSplitBeforeBroken` | a broken record behind the rest of a cut one makes the reader lose its place |
| `RequesterStaleHandle` | the first request's handle cancels a later request (`requester.h:38`); `CancelledByOwnHandle` is the same promise for `Orderly` behaviours, where it holds |

What else the models do that a header does not say, without a run of its own:

* `Response::send` that is left by an exception sends the streams again at the next call (`response.h:36`:
  "during the first call only"), and a Response stays valid when its request was aborted (`response.h:45`).
  `ResponderExceptions` explores both; `ValidResponseCanBeSent` is therefore checked and proved only for a web
  server that does not abort what the application holds, and for an application that does not copy Responses (`response.h:10`: "Move-only", but
  the class can be copied, and each copy sends).
* The requester's reader has no handler for unknown types: `CatchInvalidType` with `HasInvalidTypeHandler = FALSE`
  always leaves `read` with `std::bad_function_call` (`requester.h:47`: errors "are handled internally").
* A request that is cancelled while the connection opens is sent when GetValuesResult arrives, and its handler is called
  twice; if another request was made in between, that one is sent twice. A GetValuesResult nobody asked for does the same to the last request
  that opened the connection. `Orderly` exempts both.
* A response handler or a `disconnect` that throws out of `doEndRequest` leaves the request open with its handler called: a
  later cancellation calls the handler again, and an EndRequest for the id would call it with an empty response. `RequesterCancels` and
  `RequesterAnswers` explore it.
* An exception costs the rest of the chunk, also for other requests: a `sendData` that throws in `onUnknownType` takes StdOut records
  of another request away, whose handler is then given a response with a gap that counts as successful. `RequesterAnswers`
  explores it, and `ResponseIsOwnAndWhole` exempts just these records.
* An EndRequest goes out for an id that is not open when a Response is sent after its request was aborted: `endRequest` sends
  first and looks the request up afterwards. `EndRequestIsFinal` is about the EndRequests that close a request, and
  `EndsOpenRequestOnce` about web servers that do not abort what the application holds.
* Switching multiplexing off while several requests are open lets them go on; the runs change it while none is open.
* A request that is cancelled from inside its own handler has the handler called again. The model has
  the step (phase `ending`), the runs do not take it.
* Parameters of more than 65535 bytes are sent in one record whose content length is cut to 16 bits. `CodecExchanges` has
  two such lists: one is an error for the receiver, of the other one it takes the first parameter for all of them and reads
  the rest as a header. The properties promise what comes before such a record.
* The id of a cancelled request is available while the server still answers under it:
  `AvailableIdsAreFree` and `ResponseIsOwnAndWhole` are checked without cancellation.

### Fairness

`ResponderImpl!Fairness`: the application sends each Response it holds, and tries again after an
exception; exceptions are bounded, so this says that `sendData` does not fail for ever. Nothing is assumed
of the web server. `RecordReader!FairSpec`: a call of `read` runs to its end; no chunk has to arrive.
`MessageCodec!FairSpec`: records are sent, and read when they have arrived.
`Session!Fairness`: what was written to an open socket crosses and is read, handlers return, the application answers what it was
handed. The requester's sending is not fair: no request has to be made.
`RequesterImpl!Fairness`: the application receives what has arrived, handlers return, the server answers
GetValues and ends what it serves. Without these no library of callbacks does anything.

## 4. The proofs

All theorems hold for every value of the constants that the named assumptions of the modules allow: any sets of
ids and contents, any limits, numbers of records, requests, exceptions and faults. An invariant that a run
checks is seldom inductive; what was added to each is named below.

### The reader (`RecordReaderProofs`)

Without any condition, on every stream, for every way of cutting it, with fatal errors, handlers that throw, chunks read behind stale bytes of
`leftover_`, and misread bytes:

* `OrderTheorem`: nothing is delivered twice or out of order. `ForwardInv` says why: the data stream, and between calls the
  beginning of `leftover_`, is never in front of the last byte delivered. That needs the exact relation of `cursor`, `dataSize`,
  `readRecordsSize` and `leftover` also while the reader has lost its place, and what an exception may leave in
  `leftover_` (`stale`).
* `ChunkLossTheorem`: an error costs no more than the rest of its chunk. `SyncedInv` follows a chunk that begins with a record:
  the reader is at a record's first byte, and the good ones of the chunk before it were delivered, so that nothing is misread there.

Under `GoodConditions` (no unknown types or versions, no good record that comes before a broken one is cut, for which
`ReaderSplitBeforeBroken` shows the reason, and handlers that do not throw; `ReaderStream` is an instance) the inductive invariant `IInv`
says that between calls `leftover_` holds exactly the bytes of the unfinished record, that inside a call the stream is
at the first byte of the record after the last one read and the bytes left to read end with the
chunk, and that all good records before that point were delivered, in order. `ChunkingIsInvisible` alone is
not inductive: it says nothing during a call. From `IInv` follow `ChunkingTheorem`, `InStepTheorem`, `ReaderTypes`, and
`ReaderImplementsStream`: each step is one of `RecordStream` or leaves it unchanged.

### The responder

* `ResponderTypes`: type correctness, one lemma per handler.
* `OnceTheorem`: `processRequest` once per BeginRequest. `OnceInv` strengthens it: the `begin` of an entry
  and of a handed request are positions of records received before, two entries have different ones, and an
  entry that was not used in a request has no handed request.
* `LimitTheorem`, `MultiplexingTheorem`: for a `PoliteApplication`, which changes the configuration only
  while no request is open and to limits of at least 0; `ResponderLoweredLimit` shows what happens otherwise. Both
  rest on the cardinality of the set of registered ids.
* `ValidResponseTheorem`, `AnswersTheorem`: unless the web server aborts what the application already
  holds or the application copies Responses, a valid Response stands for its open request, and no answer goes out under an id that stands for
  another one. Without the conditions both fail: the
  Response, or its copy, is still valid when its request is gone.
* `BeginInvariant`, the base of what follows: an entry of the registry, a handed request and an EndRequest on the wire name
  the BeginRequest that began them, with its id and keep-connection flag.
* `FinalTheorem`: with any aborts, copied and stale Responses, no EndRequest for a request is sent twice, and none while its request
  stays open; `EndInv` says that an open request has no EndRequest yet. A stale Response may send one that closes nothing.
* `EndsOnceTheorem`: there is none of these, if the web server does not abort what the application holds and Responses are
  not copied (`ClaimedInv`, with `ValidResponseCanBeSent`). `KeepTheorem` and `WholeAnswerTheorem` look at the
  block of events one `sendResponse` or `endRequest` adds: it goes out as one piece, so that an EndRequest always has its
  streams in front of it and its disconnect behind it. All four hold as long as no callback has thrown
  (`exceptions = 0`, a condition on the state): a `sendResponse` that was left by an exception has its request still open, and the next call
  sends again what had gone out.
* `LeavesTheorem`, `AnswerableTheorem` (for an application that drops no Response): with exceptions
  anywhere, no request leaves the registry without its EndRequest, and none is left that no Response can end.
* `ContentTheorem`: `processRequest` gets what was received for the request, no more and no less. The definition recurs over
  the records received. The theorem modules' induction rules take an operator and are out of the provers' reach; the
  proof has the induction as "a set of numbers that is not empty has a least element" (`LeastNumber`, from the well-foundedness
  of < on Nat), applied to the numbers where the recursive function differs from the one required.
* `LifecycleTheorem`: every step of `ResponderImpl` is one step of `RequestLifecycle` or none, under the refinement
  mapping of `ResponderImpl`, with all of the environment's behaviours.

### The requester

* `RequesterTypes`: without conditions; `TypeOK` is inductive as it stands.
* `HandlerTheorem`, `ForgottenTheorem`, `CancelTheorem`, `IdsTheorem`: while the use is `Orderly` each handler is called once at
  most and once more for each exception out of its `doEndRequest`, each request that was sent is kept until then, a handler hears of its own cancellation only, and each id is available or in use. The
  inductive invariant is `OrderInv`: the server is asked once per connection (`AskedOnce`), no request has an id before it is open
  (`OpensOnce`), each id has one context and each request one id (`IdsPart`, `ContextsPart`), the stack of `doEndRequest` calls
  refers to different ids whose contexts are still there (`EndingPart`), and the first request's handle ends that request (`HandlePart`).
  Their assumption `"ending" \notin Cancels` excludes a request that is cancelled from inside its own handler: `doEndRequest` then finds the
  context still there and calls the handler again.
* `ResponseTheorem`, `FreeIdsTheorem`: without cancellation (`Cancels = {}`) and without GetValuesResults nobody asked for
  (`~Volunteers`). `AnswersInv` splits each response into what its context holds, what is on its way and what the server has
  yet to send: pieces are the request's own, in order, each after those in the context, none missing but those in `failures.lost`, and EndRequest is the last
  record for its id. Exceptions out of `sendData`, handlers and `disconnect`, UnknownType and multiplexed ids that are used again are covered: an
  entry whose handler was called already and whose EndRequest was given up may wait for ever, and `Awaits` leaves it aside. Cancelling is not:
  the id of a cancelled open request returns to the pool while the server still answers under it, and the next request gets these
  records. A volunteered result can send the first request twice. `OrderlyTheorem` shows that under these two conditions
  every behaviour is `Orderly`.

### Both on one connection (`SessionProofs`)

The proof instantiates `ResponderWireProofs` and `RequesterAnswersProofs` for the two sides, as `Session` does their models, so that
the invariants of both (`RP!ResponderInv`, `QP!RequesterInv`) and all lemmas about their steps are at hand: it only has to
show that each step of the session is one of theirs. The limits, ids, requests and pieces are arbitrary, the queues have any length;
assumed is what `Session` declares, above all that a limit is at least 1 (`LimitsAssumption`): a requester that is told 0 writes through
a null pointer.

Neither invariant knows the other side. `Glue` is what ties them together:

* `OpeningPart`, `LimitsPart`: the connection is opened by one question and one answer, the answer holds the limits that the
  responder keeps to, and the requester takes them over.
* `SentPart`: after the question the requester writes nothing but whole requests of five records, with growing numbers.
* `TransitPart`: the responder has read a beginning of what was written. A BeginRequest is *awaited* until its EndRequest has
  crossed, and no two of one id are awaited at once. This is what makes an id safe to use again although requests and answers
  overtake each other; it holds because an id that is awaited is in use at the requester (`AwaitedIsUsed`).
* `RegistryPart`, `HandedPart`: an entry of the registry holds what has been read of an awaited request, and what the application was
  given is what the requester was asked to send.
* `WirePart`, `AnsweredPart`: an answer's streams lie in front of its EndRequest, and the requester takes no request for ended whose
  EndRequest has not crossed.

`SessionInv` is all of it. From it follow:

* `NeverRefusedTheorem`: when a BeginRequest arrives, the ids of the open requests and its own are different members of the set
  that was handed to the requester, so that the registry is below its limit (`BeginIsAccepted`).
* `RequesterSpecTheorem`: `Spec => RequesterSpec`, the refinement of `RequesterImpl` and its free server. The server's variables are
  functions of `sent`, `wire` and `taken`; the lemmas before it say how each step changes them (`CrossOutput`, `ServingIsThen`, ...). A
  record of the responder that crosses is a step of that server, what the responder does by itself is none.
* `AnswersReachTheorem`: the requester's `ResponseIsOwnAndWhole` says that a handler gets what crossed for its request, in order;
  `AnswerOfEnded` that what crossed is all that one answer consists of, and that the application gave it to a request with the
  parameters and data of this one.

With the refinement every safety theorem about `RequesterImpl` holds of a requester with this responder.

### Only model-checked

* Liveness, which needs ENABLED: `EveryRequestIsAnswered`, the fairness halves of `StreamSpec` and `LifecycleSpec`, and what the runs of
  `RequesterImpl`, `MessageCodec` and `Session` check under fairness.
* `MessageCodec`: what it reads and writes are folds over sequences, so that each statement about them is an induction over data.

## 5. Not modelled, and why

* Lengths in four bytes that would fit one, and pairs cut by the end of a record: the protocol allows both, no side of the library
  writes them, and the code takes them for errors.
* Error texts and the handler that is told about errors (`errors.cpp`, `setErrorInfoHandler`).
* Moved `Responder`s, whose callbacks keep the address of the object that was moved: object identity.
* How a Response finds out that its Responder is gone (the `weak_ptr` in its sender): `alive` stands for it.
* Calls of `receiveData` from inside `sendData` or a handler: `RecordReader::read` is not reentrant.
* Cancellation in `Session`: the id of a cancelled request is used again while the responder still holds it, which
  `RequesterCancels` has with a server of its own; a BeginRequest that is ignored at its arrival has no counterpart in `Serving`.
* In `Session` a record is one value on the socket: how bytes are cut is `RecordReader`'s, what they say is `MessageCodec`'s.
* The asio examples, whose `sendData` throws when the socket is closed (exceptions of the two cores), `main` functions, fuzz tests, benchmarks,
  generators.

## 6. Plan

Done: the reader with its abstract stream and proofs, the responder with its proofs and its abstract lifecycle, the requester, the codecs
with their streams, both sides on one connection, and the proofs of all safety properties of the reader, the responder, the requester and
the session.

1. `MessageCodec`, after its folds are written as functions: padding, the two bytes of a content length read back, then the
   records, by the induction of `ResponderRequestProofs!LeastNumber`.
2. A run of `RequesterImpl` with cancellation from a request's own handler.
3. `Session` with callbacks that throw, and with cancellation, once the responder's view of an id that is used too early has a counterpart in `Serving`.
