----------------------------- MODULE RecordReader -----------------------------
(***************************************************************************)
(* class RecordReader (src/recordreader.cpp): finds the records in the     *)
(* chunks of bytes the transport delivers, keeps the bytes of an           *)
(* unfinished record in leftover_ for the next chunk, and recovers from    *)
(* bytes it cannot read.                                                   *)
(*                                                                         *)
(* A byte is its position on the stream (StreamLayout.tla).  leftover_     *)
(* holds the bytes just before the current chunk, so its length says what  *)
(* it holds, except for its `stale' bytes.  A call of read is a step that opens    *)
(* the data stream, then one step per iteration of the loops of doRead and *)
(* findRecords; the record handler runs within those.                      *)
(***************************************************************************)
EXTENDS StreamLayout, Sequences

CONSTANTS
  HandlerThrows,           \* an exception may leave the two handlers
  HasInvalidTypeHandler    \* the reader was built with the second handler

VARIABLES
  pc,                \* "idle"; "reading": in findRecords; "crashed"
  arrived,           \* bytes passed to read, the current chunk included
  chunk,             \* size of the current chunk
  leftover,          \* size of leftover_
  stale,             \* of leftover_, the bytes that an exception kept there when
                     \*   it left read: the version and the type, if there are
                     \*   two or more, of the invalid record it was about
  readRecordsSize,   \* readRecordsSize_
  dataSize,          \* findRecords' dataSize
  cursor,            \* where on the stream dataStream_ is
  delivered,         \* history: records passed to the handler
  synced,            \* history: the chunk began with a record, and the one
                     \*   before too or nothing was left over from it
  failed             \* history: "no", an error was "handled" or has "left" read

vars == <<pc, arrived, chunk, leftover, stale, readRecordsSize, dataSize,
          cursor, delivered, synced, failed>>

-----------------------------------------------------------------------------
\* leftover_ is not what precedes the chunk
wedged == stale > 0
chunkStart == arrived - chunk
Available == dataSize - readRecordsSize
SizeOf(k) == Start[k + 1] - Start[k]

\* doRead: dataStream_ is leftover_ and then the chunk from `done' on
OpenStream(from, size, rest, done) ==
  /\ pc' = "reading"
  /\ cursor' = IF rest > 0 THEN from - rest ELSE from + done
  /\ dataSize' = rest + size

\* Mutant: the size of leftover_ is not counted
KeepTooLittle ==
  /\ pc' = "idle"
  /\ leftover' = IF readRecordsSize >= dataSize THEN leftover
                 ELSE IF leftover = 0 THEN chunk - readRecordsSize
                 ELSE leftover + chunk
  /\ UNCHANGED <<stale, readRecordsSize, dataSize, cursor, delivered, failed>>

\* Record::fromStream returned 0: the end of findRecords
KeepLeftover ==
  /\ pc' = "idle"
  /\ leftover' = IF readRecordsSize >= dataSize THEN leftover
                 ELSE IF leftover = 0 THEN Available
                 ELSE leftover + chunk
  /\ UNCHANGED <<stale, readRecordsSize, dataSize, cursor, delivered, failed>>

\* Mutant: leftover_ is not cleared
AdvanceOnly(size) ==
  /\ readRecordsSize' = readRecordsSize + size
  /\ cursor' = cursor + size
  /\ UNCHANGED <<pc, leftover, stale, dataSize, failed>>

\* Record::fromStream read a record of this size
Advance(size) ==
  /\ leftover' = 0
  /\ stale' = 0
  /\ readRecordsSize' = readRecordsSize + size
  /\ cursor' = cursor + size
  /\ UNCHANGED <<pc, dataSize, failed>>

\* The catches of InvalidRecordType and std::exception: clear, StopReading
ClearAndStop ==
  /\ pc' = "idle"
  /\ failed' = IF failed = "no" THEN "handled" ELSE failed
  /\ readRecordsSize' = 0
  /\ leftover' = 0
  /\ stale' = 0
  /\ UNCHANGED <<dataSize, cursor>>

\* An exception leaves the catch block of InvalidRecordType, and read
LeaveRead ==
  /\ pc' = "idle"
  /\ failed' = "left"
  /\ stale' = leftover
  /\ UNCHANGED <<leftover, readRecordsSize, dataSize, cursor>>

\* Mutant: the size of leftover_ is not taken off
SkipTooMuch(size) ==
  /\ readRecordsSize' = readRecordsSize + size
  /\ leftover' = 0
  /\ stale' = 0
  /\ OpenStream(chunkStart, chunk, 0, readRecordsSize + size)
  /\ UNCHANGED <<delivered, failed>>

\* Mutant: the rest of the chunk is dropped
SkipRestOfChunk(size) ==
  /\ readRecordsSize' = dataSize
  /\ leftover' = 0
  /\ stale' = 0
  /\ OpenStream(chunkStart, chunk, 0, chunk)
  /\ UNCHANGED <<delivered, failed>>

\* The catch of RecordMessageReadError: skipBrokenRecord, then doRead again
SkipBrokenRecord(size) ==
  LET done == readRecordsSize + size - leftover
  IN  /\ readRecordsSize' = done
      /\ leftover' = 0
      /\ stale' = 0
      /\ OpenStream(chunkStart, chunk, 0, done)
      /\ UNCHANGED <<delivered, failed>>

-----------------------------------------------------------------------------
(* A call of read, and the iterations of findRecords                        *)

Read(c) ==
  /\ pc = "idle"
  /\ c > arrived
  /\ arrived' = c
  /\ chunk' = c - arrived
  /\ synced' = ((\E k \in Records : Start[k] = arrived) /\ (synced \/ leftover = 0))
  /\ readRecordsSize' = 0
  /\ OpenStream(arrived, c - arrived, leftover, 0)
  /\ UNCHANGED <<leftover, stale, delivered, failed>>

AtRecord(k) ==
  pc = "reading" /\ ~wedged /\ Available >= HeaderSize /\ cursor = Start[k]
\* Mutant: one byte more is waited for
FitsWithMore(k) == Available > SizeOf(k)

Fits(k) == Available >= SizeOf(k)

NotEnoughForHeader ==
  pc = "reading" /\ Available \in 0..(HeaderSize - 1) /\ KeepLeftover

NotEnoughForRecord(k) ==
  AtRecord(k) /\ Kind[k] \in {"good", "broken"} /\ ~Fits(k) /\ KeepLeftover

DeliverRecord(k) ==
  /\ AtRecord(k)
  /\ Kind[k] = "good"
  /\ Fits(k)
  /\ delivered' = Append(delivered, k)
  /\ \/ Advance(SizeOf(k)) /\ UNCHANGED synced
     \/ HandlerThrows /\ ClearAndStop /\ synced' = FALSE

FindBrokenRecord(k) ==
  AtRecord(k) /\ Kind[k] = "broken" /\ Fits(k) /\ SkipBrokenRecord(SizeOf(k))

\* Without an invalidRecordTypeHandler_ the call of the empty function throws
CatchInvalidType ==
  /\ \/ HasInvalidTypeHandler /\ ClearAndStop
     \/ (~HasInvalidTypeHandler \/ HandlerThrows) /\ LeaveRead
  /\ UNCHANGED delivered

FindInvalidType(k) ==
  AtRecord(k) /\ Kind[k] = "badtype" /\ CatchInvalidType

\* Mutant: the version is checked again when more has arrived
WaitOnBadVersion(k) == AtRecord(k) /\ Kind[k] = "badversion" /\ KeepLeftover

FindBadVersion(k) ==
  AtRecord(k) /\ Kind[k] = "badversion" /\ ClearAndStop /\ UNCHANGED delivered

\* The version and the type of the invalid record are still in leftover_
FindInvalidTypeAgain ==
  pc = "reading" /\ stale >= 2 /\ Available >= HeaderSize /\ CatchInvalidType

\* Bytes that are not a header are taken for one and may read as anything, also
\* when the first is a stale version and the others are whatever came later.  A
\* record that begins in leftover_ ends behind it, or it would have been read.
Misread ==
  /\ pc = "reading" /\ Available >= HeaderSize
  /\ IF wedged THEN stale = 1 ELSE \A k \in Records : cursor # Start[k]
  /\ \/ KeepLeftover
     \/ ClearAndStop /\ UNCHANGED delivered
     \/ CatchInvalidType
     \/ \E size \in {s \in HeaderSize..Available : s > leftover} :
          \/ Advance(size) /\ UNCHANGED delivered
          \/ SkipBrokenRecord(size)

\* dataSize - readRecordsSize_ has wrapped around: the bytes behind the chunk
\* are read, until they make an error or the process dies
Overrun ==
  /\ pc = "reading" /\ Available < 0
  /\ \/ ClearAndStop /\ UNCHANGED delivered
     \/ CatchInvalidType
     \/ /\ pc' = "crashed"
        /\ UNCHANGED <<leftover, stale, readRecordsSize, dataSize, cursor,
                       delivered, failed>>

FindRecords ==
  /\ \/ \E k \in Records : DeliverRecord(k)
     \/ /\ \/ NotEnoughForHeader
           \/ \E k \in Records :
                \/ NotEnoughForRecord(k)
                \/ FindBrokenRecord(k)
                \/ FindInvalidType(k)
                \/ FindBadVersion(k)
           \/ FindInvalidTypeAgain
           \/ Misread
           \/ Overrun
        /\ UNCHANGED synced
  /\ UNCHANGED <<arrived, chunk>>

-----------------------------------------------------------------------------
Init ==
  /\ pc = "idle"
  /\ arrived = 0
  /\ chunk = 0
  /\ leftover = 0
  /\ stale = 0
  /\ readRecordsSize = 0
  /\ dataSize = 0
  /\ cursor = 0
  /\ delivered = <<>>
  /\ synced = TRUE
  /\ failed = "no"

Next == (\E c \in Cuts : Read(c)) \/ FindRecords

Spec == Init /\ [][Next]_vars

\* A call of read that was started runs to its end
FairSpec == Spec /\ WF_vars(FindRecords)

-----------------------------------------------------------------------------
(* Properties                                                               *)

TypeOK ==
  /\ pc \in {"idle", "reading", "crashed"}
  /\ arrived \in Nat /\ chunk \in 0..arrived /\ leftover \in Nat
  /\ stale \in Nat
  /\ readRecordsSize \in Nat /\ dataSize \in Nat /\ cursor \in Nat
  /\ delivered \in Seq(Records)
  /\ synced \in BOOLEAN
  /\ failed \in {"no", "handled", "left"}

DeliveredSet == {delivered[i] : i \in DOMAIN delivered}
\* The handler sees each record at most once and in the order of the stream,
\* also after errors and misread bytes: no byte of leftover_ is read twice.
DeliveredInOrder ==
  \A i, j \in DOMAIN delivered : i < j => delivered[i] < delivered[j]

\* Between two calls of read, and as long as there was no fatal error, every
\* readable record whose last byte has arrived was delivered, and no other: how
\* the stream was cut into chunks makes no difference (findRecords, leftover_).
ChunkingIsInvisible ==
  pc = "idle" /\ failed = "no" =>
    DeliveredSet = {k \in Records : Kind[k] = "good" /\ Start[k + 1] <= arrived}

\* When the header of a record is read, the data stream is at the first byte of
\* a record and what is left to read ends with the chunk: readRecordsSize_,
\* leftover_ and the stream agree.
ReadsInStep ==
  pc = "reading" =>
    /\ \E k \in 1..(N + 1) : cursor = Start[k]
    /\ cursor + Available = arrived

\* An error costs no more than the rest of its chunk: of a chunk that begins
\* with a record, and that follows such a chunk or an error, every complete
\* good record is delivered up to the first unknown type or version in it
\* (doRead's catches and clear).
OnlyRestOfChunkIsLost ==
  pc = "idle" /\ synced =>
    \A k \in Records :
      /\ Kind[k] = "good"
      /\ chunkStart <= Start[k] /\ Start[k + 1] <= arrived
      /\ k \notin DeliveredSet
      => \E j \in 1..(k - 1) :
           chunkStart <= Start[j] /\ Kind[j] \in {"badtype", "badversion"}

\* test_responder.cpp:332 (RecordReadError): the records after a broken one are
\* read, in whatever chunks they come.
BrokenRecordIsSkipped == ChunkingIsInvisible

\* The reader implements RecordStream.
Stream == INSTANCE RecordStream WITH arrived <- arrived, delivered <- delivered
StreamSpec == Stream!Spec
=============================================================================
