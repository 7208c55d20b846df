----------------------------- MODULE DataStreams -----------------------------
(* The two streams of the library: DataReaderStream, which reads several      *)
(* buffers as one without copying them (src/datareaderstream.cpp), and        *)
(* DataWriterStream, which writes to a buffer of fixed size                   *)
(* (src/datawriterstream.cpp).  Neither throws: RecordReader's constructor    *)
(* asks for exceptions, but the assignment of a new stream in doRead takes    *)
(* the exception mask and the error state of that one over.  A read past the  *)
(* end sets failbit, and every later read does nothing.                       *)
EXTENDS Integers, SequencesExt

Zeros(n) == [i \in 1..n |-> 0]
Dropped(bytes, n) == SubSeq(bytes, n + 1, Len(bytes))
Taken(bytes, n) == IF n < Len(bytes) THEN SubSeq(bytes, 1, n) ELSE bytes

-----------------------------------------------------------------------------
(* DataReaderStream: `get' are the bytes between gptr() and egptr()         *)

\* The streams of the library read two buffers: leftover_ and the chunk (doRead)
Open(buffers) == [buffers |-> buffers, bufferIndex |-> 0, get |-> <<>>, failed |-> FALSE]

\* Mutant: an empty buffer ends the stream
UnderflowStopsAtEmpty(s) ==
  IF s.get # <<>> \/ s.bufferIndex = Len(s.buffers) THEN s
  ELSE [s EXCEPT !.bufferIndex = @ + 1, !.get = s.buffers[s.bufferIndex + 1]]

\* MultiPartDataReaderBuffer::underflow
Underflow(s) ==
  LET rest == {i \in (s.bufferIndex + 1)..Len(s.buffers) : s.buffers[i] # <<>>}
  IN  IF s.get # <<>> THEN s
      ELSE IF rest = {} THEN [s EXCEPT !.bufferIndex = Len(s.buffers)]
      ELSE [s EXCEPT !.bufferIndex = Min(rest), !.get = s.buffers[Min(rest)]]

\* istream::read and get: up to n bytes, from both of the two buffers if need be
ReadBytes(stream, n) ==
  LET s == Underflow(stream)
      t == IF s.get = <<>> THEN s ELSE Underflow([s EXCEPT !.get = <<>>])
      more == n - Len(s.get)
  IN  IF stream.failed THEN [bytes |-> <<>>, stream |-> stream]
      ELSE IF more <= 0
      THEN [bytes |-> Taken(s.get, n), stream |-> [s EXCEPT !.get = Dropped(@, n)]]
      ELSE [bytes |-> s.get \o Taken(t.get, more),
            stream |-> [t EXCEPT !.get = Dropped(@, more), !.failed = more > Len(t.get)]]

\* Decoder::operator>> for a value that was set to zero before
ReadField(stream, n) ==
  LET read == ReadBytes(stream, n) IN [read EXCEPT !.bytes = @ \o Zeros(n - Len(@))]

\* Decoder::skip
Skip(stream, n) == ReadBytes(stream, n).stream

-----------------------------------------------------------------------------
(* DataWriterStream: `written' are the bytes before pptr()                  *)

NewWriter == [buffer |-> <<>>, written |-> 0, bad |-> FALSE]

\* resetBuffer: what was in the buffer stays, and so does badbit
ResetBuffer(writer, size) ==
  [writer EXCEPT !.buffer = Taken(@, size) \o Zeros(size - Len(@)), !.written = 0]

\* ostream::write: what does not fit is lost, and everything behind it
WriteBytes(writer, bytes) ==
  LET some == Taken(bytes, Len(writer.buffer) - writer.written)
      last == writer.written + Len(some)
  IN  IF writer.bad THEN writer
      ELSE [buffer |-> Taken(writer.buffer, writer.written) \o some
                         \o Dropped(writer.buffer, last),
            written |-> last,
            bad |-> Len(some) < Len(bytes)]
=============================================================================
