-------------------------- MODULE RecordReaderProofs --------------------------
(***************************************************************************)
(* For every stream of records, every way of cutting it that SafeCuts      *)
(* allows and every length, the reader delivers exactly the records that   *)
(* can be read, in order, each as soon as it is complete, and implements   *)
(* RecordStream.                                                           *)
(*                                                                         *)
(* The argument follows one number, the frontier: the record the reader    *)
(* has yet to read.  Everything readable before it was delivered, the data *)
(* stream (or, between calls, leftover_) begins with it.                   *)
(*                                                                         *)
(* The last two sections assume nothing of the stream, its cuts or the     *)
(* handlers: what is delivered stays in order, and an error costs no more  *)
(* than the rest of its chunk.                                             *)
(***************************************************************************)
EXTENDS RecordReader, TLAPS

USE DEF wedged

\* What the theorems of the first sections assume of the stream and the handlers
GoodConditions == NoFatalRecords /\ SafeCuts /\ ~HandlerThrows

BrokenFrom(k) == \E j \in Records : k <= j /\ Kind[j] = "broken"

\* All that is readable before record k was delivered, and nothing else
DeliveredBefore(k) ==
  DeliveredSet = {j \in Records : j < k /\ Kind[j] = "good"}

\* Between calls: leftover_ is the beginning of record k
IdleAt(k) ==
  /\ DeliveredBefore(k)
  /\ arrived - leftover = Start[k]
  /\ k \in Records => arrived < Start[k + 1]

\* In findRecords: record k is next on the data stream.  If leftover_ is not
\* empty it is the beginning of k; if it is empty no byte of an earlier
\* leftover_ is counted in readRecordsSize_, unless no broken record follows.
ReadingAt(k) ==
  /\ DeliveredBefore(k)
  /\ cursor = Start[k]
  /\ Available >= 0
  /\ cursor + Available = arrived
  /\ leftover > 0 =>
       /\ k \in Records
       /\ readRecordsSize = 0
       /\ dataSize = leftover + chunk
       /\ chunkStart < Start[k + 1]
  /\ leftover = 0 => (BrokenFrom(k) => dataSize = chunk)

IInv ==
  /\ TypeOK
  /\ DeliveredInOrder
  /\ ~wedged
  /\ failed = "no"
  /\ pc # "crashed"
  /\ arrived \in Cuts \cup {0}
  /\ chunkStart \in Cuts \cup {0}
  /\ pc = "idle" => \E k \in 1..(N + 1) : IdleAt(k)
  /\ pc = "reading" => \E k \in 1..(N + 1) : ReadingAt(k)

-----------------------------------------------------------------------------
(* The layout                                                               *)

\* Positions order records: a later record begins at least a header later.
LEMMA StartOrder ==
  ASSUME NEW j \in 1..(N + 1), NEW k \in 1..(N + 1)
  PROVE  /\ Start[j] \in Nat
         /\ j < k => Start[j] + 8 <= Start[k]
         /\ Start[j] = Start[k] => j = k
         /\ Start[j] <= Start[k] <=> j <= k
<1>1. N \in Nat /\ Start \in [1..(N + 1) -> Nat]
  BY StreamAssumption
<1>2. \A a, b \in 1..(N + 1) : a < b => Start[a] + 8 <= Start[b]
  BY StreamAssumption DEF HeaderSize
<1>3. j \in Int /\ k \in Int /\ Start[j] \in Nat /\ Start[k] \in Nat
  BY <1>1
<1>4. j < k => Start[j] + 8 <= Start[k]
  BY <1>2
<1>5. k < j => Start[k] + 8 <= Start[j]
  BY <1>2
<1> QED
  BY <1>3, <1>4, <1>5

\* A cut lies within the stream.
LEMMA CutPosition ==
  ASSUME NEW c \in Cuts \cup {0}
  PROVE  c \in Nat /\ c <= Start[N + 1]
BY StreamAssumption

-----------------------------------------------------------------------------
(* The inductive invariant                                                  *)

\* It holds at the start, where the reader is at the first record.
LEMMA InitIInv == Init => IInv
<1> SUFFICES ASSUME Init PROVE IInv
  OBVIOUS
<1> USE DEF Init
<1>1. TypeOK /\ DeliveredInOrder
  <2>1. delivered \in Seq(Records) /\ DOMAIN delivered = {}
    <3>1. <<>> \in Seq(Records) /\ Len(<<>>) = 0
      OBVIOUS
    <3>2. DOMAIN <<>> = 1..Len(<<>>)
      BY <3>1
    <3> QED
      BY <3>1, <3>2
  <2>2. DeliveredInOrder
    BY <2>1 DEF DeliveredInOrder
  <2>3. 0 \in 0..0
    OBVIOUS
  <2> QED
    BY <2>1, <2>2, <2>3 DEF TypeOK
<1>2. IdleAt(1)
  <2>1. Start[1] = 0 /\ N \in Nat
    BY StreamAssumption
  <2>2. DeliveredBefore(1)
    BY DEF DeliveredBefore, DeliveredSet, Records
  <2>3. 1 \in Records => 0 < Start[2]
    BY <2>1, StartOrder DEF Records
  <2> QED
    BY <2>1, <2>2, <2>3 DEF IdleAt
<1>3. 1 \in 1..(N + 1)
  BY StreamAssumption
<1> QED
  BY <1>1, <1>2, <1>3 DEF IInv, chunkStart

\* A call of read: the reader is at the record it was waiting for.
LEMMA ReadPreserves ==
  ASSUME GoodConditions, IInv, NEW c \in Cuts, Read(c)
  PROVE  IInv'
<1> USE DEF Read, OpenStream
<1>1. TypeOK
  BY DEF IInv
<1>2. PICK k \in 1..(N + 1) : IdleAt(k)
  BY DEF IInv
<1>3. Start[k] \in Nat /\ arrived \in Nat /\ leftover \in Nat /\ c \in Nat /\ c > arrived
  BY <1>1, StartOrder, CutPosition DEF TypeOK
<1>4. k \in Records => k \in 1..N /\ Start[k + 1] \in Nat
  BY StreamAssumption DEF Records
<1>5. cursor' = arrived - leftover /\ dataSize' = leftover + (c - arrived)
      /\ readRecordsSize' = 0 /\ chunk' = c - arrived /\ arrived' = c /\ leftover' = leftover
  BY <1>3
<1>10. TypeOK'
  <2>1. cursor' = Start[k]
    BY <1>2, <1>3, <1>5 DEF IdleAt
  <2>2. chunk' \in 0..arrived' /\ arrived' \in Nat /\ dataSize' \in Nat
    BY <1>3, <1>5
  <2> QED
    BY <1>1, <1>3, <1>5, <2>1, <2>2 DEF TypeOK
<1>6. (Available = dataSize - 0)' /\ chunkStart' = arrived
  BY <1>3, <1>5 DEF Available, chunkStart
<1>7. leftover > 0 => k \in Records
  <2> SUFFICES ASSUME leftover > 0, k = N + 1 PROVE FALSE
    BY StreamAssumption DEF Records
  <2>1. arrived <= Start[N + 1]
    BY CutPosition DEF IInv
  <2> QED
    BY <2>1, <1>2, <1>3 DEF IdleAt
<1>8. DeliveredBefore(k)'
  BY <1>2 DEF IdleAt, DeliveredBefore, DeliveredSet
<1>9. ReadingAt(k)'
  BY <1>2, <1>3, <1>4, <1>5, <1>6, <1>7, <1>8 DEF IdleAt, ReadingAt
<1> QED
  BY <1>6, <1>9, <1>10 DEF IInv, DeliveredInOrder

\* findRecords ends: what is left begins with the record the reader is at.
LEMMA KeepLeftoverPreserves ==
  ASSUME GoodConditions, IInv, pc = "reading", KeepLeftover,
         UNCHANGED <<arrived, chunk>>, synced' \in BOOLEAN,
         NEW k \in 1..(N + 1), ReadingAt(k),
         k \in Records => Available < SizeOf(k)
  PROVE  IInv'
<1> USE DEF KeepLeftover
<1>1. TypeOK
  BY DEF IInv
<1>2. /\ Start[k] \in Nat /\ arrived \in Nat /\ leftover \in Nat /\ chunk \in Nat
      /\ readRecordsSize \in Nat /\ dataSize \in Nat /\ cursor \in Nat
  BY <1>1, StartOrder DEF TypeOK
<1>3. k \in Records => Start[k + 1] \in Nat
  BY StreamAssumption DEF Records
<1>4. leftover' \in Nat /\ arrived - leftover' = Start[k]
  <2>1. CASE leftover > 0
    BY <2>1, <1>2 DEF ReadingAt, Available
  <2>2. CASE leftover = 0
    BY <2>2, <1>2 DEF ReadingAt, Available
  <2> QED
    BY <2>1, <2>2, <1>2
<1>5. TypeOK'
  BY <1>1, <1>4 DEF TypeOK
<1>6. k \in Records => arrived < Start[k + 1]
  BY <1>2, <1>3 DEF ReadingAt, SizeOf, Available
<1>7. IdleAt(k)'
  BY <1>4, <1>6 DEF IdleAt, ReadingAt, DeliveredBefore, DeliveredSet
<1> QED
  BY <1>5, <1>7 DEF IInv, DeliveredInOrder, chunkStart

\* A header is only looked for at the record the reader is at.
LEMMA AtFrontier ==
  ASSUME IInv, NEW k \in 1..(N + 1), ReadingAt(k), NEW j \in Records, AtRecord(j)
  PROVE  j = k
<1>1. j \in 1..(N + 1)
  BY StreamAssumption DEF Records
<1>2. Start[j] = Start[k]
  BY DEF ReadingAt, AtRecord
<1> QED
  BY <1>1, <1>2, StartOrder

\* A good record is delivered and the reader moves to the next one.
LEMMA DeliverPreserves ==
  ASSUME GoodConditions, IInv, NEW k \in Records, DeliverRecord(k),
         UNCHANGED <<arrived, chunk>>
  PROVE  IInv'
<1>1. TypeOK /\ N \in Nat /\ k \in 1..N /\ pc = "reading"
  BY StreamAssumption DEF IInv, Records, AtRecord, DeliverRecord
<1>2. ReadingAt(k)
  <2>1. PICK i \in 1..(N + 1) : ReadingAt(i)
    BY <1>1 DEF IInv
  <2> QED
    BY <2>1, AtFrontier DEF DeliverRecord
<1>3. /\ Start[k] \in Nat /\ Start[k + 1] \in Nat /\ Start[k] + 8 <= Start[k + 1]
      /\ arrived \in Nat /\ leftover \in Nat /\ chunk \in Nat
      /\ readRecordsSize \in Nat /\ dataSize \in Nat /\ cursor \in Nat
  BY <1>1, StartOrder DEF TypeOK
<1>4. /\ leftover' = 0 /\ stale' = 0 /\ failed' = failed /\ pc' = pc
      /\ readRecordsSize' = readRecordsSize + (Start[k + 1] - Start[k])
      /\ cursor' = Start[k + 1] /\ dataSize' = dataSize
      /\ arrived' = arrived /\ chunk' = chunk /\ synced' = synced
  <2>1. Advance(SizeOf(k)) /\ UNCHANGED synced
    BY DEF GoodConditions, DeliverRecord
  <2>2. cursor = Start[k]
    BY <1>2 DEF ReadingAt
  <2> QED
    BY <1>3, <2>1, <2>2 DEF Advance, SizeOf
<1>15. delivered' = Append(delivered, k)
  BY DEF DeliverRecord
<1>5. TypeOK'
  <2>1. readRecordsSize' \in Nat /\ cursor' \in Nat
    BY <1>3, <1>4
  <2>2. delivered' \in Seq(Records)
    BY <1>1, <1>15 DEF TypeOK
  <2> QED
    BY <1>1, <1>4, <2>1, <2>2 DEF TypeOK
<1>6. \A i \in DOMAIN delivered : delivered[i] < k
  BY <1>2 DEF ReadingAt, DeliveredBefore, DeliveredSet
<1>7. delivered \in Seq(Records) /\ Records \subseteq Int
  BY <1>1 DEF TypeOK, Records
<1>8. /\ DOMAIN delivered' = 1..(Len(delivered) + 1)
      /\ DOMAIN delivered = 1..Len(delivered)
      /\ Len(delivered) \in Nat
      /\ \A i \in DOMAIN delivered : delivered'[i] = delivered[i]
      /\ delivered'[Len(delivered) + 1] = k
  BY <1>15, <1>7
<1>9. DeliveredInOrder'
  BY <1>6, <1>7, <1>8 DEF IInv, DeliveredInOrder
<1>10. DeliveredBefore(k + 1)'
  <2>1. DeliveredSet' = DeliveredSet \cup {k}
    BY <1>8 DEF DeliveredSet
  <2>2. DeliveredSet = {j \in Records : j < k /\ Kind[j] = "good"}
    BY <1>2 DEF ReadingAt, DeliveredBefore
  <2>3. \A j \in Records : j < k + 1 <=> j < k \/ j = k
    BY <1>1, <1>7
  <2>4. Kind[k] = "good"
    BY DEF DeliverRecord
  <2> QED
    BY <2>1, <2>2, <2>3, <2>4 DEF DeliveredBefore
<1>11. Available' = Available - (Start[k + 1] - Start[k])
       /\ Available \in Int /\ Available >= Start[k + 1] - Start[k]
  BY <1>3, <1>4 DEF Available, Fits, SizeOf, DeliverRecord
<1>12. leftover > 0 => ~BrokenFrom(k + 1)
  <2> SUFFICES ASSUME leftover > 0, BrokenFrom(k + 1) PROVE FALSE
    OBVIOUS
  <2>1. chunkStart \in Cuts \cup {0} /\ chunkStart < Start[k + 1]
    BY <1>2 DEF IInv, ReadingAt
  <2>2. chunkStart = Start[k] + leftover
    <3>1. cursor = Start[k] /\ cursor + (dataSize - readRecordsSize) = arrived
          /\ readRecordsSize = 0 /\ dataSize = leftover + chunk
      BY <1>2 DEF ReadingAt, Available
    <3> QED
      BY <1>3, <3>1 DEF chunkStart
  <2>3. chunkStart \in Cuts /\ Start[k] < chunkStart
    BY <2>1, <2>2, <1>3
  <2>4. PICK j \in Records : k + 1 <= j /\ Kind[j] = "broken"
    BY DEF BrokenFrom
  <2>5. k < j /\ Kind[k] = "good"
    BY <1>1, <2>4 DEF Records, DeliverRecord
  <2> QED
    BY <2>1, <2>3, <2>4, <2>5 DEF SafeCuts, GoodConditions
<1>13. ReadingAt(k + 1)'
  <2>0. BrokenFrom(k + 1) => BrokenFrom(k)
    BY <1>1 DEF BrokenFrom, Records
  <2>1. BrokenFrom(k + 1) => dataSize' = chunk'
    BY <1>2, <1>3, <1>4, <1>12, <2>0 DEF ReadingAt
  <2>3. BrokenFrom(k + 1)' <=> BrokenFrom(k + 1)
    BY DEF BrokenFrom
  <2>2. Available' >= 0 /\ cursor' + Available' = arrived'
    <3>1. cursor = Start[k] /\ cursor + Available = arrived
      BY <1>2 DEF ReadingAt
    <3> QED
      BY <1>3, <1>4, <1>11, <3>1
  <2> QED
    BY <1>4, <1>10, <2>1, <2>2, <2>3 DEF ReadingAt
<1>14. k + 1 \in 1..(N + 1)
  BY <1>1
<1> QED
  BY <1>1, <1>4, <1>5, <1>9, <1>13, <1>14 DEF IInv, chunkStart

\* A broken record is skipped, and the data stream opened anew behind it.
LEMMA SkipPreserves ==
  ASSUME GoodConditions, IInv, NEW k \in Records, FindBrokenRecord(k),
         UNCHANGED <<arrived, chunk>>, synced' \in BOOLEAN
  PROVE  IInv'
<1> USE DEF FindBrokenRecord, SkipBrokenRecord, OpenStream
<1>1. TypeOK /\ N \in Nat /\ k \in 1..N /\ pc = "reading"
  BY StreamAssumption DEF IInv, Records, AtRecord
<1>2. ReadingAt(k)
  <2>1. PICK i \in 1..(N + 1) : ReadingAt(i)
    BY <1>1 DEF IInv
  <2> QED
    BY <2>1, AtFrontier
<1>3. /\ Start[k] \in Nat /\ Start[k + 1] \in Nat /\ Start[k] + 8 <= Start[k + 1]
      /\ arrived \in Nat /\ leftover \in Nat /\ chunk \in Nat
      /\ readRecordsSize \in Nat /\ dataSize \in Nat /\ cursor \in Nat
  BY <1>1, StartOrder DEF TypeOK
<1>4. /\ leftover' = 0 /\ stale' = 0 /\ failed' = failed /\ pc' = "reading"
      /\ readRecordsSize' = readRecordsSize + (Start[k + 1] - Start[k]) - leftover
      /\ cursor' = (arrived - chunk) + readRecordsSize'
      /\ dataSize' = chunk
      /\ delivered' = delivered
      /\ arrived' = arrived /\ chunk' = chunk
  BY <1>3 DEF SizeOf, chunkStart
<1>5. cursor = (arrived - chunk) + readRecordsSize - leftover
  <2>1. BrokenFrom(k)
    BY <1>1 DEF BrokenFrom, Records
  <2> QED
    BY <1>2, <1>3, <2>1 DEF ReadingAt, Available
<1>6. cursor' = Start[k + 1] /\ cursor = Start[k]
  BY <1>2, <1>3, <1>4, <1>5 DEF ReadingAt
<1>7. readRecordsSize' \in Nat
  <2>1. CASE leftover = 0
    BY <2>1, <1>3, <1>4
  <2>2. CASE leftover > 0
    <3>1. readRecordsSize = 0 /\ arrived - chunk < Start[k + 1]
      BY <1>2, <2>2 DEF ReadingAt, chunkStart
    <3>2. readRecordsSize' = Start[k + 1] - (arrived - chunk)
      BY <1>3, <1>4, <1>6
    <3> QED
      BY <1>3, <3>1, <3>2
  <2> QED
    BY <2>1, <2>2, <1>3
<1>8. TypeOK'
  <2> HIDE DEF FindBrokenRecord, SkipBrokenRecord, OpenStream
  <2> QED
    BY <1>1, <1>3, <1>4, <1>6, <1>7 DEF TypeOK
<1>9. DeliveredBefore(k + 1)'
  <2>1. DeliveredSet' = DeliveredSet
    BY <1>4 DEF DeliveredSet
  <2>2. \A j \in Records : j < k + 1 /\ Kind[j] = "good" <=> j < k /\ Kind[j] = "good"
    BY <1>1 DEF Records
  <2> QED
    BY <2>1, <2>2, <1>2 DEF ReadingAt, DeliveredBefore
<1>10. Available' >= 0 /\ cursor' + Available' = arrived'
  BY <1>2, <1>3, <1>4, <1>5, <1>6, <1>7 DEF ReadingAt, Available, Fits, SizeOf
<1>11. ReadingAt(k + 1)'
  BY <1>4, <1>6, <1>9, <1>10 DEF ReadingAt
<1>12. k + 1 \in 1..(N + 1)
  BY <1>1
<1> QED
  BY <1>1, <1>4, <1>8, <1>11, <1>12 DEF IInv, chunkStart, DeliveredInOrder

\* Every iteration of findRecords keeps the invariant; the other outcomes, the
\* misread bytes among them, do not occur.
LEMMA FindRecordsPreserves ==
  ASSUME GoodConditions, IInv, FindRecords
  PROVE  IInv'
<1> USE DEF FindRecords
<1>1. pc = "reading" /\ N \in Nat /\ TypeOK /\ ~wedged
  BY StreamAssumption DEF IInv, NotEnoughForHeader, NotEnoughForRecord, DeliverRecord,
     FindBrokenRecord, FindInvalidType, FindBadVersion, AtRecord,
     FindInvalidTypeAgain, Misread, Overrun
<1>13. UNCHANGED <<arrived, chunk>> /\ synced' \in BOOLEAN
  BY <1>1 DEF DeliverRecord, TypeOK
<1>2. PICK k \in 1..(N + 1) : ReadingAt(k)
  BY <1>1 DEF IInv
<1>3. Start[k] \in Nat /\ Available \in Int /\ arrived \in Nat
      /\ Start[N + 1] \in Nat /\ arrived <= Start[N + 1]
  BY <1>1, StartOrder, CutPosition DEF TypeOK, Available, IInv
<1>4. k = N + 1 => Available = 0
  BY <1>2, <1>3 DEF ReadingAt
<1>5. k \in Records \/ k = N + 1
  BY <1>1 DEF Records
<1>6. CASE NotEnoughForHeader
  <2>1. k \in Records => SizeOf(k) \in Int /\ SizeOf(k) >= 8
    BY <1>1, StartOrder DEF Records, SizeOf
  <2>2. k \in Records => Available < SizeOf(k)
    BY <1>3, <1>6, <2>1 DEF NotEnoughForHeader, HeaderSize
  <2> QED
    BY <1>1, <1>2, <1>6, <1>13, <2>2, KeepLeftoverPreserves DEF NotEnoughForHeader
<1>7. ASSUME NEW j \in Records, NotEnoughForRecord(j) PROVE IInv'
  <2>1. j = k
    BY <1>2, <1>7, AtFrontier DEF NotEnoughForRecord
  <2>2. k \in Records => Available < SizeOf(k)
    <3>1. j \in 1..N
      BY DEF Records
    <3>2. SizeOf(j) \in Int
      BY <1>1, <3>1, StartOrder DEF SizeOf
    <3> QED
      BY <1>3, <1>7, <2>1, <3>2 DEF NotEnoughForRecord, Fits
  <2> QED
    BY <1>1, <1>2, <1>7, <1>13, <2>2, KeepLeftoverPreserves DEF NotEnoughForRecord
<1>8. ASSUME NEW j \in Records, DeliverRecord(j) PROVE IInv'
  BY <1>8, <1>13, DeliverPreserves
<1>9. ASSUME NEW j \in Records, FindBrokenRecord(j) PROVE IInv'
  BY <1>9, <1>13, SkipPreserves
<1>10. \A j \in Records : ~FindInvalidType(j) /\ ~FindBadVersion(j)
  BY DEF GoodConditions, NoFatalRecords, FindInvalidType, FindBadVersion
<1>11. ~FindInvalidTypeAgain /\ ~Overrun
  BY <1>1, <1>2, <1>3 DEF FindInvalidTypeAgain, Overrun, ReadingAt, TypeOK
<1>12. ~Misread
  BY <1>1, <1>2, <1>3, <1>4, <1>5 DEF Misread, ReadingAt, HeaderSize
<1> QED
  BY <1>6, <1>7, <1>8, <1>9, <1>10, <1>11, <1>12

\* Every step keeps the invariant.
LEMMA NextIInv ==
  ASSUME GoodConditions, IInv, [Next]_vars
  PROVE  IInv'
<1>1. CASE UNCHANGED vars
  BY <1>1 DEF vars, IInv, TypeOK, DeliveredInOrder, DeliveredSet, DeliveredBefore,
     IdleAt, ReadingAt, Available, chunkStart
<1>2. CASE Next
  BY <1>2, ReadPreserves, FindRecordsPreserves DEF Next
<1> QED
  BY <1>1, <1>2

\* The inductive invariant holds in every reachable state.
THEOREM ReaderInvariant == GoodConditions => (Spec => []IInv)
<1> SUFFICES ASSUME GoodConditions PROVE Spec => []IInv
  OBVIOUS
<1>1. Init => IInv
  BY InitIInv
<1>2. IInv /\ [Next]_vars => IInv'
  BY NextIInv
<1> QED
  BY <1>1, <1>2, PTL DEF Spec

\* Between calls, what was delivered is what has arrived.
LEMMA IdleIsComplete ==
  ASSUME IInv
  PROVE  ChunkingIsInvisible
<1> SUFFICES ASSUME pc = "idle"
             PROVE  DeliveredSet = {j \in Records : Kind[j] = "good" /\ Start[j + 1] <= arrived}
  BY DEF ChunkingIsInvisible
<1>1. PICK k \in 1..(N + 1) : IdleAt(k)
  BY DEF IInv
<1>2. N \in Nat /\ k \in Int /\ Start[k] \in Nat /\ arrived \in Nat /\ leftover \in Nat
  BY StreamAssumption, StartOrder DEF IInv, TypeOK
<1>3. Start[k] <= arrived
  BY <1>1, <1>2 DEF IdleAt
<1>4. ASSUME NEW j \in Records PROVE j < k <=> Start[j + 1] <= arrived
  <2>1. j \in 1..N /\ j \in Int /\ j + 1 \in 1..(N + 1) /\ Start[j + 1] \in Nat
    BY <1>2, StartOrder DEF Records
  <2>2. Start[j + 1] <= Start[k] <=> j + 1 <= k
    BY <2>1, StartOrder
  <2>3. CASE j < k
    BY <1>2, <1>3, <2>1, <2>2, <2>3
  <2>4. CASE ~(j < k)
    <3>1. k \in Records /\ k + 1 \in 1..(N + 1)
      BY <1>2, <2>1, <2>4 DEF Records
    <3>2. arrived < Start[k + 1] /\ Start[k + 1] \in Nat
      BY <1>1, <3>1, StartOrder DEF IdleAt
    <3>3. Start[k + 1] <= Start[j + 1]
      BY <1>2, <2>1, <2>4, <3>1, StartOrder
    <3> QED
      BY <1>2, <2>1, <2>4, <3>2, <3>3
  <2> QED
    BY <2>3, <2>4
<1>5. DeliveredSet = {j \in Records : j < k /\ Kind[j] = "good"}
  BY <1>1 DEF IdleAt, DeliveredBefore
<1> QED
  BY <1>4, <1>5

\* Between two calls of read every readable record that is complete was
\* delivered, and nothing else, however the stream was cut.
THEOREM ChunkingTheorem == GoodConditions => (Spec => []ChunkingIsInvisible)
<1>1. IInv => ChunkingIsInvisible
  BY IdleIsComplete
<1> QED
  BY <1>1, ReaderInvariant, PTL

\* The types of the reader's state.
THEOREM ReaderTypes == GoodConditions => (Spec => []TypeOK)
<1>1. IInv => TypeOK
  BY DEF IInv
<1> QED
  BY <1>1, ReaderInvariant, PTL

\* The data stream is at a record's first byte whenever a header is read, and
\* the bytes counted as left to read are those of the leftover and the chunk.
THEOREM InStepTheorem == GoodConditions => (Spec => []ReadsInStep)
<1>1. IInv => ReadsInStep
  BY DEF IInv, ReadsInStep, ReadingAt
<1> QED
  BY <1>1, ReaderInvariant, PTL

-----------------------------------------------------------------------------
(* The refinement of RecordStream                                           *)

\* A record is delivered when it is complete, once, and after those before it.
LEMMA DeliverIsDeliver ==
  ASSUME IInv, NEW k \in Records, DeliverRecord(k), UNCHANGED arrived
  PROVE  Stream!Deliver
<1>1. N \in Nat /\ k \in 1..N /\ pc = "reading" /\ TypeOK
  BY StreamAssumption DEF IInv, Records, DeliverRecord, AtRecord
<1>2. ReadingAt(k)
  <2>1. PICK i \in 1..(N + 1) : ReadingAt(i)
    BY <1>1 DEF IInv
  <2> QED
    BY <2>1, AtFrontier DEF DeliverRecord
<1>3. Start[k] \in Nat /\ Start[k + 1] \in Nat /\ arrived \in Nat /\ Available \in Int
      /\ cursor = Start[k] /\ cursor + Available = arrived
  BY <1>1, <1>2, StartOrder DEF TypeOK, Available, ReadingAt
<1>4. Start[k + 1] <= arrived
  BY <1>3 DEF DeliverRecord, Fits, SizeOf
<1>5. \A j \in Records : (\E i \in DOMAIN delivered : delivered[i] = j)
                           <=> j < k /\ Kind[j] = "good"
  BY <1>2 DEF ReadingAt, DeliveredBefore, DeliveredSet
<1>6. ~(k < k)
  BY <1>1
<1>7. Kind[k] = "good" /\ delivered' = Append(delivered, k)
  BY DEF DeliverRecord
<1> QED
  BY <1>4, <1>5, <1>6, <1>7
     DEF Stream!Deliver, Stream!Complete, Stream!IsDelivered, Stream!Records, Records

\* Every step of the reader is one of RecordStream or is not seen there.
LEMMA StepIsStreamStep ==
  ASSUME GoodConditions, IInv, [Next]_vars
  PROVE  [Stream!Next]_(Stream!streamVars)
<1>1. CASE UNCHANGED vars
  BY <1>1 DEF vars, Stream!streamVars
<1>2. ASSUME NEW c \in Cuts, Read(c) PROVE Stream!Arrive
  BY <1>2 DEF Read, Stream!Arrive
<1>3. ASSUME FindRecords PROVE Stream!Deliver \/ UNCHANGED Stream!streamVars
  <2>1. arrived' = arrived
    BY <1>3 DEF FindRecords
  <2>2. ASSUME NEW k \in Records, DeliverRecord(k) PROVE Stream!Deliver
    BY <2>1, <2>2, DeliverIsDeliver
  <2>3. (\E k \in Records : DeliverRecord(k)) \/ delivered' = delivered
    BY <1>3 DEF FindRecords, NotEnoughForHeader, NotEnoughForRecord, FindBrokenRecord,
       FindInvalidType, FindBadVersion, FindInvalidTypeAgain, CatchInvalidType, Misread,
       Overrun, KeepLeftover, SkipBrokenRecord
  <2> QED
    BY <2>1, <2>2, <2>3 DEF Stream!streamVars
<1> QED
  BY <1>1, <1>2, <1>3 DEF Next, Stream!Next

\* The reader implements RecordStream (its liveness is left to TLC).
THEOREM ReaderImplementsStream == GoodConditions => (Spec => Stream!SafeSpec)
<1> SUFFICES ASSUME GoodConditions PROVE Spec => Stream!SafeSpec
  OBVIOUS
<1>1. Init => Stream!Init
  BY DEF Init, Stream!Init
<1>2. IInv /\ [Next]_vars => [Stream!Next]_(Stream!streamVars)
  BY StepIsStreamStep
<1>3. Spec => []IInv
  BY ReaderInvariant
<1> QED
  BY <1>1, <1>2, <1>3, PTL DEF Spec, Stream!SafeSpec

-----------------------------------------------------------------------------
(* Any stream, any cuts, any handler                                        *)

\* All that was delivered lies before position p.
DeliveredUpTo(p) == \A j \in DeliveredSet : Start[j + 1] <= p

\* The reader never goes back: what it reads next, and the leftover_ it keeps,
\* lies behind what it has delivered, also when it has lost the records' bounds.
ForwardReading ==
  /\ cursor + Available = arrived
  /\ dataSize >= chunk
  /\ leftover > 0 => readRecordsSize = 0 /\ dataSize = leftover + chunk
  /\ wedged => DeliveredUpTo(chunkStart)
  /\ ~wedged => DeliveredUpTo(cursor)

ForwardInv ==
  /\ arrived \in Cuts \cup {0} /\ chunk \in 0..arrived /\ leftover \in Nat
  /\ readRecordsSize \in Int /\ dataSize \in Int /\ cursor \in Int
  /\ delivered \in Seq(Records) /\ DeliveredInOrder
  /\ stale \in Nat /\ (wedged => leftover > 0)
  /\ DeliveredUpTo(arrived)
  /\ pc = "idle" /\ ~wedged => DeliveredUpTo(arrived - leftover)
  /\ pc = "reading" => ForwardReading

\* What lies before p lies before a later position.
LEMMA UpToLater ==
  ASSUME delivered \in Seq(Records), NEW p \in Int, NEW q \in Int, p <= q,
         DeliveredUpTo(p)
  PROVE  DeliveredUpTo(q)
<1> SUFFICES ASSUME NEW j \in DeliveredSet PROVE Start[j + 1] <= q
  BY DEF DeliveredUpTo
<1>1. j \in Records
  BY DEF DeliveredSet
<1>2. j + 1 \in 1..(N + 1)
  BY <1>1, StreamAssumption DEF Records
<1>3. Start[j + 1] \in Nat
  BY <1>2, StartOrder
<1>4. Start[j + 1] <= p
  BY DEF DeliveredUpTo
<1> QED
  BY <1>3, <1>4

\* The types of the numbers, which the steps below compute with.
LEMMA ForwardNumbers ==
  ASSUME ForwardInv
  PROVE  /\ arrived \in Nat /\ chunk \in Nat /\ chunk <= arrived /\ leftover \in Nat
         /\ readRecordsSize \in Int /\ dataSize \in Int /\ cursor \in Int
         /\ delivered \in Seq(Records)
BY CutPosition DEF ForwardInv

\* A step that delivers nothing keeps what was delivered where it is.
LEMMA NothingDelivered ==
  ASSUME ForwardInv, UNCHANGED <<arrived, chunk, delivered>>
  PROVE  /\ arrived' \in Cuts \cup {0} /\ chunk' \in 0..arrived'
         /\ delivered' \in Seq(Records) /\ DeliveredInOrder'
         /\ DeliveredUpTo(arrived)'
BY DEF ForwardInv, DeliveredInOrder, DeliveredUpTo, DeliveredSet

\* At the start nothing was delivered.
LEMMA InitForward == Init => ForwardInv
<1> SUFFICES ASSUME Init PROVE ForwardInv
  OBVIOUS
<1>1. IInv
  BY InitIInv
<1>2. DeliveredSet = {}
  BY DEF Init, DeliveredSet
<1>3. 0 \in 0..0
  OBVIOUS
<1>4. DeliveredUpTo(arrived) /\ DeliveredUpTo(arrived - leftover)
  BY <1>2 DEF DeliveredUpTo
<1> QED
  BY <1>1, <1>3, <1>4 DEF ForwardInv, Init, IInv, TypeOK

\* A call of read: the data stream begins with leftover_, or with the chunk.
LEMMA ReadForward ==
  ASSUME ForwardInv, NEW c \in Cuts, Read(c)
  PROVE  ForwardInv'
<1>1. /\ arrived \in Nat /\ leftover \in Nat /\ delivered \in Seq(Records)
      /\ c \in Nat /\ c > arrived
  BY ForwardNumbers, CutPosition DEF Read
<1>2. /\ arrived' = c /\ chunk' = c - arrived /\ leftover' = leftover
      /\ stale' = stale /\ delivered' = delivered /\ readRecordsSize' = 0
      /\ dataSize' = leftover + (c - arrived) /\ cursor' = arrived - leftover
      /\ pc' = "reading"
  BY <1>1 DEF Read, OpenStream
<1>3. pc = "idle"
  BY DEF Read
<1>4. DeliveredUpTo(c)
  BY <1>1, UpToLater DEF ForwardInv
<1>5. DeliveredUpTo(arrived)'
  BY <1>2, <1>4 DEF DeliveredUpTo, DeliveredSet
<1>6. wedged => DeliveredUpTo(chunkStart)'
  <2>1. chunkStart' = arrived
    BY <1>1, <1>2 DEF chunkStart
  <2>2. DeliveredUpTo(arrived)
    BY DEF ForwardInv
  <2> QED
    BY <1>2, <2>1, <2>2 DEF DeliveredUpTo, DeliveredSet
<1>7. ~wedged => DeliveredUpTo(cursor)'
  BY <1>2, <1>3 DEF ForwardInv, DeliveredUpTo, DeliveredSet
<1>8. ForwardReading'
  <2>1. (cursor + Available = arrived)' /\ dataSize' >= chunk'
    BY <1>1, <1>2 DEF Available
  <2> QED
    BY <1>1, <1>2, <1>6, <1>7, <2>1 DEF ForwardReading
<1>9. DeliveredInOrder'
  BY <1>2 DEF ForwardInv, DeliveredInOrder
<1>10. arrived' \in Cuts \cup {0} /\ chunk' \in 0..arrived' /\ stale' \in Nat
       /\ (wedged' => leftover' > 0) /\ dataSize' \in Int /\ cursor' \in Int
  BY <1>1, <1>2 DEF ForwardInv
<1> QED
  BY <1>1, <1>2, <1>5, <1>8, <1>9, <1>10 DEF ForwardInv

\* findRecords ends: leftover_ begins where the data stream is, or grows.
LEMMA KeepForward ==
  ASSUME ForwardInv, pc = "reading", KeepLeftover, UNCHANGED <<arrived, chunk>>,
         Available >= 0
  PROVE  ForwardInv'
<1>1. /\ arrived \in Nat /\ chunk \in Nat /\ leftover \in Nat /\ delivered \in Seq(Records)
      /\ readRecordsSize \in Int /\ dataSize \in Int /\ cursor \in Int
  BY ForwardNumbers
<1>2. ForwardReading
  BY DEF ForwardInv
<1>3. /\ stale' = stale /\ readRecordsSize' = readRecordsSize /\ dataSize' = dataSize
      /\ cursor' = cursor /\ delivered' = delivered /\ pc' = "idle"
      /\ arrived' = arrived /\ chunk' = chunk
  BY DEF KeepLeftover
<1>4. leftover' \in Nat /\ arrived - leftover' = cursor /\ (leftover > 0 => leftover' > 0)
  <2>1. leftover' = IF readRecordsSize >= dataSize THEN leftover
                    ELSE IF leftover = 0 THEN dataSize - readRecordsSize
                    ELSE leftover + chunk
    BY DEF KeepLeftover, Available
  <2>2. dataSize - readRecordsSize >= 0 /\ cursor + (dataSize - readRecordsSize) = arrived
    BY <1>2 DEF ForwardReading, Available
  <2>3. leftover > 0 => readRecordsSize = 0 /\ dataSize = leftover + chunk
    BY <1>2 DEF ForwardReading
  <2>4. CASE leftover = 0
    BY <1>1, <2>1, <2>2, <2>4
  <2>5. CASE leftover > 0
    BY <1>1, <2>1, <2>2, <2>3, <2>5
  <2> QED
    BY <1>1, <2>4, <2>5
<1>5. ~wedged => DeliveredUpTo(arrived - leftover)'
  BY <1>2, <1>3, <1>4 DEF ForwardReading, DeliveredUpTo, DeliveredSet
<1>6. /\ arrived' \in Cuts \cup {0} /\ chunk' \in 0..arrived'
      /\ delivered' \in Seq(Records) /\ DeliveredInOrder' /\ DeliveredUpTo(arrived)'
  BY <1>3, NothingDelivered
<1>7. stale \in Nat /\ (wedged => leftover > 0)
  BY DEF ForwardInv
<1> QED
  BY <1>1, <1>3, <1>4, <1>5, <1>6, <1>7 DEF ForwardInv

\* Bytes that are read as something leave the reader behind them.
LEMMA MoveForward ==
  ASSUME ForwardInv, pc = "reading", UNCHANGED <<arrived, chunk, delivered>>,
         NEW size \in Nat, size >= HeaderSize, wedged => size > leftover,
         Advance(size) \/ SkipBrokenRecord(size)
  PROVE  ForwardInv'
<1>1. /\ arrived \in Nat /\ chunk \in Nat /\ leftover \in Nat /\ delivered \in Seq(Records)
      /\ readRecordsSize \in Int /\ dataSize \in Int /\ cursor \in Int /\ size >= 8
  BY ForwardNumbers DEF HeaderSize
<1>2. ForwardReading
  BY DEF ForwardInv
<1>3. /\ cursor + (dataSize - readRecordsSize) = arrived /\ dataSize >= chunk
      /\ leftover > 0 => readRecordsSize = 0 /\ dataSize = leftover + chunk
  BY <1>2 DEF ForwardReading, Available
<1>4. /\ leftover' = 0 /\ stale' = 0 /\ pc' = "reading"
      /\ readRecordsSize' \in Int /\ dataSize' \in Int /\ cursor' \in Int
      /\ cursor' + (dataSize' - readRecordsSize') = arrived /\ dataSize' >= chunk
      /\ cursor' >= cursor + size
  <2>1. leftover' = 0 /\ stale' = 0 /\ pc' = "reading"
    BY DEF Advance, SkipBrokenRecord, OpenStream
  <2>2. \/ /\ readRecordsSize' = readRecordsSize + size
           /\ dataSize' = dataSize /\ cursor' = cursor + size
        \/ /\ readRecordsSize' = readRecordsSize + size - leftover
           /\ dataSize' = chunk
           /\ cursor' = (arrived - chunk) + (readRecordsSize + size - leftover)
    <3>1. CASE Advance(size)
      BY <3>1 DEF Advance
    <3>2. CASE SkipBrokenRecord(size)
      <4>1. OpenStream(chunkStart, chunk, 0, readRecordsSize + size - leftover)
        BY <3>2 DEF SkipBrokenRecord
      <4>2. dataSize' = chunk
            /\ cursor' = chunkStart + (readRecordsSize + size - leftover)
        BY <1>1, <4>1 DEF OpenStream
      <4>3. readRecordsSize' = readRecordsSize + size - leftover
        BY <3>2 DEF SkipBrokenRecord
      <4> QED
        BY <4>2, <4>3 DEF chunkStart
    <3> QED
      BY <3>1, <3>2
  <2>3. readRecordsSize' \in Int /\ dataSize' \in Int /\ cursor' \in Int
    BY <1>1, <2>2
  <2>4. cursor' + (dataSize' - readRecordsSize') = arrived /\ dataSize' >= chunk
    BY <1>1, <1>3, <2>2
  <2>5. cursor' >= cursor + size
    <3>1. CASE leftover = 0
      BY <1>1, <1>3, <2>2, <3>1
    <3>2. CASE leftover > 0
      BY <1>1, <1>3, <2>2, <3>2
    <3> QED
      BY <1>1, <3>1, <3>2
  <2> QED
    BY <2>1, <2>3, <2>4, <2>5
<1>5. DeliveredUpTo(cursor')
  <2>1. CASE wedged
    <3>1. leftover > 0 /\ leftover < size
      BY <2>1 DEF ForwardInv
    <3>2. arrived - chunk <= cursor'
      BY <1>1, <1>3, <1>4, <3>1
    <3>3. DeliveredUpTo(arrived - chunk)
      BY <1>2, <2>1 DEF ForwardReading, chunkStart
    <3> QED
      BY <1>1, <1>4, <3>2, <3>3, UpToLater
  <2>2. CASE ~wedged
    <3>1. DeliveredUpTo(cursor) /\ cursor <= cursor'
      BY <1>1, <1>2, <1>4, <2>2 DEF ForwardReading
    <3> QED
      BY <1>1, <1>4, <3>1, UpToLater
  <2> QED
    BY <2>1, <2>2
<1>6. DeliveredUpTo(cursor)'
  BY <1>5 DEF DeliveredUpTo, DeliveredSet
<1>7. ForwardReading'
  BY <1>4, <1>6 DEF ForwardReading, Available
<1>8. /\ arrived' \in Cuts \cup {0} /\ chunk' \in 0..arrived'
      /\ delivered' \in Seq(Records) /\ DeliveredInOrder' /\ DeliveredUpTo(arrived)'
  BY NothingDelivered
<1> QED
  BY <1>4, <1>7, <1>8 DEF ForwardInv

\* After an error leftover_ is empty, or it is not to be read.
LEMMA StopForward ==
  ASSUME ForwardInv, pc = "reading", UNCHANGED <<arrived, chunk, delivered>>,
         ClearAndStop \/ LeaveRead
  PROVE  ForwardInv'
<1>1. /\ arrived \in Nat /\ leftover \in Nat
      /\ readRecordsSize \in Int /\ dataSize \in Int /\ cursor \in Int
  BY ForwardNumbers
<1>2. /\ pc' = "idle" /\ leftover' \in Nat /\ stale' \in Nat
      /\ wedged' => leftover' > 0
      /\ ~wedged' => leftover' = 0
      /\ readRecordsSize' \in Int /\ dataSize' \in Int /\ cursor' \in Int
  <2>1. /\ pc' = "idle" /\ leftover' \in Nat /\ stale' \in Nat
        /\ readRecordsSize' \in Int /\ dataSize' \in Int /\ cursor' \in Int
    BY <1>1 DEF ClearAndStop, LeaveRead
  <2>2. CASE ClearAndStop
    <3>1. stale' = 0 /\ leftover' = 0
      BY <2>2 DEF ClearAndStop
    <3> QED
      BY <2>1, <3>1
  <2>3. CASE LeaveRead /\ leftover > 0
    <3>1. leftover' > 0 /\ stale' > 0
      BY <2>3 DEF LeaveRead
    <3> QED
      BY <2>1, <3>1
  <2>4. CASE LeaveRead /\ ~(leftover > 0)
    <3>1. leftover' = 0
      BY <1>1, <2>4 DEF LeaveRead
    <3>2. stale' = 0
      BY <1>1, <2>4 DEF LeaveRead
    <3> QED
      BY <2>1, <3>1, <3>2
  <2> QED
    BY <2>2, <2>3, <2>4
<1>3. /\ arrived' \in Cuts \cup {0} /\ chunk' \in 0..arrived'
      /\ delivered' \in Seq(Records) /\ DeliveredInOrder' /\ DeliveredUpTo(arrived)'
  BY NothingDelivered
<1>4. ~wedged' => DeliveredUpTo(arrived - leftover)'
  <2>1. arrived' \in Nat
    BY <1>1
  <2>2. ~wedged' => (arrived - leftover)' = arrived'
    BY <1>2, <2>1
  <2> QED
    BY <1>3, <2>2 DEF DeliveredUpTo
<1> QED
  BY <1>2, <1>3, <1>4 DEF ForwardInv

\* A record is delivered when it is complete, and all others lie before it; the
\* handler may throw.
LEMMA DeliverForward ==
  ASSUME ForwardInv, NEW k \in Records, DeliverRecord(k), UNCHANGED <<arrived, chunk>>
  PROVE  ForwardInv'
<1>1. /\ arrived \in Nat /\ chunk \in Nat /\ leftover \in Nat /\ delivered \in Seq(Records)
      /\ readRecordsSize \in Int /\ dataSize \in Int /\ cursor \in Int
  BY ForwardNumbers
<1>2. N \in Nat /\ k \in 1..N /\ Records \subseteq Int /\ pc = "reading"
  BY StreamAssumption DEF Records, DeliverRecord, AtRecord
<1>3. Start[k] \in Nat /\ Start[k + 1] \in Nat /\ Start[k] + 8 <= Start[k + 1]
  BY <1>2, StartOrder
<1>4. /\ ~wedged /\ cursor = Start[k] /\ Available >= Start[k + 1] - Start[k]
      /\ delivered' = Append(delivered, k)
  BY DEF DeliverRecord, AtRecord, Fits, SizeOf
<1>5. ForwardReading /\ DeliveredUpTo(Start[k])
  BY <1>2, <1>4 DEF ForwardInv, ForwardReading
<1>6. Start[k + 1] <= arrived
  BY <1>1, <1>3, <1>4, <1>5 DEF ForwardReading, Available
<1>7. \A i \in DOMAIN delivered : delivered[i] < k
  <2> SUFFICES ASSUME NEW i \in DOMAIN delivered PROVE delivered[i] < k
    OBVIOUS
  <2>1. PICK j \in Records : j = delivered[i]
    BY <1>1
  <2>2. Start[j + 1] <= Start[k]
    BY <1>5, <2>1 DEF DeliveredUpTo, DeliveredSet
  <2>3. j + 1 \in 1..(N + 1) /\ k \in 1..(N + 1) /\ j \in Int
    BY <1>2 DEF Records
  <2>4. j + 1 <= k
    BY <2>2, <2>3, StartOrder
  <2> QED
    BY <1>2, <2>1, <2>4
<1>8. /\ DOMAIN delivered' = 1..(Len(delivered) + 1)
      /\ DOMAIN delivered = 1..Len(delivered)
      /\ Len(delivered) \in Nat
      /\ \A i \in DOMAIN delivered : delivered'[i] = delivered[i]
      /\ delivered'[Len(delivered) + 1] = k
      /\ delivered' \in Seq(Records)
  BY <1>1, <1>4
<1>9. DeliveredInOrder'
  BY <1>1, <1>2, <1>7, <1>8 DEF ForwardInv, DeliveredInOrder
<1>10. DeliveredSet' = DeliveredSet \cup {k}
  BY <1>8 DEF DeliveredSet
<1>11. DeliveredUpTo(Start[k + 1])'
  <2>1. DeliveredUpTo(Start[k + 1])
    BY <1>1, <1>3, <1>5, UpToLater
  <2> QED
    BY <1>3, <1>10, <2>1 DEF DeliveredUpTo
<1>12. DeliveredUpTo(arrived)'
  <2>1. DeliveredUpTo(arrived)
    BY DEF ForwardInv
  <2> QED
    BY <1>6, <1>10, <2>1 DEF DeliveredUpTo
<1>13. CASE Advance(SizeOf(k))
  <2>1. /\ leftover' = 0 /\ stale' = 0 /\ pc' = "reading" /\ dataSize' = dataSize
        /\ readRecordsSize' = readRecordsSize + (Start[k + 1] - Start[k])
        /\ cursor' = Start[k + 1]
    BY <1>1, <1>2, <1>3, <1>4, <1>13 DEF Advance, SizeOf
  <2>2. (cursor + Available = arrived)' /\ dataSize' >= chunk'
    <3>1. Start[k] + (dataSize - readRecordsSize) = arrived /\ dataSize >= chunk
      BY <1>4, <1>5 DEF ForwardReading, Available
    <3>2. cursor' + (dataSize' - readRecordsSize') = arrived
      BY <1>1, <1>3, <2>1, <3>1, SMTT(30)
    <3>3. dataSize' >= chunk'
      BY <2>1, <3>1
    <3> QED
      BY <3>2, <3>3 DEF Available
  <2>3. DeliveredUpTo(cursor)'
    BY <1>11, <2>1 DEF DeliveredUpTo
  <2>4. ForwardReading'
    BY <2>1, <2>2, <2>3 DEF ForwardReading
  <2>5. arrived' \in Cuts \cup {0} /\ chunk' \in 0..arrived'
    BY DEF ForwardInv
  <2> QED
    <3>1. readRecordsSize' \in Int /\ dataSize' \in Int /\ cursor' \in Int /\ leftover' \in Nat
      BY <1>1, <1>3, <2>1
    <3> QED
      BY <1>8, <1>9, <1>12, <2>1, <2>4, <2>5, <3>1 DEF ForwardInv
<1>14. CASE ClearAndStop
  <2>1. /\ leftover' = 0 /\ stale' = 0 /\ pc' = "idle" /\ dataSize' = dataSize
        /\ readRecordsSize' = 0 /\ cursor' = cursor
    BY <1>14 DEF ClearAndStop
  <2>2. DeliveredUpTo(arrived - leftover)'
    <3>1. (arrived - leftover)' = arrived'
      BY <1>1, <2>1
    <3> QED
      BY <1>12, <3>1 DEF DeliveredUpTo
  <2>3. arrived' \in Cuts \cup {0} /\ chunk' \in 0..arrived'
    BY DEF ForwardInv
  <2> QED
    <3>1. readRecordsSize' \in Int /\ dataSize' \in Int /\ cursor' \in Int /\ leftover' \in Nat
      BY <1>1, <2>1
    <3> QED
      BY <1>8, <1>9, <1>12, <2>1, <2>2, <2>3, <3>1 DEF ForwardInv
<1> QED
  BY <1>13, <1>14 DEF DeliverRecord

\* The catch of InvalidRecordType, with a handler or without.
LEMMA CatchForward ==
  ASSUME ForwardInv, pc = "reading", CatchInvalidType, UNCHANGED <<arrived, chunk>>
  PROVE  ForwardInv'
<1>1. delivered' = delivered /\ (ClearAndStop \/ LeaveRead)
  BY DEF CatchInvalidType
<1> QED
  BY <1>1, StopForward

\* Bytes behind the chunk are read: nothing is delivered from there.
LEMMA OverrunForward ==
  ASSUME ForwardInv, Overrun, UNCHANGED <<arrived, chunk>>
  PROVE  ForwardInv'
<1>1. CASE ClearAndStop /\ UNCHANGED delivered
  BY <1>1, StopForward DEF Overrun
<1>2. CASE CatchInvalidType
  BY <1>2, CatchForward DEF Overrun
<1>3. CASE pc' = "crashed" /\ UNCHANGED <<leftover, stale, readRecordsSize, dataSize,
                                          cursor, delivered, failed>>
  <2>1. /\ arrived' \in Cuts \cup {0} /\ chunk' \in 0..arrived'
        /\ delivered' \in Seq(Records) /\ DeliveredInOrder' /\ DeliveredUpTo(arrived)'
    BY <1>3, NothingDelivered
  <2> QED
    BY <1>3, <2>1 DEF ForwardInv
<1> QED
  BY <1>1, <1>2, <1>3 DEF Overrun

\* Bytes that are not a header lead forward too, whatever they read as.
LEMMA MisreadForward ==
  ASSUME ForwardInv, Misread, UNCHANGED <<arrived, chunk>>
  PROVE  ForwardInv'
<1>1. /\ pc = "reading" /\ Available >= 8 /\ Available \in Int
  BY ForwardNumbers DEF Misread, HeaderSize, Available
<1>2. CASE KeepLeftover
  BY <1>1, <1>2, KeepForward
<1>3. CASE ClearAndStop /\ UNCHANGED delivered
  BY <1>1, <1>3, StopForward
<1>4. CASE CatchInvalidType
  BY <1>1, <1>4, CatchForward
<1>5. ASSUME NEW size \in HeaderSize..Available, size > leftover,
             (Advance(size) /\ UNCHANGED delivered) \/ SkipBrokenRecord(size)
      PROVE  ForwardInv'
  <2>1. size \in Nat /\ size >= HeaderSize
    BY <1>1 DEF HeaderSize
  <2>2. delivered' = delivered
    BY <1>5 DEF SkipBrokenRecord
  <2> QED
    BY <1>1, <1>5, <2>1, <2>2, MoveForward
<1> QED
  BY <1>2, <1>3, <1>4, <1>5 DEF Misread

\* Every step leads forward.
LEMMA NextForward ==
  ASSUME ForwardInv, [Next]_vars
  PROVE  ForwardInv'
<1>1. CASE UNCHANGED vars
  BY <1>1 DEF vars, ForwardInv, ForwardReading, DeliveredInOrder, DeliveredUpTo,
     DeliveredSet, Available, chunkStart
<1>2. ASSUME NEW c \in Cuts, Read(c) PROVE ForwardInv'
  BY <1>2, ReadForward
<1>3. ASSUME FindRecords PROVE ForwardInv'
  <2>1. UNCHANGED <<arrived, chunk>> /\ Available \in Int
    BY <1>3, ForwardNumbers DEF FindRecords, Available
  <2>2. ASSUME NEW k \in Records, DeliverRecord(k) PROVE ForwardInv'
    BY <2>1, <2>2, DeliverForward
  <2>3. CASE NotEnoughForHeader
    BY <2>1, <2>3, KeepForward DEF NotEnoughForHeader, HeaderSize
  <2>4. ASSUME NEW k \in Records, NotEnoughForRecord(k) PROVE ForwardInv'
    BY <2>1, <2>4, KeepForward DEF NotEnoughForRecord, AtRecord, HeaderSize
  <2>5. ASSUME NEW k \in Records, FindBrokenRecord(k) PROVE ForwardInv'
    <3>1. k \in 1..N /\ k + 1 \in 1..(N + 1) /\ k \in 1..(N + 1) /\ k < k + 1
      BY StreamAssumption DEF Records
    <3>2. SizeOf(k) \in Nat /\ SizeOf(k) >= HeaderSize
      BY <3>1, StartOrder DEF SizeOf, HeaderSize
    <3>3. /\ pc = "reading" /\ ~wedged /\ delivered' = delivered
          /\ SkipBrokenRecord(SizeOf(k))
      BY <2>5 DEF FindBrokenRecord, AtRecord, SkipBrokenRecord
    <3> QED
      BY <2>1, <3>2, <3>3, MoveForward
  <2>6. ASSUME NEW k \in Records, FindInvalidType(k) PROVE ForwardInv'
    BY <2>1, <2>6, CatchForward DEF FindInvalidType, AtRecord
  <2>7. ASSUME NEW k \in Records, FindBadVersion(k) PROVE ForwardInv'
    BY <2>1, <2>7, StopForward DEF FindBadVersion, AtRecord
  <2>8. CASE FindInvalidTypeAgain
    BY <2>1, <2>8, CatchForward DEF FindInvalidTypeAgain
  <2>9. CASE Misread
    BY <2>1, <2>9, MisreadForward
  <2>10. CASE Overrun
    BY <2>1, <2>10, OverrunForward
  <2> QED
    BY <1>3, <2>2, <2>3, <2>4, <2>5, <2>6, <2>7, <2>8, <2>9, <2>10 DEF FindRecords
<1> QED
  BY <1>1, <1>2, <1>3 DEF Next

\* The reader never goes back, on any stream.
THEOREM ForwardInvariant == Spec => []ForwardInv
<1>1. Init => ForwardInv
  BY InitForward
<1>2. ForwardInv /\ [Next]_vars => ForwardInv'
  BY NextForward
<1> QED
  BY <1>1, <1>2, PTL DEF Spec

\* No record is delivered twice or out of order: on any stream, however it is
\* cut, after errors, after handlers that throw and while bytes are misread.
THEOREM OrderTheorem == Spec => []DeliveredInOrder
<1>1. ForwardInv => DeliveredInOrder
  BY DEF ForwardInv
<1> QED
  BY <1>1, ForwardInvariant, PTL

-----------------------------------------------------------------------------
(* What an error costs                                                      *)

\* The good records of the chunk up to record k were delivered.
ChunkDeliveredBefore(k) ==
  \A j \in Records :
    chunkStart <= Start[j] /\ j < k /\ Kind[j] = "good" => j \in DeliveredSet

\* In a chunk that begins with a record, the reader is at a record of it ...
SyncedAt(k) ==
  /\ chunkStart <= cursor /\ cursor = Start[k]
  /\ Available >= 0
  /\ ChunkDeliveredBefore(k)

\* ... and what it leaves in leftover_ is less than one.
SyncedInv ==
  synced =>
    /\ pc = "reading" =>
         leftover = 0 /\ dataSize = chunk /\ \E k \in 1..(N + 1) : SyncedAt(k)
    /\ pc = "idle" =>
         /\ OnlyRestOfChunkIsLost
         /\ leftover = 0 \/ \A k \in 1..(N + 1) : Start[k] # arrived

LossInv == ForwardInv /\ SyncedInv

\* Before the first chunk nothing has arrived.
LEMMA InitSynced == Init => SyncedInv
<1> SUFFICES ASSUME Init PROVE SyncedInv
  OBVIOUS
<1>1. ASSUME NEW k \in Records PROVE ~(Start[k + 1] <= arrived)
  <2>1. k \in 1..(N + 1) /\ k + 1 \in 1..(N + 1) /\ k < k + 1
    BY StreamAssumption DEF Records
  <2>2. Start[k] \in Nat /\ Start[k + 1] \in Nat /\ Start[k] + 8 <= Start[k + 1]
    BY <2>1, StartOrder
  <2> QED
    BY <2>2 DEF Init
<1>2. OnlyRestOfChunkIsLost
  BY <1>1 DEF OnlyRestOfChunkIsLost
<1> QED
  BY <1>2 DEF SyncedInv, Init

\* A chunk that begins with a record, when nothing is left over.
LEMMA ReadSynced ==
  ASSUME LossInv, NEW c \in Cuts, Read(c)
  PROVE  SyncedInv'
<1> SUFFICES ASSUME synced' PROVE SyncedInv'
  BY DEF SyncedInv
<1>1. arrived \in Nat /\ leftover \in Nat /\ c \in Nat /\ c > arrived
  BY ForwardNumbers, CutPosition DEF LossInv, Read
<1>2. pc = "idle" /\ (\E k \in Records : Start[k] = arrived) /\ (synced \/ leftover = 0)
  BY DEF Read
<1>3. PICK k \in Records : Start[k] = arrived
  BY <1>2
<1>4. k \in 1..(N + 1) /\ k \in Int
  BY StreamAssumption DEF Records
<1>5. leftover = 0
  BY <1>2, <1>3, <1>4 DEF LossInv, SyncedInv
<1>6. /\ pc' = "reading" /\ leftover' = 0 /\ dataSize' = c - arrived /\ chunk' = c - arrived
      /\ arrived' = c /\ readRecordsSize' = 0 /\ cursor' = arrived
  BY <1>1, <1>5 DEF Read, OpenStream
<1>7. chunkStart' = Start[k]
  BY <1>1, <1>3, <1>6 DEF chunkStart
<1>8. ChunkDeliveredBefore(k)'
  <2> SUFFICES ASSUME NEW j \in Records, Start[k] <= Start[j], j < k PROVE FALSE
    BY <1>7 DEF ChunkDeliveredBefore
  <2>1. j \in 1..(N + 1) /\ j \in Int
    BY StreamAssumption DEF Records
  <2>2. k <= j
    BY <1>4, <2>1, StartOrder
  <2> QED
    BY <1>4, <2>1, <2>2
<1>9. SyncedAt(k)'
  <2>1. chunkStart' <= cursor' /\ cursor' = Start[k]
    BY <1>1, <1>3, <1>6, <1>7
  <2>2. Available' >= 0
    BY <1>1, <1>6 DEF Available
  <2> QED
    BY <1>8, <2>1, <2>2 DEF SyncedAt
<1> QED
  BY <1>4, <1>6, <1>9 DEF SyncedInv

\* The numbers of a synced chunk.
LEMMA SyncedNumbers ==
  ASSUME LossInv, pc = "reading", synced, NEW k \in 1..(N + 1), SyncedAt(k)
  PROVE  /\ arrived \in Nat /\ chunk \in Nat /\ leftover = 0 /\ ~wedged
         /\ readRecordsSize \in Int /\ dataSize = chunk /\ cursor = Start[k]
         /\ Start[k] \in Nat /\ Available = arrived - Start[k] /\ Available >= 0
         /\ Start[k] = (arrived - chunk) + readRecordsSize
         /\ chunkStart <= Start[k]
         /\ k = N + 1 => Available = 0
<1>1. /\ arrived \in Nat /\ chunk \in Nat /\ readRecordsSize \in Int /\ dataSize \in Int
  BY ForwardNumbers DEF LossInv
<1>2. leftover = 0 /\ dataSize = chunk
  BY DEF LossInv, SyncedInv
<1>3. ~wedged
  BY <1>2 DEF LossInv, ForwardInv
<1>4. cursor = Start[k] /\ Start[k] \in Nat /\ Available >= 0 /\ chunkStart <= Start[k]
  BY StartOrder DEF SyncedAt
<1>5. cursor + (dataSize - readRecordsSize) = arrived
  BY DEF LossInv, ForwardInv, ForwardReading, Available
<1>6. Available = arrived - Start[k]
  BY <1>1, <1>4, <1>5 DEF Available
<1>7. Start[k] = (arrived - chunk) + readRecordsSize
  BY <1>1, <1>2, <1>4, <1>5
<1>8. k = N + 1 => Available = 0
  <2>1. arrived <= Start[N + 1]
    BY CutPosition DEF LossInv, ForwardInv
  <2> QED
    BY <1>1, <1>4, <1>6, <2>1
<1> QED
  BY <1>1, <1>2, <1>3, <1>4, <1>6, <1>7, <1>8

\* Its records are only looked for where the reader is.
LEMMA SyncedRecord ==
  ASSUME LossInv, synced, NEW k \in 1..(N + 1), SyncedAt(k),
         NEW j \in Records, AtRecord(j)
  PROVE  j = k
<1>1. j \in 1..(N + 1)
  BY StreamAssumption DEF Records
<1>2. Start[j] = Start[k]
  BY DEF SyncedAt, AtRecord
<1> QED
  BY <1>1, <1>2, StartOrder

\* findRecords ends for want of bytes: all that is complete was delivered.
LEMMA KeepSynced ==
  ASSUME LossInv, pc = "reading", synced, KeepLeftover, UNCHANGED <<arrived, chunk, synced>>,
         NEW k \in 1..(N + 1), SyncedAt(k),
         k \in Records => Available < SizeOf(k)
  PROVE  SyncedInv'
<1>1. /\ arrived \in Nat /\ chunk \in Nat /\ leftover = 0 /\ N \in Nat
      /\ Start[k] \in Nat /\ Available = arrived - Start[k] /\ Available >= 0
      /\ k = N + 1 => Available = 0
  BY SyncedNumbers, StreamAssumption
<1>2. k \in Records \/ k = N + 1
  BY <1>1 DEF Records
<1>3. k \in Records => arrived < Start[k + 1] /\ Start[k + 1] \in Nat /\ k + 1 \in 1..(N + 1)
  <2> SUFFICES ASSUME k \in Records
               PROVE  arrived < Start[k + 1] /\ Start[k + 1] \in Nat /\ k + 1 \in 1..(N + 1)
    OBVIOUS
  <2>1. k + 1 \in 1..(N + 1)
    BY <1>1 DEF Records
  <2>2. Start[k + 1] \in Nat
    BY <2>1, StartOrder
  <2>3. arrived - Start[k] < Start[k + 1] - Start[k]
    BY <1>1 DEF SizeOf
  <2> QED
    BY <1>1, <2>1, <2>2, <2>3
<1>4. ASSUME NEW j \in Records, Start[j + 1] <= arrived PROVE j < k
  <2>1. j \in Int /\ j <= N /\ j + 1 \in 1..(N + 1) /\ Start[j + 1] \in Nat
    BY <1>1, StartOrder DEF Records
  <2>2. CASE k \in Records
    <3>1. Start[j + 1] < Start[k + 1]
      BY <1>1, <1>3, <1>4, <2>1, <2>2
    <3>2. ~(k + 1 <= j + 1)
      BY <1>3, <2>1, <2>2, <3>1, StartOrder
    <3> QED
      BY <1>1, <2>1, <3>2
  <2> QED
    BY <1>1, <1>2, <2>1, <2>2
<1>5. delivered' = delivered /\ arrived' = arrived /\ chunk' = chunk /\ pc' = "idle"
  BY DEF KeepLeftover
<1>6. DeliveredSet' = DeliveredSet /\ chunkStart' = chunkStart
  BY <1>5 DEF DeliveredSet, chunkStart
<1>7. \A j \in Records :
        chunkStart <= Start[j] /\ j < k /\ Kind[j] = "good" => j \in DeliveredSet
  BY DEF SyncedAt, ChunkDeliveredBefore
<1>8. OnlyRestOfChunkIsLost'
  BY <1>4, <1>5, <1>6, <1>7 DEF OnlyRestOfChunkIsLost
<1>9. leftover' = 0 \/ \A i \in 1..(N + 1) : Start[i] # arrived
  <2>1. CASE arrived = Start[k]
    <3>1. readRecordsSize >= dataSize
      <4>1. readRecordsSize \in Int /\ dataSize \in Int
        BY ForwardNumbers DEF LossInv
      <4>2. dataSize - readRecordsSize = 0
        BY <1>1, <2>1 DEF Available
      <4> QED
        BY <4>1, <4>2
    <3> QED
      BY <1>1, <3>1 DEF KeepLeftover
  <2>2. CASE arrived # Start[k]
    <3>1. Start[k] < arrived /\ k \in Records
      BY <1>1, <1>2, <2>2
    <3>2. ASSUME NEW i \in 1..(N + 1), Start[i] = arrived PROVE FALSE
      <4>1. ~(i <= k)
        BY <1>1, <3>1, <3>2, StartOrder
      <4>2. ~(k + 1 <= i)
        BY <1>1, <1>3, <3>1, <3>2, StartOrder
      <4> QED
        BY <1>1, <4>1, <4>2
    <3> QED
      BY <3>2
  <2> QED
    BY <2>1, <2>2
<1> QED
  BY <1>5, <1>8, <1>9 DEF SyncedInv

\* A fatal error: it is in this chunk, and what came before it was delivered.
LEMMA StopSynced ==
  ASSUME LossInv, pc = "reading", synced,
         UNCHANGED <<arrived, chunk, delivered, synced>>,
         ClearAndStop \/ LeaveRead,
         NEW k \in Records, SyncedAt(k), Kind[k] \in {"badtype", "badversion"}
  PROVE  SyncedInv'
<1>1. k \in 1..(N + 1) /\ k \in Int
  BY StreamAssumption DEF Records
<1>2. leftover = 0 /\ chunkStart <= Start[k]
  BY <1>1, SyncedNumbers
<1>3. DeliveredSet' = DeliveredSet /\ chunkStart' = chunkStart
  BY DEF DeliveredSet, chunkStart
<1>4. ASSUME NEW j \in Records, Kind[j] = "good", chunkStart <= Start[j],
             j \notin DeliveredSet
      PROVE  k \in 1..(j - 1)
  <2>1. j \in Int /\ k \in 1..N
    BY StreamAssumption DEF Records
  <2>2. ~(j < k)
    BY <1>4 DEF SyncedAt, ChunkDeliveredBefore
  <2>3. j # k
    BY <1>4
  <2> QED
    BY <1>1, <2>1, <2>2, <2>3
<1>5. OnlyRestOfChunkIsLost'
  BY <1>2, <1>3, <1>4 DEF OnlyRestOfChunkIsLost
<1>6. leftover' = 0 /\ pc' = "idle"
  BY <1>2 DEF ClearAndStop, LeaveRead
<1> QED
  BY <1>5, <1>6 DEF SyncedInv

\* A record is delivered, or skipped: the reader is at the next one.
LEMMA MoveSynced ==
  ASSUME LossInv, pc = "reading", synced, UNCHANGED <<arrived, chunk, synced>>,
         NEW k \in Records, SyncedAt(k), SizeOf(k) <= Available,
         Advance(SizeOf(k)) \/ SkipBrokenRecord(SizeOf(k)),
         DeliveredSet \subseteq DeliveredSet',
         Kind[k] = "good" => k \in DeliveredSet'
  PROVE  SyncedInv'
<1>1. k \in 1..(N + 1) /\ k + 1 \in 1..(N + 1) /\ k \in Int
  BY StreamAssumption DEF Records
<1>2. /\ arrived \in Nat /\ chunk \in Nat /\ leftover = 0 /\ readRecordsSize \in Int
      /\ dataSize = chunk /\ cursor = Start[k] /\ Start[k] \in Nat
      /\ Available = arrived - Start[k]
      /\ Start[k] = (arrived - chunk) + readRecordsSize
      /\ chunkStart <= Start[k]
  BY <1>1, SyncedNumbers
<1>3. Start[k + 1] \in Nat /\ Start[k] + 8 <= Start[k + 1]
  BY <1>1, StartOrder
<1>4. leftover' = 0 /\ pc' = "reading"
  BY DEF Advance, SkipBrokenRecord, OpenStream
<1>5. /\ dataSize' = chunk /\ cursor' = Start[k + 1]
      /\ readRecordsSize' = readRecordsSize + (Start[k + 1] - Start[k])
  <2>1. CASE Advance(SizeOf(k))
    BY <1>2, <1>3, <2>1 DEF Advance, SizeOf
  <2>2. CASE SkipBrokenRecord(SizeOf(k))
    <3>1. readRecordsSize' = readRecordsSize + (Start[k + 1] - Start[k])
      BY <1>2, <1>3, <2>2 DEF SkipBrokenRecord, SizeOf
    <3>2. OpenStream(chunkStart, chunk, 0, readRecordsSize')
      BY <2>2 DEF SkipBrokenRecord
    <3>3. dataSize' = chunk /\ cursor' = (arrived - chunk) + readRecordsSize'
      BY <1>2, <3>2 DEF OpenStream, chunkStart
    <3> QED
      BY <1>2, <1>3, <3>1, <3>3
  <2> QED
    BY <2>1, <2>2
<1>6. chunkStart' = chunkStart /\ arrived' = arrived /\ chunk' = chunk
  BY DEF chunkStart
<1>7. ChunkDeliveredBefore(k + 1)'
  <2> SUFFICES ASSUME NEW j \in Records, chunkStart <= Start[j], j < k + 1, Kind[j] = "good"
               PROVE  j \in DeliveredSet'
    BY <1>6 DEF ChunkDeliveredBefore
  <2>1. j \in Int
    BY DEF Records
  <2>2. CASE j = k
    BY <2>2
  <2>3. CASE j # k
    <3>1. j < k
      BY <1>1, <2>1, <2>3
    <3>2. j \in DeliveredSet
      BY <3>1 DEF SyncedAt, ChunkDeliveredBefore
    <3> QED
      BY <3>2
  <2> QED
    BY <2>2, <2>3
<1>8. Available' >= 0
  <2>1. Start[k + 1] - Start[k] <= arrived - Start[k]
    BY <1>2 DEF SizeOf
  <2>2. Available' = chunk - (readRecordsSize + (Start[k + 1] - Start[k]))
    BY <1>5 DEF Available
  <2> QED
    BY <1>2, <1>3, <2>1, <2>2
<1>9. chunkStart' <= cursor'
  <2>1. chunkStart \in Int
    BY <1>2 DEF chunkStart
  <2> QED
    BY <1>2, <1>3, <1>5, <1>6, <2>1
<1>10. SyncedAt(k + 1)'
  BY <1>5, <1>7, <1>8, <1>9 DEF SyncedAt
<1> QED
  BY <1>1, <1>4, <1>5, <1>6, <1>10 DEF SyncedInv

\* An iteration of findRecords in a synced chunk; nothing is misread there.
LEMMA FindRecordsSynced ==
  ASSUME LossInv, FindRecords
  PROVE  SyncedInv'
<1> SUFFICES ASSUME synced' PROVE SyncedInv'
  BY DEF SyncedInv
<1>1. pc = "reading" /\ N \in Nat
  BY StreamAssumption DEF FindRecords, NotEnoughForHeader, NotEnoughForRecord,
     DeliverRecord, FindBrokenRecord, FindInvalidType, FindBadVersion, AtRecord,
     FindInvalidTypeAgain, Misread, Overrun
<1>2. synced /\ UNCHANGED <<arrived, chunk, synced>>
  BY DEF FindRecords, DeliverRecord
<1>3. PICK k \in 1..(N + 1) : SyncedAt(k)
  BY <1>1, <1>2 DEF LossInv, SyncedInv
<1>4. /\ leftover = 0 /\ ~wedged /\ cursor = Start[k] /\ Available >= 0
      /\ Available \in Int /\ (k = N + 1 => Available = 0)
  BY <1>1, <1>2, <1>3, SyncedNumbers
<1>5. k \in Records \/ k = N + 1
  BY <1>1 DEF Records
<1>6. k \in Records => SizeOf(k) \in Int /\ SizeOf(k) >= 8
  <2> SUFFICES ASSUME k \in Records PROVE SizeOf(k) \in Int /\ SizeOf(k) >= 8
    OBVIOUS
  <2>1. k + 1 \in 1..(N + 1) /\ k < k + 1
    BY <1>1 DEF Records
  <2> QED
    BY <2>1, StartOrder DEF SizeOf
<1>7. ASSUME NEW j \in Records, DeliverRecord(j) PROVE SyncedInv'
  <2>1. j = k
    BY <1>2, <1>3, <1>7, SyncedRecord DEF DeliverRecord
  <2>2. Advance(SizeOf(j)) /\ delivered' = Append(delivered, j) /\ SizeOf(j) <= Available
    BY <1>2, <1>4, <1>6, <1>7, <2>1 DEF DeliverRecord, Fits
  <2>3. DeliveredSet \subseteq DeliveredSet' /\ j \in DeliveredSet'
    <3>1. delivered \in Seq(Records)
      BY DEF LossInv, ForwardInv
    <3>2. /\ DOMAIN delivered = 1..Len(delivered) /\ Len(delivered) \in Nat
          /\ DOMAIN delivered' = 1..(Len(delivered) + 1)
          /\ \A i \in DOMAIN delivered : delivered'[i] = delivered[i]
          /\ delivered'[Len(delivered) + 1] = j
      BY <2>2, <3>1
    <3> QED
      BY <3>2 DEF DeliveredSet
  <2> QED
    BY <1>1, <1>2, <1>3, <2>1, <2>2, <2>3, MoveSynced
<1>8. CASE NotEnoughForHeader
  <2>1. k \in Records => Available < SizeOf(k)
    BY <1>4, <1>6, <1>8 DEF NotEnoughForHeader, HeaderSize
  <2> QED
    BY <1>1, <1>2, <1>3, <1>8, <2>1, KeepSynced DEF NotEnoughForHeader
<1>9. ASSUME NEW j \in Records, NotEnoughForRecord(j) PROVE SyncedInv'
  <2>1. j = k
    BY <1>2, <1>3, <1>9, SyncedRecord DEF NotEnoughForRecord
  <2>2. Available < SizeOf(k)
    BY <1>4, <1>6, <1>9, <2>1 DEF NotEnoughForRecord, Fits
  <2> QED
    BY <1>1, <1>2, <1>3, <1>9, <2>2, KeepSynced DEF NotEnoughForRecord
<1>10. ASSUME NEW j \in Records, FindBrokenRecord(j) PROVE SyncedInv'
  <2>1. j = k
    BY <1>2, <1>3, <1>10, SyncedRecord DEF FindBrokenRecord
  <2>2. SkipBrokenRecord(SizeOf(j)) /\ SizeOf(j) <= Available /\ Kind[j] # "good"
    BY <1>4, <1>6, <1>10, <2>1 DEF FindBrokenRecord, Fits
  <2>3. DeliveredSet' = DeliveredSet
    BY <2>2 DEF SkipBrokenRecord, DeliveredSet
  <2> QED
    BY <1>1, <1>2, <1>3, <2>1, <2>2, <2>3, MoveSynced
<1>11. ASSUME NEW j \in Records, FindInvalidType(j) \/ FindBadVersion(j) PROVE SyncedInv'
  <2>1. AtRecord(j) /\ Kind[j] \in {"badtype", "badversion"}
    BY <1>11 DEF FindInvalidType, FindBadVersion
  <2>2. delivered' = delivered /\ (ClearAndStop \/ LeaveRead)
    BY <1>11 DEF FindInvalidType, FindBadVersion, CatchInvalidType
  <2>3. j = k
    BY <1>2, <1>3, <2>1, SyncedRecord
  <2> QED
    BY <1>1, <1>2, <1>3, <2>1, <2>2, <2>3, StopSynced
<1>12. ~FindInvalidTypeAgain /\ ~Overrun
  BY <1>4 DEF FindInvalidTypeAgain, Overrun, LossInv, ForwardInv
<1>13. ~Misread
  BY <1>4, <1>5 DEF Misread, HeaderSize
<1> QED
  BY <1>7, <1>8, <1>9, <1>10, <1>11, <1>12, <1>13 DEF FindRecords

\* Every step keeps the account of what an error costs.
LEMMA NextLoss ==
  ASSUME LossInv, [Next]_vars
  PROVE  LossInv'
<1>1. ForwardInv'
  BY NextForward DEF LossInv
<1>2. CASE UNCHANGED vars
  BY <1>1, <1>2 DEF LossInv, vars, SyncedInv, SyncedAt, ChunkDeliveredBefore,
     OnlyRestOfChunkIsLost, DeliveredSet, Available, chunkStart
<1>3. CASE Next
  BY <1>1, <1>3, ReadSynced, FindRecordsSynced DEF Next, LossInv
<1> QED
  BY <1>2, <1>3

\* An error costs no more than the rest of its chunk, on any stream and with
\* handlers that throw, for the chunks that begin with a record and follow a
\* chunk that did, or an error.
THEOREM ChunkLossTheorem == Spec => []OnlyRestOfChunkIsLost
<1>1. Init => LossInv
  BY InitForward, InitSynced DEF LossInv
<1>2. LossInv /\ [Next]_vars => LossInv'
  BY NextLoss
<1>3. LossInv => OnlyRestOfChunkIsLost
  BY DEF LossInv, SyncedInv, OnlyRestOfChunkIsLost
<1> QED
  BY <1>1, <1>2, <1>3, PTL DEF Spec
=============================================================================
