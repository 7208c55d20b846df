----------------------------- MODULE StreamLayout -----------------------------
(***************************************************************************)
(* The stream of records that one side of a connection sends, as the other *)
(* side receives it.  Byte positions are counted from the start of the     *)
(* connection; record k occupies the bytes Start[k] .. Start[k+1]-1.       *)
(***************************************************************************)
EXTENDS Integers

CONSTANTS
  N,        \* number of records on the stream
  Start,    \* position of each record's first byte, and of the stream's end
  Kind,     \* what Record::read makes of each record
  Cuts      \* positions at which the transport may cut the stream

Records == 1..N
HeaderSize == 8

Kinds == {"good",        \* read without an error
          "broken",      \* the content cannot be read (RecordMessageReadError)
          "badtype",     \* the type is none of RecordType's (InvalidRecordType)
          "badversion"}  \* the version is not 1 (UnsupportedVersion)

ASSUME StreamAssumption ==
  /\ N \in Nat
  /\ Start \in [1..(N + 1) -> Nat]
  /\ Start[1] = 0
  /\ \A j, k \in 1..(N + 1) : j < k => Start[j] + HeaderSize <= Start[k]
  /\ Kind \in [Records -> Kinds]
  /\ Cuts \subseteq 0..Start[N + 1]

\* Records that only spoil themselves
NoFatalRecords == \A k \in Records : Kind[k] \in {"good", "broken"}

\* No good record that comes before a broken one is cut
SafeCuts ==
  \A j, k \in Records :
    k < j /\ Kind[k] = "good" /\ Kind[j] = "broken" =>
      \A c \in Cuts : ~(Start[k] < c /\ c < Start[k + 1])
=============================================================================
