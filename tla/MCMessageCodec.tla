--------------------------- MODULE MCMessageCodec ---------------------------
(* An instance of MessageCodec for TLC: bytes of 16 values, so that lengths  *)
(* of 8 need four bytes and content lengths reach 255.                       *)
EXTENDS MessageCodec

Bytes(n, first) == [i \in 1..n |-> (first + i) % Base]
Pair(nameSize, first, valueSize) ==
  [name |-> Bytes(nameSize, first), value |-> Bytes(valueSize, nameSize)]

TwoIds == {1, 255}

\* No parameters, one at each boundary of the lengths, and two lists that are too
\* long: their length modulo 256 ends inside a pair, and behind the first pair
FewOwnParams ==
  {<<>>, <<Pair(1, 1, 0)>>, <<Pair(1, 1, 7), Pair(7, 2, 8), Pair(8, 3, 1)>>,
   <<Pair(1, 1, 1), Pair(1, 2, 260)>>,
   <<Pair(1, 1, 7), Pair(1, 2, 250)>>}

\* Out of order, next to each other or apart in one record, and in two records
FewForeignParams ==
  {<<<<Pair(8, 9, 7), Pair(1, 4, 1), Pair(2, 1, 9)>>>>,
   <<<<Pair(1, 4, 1), Pair(1, 4, 2)>>, <<Pair(2, 1, 3), Pair(1, 4, 8)>>>>,
   <<<<Pair(3, 4, 1)>>, <<Pair(2, 4, 2), Pair(1, 4, 0), Pair(3, 4, 3)>>>>}

\* Empty, one byte, around the size of one packet, and two whole packets
FewTexts == {Bytes(n, n) : n \in {0, 1, 255, 256, 510}}

SixByteNames ==
  [v \in ValueRequests |->
     Bytes(6, CASE v = "MaxConns" -> 1 [] v = "MaxReqs" -> 2 [] v = "MpxsConns" -> 3)]

\* Records that arrive whole, or cut in the id of the header, behind the header,
\* and in the lengths of the first pair
FewCuts == {0, 3, 8, 11}

FewValues == {<<1>>, <<1, 0>>}
=============================================================================
