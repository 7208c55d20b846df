---------------------------- MODULE MCRecordReader ----------------------------
(* Streams of records for TLC, with the sizes the code can produce.     *)
EXTENDS RecordReader

\* A header alone, 8 bytes of content, a content of 3 bytes without padding
\* (as another implementation may send it)
MixedBounds == <<0, 16, 24, 35, 43, 59, 70>>
\* The good records behind the last broken one may be cut as well
BrokenFirst == <<"broken", "good", "broken", "good", "good", "good">>
OutsideSecond == (0..70) \ (17..23)

ShortBounds == <<0, 8, 24, 35, 43>>
OneBroken == <<"good", "broken", "good", "good">>
Anywhere == 0..43

FatalBounds == <<0, 8, 16, 27, 43, 51>>
Fatal == <<"good", "badversion", "good", "badtype", "good">>
AnywhereFatal == 0..51
=============================================================================
