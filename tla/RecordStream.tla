----------------------------- MODULE RecordStream -----------------------------
(***************************************************************************)
(* What a byte stream of FastCGI records promises to its receiver: the     *)
(* records that can be read are delivered once each, in order, as soon as  *)
(* all their bytes have arrived, however the transport cuts the stream     *)
(* into chunks.  RecordReader.tla models the code that implements this.    *)
(***************************************************************************)
EXTENDS StreamLayout, Sequences

VARIABLES
  arrived,    \* number of bytes that have arrived
  delivered   \* the records that were delivered, by number

streamVars == <<arrived, delivered>>

Complete(k) == Start[k + 1] <= arrived
IsDelivered(k) == \E i \in DOMAIN delivered : delivered[i] = k

Init == arrived = 0 /\ delivered = <<>>

Arrive ==
  /\ \E c \in Cuts : c > arrived /\ arrived' = c
  /\ UNCHANGED delivered

Deliver ==
  /\ \E k \in Records :
       /\ Kind[k] = "good"
       /\ Complete(k)
       /\ ~IsDelivered(k)
       /\ \A j \in Records : j < k /\ Kind[j] = "good" => IsDelivered(j)
       /\ delivered' = Append(delivered, k)
  /\ UNCHANGED arrived

Next == Arrive \/ Deliver

SafeSpec == Init /\ [][Next]_streamVars
Spec == SafeSpec /\ WF_streamVars(Deliver)
=============================================================================
