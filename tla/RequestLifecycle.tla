--------------------------- MODULE RequestLifecycle ---------------------------
(***************************************************************************)
(* What a responder promises about each request on a connection: it takes  *)
(* an id that is free, is handed to the application at most once, and      *)
(* leaves its id with an EndRequest.  A request is named by the number of  *)
(* the record that begins it.  ResponderImpl.tla models the code that      *)
(* implements this.                                                        *)
(***************************************************************************)
EXTENDS Naturals

CONSTANTS
  Ids,
  Requests    \* the numbers that requests may have

VARIABLES
  records,    \* number of records received
  open,       \* the request that has each id, 0 if there is none
  handed,     \* requests the application was given
  ended,      \* requests whose EndRequest was sent
  closed      \* the responder is gone

lifecycleVars == <<records, open, handed, ended, closed>>

Init ==
  /\ records = 0
  /\ open = [id \in Ids |-> 0]
  /\ handed = {} /\ ended = {}
  /\ closed = FALSE

Receive == ~closed /\ records' = records + 1 /\ UNCHANGED closed

\* A record that changes nothing here, or one that is ignored
Continue == Receive /\ UNCHANGED <<open, handed, ended>>

Accept(id) ==
  /\ Receive
  /\ open[id] = 0
  /\ open' = [open EXCEPT ![id] = records']
  /\ UNCHANGED <<handed, ended>>

Refuse ==
  /\ Receive
  /\ ended' = ended \cup {records'}
  /\ UNCHANGED <<open, handed>>

HandOut(id) ==
  /\ Receive
  /\ open[id] \notin handed \cup {0}
  /\ handed' = handed \cup {open[id]}
  /\ UNCHANGED <<open, ended>>

\* The request is ended by a record, an abort, or by the application, which has
\* it.  After an exception it may have to be ended again.
End(id) ==
  /\ ~closed
  /\ open[id] # 0
  /\ ended' = ended \cup {open[id]}
  /\ open' \in {open, [open EXCEPT ![id] = 0]}
  /\ records' \in records..(records + 1)
  /\ UNCHANGED <<handed, closed>>

Close == ~closed /\ closed' = TRUE /\ UNCHANGED <<records, open, handed, ended>>

Next ==
  \/ Continue \/ Refuse \/ Close
  \/ \E id \in Ids : Accept(id) \/ HandOut(id) \/ End(id)

\* What the application was given is ended
EveryRequestEnds == \A n \in Requests : n \in handed ~> (n \in ended \/ closed)

SafeSpec == Init /\ [][Next]_lifecycleVars
Spec == SafeSpec /\ EveryRequestEnds
=============================================================================
