--------------------------- MODULE MCRequesterImpl ---------------------------
(* Instances of RequesterImpl for TLC.                                      *)
EXTENDS RequesterImpl

\* Four ids: 1, 2, 3 and, when the server allows more than three, 0
FourIds == 4
OneOrTwo == {1, 2}
NoneOrTwo == {0, 2}
Two == {2}

Nothing == {}
Complete == {"RequestComplete"}
CompleteOrOverloaded == {"RequestComplete", "Overloaded"}
Valid == {"valid"}
ValidOrBad == {"valid", "badMaxReqs"}
AnyKind == {"valid", "empty", "badMaxReqs", "badMpxsConns"}

WhileOpen == {"open"}
WhenFinished == {"open", "finished"}
NotFromHandlers == {"opening", "open", "finished"}
=============================================================================
