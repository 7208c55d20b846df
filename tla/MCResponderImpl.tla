--------------------------- MODULE MCResponderImpl ---------------------------
(* Instances of ResponderImpl for TLC.                                      *)
EXTENDS ResponderImpl, TLC

CONSTANTS p1, p2, x1, x2, r1, r2, r3

\* Two ids and two different values of each kind: what belongs to which
\* request, and in what order, can be told apart
TwoIds == {r1, r2}
ThreeIds == {r1, r2, r3}
OneId == {r1}
Pairs == {p1, p2}
TwoParamLists == {<<p1>>, <<p2>>}
TwoStdInData == {<<>>, <<x1>>}
NoParamLists == {}
EndOfStdIn == {<<>>}

None == {}
AnyRole == {"Responder", "Authorizer"}
ResponderRole == {"Responder"}
LimitsToTwo == {0, 1, 2}

IdSymmetry == Permutations(RequestIds)
=============================================================================
