------------------------------ MODULE MCSession ------------------------------
(* An instance of Session for TLC.                                          *)
EXTENDS Session

\* Ids up to the default limit
ElevenIds == 11
OneOrTwo == {1, 2}
Five == {5}
=============================================================================
