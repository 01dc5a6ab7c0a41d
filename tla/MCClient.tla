------------------------------ MODULE MCClient ------------------------------
(* Model values for the checks of Client. *)
EXTENDS Client

CONSTANTS c1, c2

BothCalls == {c1, c2}
FirstCall == {c1}
NoCalls == {}
=============================================================================
