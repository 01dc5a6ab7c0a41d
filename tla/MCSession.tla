------------------------------ MODULE MCSession ------------------------------
(***************************************************************************)
(* TLC instance of Session: three messages, so that a frame carries        *)
(* several and others follow while Recv still returns them.                *)
(***************************************************************************)
EXTENDS Session
=============================================================================
