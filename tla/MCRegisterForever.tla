-------------------------- MODULE MCRegisterForever --------------------------
(* Model values for the checks of RegisterForever. *)
EXTENDS RegisterForever

CONSTANTS u1, u2

OneURL == {u1}
TwoURLs == {u1, u2}
=============================================================================
