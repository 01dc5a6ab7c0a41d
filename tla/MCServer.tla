------------------------------- MODULE MCServer -------------------------------
(***************************************************************************)
(* TLC instance of Server: three connections, so that one is accepted and  *)
(* another served while Close runs.                                        *)
(***************************************************************************)
EXTENDS Server
=============================================================================
