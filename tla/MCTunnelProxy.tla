---------------------------- MODULE MCTunnelProxy ----------------------------
(***************************************************************************)
(* TLC instance of TunnelProxy: two public sessions and two connections of *)
(* the kite, so that a tunnel of the first registration meets the second.  *)
(***************************************************************************)
EXTENDS TunnelProxy
=============================================================================
