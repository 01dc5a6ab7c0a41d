--------------------------- MODULE MCTokenRenewer ---------------------------
(***************************************************************************)
(* TLC instance of TokenRenewer: one request and two dials, so that a      *)
(* connect handler may meet the loop of an earlier connection.             *)
(***************************************************************************)
EXTENDS TokenRenewer
=============================================================================
