----------------------------- MODULE MCKeyPairs -----------------------------
(***************************************************************************)
(* TLC instance of KeyPairs: kontrol's own pair and one that is retired;   *)
(* the owner's picker hands out the latter.                                *)
(***************************************************************************)
EXTENDS KeyPairs
=============================================================================
