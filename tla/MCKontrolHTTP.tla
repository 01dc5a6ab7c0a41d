---------------------------- MODULE MCKontrolHTTP ----------------------------
(* Model values for the checks of KontrolHTTP. *)
EXTENDS KontrolHTTP, TLC

CONSTANTS u1, u2, h1, h2, h3

OneURL == {u1}
TwoURLs == {u1, u2}
TwoRecords == {h1, h2}
ThreeRecords == {h1, h2, h3}

(* Neither records nor URLs are told apart. *)
Symmetry == Permutations(TwoURLs) \cup Permutations(ThreeRecords)
=============================================================================
