--------------------------- MODULE MCKontrolDnode ---------------------------
(* Model values for the checks of KontrolDnode. *)
EXTENDS KontrolDnode, TLC

CONSTANTS u1, u2, r1, r2, g1, g2

TwoURLs == {u1, u2}
TwoRecords == {r1, r2}
TwoUpdaters == {g1, g2}

Symmetry == Permutations(TwoRecords) \cup Permutations(TwoUpdaters)
            \cup Permutations(TwoURLs)
=============================================================================
