------------------------------ MODULE MCEngine ------------------------------
(* Instances of Engine for TLC.                                            *)
EXTENDS Engine, TLC

CONSTANTS r1, r2, r3, b1, b2
TwoRequests == {r1, r2}
ThreeRequests == {r1, r2, r3}
OneBatcher == {b1}
TwoBatchers == {b1, b2}
Symmetry == Permutations({r1, r2, r3}) \cup Permutations({b1, b2})
=============================================================================
