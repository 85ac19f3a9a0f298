----------------------------- MODULE MCLibrary ------------------------------
(* Instances of Library for TLC.                                           *)
EXTENDS Library, TLC

CONSTANTS s1, s2, q1, q2, c1, c2
TwoStates == {s1, s2}
OneState == {s1}
OneQuestion == {q1}
TwoQuestions == {q1, q2}
OneCalibrator == {c1}
TwoCalibrators == {c1, c2}
NoCalibrator == {}

\* Nothing tells two states or two question sets apart.
Interchangeable == Permutations({s1, s2}) \cup Permutations({q1, q2})
=============================================================================
