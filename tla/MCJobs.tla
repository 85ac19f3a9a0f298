------------------------------- MODULE MCJobs -------------------------------
(* Instances of Jobs for TLC.                                              *)
EXTENDS Jobs, TLC

CONSTANTS w1, w2, c1, c2
OneWorker == {w1}
TwoWorkers == {w1, w2}
OneClient == {c1}
TwoClients == {c1, c2}
Symmetry == Permutations({w1, w2}) \cup Permutations({c1, c2})
NoFaultPoints == {}
TaskFaults == {"check", "start", "finish", "claim"}
AllFaults == TaskFaults \cup {"enqueue", "complete"}
CompleteFaults == {"complete"}
=============================================================================
