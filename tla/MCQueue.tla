------------------------------ MODULE MCQueue ------------------------------
(* Instances of Queue that TLC explores. *)
EXTENDS Queue, TLC

CONSTANTS w1, w2, c1, c2, j1, j2, j3

TwoWorkers  == {w1, w2}
TwoCallers  == {c1, c2}
TwoJobs     == {j1, j2}
ThreeJobs   == {j1, j2, j3}
BothKinds   == {"document", "schema"}
AllFilters  == KindFilters
NoFilter    == {""}
OneKind     == {"document"}

\* The members of each set are interchangeable (for the safety runs only).
Interchangeable ==
  Permutations(Workers) \cup Permutations(Callers) \cup Permutations(JobIds)
=============================================================================
