----------------------------- MODULE MCService -----------------------------
(* Instances of Service that TLC explores. *)
EXTENDS Service, TLC

CONSTANTS w1, w2, c1, c2, a1, j1, j2, j3

OneWorker   == {w1}
TwoWorkers  == {w1, w2}
OneCaller   == {c1}
TwoCallers  == {c1, c2}
NoAdmin     == {}
OneAdmin    == {a1}
OneJob      == {j1}
TwoJobs     == {j1, j2}
ThreeJobs   == {j1, j2, j3}
AllRequests == RequestTypes
Documents   == {"document"}
Schemas     == {"schema"}
DocsAndSchemas == {"document", "schema"}
ClearAll    == {""}
ClearOne    == {"document"}
NoFilter    == {}

Interchangeable ==
  Permutations(Workers) \cup Permutations(Callers) \cup Permutations(JobIds)
=============================================================================
