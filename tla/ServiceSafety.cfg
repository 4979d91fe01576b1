\* One worker, two callers, submissions of any type, DELETE /jobs and a crash
\* anywhere; no write fails.
SPECIFICATION ServiceSpec
CONSTANTS
  w1 = w1  w2 = w2  c1 = c1  c2 = c2  a1 = a1  j1 = j1  j2 = j2  j3 = j3
  Workers <- OneWorker
  Callers <- TwoCallers
  Admins <- NoAdmin
  JobIds <- ThreeJobs
  NoJob = NoJob
  Requests <- AllRequests
  Filters <- ClearAll
  QueueSize = 1
  MaxJobs = 1
  MaxFaults = 0
  MaxRestarts = 1
SYMMETRY Interchangeable
INVARIANTS ServiceTypeOK KnownBound InFlightRowKept DocumentMatchesSchema
