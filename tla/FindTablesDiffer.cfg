\* Two workers install documents at the same time.
SPECIFICATION ServiceSpec
CONSTANTS
  w1 = w1  w2 = w2  c1 = c1  c2 = c2  a1 = a1  j1 = j1  j2 = j2  j3 = j3
  Workers <- TwoWorkers
  Callers <- OneCaller
  Admins <- NoAdmin
  JobIds <- TwoJobs
  NoJob = NoJob
  Requests <- Documents
  Filters <- NoFilter
  QueueSize = 1
  MaxJobs = 2
  MaxFaults = 0
  MaxRestarts = 0
INVARIANTS StoreMirrorsMemory
CHECK_DEADLOCK FALSE
