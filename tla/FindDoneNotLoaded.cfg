\* A schema job is done before its schema is loaded.
SPECIFICATION ServiceSpec
CONSTANTS
  w1 = w1  w2 = w2  c1 = c1  c2 = c2  a1 = a1  j1 = j1  j2 = j2  j3 = j3
  Workers <- OneWorker
  Callers <- OneCaller
  Admins <- NoAdmin
  JobIds <- OneJob
  NoJob = NoJob
  Requests <- Schemas
  Filters <- NoFilter
  QueueSize = 1
  MaxJobs = 1
  MaxFaults = 0
  MaxRestarts = 0
INVARIANTS DoneIsLoaded
CHECK_DEADLOCK FALSE
