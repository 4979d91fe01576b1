\* Two workers, a caller, DELETE /schema, a crash and a failing write.
SPECIFICATION ServiceSpec
CONSTANTS
  w1 = w1  w2 = w2  c1 = c1  c2 = c2  a1 = a1  j1 = j1  j2 = j2  j3 = j3
  Workers <- TwoWorkers
  Callers <- OneCaller
  Admins <- OneAdmin
  JobIds <- TwoJobs
  NoJob = NoJob
  Requests <- DocsAndSchemas
  Filters <- ClearAll
  QueueSize = 1
  MaxJobs = 1
  MaxFaults = 1
  MaxRestarts = 1
SYMMETRY Interchangeable
INVARIANTS StoreNeverAhead NoForeignUnfinished MirrorsUnlessRaced DocumentMatchesSchema
