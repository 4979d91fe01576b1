\* Two workers and two callers: three submissions, a channel of one, a history of two.
SPECIFICATION Spec
CONSTANTS
  w1 = w1  w2 = w2  c1 = c1  c2 = c2  j1 = j1  j2 = j2  j3 = j3
  Workers <- TwoWorkers
  Callers <- TwoCallers
  JobIds <- ThreeJobs
  NoJob = NoJob
  Requests <- BothKinds
  Filters <- AllFilters
  QueueSize = 1
  MaxJobs = 2
SYMMETRY Interchangeable
INVARIANTS TypeOK OneOwner StatusFollowsOwner SignalledIsSettled CleanShutdown
PROPERTY KeepsHistory
