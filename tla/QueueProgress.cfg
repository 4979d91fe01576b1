\* Two workers, two callers, two submissions: progress, and the abstract lifecycle.
SPECIFICATION Spec
CONSTANTS
  w1 = w1  w2 = w2  c1 = c1  c2 = c2  j1 = j1  j2 = j2  j3 = j3
  Workers <- TwoWorkers
  Callers <- TwoCallers
  JobIds <- TwoJobs
  NoJob = NoJob
  Requests <- OneKind
  Filters <- NoFilter
  QueueSize = 1
  MaxJobs = 1
PROPERTIES EveryJobSettles WaitersReleased CloseReturns ImplementsLifecycle
