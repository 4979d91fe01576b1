\* Three jobs, and runs of the process with every kind of configuration.
SPECIFICATION StartupSpec
CONSTANTS
  j1 = j1  j2 = j2  j3 = j3  b1 = b1
  RowIds <- ThreeRows
  Blobs <- OneBlob
  NoBlob = NoBlob
  Times <- AroundASecond
  Limits = {1}
  Base = 2
  Width = 2
  CPUs = 1
  Texts = {":8080", "host", "db", ":memory:"}
  Empty = ""
  InMemory = ":memory:"
  DefaultAddr = ":8080"
  DefaultPath = "db"
  Absent = Absent
  NoFile = NoFile
  BadFile = BadFile
  Refused = Refused
  Files <- SomeSettings
  Environments <- SomeSettings
SYMMETRY Interchangeable
INVARIANTS StartupTypeOK OverLimitOnlyUnfinished EnvOverridesFile StartsUnlessFileBad
PROPERTIES StartsLoseNothing OldestToTheSecond
