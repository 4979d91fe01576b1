SPECIFICATION Spec
CONSTANTS
  h1 = h1
  h2 = h2
  s1 = s1
  s2 = s2
  Panes = {"schema"}
  Handlers = {h1, h2}
  DocumentJobs = {}
  SchemaJobs = {s1, s2}
  NoJob = NoJob
INVARIANTS
  WebTypeOK
  ResultsPaired
  BusyIffSubmitting
PROPERTIES
  ExportsMatch
  OutcomeShown
  HandlersEnd
