SPECIFICATION RunsReconnecting
CONSTANTS
  None = None
  Explicit = Explicit
  Job = {j1, j2}
  Project = {p1}
  Sweeper = {w1, w2}
  Retention = 1
INVARIANTS
  RunsTypeOK
  LiveJobsKeepTheirs
PROPERTIES
  RunsAsPrepared
  EveryDirectoryGoes
