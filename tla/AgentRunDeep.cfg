\* One run in depth: three steps, two workers, stale time stamps, recovery.
SPECIFICATION Spec
CONSTANTS
  None = None
  Tasks = {t1}
  Users = {u1}
  Workers = {w1, w2}
  Requests = {q1}
  MaxAttempts = 1
  MaxSteps = 3
  MaxToolCalls = 2
  MaxEvidence = 2
  MaxExecutions = 2
  LeaseDuration = 2
  WallTime = 4
  Lag = 1
  MaxTime = 4
SYMMETRY Interchangeable
INVARIANTS
  Viewable
  ContextRebuildable
PROPERTIES
  CancelFreezesTrace
  PublicationAuthorised
