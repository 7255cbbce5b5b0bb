\* Three attempts of one task, with replayed retry requests.
SPECIFICATION Spec
CONSTANTS
  None = None
  Tasks = {t1}
  Users = {u1}
  Workers = {w1}
  Requests = {q1, q2}
  MaxAttempts = 3
  MaxSteps = 1
  MaxToolCalls = 1
  MaxEvidence = 0
  MaxExecutions = 1
  LeaseDuration = 1
  WallTime = 1
  Lag = 0
  MaxTime = 2
SYMMETRY Interchangeable
INVARIANTS
  RetryOnce
PROPERTIES
  ImplementsLifecycle
