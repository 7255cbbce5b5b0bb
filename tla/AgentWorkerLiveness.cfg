\* Every claim lasts to the deadline; no symmetry, as liveness is checked.
SPECIFICATION WorkerSpec
CONSTANTS
  None = None
  Tasks = {t1}
  Users = {u1}
  Workers = {w1, w2}
  Requests = {q1}
  MaxAttempts = 1
  MaxSteps = 2
  MaxToolCalls = 1
  MaxEvidence = 0
  MaxExecutions = 2
  LeaseDuration = 2
  WallTime = 2
  Lag = 0
  MaxTime = 2
  SafetyMargin = 1
  MaxLost = 1
PROPERTIES
  EveryRunEnds
