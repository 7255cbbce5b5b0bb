\* One process that neither crashes nor loses a call.
SPECIFICATION WorkerSpec
CONSTANTS
  None = None
  Tasks = {t1}
  Users = {u1}
  Workers = {w1}
  Requests = {q1}
  MaxAttempts = 1
  MaxSteps = 2
  MaxToolCalls = 1
  MaxEvidence = 1
  MaxExecutions = 2
  LeaseDuration = 2
  WallTime = 3
  Lag = 0
  MaxTime = 3
  SafetyMargin = 1
  MaxLost = 0
PROPERTIES
  LimitFailsRun
