\* Leases that end within the clock, deadlines that do not; a step is executed
\* once, a run that would resume one waits.  No symmetry, as liveness is checked.
SPECIFICATION WorkerSpec
CONSTANTS
  None = None
  Tasks = {t1}
  Users = {u1}
  Workers = {w1, w2}
  Requests = {q1}
  MaxAttempts = 1
  MaxSteps = 2
  MaxToolCalls = 1
  MaxEvidence = 0
  MaxExecutions = 1
  LeaseDuration = 2
  WallTime = 3
  Lag = 0
  MaxTime = 2
  SafetyMargin = 1
  MaxLost = 1
PROPERTIES
  CancelTakesEffect
