\* Two uploads, two processes: duplicate contents, a recovery beside a live
\* worker, deletions, lost replies; no symmetry, as liveness is checked.
SPECIFICATION Spec
CONSTANTS
  Docs = {d1, d2}
  Sources = {s1, s2}
  Procs = {p1, p2}
  None = None
  MaxCrashes = 1
  MaxReindexes = 1
  MaxLost = 1
CHECK_DEADLOCK FALSE
INVARIANTS
  SourceKept
  RowConsistent
  AttemptsExclusive
PROPERTIES
  LastGoodIndexKept
  EveryDocumentSettles
