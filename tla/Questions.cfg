\* One document, one provider call, one request, one run, one page; no symmetry, as liveness is checked.
SPECIFICATION Spec
CONSTANTS
  MaxAttempts = 2
  MaxBatches = 2
  None = None
  Documents = {d1, d2}
  Papers = {p1, p2}
  Nothing = Nothing
  MaxChanges = 2
  Workers = {w1, w2}
  AllTools = {t1, t2}
  Tools = {t1}
  SubmitFinalAnswer = SubmitFinalAnswer
  NoAnswer = NoAnswer
  MaxSteps = 3
  MaxTools = 2
  MaxEvidence = 2
  MaxBytes = 4
  MaxClaims = 3
  MaxPrimary = 2
  Overlap = 1
  MaxChunks = 3
  MaxPages = 2
  MaxChars = 5
  MaxRaw = 6
  s1 = s1
  s2 = s2
  p1 = p1
  p2 = p2
  SpaceIds = {s1, s2}
  Items = {p1, p2}
  Initial <- MCInitial
  MinPapers = 2
  MaxPapers = 2
  MaxUpdates = 1
  Nil = Nil
CHECK_DEADLOCK FALSE
INVARIANTS
  ChunksCoverText
  ReplyAuthorised
  WholeIndex
  EvidenceMatches
  StoredContextAccepted
  CitesWhatWasShown
  ResultFitsPage
  RemovedStaysGone
PROPERTIES
  CallEnds
