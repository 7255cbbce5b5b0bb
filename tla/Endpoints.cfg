\* Each kind of page in turn, then the server with two sessions and one place
\* for a socket; no symmetry, as liveness is checked.
SPECIFICATION EndsSpec
CONSTANTS
  Forms = {f1, f2}
  NoValue = NoValue
  MaxIntents = 1
  MaxCalls = 3
  MaxRuns = 3
  Changes = 1
  NoReply = NoReply
  NotFound = NotFound
  MaxTaskRuns = 2
  Removals = 2
  NoItem = NoItem
  HomeSpace = HomeSpace
  OtherSpace = OtherSpace
  PageLimit = 3
  MaxEdits = 2
  None = None
  Sessions = {s1, s2}
  Sockets = {k1}
CHECK_DEADLOCK FALSE
INVARIANTS
  OnePerIntent
  PagesComplete
  WithinMembership
PROPERTIES
  EndIsShown
  RevokedPageLeft
  NoRevival
  ShutdownEnds
  DeadSocketDropped
