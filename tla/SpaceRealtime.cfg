\* An owner with one socket and a user with two; a cookie of an earlier session
\* or none, and one or two logins; two messages and one reconnection.
SPECIFICATION Spec
CONSTANTS
  olga = olga
  ivan = ivan
  ko = ko
  ka = ka
  kb = kb
  Owner = olga
  Invitees = {ivan}
  Sockets = {ko, ka, kb}
  UserOf <- MCUserOf
  MaxRemovals = 1
  MaxSent = 1
  None = None
  Accounts = {u1, u2}
  Requests = {r1}
  MaxTokens = 2
  MaxMessages = 2
  MaxOpens = 2
  MaxWaiting = 2
SYMMETRY Alike
INVARIANTS
  NoStaleAccess
  ToldTheTruth
  SignedInAsCookie
  NoForeignData
  MissedOnlyBeforeListening
PROPERTIES
  NoFalseExpiry
