\* Two searches and two requests for a summary at a time; no symmetry, as
\* liveness is checked.
SPECIFICATION Spec
CONSTANTS
  None = None
  p1 = p1
  p2 = p2
  q1 = q1
  q2 = q2
  a1 = a1
  a2 = a2
  Papers = {p1, p2}
  Queries = {q1, q2}
  Searches = {r1, r2}
  Readers = {a1, a2}
  Versions <- MCVersions
  Order <- MCOrder
  PaperOf <- MCPaperOf
  MaxAttempts = 2
  MaxEntries = 1
INVARIANTS
  AnswerNotOlder
PROPERTIES
  SearchesEnd
