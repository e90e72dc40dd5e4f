SPECIFICATION BoundedSpec
CONSTANTS
  t1 = t1
  t2 = t2
  t3 = t3
  h1 = h1
  h2 = h2
  h3 = h3
  Thread = {t1, t2, t3}
  Handle = {h1, h2, h3}
  Lendable = {h1, h2, h3}
  Dead = Dead
  Passed = Passed
  NoHandle = NoHandle
  MaxMessages = 6
SYMMETRY Symmetry
INVARIANTS
  WritersKnowAll
  ReadersKnowWrites
  StaleOneUnread
  SoleAccess
CHECK_DEADLOCK FALSE
