SPECIFICATION Spec
CONSTANTS
  Client = {c1, c2}
  Message = {m1, m2}
  Topic = {t1}
  Filter = {f1}
  t1 = t1
  f1 = f1
  Accepts <- MCAccepts
  Size = {0, 1}
  Length <- MCLength
  MaxMessages = 2
  MaxBytes = 4
  MaxRequests = 2
  None = None
SYMMETRY Symmetry
CHECK_DEADLOCK FALSE
INVARIANTS
  NoLostUpdate
  RetainedReachesAll
  FanOutComplete
