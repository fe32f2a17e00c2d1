SPECIFICATION Spec
CONSTANTS
  Client = {c1}
  Message = {m1, m2, m3}
  Topic = {t1, t2, t3}
  Filter = {f2}
  t1 = t1
  f1 = f1
  Accepts <- MCAccepts
  Size = {0, 1, 2}
  Length <- MCLength
  MaxMessages = 2
  MaxBytes = 5
  MaxRequests = 1
  None = None
SYMMETRY TopicSymmetry
CHECK_DEADLOCK FALSE
INVARIANTS
  RetainedBudget
  RejectedInvisible
