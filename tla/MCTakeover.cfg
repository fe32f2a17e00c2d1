SPECIFICATION Safe
CONSTANTS
  ClientID = {c1}
  Owner = {o1, o2}
  Filter = {}
  OversizedFilter = {}
  MaxPacketID = 1
  MaxInflight = 1
  MaxPendingMessages = 1
  MaxPendingBytes = 1
  MaxSubscriptions = 1
  OfflineTTL = 0
  Handler = {n1, n2, n3}
  Nobody = Nobody
  Handle = {s1, s2, s3}
  NoState = NoState
  MaxSessions = 1
  Wills = {TRUE}
  Cleans = {TRUE, FALSE}
  MaxTime = 0
SYMMETRY Symmetry
INVARIANTS OneConnection PausedWhileSubscribing WillOnce
PROPERTIES IdentityIsolated
