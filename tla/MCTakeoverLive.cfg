SPECIFICATION Spec
CONSTANTS
  ClientID = {c1}
  Owner = {o1}
  Filter = {}
  OversizedFilter = {}
  MaxPacketID = 1
  MaxInflight = 1
  MaxPendingMessages = 1
  MaxPendingBytes = 1
  MaxSubscriptions = 1
  OfflineTTL = 0
  Handler = {n1, n2}
  Nobody = Nobody
  Handle = {s1, s2}
  NoState = NoState
  MaxSessions = 1
  Wills = {TRUE, FALSE}
  Cleans = {TRUE, FALSE}
  MaxTime = 0
PROPERTIES AcquireEnds
