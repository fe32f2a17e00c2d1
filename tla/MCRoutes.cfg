SPECIFICATION Safe
CONSTANTS
  ClientID = {c1, c2}
  Owner = {o1}
  Filter = {f1}
  OversizedFilter = {}
  MaxPacketID = 1
  MaxInflight = 1
  MaxPendingMessages = 1
  MaxPendingBytes = 1
  MaxSubscriptions = 1
  OfflineTTL = 1
  Handler = {n1, n2}
  Nobody = Nobody
  Handle = {s1, s2}
  NoState = NoState
  MaxSessions = 2
  Wills = {FALSE}
  Cleans = {TRUE, FALSE}
  MaxTime = 2
SYMMETRY Symmetry
INVARIANTS ConnectedIffOwned RoutesMatchSessions SnapshotsLive
PROPERTIES ResumedInTime
