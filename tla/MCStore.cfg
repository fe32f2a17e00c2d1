SPECIFICATION Spec
CONSTANTS
  ClientID = {c1, c2}
  Owner = {o1}
  Filter = {f1, big}
  OversizedFilter = {big}
  MaxPacketID = 2
  MaxInflight = 1
  MaxPendingMessages = 1
  MaxPendingBytes = 2
  MaxSubscriptions = 1
  OfflineTTL = 1
  Handle = {h1, h2}
  NoState = NoState
  Sizes = {1, 2, 3}
  MaxSessions = 2
  MaxSubscriptionsGlobal = 1
  MaxMessagesGlobal = 2
  MaxBytesGlobal = 3
  MaxAdmits = 2
  MaxEpoch = 1
  MaxTime = 1
  MaxRejections = 1
SYMMETRY Symmetry
INVARIANTS Accounting WithinLimits
PROPERTIES ExpiryStep
