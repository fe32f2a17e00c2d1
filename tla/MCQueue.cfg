SPECIFICATION Spec
CONSTANTS
  ClientID = {c1, c2}
  Owner = {o1}
  Filter = {}
  OversizedFilter = {}
  MaxPacketID = 3
  MaxInflight = 3
  MaxPendingMessages = 4
  MaxPendingBytes = 4
  MaxSubscriptions = 1
  OfflineTTL = 0
  Handle = {h1, h2}
  NoState = NoState
  Sizes = {1}
  MaxSessions = 1
  MaxSubscriptionsGlobal = 1
  MaxMessagesGlobal = 4
  MaxBytesGlobal = 4
  MaxAdmits = 4
  MaxEpoch = 3
  MaxTime = 0
  MaxRejections = 0
SYMMETRY Symmetry
INVARIANTS PacketIDAvailable QueuesConsistent WithinLimits
PROPERTIES NoLostWakeup MessagesKept
