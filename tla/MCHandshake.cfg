SPECIFICATION Safe
CONSTANTS
  ClientID = {c1}
  Owner = {o1}
  Filter = {}
  OversizedFilter = {}
  MaxPacketID = 2
  MaxInflight = 2
  MaxPendingMessages = 2
  MaxPendingBytes = 2
  MaxSubscriptions = 1
  OfflineTTL = 0
  QueueSize = 2
  MaxPackets = 7
  MaxConnections = 2
  MaxMessages = 2
  MaxQoS0 = 1
  MaxSubscribes = 2
INVARIANTS RepliesFirst
