SPECIFICATION Spec
CONSTANTS
  ClientID = {c1}
  Owner = {o1}
  Filter = {}
  OversizedFilter = {}
  MaxPacketID = 2
  MaxInflight = 2
  MaxPendingMessages = 2
  MaxPendingBytes = 2
  MaxSubscriptions = 1
  OfflineTTL = 0
  QueueSize = 4
  MaxPackets = 6
  MaxConnections = 2
  MaxMessages = 3
  MaxQoS0 = 0
  MaxSubscribes = 1
PROPERTIES AllAcknowledged ImplementsAtLeastOnce
