SPECIFICATION Spec
CONSTANTS
  Caller = {consumer, handler}
  QueueSize = 2
  MaxPackets = 4
PROPERTIES SendTruthful NobodyWaits ImplementsOutbound
