SPECIFICATION MCSpec
CONSTANTS
  Conn = {c1, c2, c3}
  NoConn = NoConn
  MaxConnections = 2
  MaxHandshakes = 1
  Client = {k1, k2}
  Configs <- MCConfigs
  Requests <- MCRequests
  Filters <- MCFilters
  Names <- MCNames
  NoPolicy = NoPolicy
  Missing = Missing
  MaxSlots = 1
  MaxRefused = 1
INVARIANTS SlotsExact NoOrphan StartWaits ChecksAccounted SubscriptionsPermitted
PROPERTIES ServerStops VerdictTruthful HandshakeEnds
