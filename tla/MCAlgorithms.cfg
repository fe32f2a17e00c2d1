SPECIFICATION MCSpec
CONSTANTS
  ID = {c1, c2}
  QoSLevel = {0, 1}
  Filter <- MCFilter
  Name <- MCName
  AllFilters <- MCAllFilters
  AllNames <- MCAllNames
  Packets <- MCPackets
  Followers <- MCFollowers
  DamagedBytes <- MCDamagedBytes
  MaxDamage = 2
  Limit = 35
  Outgoing <- MCOutgoing
  PacketIDs <- MCPacketIDs
  Lengths <- MCLengths
  Missing = Missing
SYMMETRY Symmetry
INVARIANTS TreeExact FiltersCorrect DecodeExact EncodeExact
