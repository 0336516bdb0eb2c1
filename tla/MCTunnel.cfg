SPECIFICATION TunnelSpec
CONSTANTS
  Byte = {0, 1, 2, 3, 4, 6}
  Zero = 0
  Capacity = 6
  Packets <- MCPackets
  MaxPending = 3
  InCapacity = 8
  SinkCapacity = 8
  MaxChunk = 4
  MaxRead = 8
  MaxPackets = 3
INVARIANTS
  DownstreamIntact
  UpstreamIntact
  RoutedWhole
  SoundUntilTorn
CHECK_DEADLOCK FALSE
