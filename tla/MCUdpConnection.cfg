SPECIFICATION UdpSpec
CONSTANTS
  Capacity = 6
  HeaderLength = 1
  MaxLength = 2
  Length <- MCLength
  Payload = {a}
  MaxFeed = 5
  U16 = 84
  MaxPacketLength = 84
  MaxChunk = 3
  FirstPacket <- MCFirstPacket
  Request <- MCRequest
  Tcb <- MCTcb
  Data <- MCData
INVARIANTS
  EmptyMeansEmpty
  OldestFirst
  BlocksInBounds
  DeviceAccepts
  AsAsked
  AnswersMatch
CHECK_DEADLOCK FALSE
