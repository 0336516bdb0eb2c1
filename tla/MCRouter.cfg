SPECIFICATION Spec
CONSTANTS
  TcpId = {t1, t2}
  UdpId = {u1}
  TTL = 2
  IdleTimeout = 1
  CleanPeriod = 2
SYMMETRY Symmetry
INVARIANTS
  NeverAbsorbsLive
  RemembersClosed
PROPERTIES
  NoEarlyReopen
CHECK_DEADLOCK FALSE
