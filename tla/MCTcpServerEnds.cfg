SPECIFICATION SessionSpec
CONSTANTS
  SeqMod = 16
  MaxWindow = 4
  HeaderLen = 1
  MaxPayload = 2
  MaxReads = 2
  NetCap = 3
  ClientCap = 100
  DeviceIsn = 14
  RelayIsns = {15}
  MaxSent = 1
  MaxServed = 0
  Windows = {2}
  MaxUp = 2
  MaxDown = 2
  ServerEnds = TRUE
  Failures = FALSE
  Others = {}
  Overshoot = 0
  DeviceEnds = TRUE
  Byte <- MCByte
INVARIANTS
  RetransmissionIsOld
CHECK_DEADLOCK FALSE
