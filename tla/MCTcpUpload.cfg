SPECIFICATION SessionSpec
CONSTANTS
  SeqMod = 16
  MaxWindow = 4
  HeaderLen = 1
  MaxPayload = 2
  MaxReads = 2
  NetCap = 3
  ClientCap = 3
  DeviceIsn = 14
  RelayIsns = {15}
  MaxSent = 4
  MaxServed = 1
  Windows = {2}
  MaxUp = 2
  MaxDown = 2
  ServerEnds = FALSE
  Failures = FALSE
  Others = {2}
  Overshoot = 0
  DeviceEnds = TRUE
  Byte <- MCByte
INVARIANTS
  UploadIntact
  AckIsAccepted
  RetransmissionIsOld
  WindowIsHonest
  FinAfterData
CHECK_DEADLOCK FALSE
