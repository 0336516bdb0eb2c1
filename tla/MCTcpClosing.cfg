SPECIFICATION SessionSpec
CONSTANTS
  SeqMod = 16
  MaxWindow = 4
  HeaderLen = 1
  MaxPayload = 2
  MaxReads = 2
  NetCap = 1
  ClientCap = 4
  DeviceIsn = 14
  RelayIsns = {15}
  MaxSent = 2
  MaxServed = 4
  Windows = {0, 2}
  MaxUp = 2
  MaxDown = 2
  ServerEnds = TRUE
  Failures = TRUE
  Others = {}
  Overshoot = 1
  DeviceEnds = TRUE
  Byte <- MCByte
INVARIANTS
  DownloadIntact
  DeviceNeverOverrun
  NothingAfterReset
PROPERTIES
  NeverGoesBack
CHECK_DEADLOCK FALSE
