SPECIFICATION FairSpec
CONSTANTS
  SeqMod = 16
  MaxWindow = 4
  HeaderLen = 1
  MaxPayload = 1
  MaxReads = 2
  NetCap = 1
  ClientCap = 100
  DeviceIsn = 14
  RelayIsns = {15}
  MaxSent = 2
  MaxServed = 1
  Windows = {1}
  MaxUp = 2
  MaxDown = 2
  ServerEnds = FALSE
  Failures = FALSE
  Others = {}
  Overshoot = 0
  DeviceEnds = TRUE
  Byte <- MCByte
PROPERTIES
  UploadCompletes
  FinCloses
CHECK_DEADLOCK FALSE
