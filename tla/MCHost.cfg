SPECIFICATION HostSpec
CONSTANTS
  None = None
  Nothing = None
  Serial = {"4", "s", "kitkat"}
  Sdk <- MCSdk
  MAX_PENDING = 2
  Field = 2
  Hexa <- MCHexa
  BUFFER_SIZE = 12
  usb_only = TRUE
  OverTcp = {}
  ConnectTicks = 3
  Interfaces <- MCInterfaces
  Air <- MCAir
  Ours = {"gnirehtet-1", "gnirehtet-2"}
  BaseSsid = "gnirehtet-1"
  SsidOf <- MCSsidOf
  Unsettled = {"coming up"}
  Pids <- MCPids
  Plans <- MCPlans
  MaxThreads = 4
INVARIANTS
  ListsWhole
  NoProbeStorm
  UsersWifiKept
  NoHotspotLeft
  SsidReachable
  StoppedOnExit
PROPERTIES
  EveryDeviceStarted
CHECK_DEADLOCK FALSE
