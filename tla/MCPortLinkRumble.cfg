SPECIFICATION FairSpec
CONSTANTS
  QueueLen = 1
  NumPorts = 2
  NumSlots = 2
  CounterMod = 2
  NoMsg = NoMsg
  NoPad = NoPad
  NoDevice = NoDevice
  NoPort = NoPort
  Devices <- MCDevices
  ReportingSlots <- MCNone
  RumblePorts <- MCFirstPort
INVARIANT
  RumbleAgrees
PROPERTY
  RumbleArrives
