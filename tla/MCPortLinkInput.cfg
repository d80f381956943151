SPECIFICATION Spec
CONSTANTS
  QueueLen = 2
  NumPorts = 2
  NumSlots = 1
  CounterMod = 3
  NoMsg = NoMsg
  NoPad = NoPad
  NoDevice = NoDevice
  NoPort = NoPort
  Devices <- MCDevices
  ReportingSlots <- MCAllSlots
  RumblePorts <- MCNone
INVARIANTS
  AnswersAreFresh
  AnswersAreOwn
  
PROPERTY
  ReportsAreAccepted
