SPECIFICATION Spec
CONSTANTS
  a = a
  b = b
  c = c
  Macs <- MCMacs
  NumPorts = 2
  MAX_SLOTS = 2
  NumFiles = 1
  Named = Named
  Unnamed = Unnamed
  NoProfile = NoProfile
  NoMac = NoMac
SYMMETRY MCSymmetry
INVARIANTS
  TypeOK
  PortsAsDecided
  FileShowsPort
