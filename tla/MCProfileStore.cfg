SPECIFICATION Spec
CONSTANTS
  MAX_SLOTS = 3
  MAX_FILES = 1
  NumPorts = 2
  a1 = a1
  a2 = a2
  b1 = b1
  b2 = b2
  Macs <- MCMacs
  Suffix <- MCSuffix
  Named = Named
  Unnamed = Unnamed
  NoMac = NoMac
  Erased = Erased
  NoCore = NoCore
  NoProfile = NoProfile
  Overlap = FALSE
SYMMETRY MCSymmetry
INVARIANTS TypeOK OneSlotEach KeptProfiles
PROPERTY ImplementsProfileMap
