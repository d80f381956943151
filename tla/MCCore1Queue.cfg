SPECIFICATION Spec
CONSTANTS
  QueueLen = 3
  MaxStores = 5
  state1 = state1
  state2 = state2
  state3 = state3
  NoMsg = NoMsg
  RumbleMsgs <- MCRumbleMsgs
INVARIANTS
  TypeOK
  StoredIsKept
  KeptUpInOrder
  KeptUpDropsOnlyRepeats
