SPECIFICATION FairSpec
CONSTANTS
  QueueLen = 3
  MaxSends = 6
  connect = connect
  input1 = input1
  input2 = input2
  padA = padA
  padB = padB
  NoMsg = NoMsg
  NoPad = NoPad
  Msgs <- MCMsgs
  InputMsgs <- MCInputMsgs
  Pads <- MCPads
INVARIANTS
  TypeOK
  SlotLaps
  SlotContents
  DeliversWhatWasSent
PROPERTIES
  ImplementsMailbox
  EveryMessageSettles
CHECK_DEADLOCK FALSE
