SPECIFICATION FairTimerSpec
CONSTANTS
  W = 64
  Period = 20
  MaxPass = 8
INVARIANTS
  TimerTypeOK
  NeverEarly
  NeverMissed
PROPERTY
  FiresAgain
