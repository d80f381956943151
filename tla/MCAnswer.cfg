SPECIFICATION FairSpec
CONSTANT
  PollModes <- MCModes
INVARIANT
  TypeOK
PROPERTIES
  AnswersAreWhole
  SettledModeAnswered
  AnswersEnd
