SPECIFICATION Spec
CONSTANTS
  NumChannels = 1
  Frames <- MCCommands
  Pauses = TRUE
INVARIANTS
  TypeOK
  

  
  
