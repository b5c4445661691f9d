SPECIFICATION Spec
CONSTANTS
  MaxPresses = 2
  MaxTicks = 2
  MaxReplies = 2
  InUse <- MCInUse
CHECK_DEADLOCK FALSE
INVARIANTS
  TypeOK
  
  ScreensAreTrue
PROPERTIES
  TimersRunOn
