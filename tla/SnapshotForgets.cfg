CONSTANTS
  o1 = o1
  o2 = o2
  NoObject = NoObject
  Object = {o1}
  MaxChanges = 2
  Limits <- ForgetsLimits
SPECIFICATION FairSpec
PROPERTY Converges
CHECK_DEADLOCK FALSE
