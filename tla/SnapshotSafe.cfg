CONSTANTS
  o1 = o1
  o2 = o2
  NoObject = NoObject
  Object = {o1, o2}
  MaxChanges = 2
  Limits <- SafeLimits
SPECIFICATION FairSpec
INVARIANT TypeOK
INVARIANT SuccessMeansConnected
INVARIANT CatalogAccounted
INVARIANT MarksAreHonoured
PROPERTY ZoneTriggersAreRead
PROPERTY Converges
CHECK_DEADLOCK FALSE
