CONSTANTS
  Identity = {relay}
  NoIdentity = NoIdentity
  MaxUpdates = 3
  MaxOptions = 0
SPECIFICATION FairSpec
PROPERTY BecomesAligned
CHECK_DEADLOCK FALSE
