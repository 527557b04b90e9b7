CONSTANTS
  Identity = {relay, button}
  NoIdentity = NoIdentity
  MaxUpdates = 2
  MaxOptions = 2
SPECIFICATION FairSpec
INVARIANT TypeOK
INVARIANT Settled
INVARIANT NoDuplicateEntity
INVARIANT NoScheduledWorkAfterUnload
PROPERTY ListenersReturn
CHECK_DEADLOCK FALSE
