SPECIFICATION Spec
CONSTANTS
  Id <- MCId
  Exportable <- MCId
  Source <- MCSource
  OffMode = {h1, h2}
  Setting = {r1, r2}
  Settings = {r1}
  Bounds <- SafeBounds
  MaxRuntimes = 9
  Flow = {f1, f2}
  None = None
  a = a
  b = b
  h1 = h1
  h2 = h2
  r1 = r1
  r2 = r2
INVARIANT TypeOK
INVARIANT OneRuntimeRuns
INVARIANT StoredTakesEffect
INVARIANT WishesHold
INVARIANT DuplicatesOnlyFromOverlappingTests
INVARIANT IssuesBelongToBindings
PROPERTY EverythingEnds
CHECK_DEADLOCK FALSE
