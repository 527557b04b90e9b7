CONSTANTS
  c1 = c1
  c2 = c2
  n1 = n1
  i1 = i1
  s1 = s1
  y1 = y1
  y2 = y2
  w1 = w1
  boiler = boiler
  Object = {boiler}
  NoRequest = {c1, c2, n1, s1, y1, y2, w1}
  NoObject = NoObject
  Kind <- MCKind
  Target <- MCTarget
  Request = {c1, c2, n1, s1, y1, y2, w1}
  Delays = 1
  MaxSockets = 2
  Bounds <- SafeBounds
SPECIFICATION Spec
INVARIANT AnswersItsOwnRequest
INVARIANT ReadsFollowAcknowledgements
INVARIANT OneRegistered
INVARIANT NoOrphanedWaiter
INVARIANT NoLeakedSocket
INVARIANT ListenersKnow
INVARIANT OutageIsReported
PROPERTY ImplementsRequestQueue
CHECK_DEADLOCK FALSE
SYMMETRY Symmetry
