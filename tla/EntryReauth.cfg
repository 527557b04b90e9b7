SPECIFICATION Spec
CONSTANTS
  Id <- MCId
  Exportable <- MCId
  Source <- MCSource
  OffMode = {h1, h2}
  Setting = {r1, r2}
  Settings = {r1, r2}
  Bounds <- ReauthBounds
  MaxRuntimes = 9
  Flow = {f1, f2}
  None = None
  a = a
  b = b
  h1 = h1
  h2 = h2
  r1 = r1
  r2 = r2
INVARIANT ReauthReconnects
CHECK_DEADLOCK FALSE
