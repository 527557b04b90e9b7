CONSTANTS
  Target = {t1}
  Temperature = {s1}
  Binary = {}
  MaxChanges = 2
  Limits <- LiveLimits
SPECIFICATION FairSpec
PROPERTY ValuesArrive
PROPERTY Recovers
CHECK_DEADLOCK FALSE
