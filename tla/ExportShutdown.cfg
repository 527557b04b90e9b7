CONSTANTS
  Target = {t1}
  Temperature = {s1}
  Binary = {s2}
  MaxChanges = 0
  Limits <- EditLimits
SPECIFICATION Spec
PROPERTY ShutdownIsComplete
CHECK_DEADLOCK FALSE
