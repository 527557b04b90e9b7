CONSTANTS
  Target = {t1}
  Temperature = {s1}
  Binary = {s2}
  MaxChanges = 1
  Limits <- SafeLimits
SPECIFICATION Spec
INVARIANT TypeOK
INVARIANT WritesAreConfirmed
INVARIANT IssuesAreCurrent
CHECK_DEADLOCK FALSE
