SPECIFICATION Spec
CONSTANTS
  s1 = s1
  s2 = s2
  d1 = d1
  Free = Free
  Session = {s1, s2}
  Download = {d1}
  Option = {TRUE}
  MaxCrashes = 0
INVARIANTS
  SilentSucceeds
CHECK_DEADLOCK FALSE
