CONSTANTS
  Repos = {r1, r2}
  Tasks = {t1, t2}
  TTL = 2
  Page = 2
  MinReviewed = 1
  MinTotal = 2
  Fleet = 2
  MaxPrs = 2
  MaxDeeds = 2
  MaxTime = 2
SYMMETRY Symmetry
SPECIFICATION Spec
INVARIANTS KnowsTheWeekBefore JudgedForItself
CHECK_DEADLOCK FALSE
