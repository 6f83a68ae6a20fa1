SPECIFICATION Spec
CONSTANTS
  Schedule = {s1}
  CronPeriod = 1
  Dates = {1, 2, 3}
  Limits = {0}
  n2 = n2
  Replica = {n1}
  Behind <- MCBehind
  MaxTime = 3
INVARIANTS NoBackfill
