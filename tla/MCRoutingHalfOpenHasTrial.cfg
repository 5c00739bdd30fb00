CONSTANTS
  Tasks = {t1, t2}
  Registry <- MCRegistry
  Route <- OneCandidate
  Threshold = 1
  MaxAttempts = 1
SPECIFICATION Spec
INVARIANT
  HalfOpenHasTrial
CHECK_DEADLOCK FALSE
