CONSTANTS
  Tasks = {t1, t2, t3}
  Registry <- MCRegistry
  Route <- OneCandidate
  Threshold = 1
  MaxAttempts = 1
SPECIFICATION Spec
INVARIANT
  AtMostOneTrial
CHECK_DEADLOCK FALSE
