\* Two requests fall back from one provider to another, with retries.
CONSTANTS
  Tasks = {t1, t2}
  Registry <- MCRegistry
  Route <- ThreeCandidates
  Threshold = 2
  MaxAttempts = 2
SPECIFICATION FairSpec
INVARIANTS
  TypeOK
  ClosedBelowThreshold
  ReservationCoversCalls
  RecordsTellCalls
PROPERTIES
  RouteEnds
  TrialDecides
  BreakerFollowsVerdicts
  TrialsOnlyEscape
CHECK_DEADLOCK FALSE
