\* Four requests with IDs of their own; a window of 2 seconds of 2 ticks, rounded.
CONSTANTS
  Requests = {r1, r2, r3, r4}
  MemberOf <- OwnIds
  Limit = 2
  Window = 4
  Second = 2
  Grain = 2
  Horizon = 8
SPECIFICATION Spec
SYMMETRY MCSymmetry
INVARIANTS
  TypeOK
  TrueSlidingWindow
  RetryAfterSuffices
CHECK_DEADLOCK FALSE
