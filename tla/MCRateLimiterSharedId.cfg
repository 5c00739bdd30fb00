\* Four requests of a client that sends one X-Request-ID with all of them.
CONSTANTS
  Requests = {r1, r2, r3, r4}
  MemberOf <- OneId
  Limit = 2
  Window = 4
  Second = 2
  Grain = 1
  Horizon = 4
SPECIFICATION Spec
INVARIANT
  TrueSlidingWindow
CHECK_DEADLOCK FALSE
