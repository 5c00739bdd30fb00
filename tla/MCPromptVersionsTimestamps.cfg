\* Two operators approve the same draft.
CONSTANTS
  Operators = {o1, o2}
  NumVersions = 1
  Horizon = 4
SPECIFICATION Spec
PROPERTY
  TimestampsFollowTransitions
CHECK_DEADLOCK FALSE
