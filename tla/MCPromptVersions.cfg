\* Three operators work on two versions of a prompt.
CONSTANTS
  Operators = {o1, o2, o3}
  NumVersions = 2
  Horizon = 4
SPECIFICATION Spec
SYMMETRY MCSymmetry
INVARIANTS
  TypeOK
  NumbersDense
  TimestampsOrdered
PROPERTY
  LifecycleForward
CHECK_DEADLOCK FALSE
