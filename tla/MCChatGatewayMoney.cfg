\* Two requests on two keys share the money of two budget periods.
CONSTANTS
  Requests = {r1, r2}
  Keys = {k1, k2}
  Hashes = {h1}
  NumPeriods = 2
  Alloc <- MCAlloc
  MaxAttempts = 1
  Quotes = {4}
  ActualCosts = {1}
  None = None
SPECIFICATION FairSpec
INVARIANT
  RefundAlwaysFits
PROPERTIES
  ImplementsLedger
  SettledIsFinal
  EveryRequestEnds
  EveryReservationResolves
CHECK_DEADLOCK FALSE
