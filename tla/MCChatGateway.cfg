\* Three requests race for one key: ownership, replay, honesty of the answers.
CONSTANTS
  Requests = {r1, r2, r3}
  Keys = {k1}
  Hashes = {h1, h2}
  NumPeriods = 1
  Alloc <- MCAlloc
  MaxAttempts = 2
  Quotes = {2, 6}
  ActualCosts = {1, 2, 3}
  None = None
SPECIFICATION Spec
SYMMETRY MCSymmetry
INVARIANTS
  TypeOK
  MoneyConserved
  OwnerHoldsReservation
  SingleExecution
  SettledOnce
  ReplayFaithful
  HonestAnswers
  LeakOnlyByFault
PROPERTY
  ImplementsOnce
CHECK_DEADLOCK FALSE
