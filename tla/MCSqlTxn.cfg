SPECIFICATION FairSpec
CONSTANTS
  r1 = r1
  r2 = r2
  r3 = r3
  k1 = k1
  k2 = k2
  p1 = p1
  Requests = {r1, r2, r3}
  Keys = {k1, k2}
  KeyOf <- MCKeyOf
  Periods = {p1}
  Alloc <- MCAlloc
  Quotes = {0, 3}
  Costs = {1, 3}
  Threads = 2
INVARIANTS
  TypeOK
  NoWaitCycle
  LoserFindsRow
PROPERTIES
  ImplementsTransactions
  EveryTransactionEnds
CHECK_DEADLOCK FALSE
