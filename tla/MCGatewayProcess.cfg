SPECIFICATION FairSpec
CONSTANTS
  Model <- MCModel
  MaxAttempts = 9
  Timeout = 300
  BaseBackoff = 2
  MaxBackoff = 20
  Lease = 3000
  PromptTokens = {1, 3, 60}
  Limits = {1, 3}
  Surplus = {0, 40}
  MaxAmount = 80
INVARIANTS
  TypeOK
  ReservationCoversBilling
  ChargeIsHonest
  LeaseCoversRoute
  ClientsOutliveCalls
PROPERTIES
  StopCompletes
CHECK_DEADLOCK FALSE
