\* A request of one token each way, and one retry.
SPECIFICATION Spec
CONSTANTS
  Model <- MCModel
  MaxAttempts = 2
  Timeout = 300
  BaseBackoff = 2
  MaxBackoff = 20
  Lease = 3000
  PromptTokens = {1}
  Limits = {1}
  Surplus = {0}
  MaxAmount = 80
INVARIANTS
  ActualCostIsTotal
CHECK_DEADLOCK FALSE
