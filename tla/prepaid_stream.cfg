SPECIFICATION Spec
CONSTANTS
  r1 = r1
  r2 = r2
  r3 = r3
  r4 = r4
  o1 = o1
  k1 = k1
  None = None
  Requests = {r1}
  Streamed = {r1}
  Local = {}
  Key <- NoKeys
  Prompt <- OneToken
  Projections = {1}
  Costs = {1}
  Limit = 9
  DailyTokens = 9
  Budget = 9
  Thresholds <- TwoThresholds
  Prepaid = TRUE
  Deposit = 9
  Grain = 1
  CreditOps = {}
  CreditAmount = 2
  MaxInFlight = 9
  Mortal = {}
INVARIANTS PrepaidDecremented
CHECK_DEADLOCK FALSE
