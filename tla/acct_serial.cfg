SPECIFICATION Spec
CONSTANTS
  r1 = r1
  r2 = r2
  r3 = r3
  r4 = r4
  o1 = o1
  k1 = k1
  None = None
  Requests = {r1, r2, r3, r4}
  Streamed = {}
  Local = {}
  Key <- RetryKeys
  Prompt <- OneToken
  Projections = {1, 2}
  Costs = {1, 2}
  Limit = 9
  DailyTokens = 3
  Budget = 4
  Thresholds <- TwoThresholds
  Prepaid = TRUE
  Deposit = 8
  Grain = 2
  CreditOps = {o1}
  CreditAmount = 4
  MaxInFlight = 1
  Mortal = {}
INVARIANTS DailyTokensHeld BudgetHeld PrepaidDecremented AlertNeverFailsRequest BillingIsComplete
PROPERTY ImplementsLedger
CHECK_DEADLOCK FALSE
