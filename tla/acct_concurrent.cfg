SPECIFICATION Spec
CONSTANTS
  r1 = r1
  r2 = r2
  r3 = r3
  r4 = r4
  o1 = o1
  k1 = k1
  None = None
  Requests = {r1, r2, r3}
  Streamed = {r3}
  Local = {r1}
  Key <- RetryKeys
  Prompt <- OneToken
  Projections = {1}
  Costs = {2}
  Limit = 2
  DailyTokens = 9
  Budget = 3
  Thresholds <- TwoThresholds
  Prepaid = TRUE
  Deposit = 1
  Grain = 1
  CreditOps = {o1}
  CreditAmount = 2
  MaxInFlight = 9
  Mortal = {r1}
INVARIANTS TypeOK RateHeld NoAlertMissed NeverOvercharged
PROPERTIES ChargedWithItsRow
CHECK_DEADLOCK FALSE
