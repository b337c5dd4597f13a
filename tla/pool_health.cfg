SPECIFICATION Spec
CONSTANTS
  w1 = w1
  w2 = w2
  r1 = r1
  r2 = r2
  None = None
  Workers = {w1, w2}
  Requests = {r1}
  WorkerOf <- Spread
  Providers = {"runpod"}
  Kind <- RunPodKind
  Configured = {"runpod"}
  Listed = {"runpod"}
  Rank <- RunPodRank
  Override <- NoOverride
  Disabled <- NoneDisabled
  FailThreshold = 2
  Reapers = {w1, w2}
  Checkers = {w1, w2}
  OperatorKills = TRUE
INVARIANTS ReapedOnce
PROPERTIES RetiredStaysRetired ImplementsLifecycle
