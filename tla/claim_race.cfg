SPECIFICATION Spec
CONSTANTS
  w1 = w1
  w2 = w2
  r1 = r1
  r2 = r2
  None = None
  Workers = {w1, w2}
  Requests = {r1, r2}
  WorkerOf <- Spread
  Providers = {"runpod"}
  Kind <- RunPodKind
  Configured = {"runpod"}
  Listed = {"runpod"}
  Rank <- RunPodRank
  Override <- NoOverride
  Disabled <- NoneDisabled
  FailThreshold = 1
  Reapers = {}
  Checkers = {}
  OperatorKills = FALSE
INVARIANTS ClaimIsCrossProcess
