SPECIFICATION FairSpec
CONSTANTS
  w1 = w1
  w2 = w2
  r1 = r1
  r2 = r2
  None = None
  Workers = {w1}
  Requests = {r1, r2}
  WorkerOf <- OneWorker
  Providers = {"local", "together_dedicated", "groq"}
  Kind <- MixedKind
  Configured = {"local", "together_dedicated", "groq"}
  Listed = {"local", "together_dedicated", "groq"}
  Rank <- MixedRank
  Override <- AskForGroq
  Disabled <- NoneDisabled
  FailThreshold = 1
  Reapers = {w1}
  Checkers = {}
  OperatorKills = FALSE
INVARIANTS SingleFlight
PROPERTIES IdlePodReaped AcquireReturns
