CONSTANTS
  w1 = w1
  w2 = w2
  rp = rp
  own = own
  vast = vast
  tog = tog
  loc = loc
  None = None
  Workers = {w1, w2}
  Pods = {rp, own, vast, tog, loc}
  WorkerOf <- MCWorkerOf
  Adapter <- MCAdapter
  OwnKey <- MCOwnKey
  Options = 2
  FailThreshold = 2
  Checkers = {w1, w2}
  MaxSpins = 1
  MaxStarts = 3
SPECIFICATION Spec
INVARIANTS TypeOK OrphanHasCause OneInstancePerRequest  CountsFailedProbes
CHECK_DEADLOCK FALSE
