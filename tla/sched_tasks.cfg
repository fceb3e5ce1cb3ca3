SPECIFICATION Spec
CONSTANTS
  p1 = p1
  p2 = p2
  p3 = p3
  f1 = f1
  n1 = n1
  n2 = n2
  u1 = u1
  u2 = u2
  kA = kA
  kB = kB
  NoTask = NoTask
  Msg = {n1, u1, p1}
  Thread = {kA}
  ThreadOf <- MCThreadOf
  Class <- MCClass
  TargetOf <- MCTargetOf
  QueueLimit = 1
  MaxCrash = 1
INVARIANT SingleWorkerPerTask
INVARIANT FollowupWaitsForInitial
INVARIANT RunningIsOwned
