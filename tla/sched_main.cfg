SPECIFICATION Spec
CONSTANTS
  p1 = p1
  p2 = p2
  p3 = p3
  f1 = f1
  n1 = n1
  n2 = n2
  u1 = u1
  u2 = u2
  kA = kA
  kB = kB
  NoTask = NoTask
  Msg = {p1, p2, f1}
  Thread = {kA}
  ThreadOf <- MCThreadOf
  Class <- MCClass
  TargetOf <- MCTargetOf
  QueueLimit = 1
  MaxCrash = 1
SYMMETRY MCSymmetry
INVARIANT TypeOK
INVARIANT ExecutedOnce
INVARIANT SingleMainTurn
INVARIANT RunningIsOwned
INVARIANT UncertainRowPausesThread
INVARIANT QueuedMainIsHeld
PROPERTY RecoveryGoesFirst
PROPERTY PausedThreadStartsNoMain
 
PROPERTY LedgerSpec
PROPERTY ForceGoesNext
