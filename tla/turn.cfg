SPECIFICATION FairSpec
CONSTANTS
  p = p
  x = x
  y = y
  NoTurn = NoTurn
  Cmd = {p, x, y}
  Mixes <- MCMixes
  Transports = {"cli", "app-server"}
  MaxFaults = 1
INVARIANT TypeOK
 
INVARIANT InterruptIsAimed
INVARIANT SteeredOrQueued
PROPERTY StopEndsTurn
 
\* The conversation rests when no update is left.
CHECK_DEADLOCK FALSE
