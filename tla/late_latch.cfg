SPECIFICATION Spec
CONSTANTS
  p = p
  x = x
  y = y
  NoTurn = NoTurn
  Cmd = {p, x}
  Mixes <- MCForce
  Transports = {"app-server"}
  MaxFaults = 0
INVARIANT LatchMeansThisTurn
\* The conversation rests when no update is left.
CHECK_DEADLOCK FALSE
