SPECIFICATION InboxSpec
CONSTANTS
  t1 = t1
  c1 = c1
  c2 = c2
  e1 = e1
  e2 = e2
  s1 = s1
  s2 = s2
  NoEvent = NoEvent
  NoSlot = NoSlot
  NoChat = NoChat
  Task = {t1}
  Event = {e1, e2}
  EventTask <- MCEventTask
  Slot = {s1, s2}
  Chat = {c1, c2}
  Lively = {}
  MaxCrash = 2
  TornWrites = TRUE
  Faulty = TRUE
  MaxClaims = 1
SYMMETRY MCSymmetry
INVARIANT InboxTypeOK
INVARIANT ShownOnce
INVARIANT ShownWherePromised
PROPERTY DeliverySpec
