SPECIFICATION FairSpec
CONSTANTS
  t1 = t1
  r1 = r1
  c1 = c1
  e1 = e1
  s1 = s1
  s2 = s2
  NoEvent = NoEvent
  NoSlot = NoSlot
  NoChat = NoChat
  NoRecord = NoRecord
  Task = {t1}
  Event = {e1}
  EventTask <- MCEventTask
  Slot = {s1}
  Record = {r1}
  RecordTask <- MCRecordTask
  Chat = {c1}
  Lively = {c1}
  MaxCrash = 0
  TornWrites = FALSE
  Faulty = FALSE
  MaxClaims = 2
  MaxAttempts = 2
PROPERTY PromisedIsAnswered
