SPECIFICATION Spec
CONSTANTS
  t1 = t1
  Main = Main
  cursor = cursor
  claude = claude
  Task = {t1}
  Provider = {cursor, claude}
  Early = {cursor}
  Keep = 2
  MaxEpoch = 2
  MaxDone = 3
INVARIANT TypeOK
INVARIANT EpochsDoNotMix
INVARIANT CursorWithinIssued
INVARIANT ResetSticks
 
PROPERTY AckCoversPrompt
