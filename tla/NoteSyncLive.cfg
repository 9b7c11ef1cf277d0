SPECIFICATION FairSpec
CONSTANTS
  Devices = {d1, d2}
  NoteIds = {1,2,3,4,5}
  Names = {1}
  Start = {1}
  Deaths = {"reset"}
  MoveRenews = TRUE
  MaxActs = 2
  MaxFaults = 1
  MaxVersion = 3
  NoRow = NoRow
  NoFile = NoFile
  NoSynced = NoSynced
  NoPath = NoPath
  Gone = Gone
CHECK_DEADLOCK FALSE
PROPERTY Settles
