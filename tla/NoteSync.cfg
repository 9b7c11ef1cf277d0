SPECIFICATION Spec
CONSTANTS
  Devices = {d1, d2}
  NoteIds = {1,2,3,4,5,6}
  Names = {1,2}
  Start = {1}
  Deaths = {"reset","upload"}
  MoveRenews = TRUE
  MaxActs = 2
  MaxFaults = 2
  MaxVersion = 3
  NoRow = NoRow
  NoFile = NoFile
  NoSynced = NoSynced
  NoPath = NoPath
  Gone = Gone
SYMMETRY Symmetry
INVARIANTS
  InStep
  NoEditLost
  QuietAgree
PROPERTY
  NoSecondRow
CHECK_DEADLOCK FALSE
