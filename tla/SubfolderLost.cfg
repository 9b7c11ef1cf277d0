SPECIFICATION Spec
CONSTANTS
  NoRow = NoRow
  NoFile = NoFile
  NoSynced = NoSynced
  NoPath = NoPath
  Gone = Gone
  NoteIds = {3, 4, 5, 6, 7, 8}
  Worlds <- IdsBetween
  Dirs = {1, 2}
  Notes = {3}
  MaxDepth = 2
  MaxSteps = 3
  MaxActs = 0
INVARIANT HoldsExactly
CHECK_DEADLOCK FALSE
