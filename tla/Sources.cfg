SPECIFICATION Spec
CONSTANTS
  NoRow = NoRow
  NoFile = NoFile
  NoSynced = NoSynced
  NoPath = NoPath
  Gone = Gone
  None = None
  NoteIds = {1, 2, 3, 4, 5, 6, 7, 8, 9, 10, 11}
  Ids = {1, 2, 3}
  AccountOf <- MCAccountOf
  Files <- MCFiles
  Pile <- MCPile
  Starts = {"unbound", "settled"}
  MaxActs = 1
  MaxHeld = 2
  MaxSpent = 4
  MaxBinds = 3
  MaxFar = 1
INVARIANTS NothingLost Silo OneRowPerFile Agrees
CHECK_DEADLOCK FALSE
