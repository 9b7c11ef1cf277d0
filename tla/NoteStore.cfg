SPECIFICATION SpecApart
CONSTANTS
  NoteIds = {n1, n2}
  Paths = {a, b}
  Texts = {t, u}
  Files = {f}
  NoRow = NoRow
  NoFile = NoFile
  NoSynced = NoSynced
  NoPath = NoPath
  NoOp = NoOp
  NoChange = NoChange
  NoSpot = NoSpot
  Hands = {"typing", "undo"}
  MaxSeq = 4
SYMMETRY Symmetry
CONSTRAINT HandsWhileShort
INVARIANTS
  TypeOK
  NothingUnowed
  TombstoneOwesItsDelete
  HandShowsTheRow
PROPERTIES
  EngineKeepsUnsent
  NewerNameKept
CHECK_DEADLOCK FALSE
