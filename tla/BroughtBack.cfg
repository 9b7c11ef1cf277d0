SPECIFICATION Spec
CONSTANTS
  NoteIds = {n1}
  Paths = {a}
  Texts = {t}
  Files = {f}
  NoRow = NoRow
  NoFile = NoFile
  NoSynced = NoSynced
  NoPath = NoPath
  NoOp = NoOp
  NoChange = NoChange
  NoSpot = NoSpot
  Hands = {"typing", "undo"}
  MaxSeq = 4
SYMMETRY Symmetry
INVARIANTS
  NothingUnowed
CHECK_DEADLOCK FALSE
