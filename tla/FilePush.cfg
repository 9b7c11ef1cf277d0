SPECIFICATION FairSpec
CONSTANTS
  top = top
  a = a
  b = b
  MaxFiles = 3
  Folders = {top, a, b}
  Top = top
  MaxAttempts = 2
  MaxRemote = 5
  NoRow = NoRow
  NoFile = NoFile
  NoDir = NoDir
  Plays <- Some
INVARIANTS
  QuietAgree
  FolderGone
  KeepsItsName
PROPERTIES
  CopiesSurvive
  NothingOfOthersGoes
  OkMeansSent
  SentInTheEnd
CHECK_DEADLOCK FALSE
