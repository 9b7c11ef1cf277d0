SPECIFICATION FairSpec
CONSTANTS
  Notes = {n1, n2}
  MaxBirths = 2
  NoRow = NoRow
  NoFile = NoFile
INVARIANTS
  QuietAgree
PROPERTIES
  GoesOnlyIfDeleted
  SentForCause
  RunEnds
  CatchesUp
