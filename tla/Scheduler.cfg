SPECIFICATION Spec
CONSTANTS
  c1 = c1
  c2 = c2
  Conns = {c1, c2}
  NoConn = NoConn
  Sessions = {s1, s2}
  NoSession = NoSession
  Gone = Gone
  MaxEdits = 1
  MaxAttempts = 2
  Plays <- Several
INVARIANTS
  TypeOK
  PausedIsStill
  SomethingWillWakeIt
  RescanIsKept
PROPERTIES
  AttemptsAreSpaced
CHECK_DEADLOCK FALSE
