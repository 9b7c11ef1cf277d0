SPECIFICATION FairSpec
CONSTANTS
  c1 = c1
  c2 = c2
  Conns = {c1}
  NoConn = NoConn
  Sessions = {s1, s2}
  NoSession = NoSession
  Gone = Gone
  MaxEdits = 1
  MaxAttempts = 1
  Plays <- OneHeldUp
PROPERTIES
  EditsGetThrough
CHECK_DEADLOCK FALSE
