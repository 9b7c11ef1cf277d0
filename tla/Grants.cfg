SPECIFICATION Spec
CONSTANTS
  h1 = h1
  h2 = h2
  a1 = a1
  a2 = a2
  c1 = c1
  c2 = c2
  c3 = c3
  r1 = r1
  r2 = r2
  NoRow = NoRow
  Null = Null
  Hashes = {h1, h2}
  Accounts = {a1, a2}
  Ids = {c1, c2, c3}
  Requests = {r1, r2}
  Cap = 1
SYMMETRY Alike
INVARIANTS TypeOK RowsAreReached RevokedHearNothing
PROPERTY HashesAreClaimedOnce
