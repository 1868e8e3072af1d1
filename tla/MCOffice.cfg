SPECIFICATION MCSpec
SYMMETRY Symmetry
CONSTANTS
  a = a  b = b  c = c
  User = {a, b, c}
  t1 = t1  t2 = t2
  Tx = {t1, t2}
  r1 = r1
  Request = {r1}
  MaxRevision = 1
  MaxTime = 3
  Validity = 2
  Revisions = 4
  Id = {1, 2, 3}
  d1 = d1  d2 = d2
  Date = {d1, d2}
  Horizon = 3
  Email = {1, 2}
  k1 = k1  k2 = k2  k3 = k3
  Token = {k1, k2, k3}
  v1 = v1  v2 = v2
  Revision = {v1, v2}
  First = v1
  MaxMoves = 3
  MaxCrashes = 2
  MaxEdits = 1
  None = None
  Cautious = TRUE
INVARIANTS RecordsStand  ReleasesSound
PROPERTIES StaffSound AgreementsMoveOn ReminderWasTrue
CHECK_DEADLOCK FALSE
