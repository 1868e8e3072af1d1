SPECIFICATION MCSpec
CONSTANTS
  c1 = c1  c2 = c2
  f1 = f1  f2 = f2
  Call = {c1, c2}
  Family = {f1, f2}
  MaxToken = 3
  MaxSecret = 2
  MaxLink = 2
  SignIns = 2
  Renewals = 2
  MaxTrouble = 1
  Overlapping = FALSE
  None = None
  p1 = p1  p2 = p2
  Path = {p1, p2}
  MaxVersion = 2
  MaxRead = 3
  Denied = {1}
  d1 = d1  d2 = d2
  Scan = {d1, d2}
  MaxPage = 4
SYMMETRY MCSymmetry
INVARIANTS SignInsAreCurrent BlockedIsSignedOut FamiliesStand PasswordsKept PageSound
PROPERTY ChangedByLink
CHECK_DEADLOCK FALSE
