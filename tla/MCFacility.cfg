SPECIFICATION MCSpec
SYMMETRY Symmetry
CONSTANTS
  a1 = a1  a2 = a2
  m1 = m1
  b1 = b1  b2 = b2
  t1 = t1  t2 = t2
  e1 = e1
  None = None
  Adult = {a1, a2}
  Minor = {m1}
  Building = {b1, b2}
  Tx = {t1, t2}
  MaxDay = 2
  Straddle = FALSE
  Email = {e1}
  PerAdult = 2
  PerPair = 1
  PerEmail = 2
  Month = 2
  MaxTries = 4
  s1 = s1  s2 = s2
  c1 = c1  c2 = c2
  h1 = h1
  p1 = p1
  Staff = {p1}
  Lease = 2
  Ends = 4
  MaxTime = 5
  Session = {s1, s2}
  Card = {c1, c2}
  Hash = {h1}
  MaxRev = 2
  MaxGeneration = 3
  MaxLease = 2
  Job = {t1, t2}
  MaxEdit = 2
  MaxCrashes = 1
  Overtaking = FALSE
  Ticks = 2
  MaxScan = 2
  MaxCounter = 3
  MaxTrouble = 1
  MaxGrant = 2
  Patience = 1
  Kept = 1
INVARIANTS VisitsSound AttemptsBounded PowerFollowsRights CardsServeOnce  LinkSound
PROPERTY RelayTimed
CHECK_DEADLOCK FALSE
