SPECIFICATION Spec
CONSTANTS
  r1 = r1  r2 = r2
  m1 = m1  m2 = m2
  a1 = a1
  t1 = t1  t2 = t2
  Rid = {r1, r2}
  Legacy = {r1}
  Member = {m1, m2}
  Equipment = {}
  Room = {a1}
  Window <- MCWindowPair
  Cooldown = 1
  Tx = {t1, t2}
  SqlTx = {t2}
  MaxRevision = 2
SYMMETRY MCSymmetryMember
INVARIANT BookingsApart
PROPERTY NoNewExemptBlocker
CHECK_DEADLOCK FALSE
