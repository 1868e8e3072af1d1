SPECIFICATION Spec
CONSTANTS
  r1 = r1  r2 = r2
  m1 = m1  m2 = m2
  e1 = e1
  t1 = t1  t2 = t2
  Rid = {r1, r2}
  Legacy = {r1}
  Member = {m1, m2}
  Equipment = {e1}
  Room = {}
  Window <- MCWindow
  Cooldown = 1
  Tx = {t1, t2}
  SqlTx = {}
  MaxRevision = 3
SYMMETRY MCSymmetry
INVARIANTS CheckedStaysFree EditSawTheBooking
CHECK_DEADLOCK FALSE
