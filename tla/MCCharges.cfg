SPECIFICATION MCSpec
CONSTANTS
  d1 = d1
  c1 = c1
  s1 = s1
  x1 = x1  x2 = x2
  Delivery = {d1}
  Caller = {c1}
  Canceller = {x1, x2}
  Staffer = {s1}
  MaxMonth = 2
  RefundMonth = {1}
  DeskMonth = {1}
  r1 = r1  r2 = r2
  Rental = {r1, r2}
  Card = {r1}
  q1 = q1  q2 = q2
  Call = {q1, q2}
  m1 = m1  m2 = m2
  Member = {m1, m2}
  k1 = k1  k2 = k2
  Class = {k1, k2}
  t1 = t1  t2 = t2
  Tx = {t1, t2}
  Capacity = 1
  b1 = b1  b2 = b2
  Bills = {b1, b2}
  e1 = e1  e2 = e2
  Slot = {e1, e2}
  None = None
  MaxKey = 2
  MaxCalls = 3
INVARIANTS MembershipsPaid BillingAgrees  SeatsAndFees
PROPERTY DateStands
CHECK_DEADLOCK FALSE
