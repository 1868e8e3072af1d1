SPECIFICATION Spec
CONSTANTS
  d1 = d1  d2 = d2
  c1 = c1  c2 = c2
  x1 = x1
  r1 = r1  r2 = r2
  Delivery = {d1, d2}
  Caller = {c1}
  Canceller = {x1}
  Refund = {r1}
  Dashboard = "any"
INVARIANTS RefundedGrantsNothing
