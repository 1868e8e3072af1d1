SPECIFICATION Spec
CONSTANTS
  a1 = a1
  m1 = m1
  b1 = b1
  t1 = t1  t2 = t2
  None = None
  Adult = {a1}
  Minor = {m1}
  Building = {b1}
  Tx = {t1, t2}
  MaxDay = 2
  Straddle = TRUE
PROPERTIES VisitsMoveForward
CHECK_DEADLOCK FALSE
