SPECIFICATION SteadySpec
CONSTANTS
  n1 = n1
  w1 = w1
  h1 = h1
  Notice = {n1}
  Exempt = {}
  Worker = {w1}
  Hook = {h1}
  MaxAttempts = 1
INVARIANT UnsubscribeApplied
CHECK_DEADLOCK FALSE
