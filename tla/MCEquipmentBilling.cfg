SPECIFICATION FairSpec
CONSTANTS
  c1 = c1  c2 = c2
  o1 = o1
  x1 = x1
  Caller = {c1, c2}
  Observer = {o1}
  Canceller = {x1}
INVARIANTS ReleasedIsUnpayable RowsAgree
PROPERTIES HoldSpec SessionSettles ChargeBooks
