SPECIFICATION FairSpec
CONSTANTS
  n1 = n1  n2 = n2
  w1 = w1  w2 = w2
  h1 = h1
  Notice = {n1, n2}
  Exempt = {n2}
  Worker = {w1, w2}
  Hook = {h1}
  MaxAttempts = 2
INVARIANTS NoSecondMail RecordIsTrue OptOutHonoured
PROPERTY NoticeSettles
CHECK_DEADLOCK FALSE
