CONSTANTS
  t1 = t1
  t2 = t2
  a = a
  b = b
  Clients = {t1, t2}
  Colls = {a, b}
  Calls <- OrderedCalls
  ReadersQueue = TRUE
SPECIFICATION FairSpec
INVARIANTS LockOrder NoDeadlock
PROPERTY CallsReturn
CHECK_DEADLOCK FALSE
