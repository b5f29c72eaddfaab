CONSTANTS
  t1 = t1
  t2 = t2
  a = a
  b = b
  Clients = {t1, t2}
  Colls = {a, b}
  Calls <- ExpandAndLoad
  ReadersQueue = FALSE
SPECIFICATION Spec
INVARIANT NoDeadlock
CHECK_DEADLOCK FALSE
