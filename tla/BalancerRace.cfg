SPECIFICATION InProcessSpec
CONSTANTS
  t1 = t1
  t2 = t2
  t3 = t3
  Threads = {t1, t2}
  OutboundCount = 2
  MaxMessages = 6
INVARIANTS
  NeverAstray
CHECK_DEADLOCK FALSE
