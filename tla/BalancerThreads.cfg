SPECIFICATION InProcessSpec
CONSTANTS
  t1 = t1
  t2 = t2
  t3 = t3
  Threads = {t1, t2, t3}
  OutboundCount = 3
  MaxMessages = 8
INVARIANTS
  InProcessTypeOK
  SerialRotation
  OutOfRangeIsTransient
CHECK_DEADLOCK FALSE
