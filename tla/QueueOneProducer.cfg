SPECIFICATION FairQueueSpec
CONSTANTS
  m1 = m1
  m2 = m2
  m3 = m3
  m4 = m4
  m5 = m5
  p1 = p1
  p2 = p2
  None = None
  Messages = {m1, m2, m3, m4, m5}
  Producers = {p1}
  Size = 3
INVARIANTS
  QueueTypeOK
  NoSlotRace
PROPERTIES
  ImplementsFifo
  AcceptedIsDelivered
CHECK_DEADLOCK FALSE
