SPECIFICATION Spec
CONSTANTS
  app = app
  user = user
  Absent = Absent
  Ids = {app, user}
  Kinds <- BothKinds
  Configured <- OneThrottler
  Commands <- SomeCommands
  WordSize = 64
  Start = 8
  MaxTime = 11
  MaxMessages = 3
  MaxQueue = 2
INVARIANTS
  TypeOK
  RateBound
  EnforcerFollowsBuilder
PROPERTY
  LogIsWindow
CHECK_DEADLOCK FALSE
