CONSTANTS
  get = get
  post = post
  other = other
  e1 = e1
  e2 = e2
  Configs <- AllMethods
  Gets <- OnlyGet
  Unknown <- OnlyOther
  Responses = {conn1, conn2}
  MaxChunks = 2
  MaxRequests = 3
  None = None
  Endpoints = {e1, e2}
  EndpointOf <- TwoEndpoints
  Faults = {"resolve", "connect", "write", "read"}
  Garbled = Garbled
SPECIFICATION FairSpec
INVARIANTS TypeOK ForeignAnswerNeedsAbort ExcessAnswersAreOfLeavers AloneRepliesMatch EndsForCause
PROPERTIES RequestsConclude ImplementsService
CHECK_DEADLOCK FALSE
