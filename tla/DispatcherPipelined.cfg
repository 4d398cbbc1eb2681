SPECIFICATION FairSpec
CONSTANTS
  r1 = r1
  r2 = r2
  r3 = r3
  r4 = r4
  r5 = r5
  e1 = e1
  e2 = e2
  Garbled = Garbled
  None = None
  Requests = {r1, r2, r3, r4, r5}
  Endpoints = {e1}
  EndpointOf <- OneEndpoint
  Window = 5
  Faults = {"resolve", "connect", "write", "read"}
INVARIANTS
  TypeOK
  OneOwner
  StateMatchesOperations
  ConnectedMeansDrained
PROPERTIES
  OutcomeIsFinal
  NoOvertaking
  ConnectionsComeToRest
CHECK_DEADLOCK FALSE
