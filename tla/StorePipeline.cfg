CONSTANTS
  IndexSize = 3
  Unsent = Unsent
  Pools = {"p"}
  Endpoints = {"e1", "e2"}
  Settings <- OfOneEndpoint
  SetKeys = {"w"}
  Names = {"a", "b"}
  Addresses = {"h"}
  Messages <- SomeMessages
  Whitelist <- TwoCombinations
  Blacklist <- OneCombination
  MaxEndpoints = 4
  MaxTypes = 1
SPECIFICATION Spec
INVARIANTS TypeOK RotationIsFair
PROPERTIES FiltersKeepTheirWord
CHECK_DEADLOCK FALSE
