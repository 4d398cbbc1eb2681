SPECIFICATION Spec
CONSTANTS
  CounterSize = 3
  Jwt <- MCJwt
  Configs <- MCConfigs
  Requests <- MCRequests
CHECK_DEADLOCK FALSE
INVARIANTS
  AugmentedAsWritten
  ParametersAsWritten
  OutputsTellTheToken
  ClaimsAreVerified
  StopsForCause
