CONSTANTS
  LoginLimit = 2
  LoginHits = 4
  AuthRequests = 3
  PageRequests = 2
  None = None
SPECIFICATION Spec
INVARIANTS
  TypeOK RestShowsTruth FlagsEndWithTheirCalls SecretsReachTheAdmin
  ReturnsToWhereItStarted WrongAttemptsBounded
PROPERTY TypedTermIsSearched
