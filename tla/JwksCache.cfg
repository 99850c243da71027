CONSTANTS
  Kids = {k1, k2}
  Requests = {r1, r2}
  None = None
SPECIFICATION FairSpec
INVARIANT TypeOK
PROPERTIES KeysAgeOut UnknownOnlyIfRotated NobodyWaitsForEver
